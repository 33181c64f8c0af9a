CONSTANTS
    Email = {e1}
    Subject = {s1, s2}
    Identity = {i1, i2}
    Request = {r1, r2}
    None = None
    Password = Password
SPECIFICATION Spec
INVARIANT LastMethodKept
