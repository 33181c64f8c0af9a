CONSTANTS
    Email = {e1, e2}
    Subject = {s1, s2}
    Identity = {i1, i2, i3, i4}
    Request = {r1, r2}
    None = None
    Password = Password
SPECIFICATION Spec
SYMMETRY Symmetry
INVARIANTS
    TypeOK
    NothingBeforeProof
    OneAccountPerSubject
    LockedOutOnlyByOverlap
