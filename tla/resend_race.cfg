CONSTANTS
    User = {u1}
    Link = {l1, l2}
    Request = {r1, r2}
    None = None
SPECIFICATION Spec
SYMMETRY Symmetry
INVARIANT OnlyNewestWorks
