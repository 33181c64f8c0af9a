CONSTANTS
    Token = {t1, t2, t3}
    Family = {f1, f2}
    User = {u1}
    Request = {r1, r2}
    None = None
SPECIFICATION Spec
SYMMETRY Symmetry
INVARIANTS
    TypeOK
    ChainIsLinear
    NoFalseRevocation
    ReuseIsNeverMissed
    DeadUnlessRaced
PROPERTY ImplementsTokenChain
