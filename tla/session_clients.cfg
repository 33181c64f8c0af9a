CONSTANTS
    Token = {t1, t2, t3}
    Family = {f1}
    User = {u1}
    Request = {r1, r2}
    Client = {c1}
    None = None
SPECIFICATION ClientSpec
SYMMETRY Symmetry
VIEW View
INVARIANTS
    ClientTypeOK
    PatientClientStaysIn
    OneTransportPerChain
    LeavesWithNothing
