CONSTANTS
    Token = {t1, t2, t3}
    Family = {f1}
    User = {u1}
    Request = {r1, r2}
    None = None
SPECIFICATION Spec
INVARIANT RevokedChainStaysDead
