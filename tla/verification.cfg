CONSTANTS
    User = {u1}
    Link = {l1, l2}
    Request = {r1, r2}
    None = None
SPECIFICATION FairSpec
INVARIANTS
    TypeOK
    OlderLinksRetired
PROPERTIES
    ImplementsAccounts
    EventuallyVerified
