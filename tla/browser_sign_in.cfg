CONSTANTS
    Email = {e1}
    Subject = {s1, s2}
    Identity = {i1}
    Request = {r1, r2}
    None = None
    Password = Password
    State = {x1, x2}
    Provider = {p1, p2}
    ProviderOf <- TwoProviders
    Audience = {here, elsewhere}
    AllowedAudience = {here}
SPECIFICATION BrowserSpec
SYMMETRY Symmetry
INVARIANTS
    BrowserTypeOK
    OneCallbackPerStart
    FinishedByWhoAgreed
    ConsentFirst
    AttemptLasts
