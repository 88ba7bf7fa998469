CONSTANTS
    b1 = b1
    b2 = b2
    c1 = c1
    l1 = l1
    l2 = l2
    none = none
    Browsers = {b1, b2}
    Comets = {c1}
    Loops = {l1, l2}
    Inputs <- Typed
    Fold <- Collation
    Authorized = {"b@x"}
    None = none
    MaxActs <- Acts
    MaxCrashes = 1
SPECIFICATION FairSpec
INVARIANTS
    TypeOK
    RegisteredIsMine
    InUseIsTrue
    SessionHasAccount
    ShownIsMine
PROPERTY
    PageSettles
CHECK_DEADLOCK FALSE
