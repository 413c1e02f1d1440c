SPECIFICATION Spec
CONSTANTS
    Users = {u1, u2}
    PairBound = 3
    Requests = {r1, r2}
    OpBound = 2
    NoUser = nobody
    Tabs = {t1, t2}
    Calls = {c1}
SYMMETRY BothSides
CONSTRAINT Undisturbed
CHECK_DEADLOCK FALSE
INVARIANTS
    PrivateDataIsOwn
    StoredIsUsable
    SessionSurvivesReload
PROPERTIES
    SignedOutStays
    OnlySpentCookiesAreDeleted
