CONSTANTS
    u1 = u1  u2 = u2  c1 = c1  c2 = c2  f1 = f1  f2 = f2  q1 = q1  sn = sn
    r1 = r1  r2 = r2  r3 = r3  r4 = r4  r5 = r5
    owns = owns  chief = chief  manages = manages  unknown = unknown
    None = None
    Credentials = {c1, c2}
    Users = {u1, u2}
    Facts = {owns, chief, manages, unknown}
    KnownFacts = {owns, chief, manages}
    OwnerFacts = {owns, chief}
    Deptless = {chief}
    Actors <- MCActors
    Fetches = {f1, f2}
    Requests = {q1}
    Snapshot = sn
    User = u1
    UserCredential = c1
    OwnerCredential = c2
    Life = 2
    Threshold = 1
    AbsoluteExpiry = TRUE
    MaxExchanges = 4
    MaxClock = 2
    MaxRetries = 1
    MaxRequests = 5
    Budgeted = {f1, f2}
    PageSize = 1
    PageSizeCeiling = 2
    MaxPages = 2
    MaxRows = 3
    Rows = {r1, r2, r3, r4, r5}
    Loads <- MCLoads
SPECIFICATION Spec
INVARIANTS SendsUnderBoundScope SnapshotSentByOwner CompleteIsSnapshot
PROPERTY FetchesEnd
