SPECIFICATION Spec
CONSTANTS
    Keys = {k1}
    PersonIssuer = "people"
    Workloads = {"build"}
    AudienceOf <- MCAudienceOf
    Jwks <- MCJwks
    NoJwk = NoJwk
    Admins = {"ann"}
    RoleMap <- MCRoleMap
    Tokens <- MCTokens
    Uids = {"daemon", "other"}
    OwnerUid = "daemon"
    Subjects <- MCSubjects
    RolesGiven = {"agent", "admin"}
    Never = Never
    Expiries = {3}
    Second = 2
    Leeway = 1
    MaxEvents = 3
    MaxTime = 3
    MaxRows = 3
    MaxPages = 2
    Timeout = 4
    Interval = 3
    CallTime = 1
    Loggers = {app}
    Instruments = {calls}
    Errors = {"ValueError"}
    MaxSpans = 2
    MaxHandlers = 2
    Names <- MCNames
    KeyOf <- MCKeyOf
    Sizes = {0, 1, 2, 5}
    MaxArchive = 4
    MaxEntries = 3
    MaxMember = 2
    MaxTotal = 3
    Runs = {p, q}
    Old = Old
    Absent = Absent
    Empty = Empty
    Garbled = Garbled
    Manifests = {"m1", "m2"}
    LimitOf <- MCLimitOf
    RequiredOf <- MCRequiredOf
    NoManifest = "none"
    Texts = {"x", "y", "bad"}
    Undecodable = "bad"
    MaxBody = 3
    MaxFiles = 2
    Tree = {sdk, examples, licence}
    Source = {sdk, examples}
    Examples = {examples}
    Unread = Unread
    MaxEdits = 1
    MaxLedger = 2
    HitLimit = 1
    Optional = {"dg.ingest_bundle"}
    Values <- MCValues
    Depth <- MCDepth
    Documents <- MCDocuments
    MAX_SAFE_INTEGER = 11
INVARIANTS
    TypeOK
    CallerIsOwn
    ListingIsWhole
    ReachedIsReported
    CallersOutcome
    NothingLeftBehind
    ExpansionIsBounded
    HandleIsKept
    ExitIsTrue
    EvidenceIsOfWhole
    PassedIsEarned
    SnapshotIsHonest
    VerbsFitClient
    RefusalWasAnswered
    OneTextEach
CHECK_DEADLOCK FALSE
