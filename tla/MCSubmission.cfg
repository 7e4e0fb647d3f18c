SPECIFICATION FairSpec
CONSTANTS
    Senders = {s1, s2}
    Contents <- MCContents
    NoBytes = NoBytes
    NoId = NoId
    SizeOf <- MCSizeOf
    Manifests = {m1}
    NoManifest = NoManifest
    Limit = 2
    DoorLimit = 1
    PageSize = 1
INVARIANTS
    StoredAsEncoded
    SameEventSameId
    AcceptedIsStored
    RefusedIsNotStored
    NothingSkipped
PROPERTIES
    EverySubmissionSettles
