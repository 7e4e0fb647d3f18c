SPECIFICATION FairSpec
CONSTANTS
    Threads = {t1, t2}
    Kids = {k1, k2}
    Unusable = {k2}
    Cooldown = 2
INVARIANTS
    TypeOK
    CacheIsThere
    RotationIsSeen
PROPERTIES
    WithdrawnKeysGo
    StaleCacheRecovers
CHECK_DEADLOCK FALSE
