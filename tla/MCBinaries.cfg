SPECIFICATION FairSpec
CONSTANTS
    Groups = {a, b}
    Versions = {v1, v2, v3}
    CacheKeepVersions = 2
    NoGroup = NoGroup
    NoVersion = NoVersion
INVARIANTS
    TypeOK
    ServedWhole
PROPERTIES
    FreshKept
    StartSettles
