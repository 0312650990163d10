SPECIFICATION FairSpec
CONSTANTS
    Runners = {r1, r2}
CONSTRAINT OneCgroup
INVARIANTS
    TypeOK
PROPERTIES
    LiveSpared
    StaleRetried
