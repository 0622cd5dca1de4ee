SPECIFICATION DetectorFairSpec
CONSTANTS
    Limit = 1
    MaxTime = 7
    Nesting = 2
INVARIANTS
    DetectorTypeOK
PROPERTY
    HangsReportedOnce
