SPECIFICATION FairSpec
CONSTANTS
    None = None
    Ids = {r1, r2}
    Period = 2
    Budgets <- MCBudgets
    Default = 2
    MaxDepth = 2
INVARIANTS
    TypeOK
    WatchNested
PROPERTY
    InnermostEnds
