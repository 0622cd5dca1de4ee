CONSTANTS
    Order <- MCOrder
    Colored = {"ekeys", "mark"}
    HookSets <- MCHookSets
SPECIFICATION Spec
INVARIANT LastWins
