CONSTANTS
    Order <- MCOrder
    Colored = {"ekeys", "mark"}
    HookSets <- MCHookSets
SPECIFICATION Spec
INVARIANTS TypeOK FlagsAreFollowed EvictionDecides
