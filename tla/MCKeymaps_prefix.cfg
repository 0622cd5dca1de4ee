SPECIFICATION Spec
CONSTANTS
    global = global
    mine = mine
    w1 = w1
    NoWindow = NoWindow
    Stay = Stay
    Roots <- MCRoots
    Base <- MCTwoBase
    Keys = {"x", "y"}
    Seqs <- MCSeqs
    Windows = {w1}
    Conditions = {"tagged", "mode"}
    MaxCalls = 2
INVARIANT
    DisarmedIsSilent
