SPECIFICATION Spec
CONSTANTS
    global = global
    mine = mine
    w1 = w1
    NoWindow = NoWindow
    Stay = Stay
    Roots <- MCRoots
    Base <- MCBase
    Keys = {"x", "y"}
    Seqs <- MCSeqs
    Windows = {w1}
    Conditions = {"tagged", "mode"}
    MaxCalls = 2
INVARIANTS
    TypeOK
    AttachedFollows
    PrefixIsLeft
