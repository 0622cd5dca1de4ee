SPECIFICATION Spec
CONSTANTS
    n1 = n1
    n2 = n2
    Anon = Anon
    MaxCalls = 3
    Names <- MCNames
    Specs <- MCSpecs
INVARIANTS
    TypeOK
    HandlesAndNamesAreLive
    ItemsStayHome
SYMMETRY NameSymmetry
