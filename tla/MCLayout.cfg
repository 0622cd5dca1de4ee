CONSTANTS
    Windows = {w1, w2}
    Spaces = {s1, s2}
    Specs <- MCSpecs
    None = None
    MaxGen = 2
    MaxDepth = 2
SYMMETRY Symmetry
SPECIFICATION Spec
INVARIANTS TypeOK TargetsAreTheWindows FailedPassIsGrid
PROPERTIES OwnWindowsOnly RetiredPlacesInFlight
