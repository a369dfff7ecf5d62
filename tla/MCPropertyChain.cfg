SPECIFICATION Spec
CONSTANTS
    v1 = v1
    v2 = v2
    Owners <- MCOwners
    Values <- MCValues
    NNames = 3
    MaxLinks = 4
SYMMETRY MCSymmetry
CONSTRAINT OneValue
INVARIANTS
    ChainsSound
    PropertiesStay
    LastWriteWins
