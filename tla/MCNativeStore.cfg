SPECIFICATION Spec
CONSTANTS
    Key = {a, b}
    Zero = Zero
    LocalRelations = 2
    CentralRelations = 1
    MaxRelations <- RelationBounds
    MaxCrashes = 2
    MaxTruncations = 1
INVARIANTS
    NewestFirst
    BackLinks
    CommittedEdgesStay
    HalfLinkedEdgesNeedACrash
    IndexFindsUndamaged
PROPERTIES
    ListsGrowAtTheHead
SYMMETRY KeysAlike
