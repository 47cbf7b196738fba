SPECIFICATION Spec
CONSTANTS
    o1 = o1
    g1 = g1
    p1 = p1
    p2 = p2
    None = None
    Objects <- OneObject
    Groups <- OneGroup
    Places <- TwoPlaces
    DefaultLimit = 2
    Limits <- OneOrTwo
    MaxRevision = 8
INVARIANTS
  HistoryInv
  LayoutFollowsDesign
PROPERTIES
  PositionsAreRestored
  StackSpec
SYMMETRY PlacesAlike
