SPECIFICATION Spec
CONSTANTS
    MaxPos = 5
INVARIANTS
    BothNormalised
    IntersectionIsExact
    TotalIsExact
PROPERTIES
    ImplementsSets
