CONSTANTS
  Keys = {k1, k2, k3, k4}
  Values = {v1, v2}
  Capacity = 3
  NoKey = NoKey
  DefaultValue = v0
  MaxUses = 3
  Elements = {v1, v2}
  MaxNodes = 4
SYMMETRY Symmetry
SPECIFICATION AllSpec
INVARIANTS
  ShapesHold
PROPERTIES
  BagsAreSorted
  CachesFollowTheirPolicy
  ListIsASequence
