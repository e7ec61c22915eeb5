SPECIFICATION Spec
CONSTANTS
  Value = {"u", "v"}
  TypeSizes <- MCTypeSizes
  Counts <- MCCounts
  MaxCount = 4
  MaxLost = 24
  SizeMax = 15
INVARIANT TypeOK
INVARIANT InBounds
INVARIANT MemoryIsQuadratic
INVARIANT ElementsAreWhole
PROPERTY ImplementsTheSequence
