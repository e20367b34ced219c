SPECIFICATION Spec
CONSTANTS
  N = 4
  Sizes = {1, 2, 3, 5}
  MaxSent = 8
INVARIANTS
  CopiesInBounds
  DisjointCopies
PROPERTIES
  ReadsInOrder
  KeepsStream
