CONSTANTS
  WIND_COUNT = 3
  AVERAGE_COUNT = 2
  Order <- FourPaths
SPECIFICATION Spec
INVARIANT StatusTellsValidity
