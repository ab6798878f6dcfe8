SPECIFICATION ReadErrorSpec
CONSTANTS
  Blocks = {b1, b2, b3}
  Values = {0, 1}
  Zero = 0
  block_count = 2
  MaxPins = 1
  MaxRefs = 2
INVARIANTS
  SlotsOnOneList
