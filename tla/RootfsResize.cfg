SPECIFICATION ResizeSpec
CONSTANTS
  Image = 2
  Media = {2, 3, 4}
  MaxTrouble = 3
INVARIANTS IInv
PROPERTIES EventuallyGrown
