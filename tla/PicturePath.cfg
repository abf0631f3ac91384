SPECIFICATION Spec
CONSTANTS
  SizeMax = 7
  MaxDim = 3
  MaxSample = 3
  Blocks = {b1, b2, b3}
  Null = Null
  Garbage = Garbage
INVARIANTS
  TypeOK
  InBounds
  BlocksOwnedOnce
PROPERTIES
  ComparesWholePictures
