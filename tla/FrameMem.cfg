\* Room for one image and a part of another, or for both.
CONSTANTS
  FrameCount = 13
  Spaces = {a, b}
  PathOf <- Paths
  Plans <- AllImages
  HeapSizes = {1, 3, 5}
  Slots = 2
  StackPages = 1
  a = a
  b = b
SPECIFICATION Spec
SYMMETRY Loads
CHECK_DEADLOCK FALSE
INVARIANTS
  FrameHasOneOwner
  MappedFramesOwned
  NoForeignBytes
  KernelHalfComplete
  StacksAccounted
  OnlyFailedMapsLose
