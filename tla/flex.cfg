CONSTANTS
  ByteValues = 8
  MaxDepth = 3
  Menus <- AllMenus
  MaxPuts = 4
  MaxBuffers = 2
  MaxMutations = 1
SPECIFICATION Spec
INVARIANTS ReadBack KeysFound FinishedVerifies SharedOnce
PROPERTIES MutationLocal
CHECK_DEADLOCK FALSE
