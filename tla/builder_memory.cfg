SPECIFICATION MemorySpec
CONSTANTS
  InitialSize = 3
  BufferMinAlign = 2
  Undefined = Undefined
  Byte = {0, 1}
  Contents <- Pushed
  MaxBytes = 4
  Builders = {b1, b2}
  MessageBuilders = {m1, m2}
  Temporary = temp
  Allocators = {a1}
  Blocks = {p1, p2}
  Holders = {x1, x2}
  Objects = {o1, o2}
  Unwritten = Unwritten
  Nullptr = Nullptr
  FirstRoom = 1
  MaxSize = 2
  MaxAlive = 2
SYMMETRY Symmetry
INVARIANTS OwnedOnce ReleasedKept
PROPERTIES IsTwoStacks
