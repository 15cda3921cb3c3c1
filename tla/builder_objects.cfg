CONSTANTS
  InitialSize = 8
  BufferMinAlign = 8
  Undefined = Undefined
  ForceDefaults = FALSE
  DedupVtables = TRUE
  Schema <- VectorSchemas
  UnionTypes <- Unions
  Envelope = "MessageEnvelope"
  Message = "Message"
  Types <- PropertyTypes
  Texts <- OneText
  Vectors <- OneDouble
  Structs <- NoStructs
  Numbers = {0, 2}
  Ids = {0}
  EffectIds = {0}
  Widths <- VectorWidths
  Whole = {}
  AnyOrder = TRUE
  Limits <- PropertyLimits
  MaxTables = 2
  MaxObjects <- OneBuffer
  Entry = "Entry"
  Keys = {0, 2, 300}
  StringLists <- SomeStrings
  StructLists <- SomeStructs
  Flags <- SomeFlags
  Identifiers <- SomeIdentifiers
  MaxVectors = 2
  MaxBuilt = 4
SPECIFICATION VectorSpec
INVARIANTS ReadBack NothingUninitialised SharedOnce KeyedFound FinishedFound
CHECK_DEADLOCK FALSE
