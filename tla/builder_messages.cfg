CONSTANTS
  InitialSize = 8
  BufferMinAlign = 8
  Undefined = Undefined
  ForceDefaults = FALSE
  DedupVtables = TRUE
  Schema <- Schemas
  UnionTypes <- Unions
  Envelope = "MessageEnvelope"
  Message = "Message"
  Types <- MessageTypes
  Texts <- OneText
  Vectors <- OneDouble
  Structs <- Statuses
  Numbers = {300}
  Ids = {300}
  EffectIds = {70000}
  Widths <- ScalarWidths
  Whole <- MessageTypes
  AnyOrder = FALSE
  Limits <- MessageLimits
  MaxTables = 2
  MaxObjects <- TwoBuffers
SPECIFICATION Spec
INVARIANTS NoAssertFails MessageIntact SentVerifies
CHECK_DEADLOCK FALSE
