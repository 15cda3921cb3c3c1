SPECIFICATION Spec
CONSTANTS
  Replies <- CompleteReplies
  Names <- AllNames
  Values <- AllValues
  None = None
INVARIANTS NamesKept
