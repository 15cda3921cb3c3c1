SPECIFICATION Spec
CONSTANTS
  Replies <- AllReplies
  Names <- AllNames
  Values <- AllValues
  None = None
INVARIANTS FaithfulReplay FailureKept NoUndefined NothingInvented
