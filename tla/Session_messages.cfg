\* Messages of up to two statements.
SPECIFICATION FairSpec
CONSTANTS
  Names = {c}
  NoName = NoName
  Commands <- MessageCommands
  MaxRows = 1
  BatchBound = 2
  WriteBound = 1
INVARIANT AnsweredInFull
PROPERTIES FailedBlockIsInert Responsive
