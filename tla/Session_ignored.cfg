SPECIFICATION Spec
CONSTANTS
  Names = {c}
  NoName = NoName
  Commands <- WriterCommands
  MaxRows = 1
  BatchBound = 1
  WriteBound = 2
PROPERTY FailedBlockIgnoresCommands
