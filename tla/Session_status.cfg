SPECIFICATION Spec
CONSTANTS
  Names = {c}
  NoName = NoName
  Commands <- StatusCommands
  MaxRows = 1
  BatchBound = 2
  WriteBound = 1
INVARIANT StatusFollowsAnswers
