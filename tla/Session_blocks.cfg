SPECIFICATION Spec
CONSTANTS
  Names = {c}
  NoName = NoName
  Commands <- TxCommands
  MaxRows = 1
  BatchBound = 1
  WriteBound = 2
INVARIANT TypeOK
INVARIANT InStep
INVARIANT StatusFollowsAnswers
PROPERTY ImplementsTxBlock
