\* Clients of different habits on a server that is full at two connections.
SPECIFICATION Spec
CONSTANTS
  Sockets <- MCSockets
  MaxConnections = 2
  Sends <- MCSends
  Values <- MCValues
  Default = "default"
  Blank = ""
  Width = 131072
  BatchBound = 2
INVARIANTS TypeOK ToldIsStored AnswersInOrder TimeoutAsSet LimitRespected
PROPERTY RefusedOnlyWhenFull
