SPECIFICATION FairSpec
CONSTANTS
  Users <- MCUsers
  Roles <- MCRoles
  Schemas = {"public"}
  Tables = {"t"}
  NoName = "-"
  Checkers = {k}
  Callers = {}
  Scanners = {}
  AdminRoles <- TwoRoles
  AdminParents <- TwoRoles
  AdminUsers <- Alice
  AdminGrants <- SelectAll
  SuperFlags <- OneKind
  Statements = {"query"}
  ApiRequests = {}
  AllowCycles = TRUE
  SharedProvider = FALSE
  ChangeBound = 0
  StackBound = 5
PROPERTY ChecksAnswered
CHECK_DEADLOCK FALSE
