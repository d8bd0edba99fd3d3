SPECIFICATION FairSpec
CONSTANTS
  Users <- MCUsers
  Roles <- MCRoles
  Schemas = {"public"}
  Tables = {"t"}
  NoName = "-"
  Checkers = {}
  Callers = {}
  Scanners = {b}
  AdminRoles <- TwoRoles
  AdminParents <- TwoRoles
  AdminUsers <- Alice
  AdminGrants <- SelectAll
  SuperFlags <- OneKind
  Statements = {"query"}
  ApiRequests = {}
  AllowCycles = FALSE
  SharedProvider = TRUE
  ChangeBound = 1
  StackBound = 9
PROPERTY ScansAnswered
CHECK_DEADLOCK FALSE
