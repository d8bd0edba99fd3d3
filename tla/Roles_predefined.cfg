SPECIFICATION Spec
CONSTANTS
  Users <- MCUsers
  Roles <- MCRoles
  Schemas = {"public"}
  Tables = {"t"}
  NoName = "-"
  Checkers = {}
  Callers = {c1, c2}
  Scanners = {b}
  AdminRoles = {}
  AdminParents <- None
  AdminUsers <- None
  AdminGrants <- SelectAll
  SuperFlags <- OneKind
  Statements = {"query"}
  ApiRequests = {}
  AllowCycles = FALSE
  SharedProvider = TRUE
  ChangeBound = 1
  StackBound = 3
INVARIANT PredefinedInForce
CHECK_DEADLOCK FALSE
