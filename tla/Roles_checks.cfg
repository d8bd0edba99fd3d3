\* Two roles that change, and may inherit from each other, from a superuser role
\* and from a role that is not there.
SPECIFICATION FairSpec
CONSTANTS
  Users <- MCUsers
  Roles <- MCRoles
  Schemas = {"public"}
  Tables = {"t"}
  NoName = "-"
  Checkers = {k}
  Callers = {}
  Scanners = {b}
  AdminRoles <- TwoRoles
  AdminParents <- Parents
  AdminUsers <- Alice
  AdminGrants <- SelectSchema
  SuperFlags <- OneKind
  Statements = {}
  ApiRequests <- SelectTable
  AllowCycles = FALSE
  SharedProvider = FALSE
  ChangeBound = 2
  StackBound = 9
INVARIANTS TypeOK CheckInv
PROPERTIES AnswersAreRight ChecksAnswered ScansAnswered
