------------------------------- MODULE Roles --------------------------------
(***************************************************************************)
(* Users, roles and permission checks of AuthManager.  The two maps are    *)
(* each behind a lock of their own that is held for one look-up or one     *)
(* change; a permission check walks the inheritance graph depth first and  *)
(* reads every role it visits under a lock of its own, so roles can change *)
(* between two visits.  create_predefined_roles is a series of such        *)
(* changes, and a pg_roles query a series of such reads.                   *)
(***************************************************************************)
EXTENDS Naturals, Sequences

CONSTANTS
  Users,        \* user names
  Roles,        \* role names
  Schemas,      \* schema names
  Tables,       \* table names
  NoName,       \* filler for a resource without a schema or a table
  Checkers,     \* tasks that check permissions
  Callers,      \* tasks that call create_predefined_roles
  Scanners,     \* tasks that scan pg_roles
  AdminRoles,   \* roles an administrator changes
  AdminParents, \* roles an administrator makes them inherit from
  AdminUsers,   \* users an administrator adds
  AdminGrants,  \* grants an administrator gives and revokes
  SuperFlags,   \* is_superuser of the users and roles an administrator adds
  Statements,   \* kinds of statements the permission hook is asked about
  ApiRequests,  \* other permissions that are asked for
  AllowCycles,  \* administrators may close a cycle of inheritance
  SharedProvider, \* pg_roles is given an Arc of the AuthManager
  ChangeBound,  \* bound on the changes while a check is under way
  StackBound    \* calls that fit on the stack of a thread

PredefinedRoles == {"readonly", "readwrite", "dbadmin"}
AllResources == [kind |-> "all", schema |-> NoName, table |-> NoName]
Schema(s) == [kind |-> "schema", schema |-> s, table |-> NoName]
Table(s, t) == [kind |-> "table", schema |-> s, table |-> t]
Resources ==
  {AllResources} \union {Schema(s) : s \in Schemas}
    \union {Table(s, t) : s \in Schemas, t \in Tables}
Permissions == {"All", "Select", "Insert", "Update", "Delete", "Create", "Drop", "Alter"}

\* A grant, and what a check asks for.
Permit(p, res) == [perm |-> p, res |-> res]
Permits == [perm : Permissions, res : Resources]

\* What the permission hook asks for; any other statement it lets pass.
StatementPermission ==
  [query |-> "Select", insert |-> "Insert", update |-> "Update", delete |-> "Delete",
   create |-> "Create", drop |-> "Drop", alter |-> "Alter"]
Requests == {Permit(StatementPermission[s], AllResources) : s \in Statements} \union ApiRequests

ASSUME NameAssumption ==
  /\ "postgres" \in Users
  /\ PredefinedRoles \union {"postgres"} \subseteq Roles
ASSUME AdminAssumption ==
  /\ AdminRoles \subseteq Roles /\ AdminParents \subseteq Roles /\ AdminUsers \subseteq Users
  /\ AdminGrants \subseteq Permits /\ SuperFlags \subseteq BOOLEAN
ASSUME RequestAssumption ==
  Statements \subseteq DOMAIN StatementPermission /\ ApiRequests \subseteq Permits
ASSUME FlagAssumption == AllowCycles \in BOOLEAN /\ SharedProvider \in BOOLEAN
ASSUME BoundAssumption == ChangeBound \in Nat /\ StackBound \in Nat

VARIABLES
  users, roles,  \* the two maps
  checks,        \* the permission check of each checker
  setup,         \* steps of create_predefined_roles each caller has left
  wasSetup,      \* a call of create_predefined_roles returned
  scans,         \* the pg_roles scan of each scanner
  crashed        \* a thread ran out of stack and took the process with it

vars == <<users, roles, checks, setup, wasSetup, scans, crashed>>

-----------------------------------------------------------------------------
User(names, super) == [known |-> TRUE, roles |-> names, super |-> super]
NoUser == [known |-> FALSE, roles |-> {}, super |-> FALSE]
Role(super, grants, inherits) ==
  [known |-> TRUE, super |-> super, grants |-> grants, inherits |-> inherits]
NoRole == [known |-> FALSE, super |-> FALSE, grants |-> {}, inherits |-> {}]

\* permission_matches and resource_matches.
Covers(grant, asked) ==
  /\ grant.perm = asked.perm \/ grant.perm = "All"
  /\ \/ grant.res = asked.res
     \/ grant.res.kind = "all"
     \/ /\ grant.res.kind = "schema" /\ asked.res.kind = "table"
        /\ grant.res.schema = asked.res.schema

\* The role is a superuser or has a grant that covers the request.
Grants(r, asked) ==
  /\ roles[r].known
  /\ roles[r].super \/ \E g \in roles[r].grants : Covers(g, asked)

\* Mutant: the roles an inherited role inherits are not followed.
InheritedOnce(r, depth) == IF depth > 1 THEN {} ELSE roles[r].inherits

\* The roles to check after r, which is checked by call number depth.
Inherited(r, depth) == roles[r].inherits

\* The roles reachable from a set of roles: what every closed set around it holds.
Closed(T) == \A r \in T : roles[r].inherits \subseteq T
Reach(S) ==
  {r \in Roles : \A T \in SUBSET Roles : S \subseteq T /\ Closed(T) => r \in T}

\* A role among S or one it inherits from, directly or not, grants the request.
HeldFrom(S, asked) == \E r \in Reach(S) : Grants(r, asked)

-----------------------------------------------------------------------------
(* Permission checks *)

\* One frame of stack for each nested call, the innermost first: the roles its
\* loop has left.  held, grown and shrunk are history: whether the permission
\* was held when the check began, and whether roles got or lost anything since.
Idle ==
  [state |-> "idle", roles |-> {}, asked |-> Permit("All", AllResources),
   stack |-> <<>>, held |-> FALSE, grown |-> FALSE, shrunk |-> FALSE, changes |-> 0]

Busy(k) == checks[k].state = "busy"

\* Mutant: the calls on the stack stay.
ConcludeKeepsStack(k, answer) == checks' = [checks EXCEPT ![k].state = answer]

\* The answer; the rest of the check is gone.
Conclude(k, answer) == checks' = [checks EXCEPT ![k] = [Idle EXCEPT !.state = answer]]

\* check_permission reads the user; it is asked by the hook or through the API.
StartCheck(k, u, asked) ==
  LET user == users[u] IN
  /\ ~crashed
  /\ ~Busy(k)
  /\ \/ /\ ~user.known
        /\ Conclude(k, "no")
     \/ /\ user.known /\ user.super
        /\ Conclude(k, "yes")
     \/ /\ user.known /\ ~user.super
        /\ checks' = [checks EXCEPT ![k] =
             [Idle EXCEPT !.state = "busy", !.roles = user.roles, !.asked = asked,
                          !.stack = <<user.roles>>, !.held = HeldFrom(user.roles, asked)]]
  /\ UNCHANGED <<users, roles, setup, wasSetup, scans, crashed>>

\* Mutant: the loop ends with its first role.
LeftFirstOnly(frame, r) == {}

\* Mutant: the loop does not move on.
LeftAll(frame, r) == frame

Left(frame, r) == frame \ {r}

\* The innermost call reads role r, and answers or calls itself for the roles r
\* inherits.
VisitRole(k, r) ==
  LET stack == checks[k].stack IN
  /\ ~crashed
  /\ Busy(k)
  /\ r \in Head(stack)
  /\ \/ /\ Grants(r, checks[k].asked)
        /\ Conclude(k, "yes")
        /\ UNCHANGED crashed
     \/ /\ ~Grants(r, checks[k].asked)
        /\ checks' = [checks EXCEPT ![k].stack =
             <<Inherited(r, Len(stack)), Left(Head(stack), r)>> \o Tail(stack)]
        /\ crashed' = (Len(stack) >= StackBound)
  /\ UNCHANGED <<users, roles, setup, wasSetup, scans>>

\* The innermost call has no role left and returns false.
ReturnFalse(k) ==
  LET stack == checks[k].stack IN
  /\ ~crashed
  /\ Busy(k)
  /\ Head(stack) = {}
  /\ IF Len(stack) = 1 THEN Conclude(k, "no")
     ELSE checks' = [checks EXCEPT ![k].stack = Tail(stack)]
  /\ UNCHANGED <<users, roles, setup, wasSetup, scans, crashed>>

-----------------------------------------------------------------------------
(* Changes *)

Quiet == \A k \in Checkers : Busy(k) => checks[k].changes < ChangeBound

\* History of the checks under way when roles gain or lose something.
Noted(k, grown, shrunk) ==
  IF Busy(k)
  THEN [checks[k] EXCEPT !.grown = @ \/ grown, !.shrunk = @ \/ shrunk, !.changes = @ + 1]
  ELSE checks[k]
Note(grown, shrunk) == checks' = [k \in Checkers |-> Noted(k, grown, shrunk)]

\* add_user: a user of that name is replaced.  A check under way has its copy.
AddUser(u, names, super) ==
  /\ users' = [users EXCEPT ![u] = User(names, super)]
  /\ UNCHANGED <<roles, checks>>

\* create_role and add_role: a role of that name is replaced, its grants and
\* inheritance are gone.
CreateRole(r, super) ==
  /\ roles' = [roles EXCEPT ![r] = Role(super, {}, {})]
  /\ Note(super, TRUE)
  /\ UNCHANGED users

\* grant_permission, revoke_permission.
Grant(r, g) ==
  /\ roles[r].known
  /\ roles' = [roles EXCEPT ![r].grants = @ \union {g}]
  /\ Note(TRUE, FALSE)
  /\ UNCHANGED users

Revoke(r, g) ==
  /\ roles[r].known
  /\ roles' = [roles EXCEPT ![r].grants = @ \ {g}]
  /\ Note(FALSE, TRUE)
  /\ UNCHANGED users

\* add_role_inheritance: neither that the parent exists nor that it does not
\* inherit from the child is checked.
Inherit(c, p) ==
  /\ roles[c].known
  /\ roles' = [roles EXCEPT ![c].inherits = @ \union {p}]
  /\ Note(TRUE, FALSE)
  /\ UNCHANGED users

\* remove_role_inheritance
Disinherit(c, p) ==
  /\ roles[c].known
  /\ roles' = [roles EXCEPT ![c].inherits = @ \ {p}]
  /\ Note(FALSE, TRUE)
  /\ UNCHANGED users

Administer ==
  /\ ~crashed
  /\ Quiet
  /\ \/ \E u \in AdminUsers, names \in SUBSET AdminRoles, super \in SuperFlags :
          AddUser(u, names, super)
     \/ \E r \in AdminRoles :
          \/ \E super \in SuperFlags : CreateRole(r, super)
          \/ \E g \in AdminGrants : Grant(r, g) \/ Revoke(r, g)
          \/ \E p \in AdminParents :
               \/ (AllowCycles \/ r \notin Reach({p})) /\ Inherit(r, p)
               \/ Disinherit(r, p)
  /\ UNCHANGED <<setup, wasSetup, scans, crashed>>

-----------------------------------------------------------------------------
(* create_predefined_roles *)

Creation(r) == [role |-> r, perm |-> "none"]
Granting(r, p) == [role |-> r, perm |-> p]

\* Mutant: the last grant goes to the wrong role.
PredefinedStepsMixed ==
  <<Creation("readonly"), Granting("readonly", "Select"),
    Creation("readwrite"), Granting("readwrite", "Select"), Granting("readwrite", "Insert"),
    Granting("readwrite", "Update"), Granting("readwrite", "Delete"),
    Creation("dbadmin"), Granting("readwrite", "All")>>

PredefinedSteps ==
  <<Creation("readonly"), Granting("readonly", "Select"),
    Creation("readwrite"), Granting("readwrite", "Select"), Granting("readwrite", "Insert"),
    Granting("readwrite", "Update"), Granting("readwrite", "Delete"),
    Creation("dbadmin"), Granting("dbadmin", "All")>>

CallPredefined(c) ==
  /\ ~crashed
  /\ setup[c] = <<>>
  /\ setup' = [setup EXCEPT ![c] = PredefinedSteps]
  /\ UNCHANGED <<users, roles, checks, wasSetup, scans, crashed>>

\* The next step.  Roles are never removed, so its grants find theirs.
PredefinedStep(c) ==
  /\ ~crashed
  /\ Quiet
  /\ setup[c] # <<>>
  /\ LET step == Head(setup[c]) IN
       IF step.perm = "none" THEN CreateRole(step.role, FALSE)
       ELSE Grant(step.role, Permit(step.perm, AllResources))
  /\ setup' = [setup EXCEPT ![c] = Tail(@)]
  /\ wasSetup' = (wasSetup \/ Len(setup[c]) = 1)
  /\ UNCHANGED <<scans, crashed>>

-----------------------------------------------------------------------------
(* pg_roles *)

NotScanning == [state |-> "idle", calls |-> 0, left |-> {}]

StartScan(b) ==
  /\ ~crashed
  /\ scans[b].state = "idle"
  /\ scans' = [scans EXCEPT ![b] = [state |-> "list", calls |-> 1, left |-> {}]]
  /\ UNCHANGED <<users, roles, checks, setup, wasSetup, crashed>>

\* The provider lists the role names.  The implementation for Arc<T> calls the
\* method of the Arc again instead of the one of T.
DelegateRoles(b) ==
  /\ ~crashed
  /\ SharedProvider
  /\ scans[b].state = "list"
  /\ scans' = [scans EXCEPT ![b].calls = @ + 1]
  /\ crashed' = (scans[b].calls >= StackBound)
  /\ UNCHANGED <<users, roles, checks, setup, wasSetup>>

\* Mutant: roles that others inherit are listed though they may not exist.
ListedMentioned == {r \in Roles : roles[r].known \/ \E c \in Roles : r \in roles[c].inherits}

Listed == {r \in Roles : roles[r].known}

ListRoles(b) ==
  /\ ~crashed
  /\ ~SharedProvider
  /\ scans[b].state = "list"
  /\ scans' = [scans EXCEPT ![b].state = "rows", ![b].left = Listed]
  /\ UNCHANGED <<users, roles, checks, setup, wasSetup, crashed>>

\* Every name is looked up again and the result unwrapped.
ScanRole(b, r) ==
  /\ ~crashed
  /\ scans[b].state = "rows"
  /\ r \in scans[b].left
  /\ scans' = [scans EXCEPT ![b].left = @ \ {r},
                            ![b].state = IF ~roles[r].known THEN "panicked" ELSE @]
  /\ UNCHANGED <<users, roles, checks, setup, wasSetup, crashed>>

FinishScan(b) ==
  /\ ~crashed
  /\ scans[b].state = "rows" /\ scans[b].left = {}
  /\ scans' = [scans EXCEPT ![b] = NotScanning]
  /\ UNCHANGED <<users, roles, checks, setup, wasSetup, crashed>>

-----------------------------------------------------------------------------
\* AuthManager::new: the superuser postgres and its role.
Init ==
  /\ users = [u \in Users |-> IF u = "postgres" THEN User({"postgres"}, TRUE) ELSE NoUser]
  /\ roles = [r \in Roles |->
       IF r = "postgres" THEN Role(TRUE, {Permit("All", AllResources)}, {}) ELSE NoRole]
  /\ checks = [k \in Checkers |-> Idle]
  /\ setup = [c \in Callers |-> <<>>]
  /\ wasSetup = FALSE
  /\ scans = [b \in Scanners |-> NotScanning]
  /\ crashed = FALSE

CheckStep(k) == (\E r \in Roles : VisitRole(k, r)) \/ ReturnFalse(k)
ScanStep(b) ==
  DelegateRoles(b) \/ ListRoles(b) \/ (\E r \in Roles : ScanRole(b, r)) \/ FinishScan(b)

Next ==
  \/ \E k \in Checkers :
       \/ \E u \in Users, asked \in Requests : StartCheck(k, u, asked)
       \/ CheckStep(k)
  \/ Administer
  \/ \E c \in Callers : CallPredefined(c) \/ PredefinedStep(c)
  \/ \E b \in Scanners : StartScan(b) \/ ScanStep(b)

Spec == Init /\ [][Next]_vars

\* The runtime keeps polling a task that checks a permission or scans pg_roles.
FairSpec ==
  /\ Spec
  /\ \A k \in Checkers : WF_vars(CheckStep(k))
  /\ \A b \in Scanners : WF_vars(ScanStep(b))

-----------------------------------------------------------------------------
UserType == [known : BOOLEAN, roles : SUBSET Roles, super : BOOLEAN]
RoleType ==
  [known : BOOLEAN, super : BOOLEAN, grants : SUBSET Permits, inherits : SUBSET Roles]
CheckType ==
  [state : {"idle", "busy", "yes", "no"}, roles : SUBSET Roles,
   asked : Permits, stack : Seq(SUBSET Roles), held : BOOLEAN, grown : BOOLEAN,
   shrunk : BOOLEAN, changes : Nat]
ScanType ==
  [state : {"idle", "list", "rows", "panicked"}, calls : Nat, left : SUBSET Roles]
Steps == [role : PredefinedRoles, perm : Permissions \union {"none"}]

\* Every variable has its type, a role that is not there has nothing, and only
\* a check under way has calls on the stack.
TypeOK ==
  /\ users \in [Users -> UserType]
  /\ roles \in [Roles -> RoleType]
  /\ \A r \in Roles : ~roles[r].known => roles[r] = NoRole
  /\ checks \in [Checkers -> CheckType]
  /\ \A k \in Checkers : Busy(k) <=> checks[k].stack # <<>>
  /\ setup \in [Callers -> Seq(Steps)]
  /\ wasSetup \in BOOLEAN
  /\ scans \in [Scanners -> ScanType]
  /\ crashed \in BOOLEAN

\* A check answers right: what it answers is true when the roles did not change
\* under it, and whatever was granted meanwhile a yes holds when it is given and
\* a no held when it was asked; if roles only lost permissions, a yes held when it
\* was asked.
AnswersAreRight ==
  [][\A k \in Checkers :
       LET check == checks[k]
           answer == checks'[k].state
       IN Busy(k) =>
            /\ answer = "yes" /\ ~check.shrunk => HeldFrom(check.roles, check.asked)
            /\ answer = "yes" /\ ~check.grown => check.held
            /\ answer = "no" /\ ~check.shrunk => ~check.held]_vars

\* The roles some call on the stack has yet to visit.
Pending(k) ==
  {r \in Roles : \E i \in DOMAIN checks[k].stack : r \in checks[k].stack[i]}

\* Why: what is left to visit is reachable, and decides the answer.
CheckInv ==
  \A k \in Checkers : Busy(k) =>
    /\ ~checks[k].shrunk => Pending(k) \subseteq Reach(checks[k].roles)
    /\ ~checks[k].shrunk /\ checks[k].held => HeldFrom(Pending(k), checks[k].asked)
    /\ ~checks[k].grown /\ HeldFrom(Pending(k), checks[k].asked) => checks[k].held

\* What the grants of create_predefined_roles are meant to be.
PredefinedGrants(r) ==
  {Permit(p, AllResources) : p \in
     CASE r = "readonly" -> {"Select"}
       [] r = "readwrite" -> {"Select", "Insert", "Update", "Delete"}
       [] r = "dbadmin" -> {"All"}}

\* However calls of create_predefined_roles overlap, when the last of them has
\* returned the predefined roles have their grants and no others, although every
\* call replaces the roles of the one before.
PredefinedInForce ==
  wasSetup /\ (\A c \in Callers : setup[c] = <<>>) =>
    \A r \in PredefinedRoles \ AdminRoles :
      roles[r] = Role(FALSE, PredefinedGrants(r), {})

\* Every permission check is answered ("Check if a user has a specific
\* permission on a resource").
ChecksAnswered == \A k \in Checkers : Busy(k) ~> ~Busy(k)

\* Every pg_roles query is answered ("retrieve all database role names").
ScansAnswered == \A b \in Scanners : scans[b].state = "list" ~> scans[b].state = "idle"
=============================================================================
