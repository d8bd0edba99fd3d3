---------------------------- MODULE Roles_proofs ----------------------------
(***************************************************************************)
(* Theorems about Roles: the types, that a permission check answers right  *)
(* whatever users, roles and inheritance there are, and that overlapping   *)
(* calls of create_predefined_roles leave the roles they are meant to.     *)
(***************************************************************************)
EXTENDS Roles, SequenceTheorems, TLAPS

-----------------------------------------------------------------------------
(* Reachability *)

\* Every set of roles reaches itself.
LEMMA ReachBase ==
  ASSUME NEW S \in SUBSET Roles
  PROVE  S \subseteq Reach(S) /\ Reach(S) \subseteq Roles
BY DEF Reach

\* What a set reaches is closed under inheritance.
LEMMA ReachClosed ==
  ASSUME TypeOK, NEW S \in SUBSET Roles
  PROVE  Closed(Reach(S))
<1> SUFFICES ASSUME NEW r \in Reach(S), NEW p \in roles[r].inherits
             PROVE  p \in Reach(S)
  BY DEF Closed
<1>1. r \in Roles /\ p \in Roles
  BY DEF Reach, TypeOK, RoleType
<1>2. ASSUME NEW T \in SUBSET Roles, S \subseteq T, Closed(T)
      PROVE  p \in T
  BY <1>2 DEF Reach, Closed
<1> QED
  BY <1>1, <1>2 DEF Reach

\* It is the least closed set around it.
LEMMA ReachLeast ==
  ASSUME NEW S, NEW T \in SUBSET Roles, S \subseteq T, Closed(T)
  PROVE  Reach(S) \subseteq T
BY DEF Reach

\* A permission granted by a reachable role is held.
LEMMA HeldMono ==
  ASSUME TypeOK, NEW S \in SUBSET Roles, NEW P \in SUBSET Roles, NEW asked,
         P \subseteq Reach(S), HeldFrom(P, asked)
  PROVE  HeldFrom(S, asked)
<1>1. Reach(P) \subseteq Reach(S)
  BY ReachBase, ReachClosed, ReachLeast
<1> QED
  BY <1>1 DEF HeldFrom

\* Nothing is reached from no role.
LEMMA HeldFromNone ==
  ASSUME NEW asked
  PROVE  ~HeldFrom({}, asked)
<1>1. Closed({})
  BY DEF Closed
<1>2. Reach({}) \subseteq {}
  BY <1>1, ReachLeast
<1> QED
  BY <1>2 DEF HeldFrom

\* The roles gain, or lose, what can be held.
Gaining ==
  \A r \in Roles : /\ roles[r].inherits \subseteq roles'[r].inherits
                   /\ \A asked : Grants(r, asked) => Grants(r, asked)'
Losing ==
  \A r \in Roles : /\ roles'[r].inherits \subseteq roles[r].inherits
                   /\ \A asked : Grants(r, asked)' => Grants(r, asked)

LEMMA GainingHolds ==
  ASSUME Gaining, NEW S \in SUBSET Roles, NEW asked
  PROVE  Reach(S) \subseteq Reach(S)' /\ (HeldFrom(S, asked) => HeldFrom(S, asked)')
<1>1. \A T \in SUBSET Roles : Closed(T)' => Closed(T)
  BY DEF Closed, Gaining
<1>2. Reach(S) \subseteq Reach(S)'
  BY <1>1 DEF Reach
<1> QED
  BY <1>2 DEF HeldFrom, Gaining, Reach

LEMMA LosingHolds ==
  ASSUME Losing, NEW S \in SUBSET Roles, NEW asked, HeldFrom(S, asked)'
  PROVE  HeldFrom(S, asked)
<1>1. \A T \in SUBSET Roles : Closed(T) => Closed(T)'
  BY DEF Closed, Losing
<1>2. Reach(S)' \subseteq Reach(S)
  BY <1>1 DEF Reach
<1> QED
  BY <1>2 DEF HeldFrom, Losing, Reach

-----------------------------------------------------------------------------
(* The stack of a check *)

\* The roles in the frames of a stack.
Flat(stack) == {r \in Roles : \E i \in DOMAIN stack : r \in stack[i]}

\* The stack after a visit to r.
Deeper(stack, r, inner) == <<inner, Head(stack) \ {r}>> \o Tail(stack)

\* A call on the stack replaces what its loop has left and calls itself.
LEMMA PendingOfVisit ==
  ASSUME NEW stack \in Seq(SUBSET Roles), stack # <<>>, NEW r \in Head(stack),
         NEW inner \in SUBSET Roles
  PROVE  /\ Deeper(stack, r, inner) \in Seq(SUBSET Roles)
         /\ Deeper(stack, r, inner) # <<>>
         /\ r \in Flat(stack)
         /\ Flat(stack) \subseteq Flat(Deeper(stack, r, inner)) \union {r}
         /\ inner \subseteq Flat(Deeper(stack, r, inner))
         /\ Flat(Deeper(stack, r, inner)) \subseteq Flat(stack) \union inner
<1> DEFINE deeper == <<inner, Head(stack) \ {r}>> \o Tail(stack)
<1>1. /\ Head(stack) \in SUBSET Roles /\ Tail(stack) \in Seq(SUBSET Roles)
      /\ Len(stack) \in Nat /\ Len(stack) >= 1
      /\ Len(Tail(stack)) = Len(stack) - 1
      /\ \A i \in 1 .. Len(Tail(stack)) : Tail(stack)[i] = stack[i + 1]
      /\ Head(stack) = stack[1]
      /\ DOMAIN stack = 1 .. Len(stack)
  BY HeadTailProperties, EmptySeq, LenProperties
<1>2. <<inner, Head(stack) \ {r}>> \in Seq(SUBSET Roles)
  BY <1>1
<1>3. /\ deeper \in Seq(SUBSET Roles)
      /\ Len(deeper) = Len(stack) + 1
      /\ DOMAIN deeper = 1 .. (Len(stack) + 1)
      /\ deeper[1] = inner /\ deeper[2] = Head(stack) \ {r}
      /\ \A i \in 2 .. Len(stack) : deeper[i + 1] = stack[i]
  BY <1>1, <1>2
<1>4. ASSUME NEW i \in DOMAIN stack, NEW x \in stack[i], x # r
      PROVE  \E j \in DOMAIN deeper : x \in deeper[j]
  <2>1. CASE i = 1
    BY <1>1, <1>3, <1>4, <2>1
  <2>2. CASE i # 1
    <3>1. i \in 2 .. Len(stack)
      BY <1>1, <2>2
    <3>2. i + 1 \in DOMAIN deeper /\ deeper[i + 1] = stack[i]
      BY <1>1, <1>3, <3>1
    <3> QED
      BY <3>2
  <2> QED
    BY <2>1, <2>2
<1>5. ASSUME NEW j \in DOMAIN deeper, NEW x \in deeper[j], x \notin inner
      PROVE  \E i \in DOMAIN stack : x \in stack[i]
  <2>1. CASE j = 2
    BY <1>1, <1>3, <1>5, <2>1
  <2>2. CASE j > 2
    <3>1. j - 1 \in 2 .. Len(stack) /\ deeper[j] = stack[j - 1]
      BY <1>1, <1>3, <2>2
    <3> QED
      BY <1>1, <1>5, <3>1
  <2> QED
    BY <1>1, <1>3, <1>5, <2>1, <2>2
<1>6. \A x \in inner : \E j \in DOMAIN deeper : x \in deeper[j]
  BY <1>1, <1>3
<1> QED
  <2>1. deeper \in Seq(SUBSET Roles) /\ deeper # <<>>
    <3>1. Len(<<>>) = 0 /\ Len(deeper) # 0
      BY <1>1, <1>3
    <3> QED
      BY <1>3, <3>1
  <2>2. r \in Flat(stack)
    BY <1>1 DEF Flat
  <2>3. Flat(stack) \subseteq Flat(deeper) \union {r}
    BY <1>4 DEF Flat
  <2>4. inner \subseteq Flat(deeper)
    BY <1>6 DEF Flat
  <2>5. Flat(deeper) \subseteq Flat(stack) \union inner
    BY <1>5 DEF Flat
  <2> QED
    BY <2>1, <2>2, <2>3, <2>4, <2>5 DEF Deeper

\* A call that has no role left leaves none behind.
LEMMA PendingOfReturn ==
  ASSUME NEW stack \in Seq(SUBSET Roles), stack # <<>>, Head(stack) = {}
  PROVE  /\ Len(stack) = 1 => Flat(stack) = {}
         /\ Len(stack) # 1 =>
              /\ Tail(stack) \in Seq(SUBSET Roles) /\ Tail(stack) # <<>>
              /\ Flat(Tail(stack)) = Flat(stack)
<1>1. /\ Tail(stack) \in Seq(SUBSET Roles)
      /\ Len(stack) \in Nat /\ Len(stack) >= 1
      /\ Len(Tail(stack)) = Len(stack) - 1
      /\ \A i \in 1 .. Len(Tail(stack)) : Tail(stack)[i] = stack[i + 1]
      /\ stack[1] = {}
      /\ DOMAIN stack = 1 .. Len(stack)
      /\ DOMAIN Tail(stack) = 1 .. (Len(stack) - 1)
  BY HeadTailProperties, EmptySeq, LenProperties
<1>2. ASSUME NEW x, NEW i \in DOMAIN stack, x \in stack[i]
      PROVE  \E j \in DOMAIN Tail(stack) : x \in Tail(stack)[j]
  <2>1. i - 1 \in 1 .. (Len(stack) - 1) /\ Tail(stack)[i - 1] = stack[i]
    BY <1>1, <1>2
  <2> QED
    BY <1>1, <1>2, <2>1
<1>3. ASSUME NEW x, NEW j \in DOMAIN Tail(stack), x \in Tail(stack)[j]
      PROVE  \E i \in DOMAIN stack : x \in stack[i]
  <2>1. j + 1 \in 1 .. Len(stack) /\ Tail(stack)[j] = stack[j + 1]
    BY <1>1
  <2> QED
    BY <1>1, <1>3, <2>1
<1>4. Len(stack) # 1 => Tail(stack) # <<>>
  <2>1. Len(<<>>) = 0
    OBVIOUS
  <2>2. Len(stack) # 1 => Len(Tail(stack)) # 0
    BY <1>1
  <2> QED
    BY <2>1, <2>2
<1>5. Flat(Tail(stack)) = Flat(stack)
  BY <1>2, <1>3 DEF Flat
<1>6. Len(stack) = 1 => Flat(stack) = {}
  BY <1>1 DEF Flat
<1> QED
  BY <1>1, <1>4, <1>5, <1>6

-----------------------------------------------------------------------------
(* Types *)

\* What can be asked for is a permission on a resource.
LEMMA RequestTypes == Requests \subseteq Permits
<1>1. AllResources \in Resources
  BY DEF Resources
<1>2. \A s \in Statements : StatementPermission[s] \in Permissions
  BY RequestAssumption DEF StatementPermission, Permissions
<1> QED
  BY <1>1, <1>2, RequestAssumption DEF Requests, Permits, Permit

\* A change of the roles is noted in the checks under way.
LEMMA NoteTypes ==
  ASSUME TypeOK, NEW grown \in BOOLEAN, NEW shrunk \in BOOLEAN, Note(grown, shrunk)
  PROVE  /\ checks' \in [Checkers -> CheckType]
         /\ \A k \in Checkers : Busy(k)' <=> checks'[k].stack # <<>>
         /\ \A k \in Checkers :
              /\ Busy(k)' <=> Busy(k)
              /\ checks'[k].state = checks[k].state
              /\ checks'[k].stack = checks[k].stack
              /\ checks'[k].roles = checks[k].roles
              /\ checks'[k].asked = checks[k].asked
              /\ checks'[k].held = checks[k].held
              /\ Busy(k) => /\ checks'[k].grown = (checks[k].grown \/ grown)
                            /\ checks'[k].shrunk = (checks[k].shrunk \/ shrunk)
<1> SUFFICES ASSUME NEW k \in Checkers
             PROVE  /\ Noted(k, grown, shrunk) \in CheckType
                    /\ Noted(k, grown, shrunk).state = checks[k].state
                    /\ Noted(k, grown, shrunk).stack = checks[k].stack
                    /\ Noted(k, grown, shrunk).roles = checks[k].roles
                    /\ Noted(k, grown, shrunk).asked = checks[k].asked
                    /\ Noted(k, grown, shrunk).held = checks[k].held
                    /\ Busy(k) =>
                         /\ Noted(k, grown, shrunk).grown = (checks[k].grown \/ grown)
                         /\ Noted(k, grown, shrunk).shrunk = (checks[k].shrunk \/ shrunk)
  BY DEF Note, Busy, TypeOK
<1>1. checks[k] \in CheckType
  BY DEF TypeOK
<1>2. CASE Busy(k)
  <2> DEFINE g == checks[k].grown \/ grown
             s == checks[k].shrunk \/ shrunk
  <2>1. g \in BOOLEAN /\ s \in BOOLEAN
    OBVIOUS
  <2> DEFINE c == checks[k]
             n == [c EXCEPT !.grown = g, !.shrunk = s, !.changes = c.changes + 1]
  <2>2. Noted(k, grown, shrunk) = n
    BY <1>2 DEF Noted
  <2>3. c.changes + 1 \in Nat /\ c \in CheckType
    BY <1>1 DEF CheckType
  <2> HIDE DEF g, s, c
  <2>4. n \in CheckType
    BY <2>1, <2>3 DEF CheckType
  <2>5. /\ n.state = c.state /\ n.stack = c.stack /\ n.roles = c.roles
        /\ n.asked = c.asked /\ n.held = c.held
        /\ n.grown = g /\ n.shrunk = s
    BY <2>1, <2>3 DEF CheckType
  <2> QED
    BY <2>2, <2>4, <2>5 DEF g, s, c
<1> QED
  BY <1>1, <1>2 DEF Noted

\* A role that is replaced keeps the types.
LEMMA ReplaceTypes ==
  ASSUME TypeOK, NEW r \in Roles, NEW role \in RoleType, role.known,
         roles' = [roles EXCEPT ![r] = role], UNCHANGED users,
         NEW grown \in BOOLEAN, NEW shrunk \in BOOLEAN, Note(grown, shrunk)
  PROVE  /\ users' \in [Users -> UserType]
         /\ roles' \in [Roles -> RoleType]
         /\ \A x \in Roles : ~roles'[x].known => roles'[x] = NoRole
         /\ checks' \in [Checkers -> CheckType]
         /\ \A k \in Checkers : Busy(k)' <=> checks'[k].stack # <<>>
<1>1. /\ users' \in [Users -> UserType]
      /\ roles' \in [Roles -> RoleType]
      /\ \A x \in Roles : ~roles'[x].known => roles'[x] = NoRole
  BY DEF TypeOK
<1> QED
  BY <1>1, NoteTypes

\* Changes of roles keep the types.
LEMMA ChangeTypes ==
  ASSUME TypeOK, NEW r \in Roles,
         \/ \E super \in BOOLEAN : CreateRole(r, super)
         \/ \E g \in Permits : Grant(r, g) \/ Revoke(r, g)
         \/ \E p \in Roles : Inherit(r, p) \/ Disinherit(r, p)
  PROVE  /\ users' \in [Users -> UserType]
         /\ roles' \in [Roles -> RoleType]
         /\ \A x \in Roles : ~roles'[x].known => roles'[x] = NoRole
         /\ checks' \in [Checkers -> CheckType]
         /\ \A k \in Checkers : Busy(k)' <=> checks'[k].stack # <<>>
<1>0. roles[r] \in RoleType
  BY DEF TypeOK
<1>1. ASSUME NEW super \in BOOLEAN, CreateRole(r, super)
      PROVE  \E role \in RoleType, grown \in BOOLEAN, shrunk \in BOOLEAN :
               /\ role.known /\ roles' = [roles EXCEPT ![r] = role]
               /\ Note(grown, shrunk) /\ UNCHANGED users
  <2>1. Role(super, {}, {}) \in RoleType /\ Role(super, {}, {}).known
    BY DEF Role, RoleType
  <2> QED
    BY <1>1, <2>1 DEF CreateRole
<1>2. ASSUME NEW g \in Permits, Grant(r, g)
      PROVE  \E role \in RoleType, grown \in BOOLEAN, shrunk \in BOOLEAN :
               /\ role.known /\ roles' = [roles EXCEPT ![r] = role]
               /\ Note(grown, shrunk) /\ UNCHANGED users
  <2> DEFINE role == [roles[r] EXCEPT !.grants = @ \union {g}]
  <2>1. role \in RoleType /\ role.known /\ roles' = [roles EXCEPT ![r] = role]
    BY <1>0, <1>2 DEF Grant, RoleType
  <2> QED
    BY <1>2, <2>1 DEF Grant
<1>3. ASSUME NEW g \in Permits, Revoke(r, g)
      PROVE  \E role \in RoleType, grown \in BOOLEAN, shrunk \in BOOLEAN :
               /\ role.known /\ roles' = [roles EXCEPT ![r] = role]
               /\ Note(grown, shrunk) /\ UNCHANGED users
  <2> DEFINE role == [roles[r] EXCEPT !.grants = @ \ {g}]
  <2>1. role \in RoleType /\ role.known /\ roles' = [roles EXCEPT ![r] = role]
    BY <1>0, <1>3 DEF Revoke, RoleType
  <2> QED
    BY <1>3, <2>1 DEF Revoke
<1>4. ASSUME NEW p \in Roles, Inherit(r, p)
      PROVE  \E role \in RoleType, grown \in BOOLEAN, shrunk \in BOOLEAN :
               /\ role.known /\ roles' = [roles EXCEPT ![r] = role]
               /\ Note(grown, shrunk) /\ UNCHANGED users
  <2> DEFINE role == [roles[r] EXCEPT !.inherits = @ \union {p}]
  <2>1. role \in RoleType /\ role.known /\ roles' = [roles EXCEPT ![r] = role]
    BY <1>0, <1>4 DEF Inherit, RoleType
  <2> QED
    BY <1>4, <2>1 DEF Inherit
<1>5. ASSUME NEW p \in Roles, Disinherit(r, p)
      PROVE  \E role \in RoleType, grown \in BOOLEAN, shrunk \in BOOLEAN :
               /\ role.known /\ roles' = [roles EXCEPT ![r] = role]
               /\ Note(grown, shrunk) /\ UNCHANGED users
  <2> DEFINE role == [roles[r] EXCEPT !.inherits = @ \ {p}]
  <2>1. role \in RoleType /\ role.known /\ roles' = [roles EXCEPT ![r] = role]
    BY <1>0, <1>5 DEF Disinherit, RoleType
  <2> QED
    BY <1>5, <2>1 DEF Disinherit
<1>6. \E role \in RoleType, grown \in BOOLEAN, shrunk \in BOOLEAN :
         /\ role.known /\ roles' = [roles EXCEPT ![r] = role]
         /\ Note(grown, shrunk) /\ UNCHANGED users
  BY <1>1, <1>2, <1>3, <1>4, <1>5
<1> QED
  BY <1>6, ReplaceTypes

\* A check that is replaced keeps the types.
LEMMA OneCheckTypes ==
  ASSUME TypeOK, NEW k \in Checkers, NEW check \in CheckType,
         check.state = "busy" <=> check.stack # <<>>,
         checks' = [checks EXCEPT ![k] = check],
         UNCHANGED <<users, roles, setup, wasSetup, scans>>, crashed' \in BOOLEAN
  PROVE  TypeOK'
<1>1. checks' \in [Checkers -> CheckType]
  BY DEF TypeOK
<1>2. \A x \in Checkers : Busy(x)' <=> checks'[x].stack # <<>>
  BY DEF TypeOK, Busy
<1> QED
  BY <1>1, <1>2 DEF TypeOK

\* A task that asks nothing.
LEMMA IdleType == Idle \in CheckType /\ Idle.stack = <<>> /\ Idle.state = "idle"
BY NameAssumption DEF Idle, CheckType, Permits, Permit, Permissions, Resources

\* An answer ends the check.
LEMMA ConcludeTypes ==
  ASSUME TypeOK, NEW k \in Checkers, NEW answer \in {"yes", "no"}, Conclude(k, answer)
  PROVE  /\ checks'[k].state = answer
         /\ \A x \in Checkers \ {k} : checks'[x] = checks[x]
         /\ \E check \in CheckType :
              /\ check.state = answer /\ check.stack = <<>>
              /\ checks' = [checks EXCEPT ![k] = check]
<1> DEFINE check == [Idle EXCEPT !.state = answer]
<1>1. check \in CheckType /\ check.state = answer /\ check.stack = <<>>
  BY IdleType DEF CheckType
<1>2. checks' = [checks EXCEPT ![k] = check]
  BY DEF Conclude
<1> HIDE DEF check
<1> QED
  BY <1>1, <1>2 DEF TypeOK

\* A check that goes on has another stack.
LEMMA GoOnTypes ==
  ASSUME TypeOK, NEW k \in Checkers, Busy(k),
         NEW stack \in Seq(SUBSET Roles), stack # <<>>,
         checks' = [checks EXCEPT ![k].stack = stack],
         UNCHANGED <<users, roles, setup, wasSetup, scans>>, crashed' \in BOOLEAN
  PROVE  TypeOK'
<1> DEFINE check == [checks[k] EXCEPT !.stack = stack]
<1>1. checks[k] \in CheckType /\ checks[k].state = "busy"
  BY DEF TypeOK, Busy
<1>2. check \in CheckType /\ check.state = "busy" /\ check.stack = stack
  BY <1>1 DEF CheckType
<1>3. checks' = [checks EXCEPT ![k] = check]
  OBVIOUS
<1> HIDE DEF check
<1> QED
  BY <1>2, <1>3, OneCheckTypes

\* A check that begins leaves the others alone, and the roles.
LEMMA StartLocal ==
  ASSUME TypeOK, NEW k \in Checkers, NEW u \in Users, NEW asked, StartCheck(k, u, asked)
  PROVE  /\ ~Busy(k) /\ UNCHANGED roles
         /\ \A x \in Checkers \ {k} : checks'[x] = checks[x]
<1>1. CASE Conclude(k, "yes") \/ Conclude(k, "no")
  BY <1>1, ConcludeTypes DEF StartCheck
<1>2. CASE users[u].known /\ ~users[u].super
  BY <1>2 DEF StartCheck, TypeOK
<1> QED
  BY <1>1, <1>2 DEF StartCheck

\* A step of a check keeps the types.
LEMMA CheckTypes ==
  ASSUME TypeOK, NEW k \in Checkers,
         \/ \E u \in Users, asked \in Requests : StartCheck(k, u, asked)
         \/ CheckStep(k)
  PROVE  TypeOK'
<1>0. checks[k] \in CheckType /\ (Busy(k) <=> checks[k].stack # <<>>)
      /\ roles \in [Roles -> RoleType] /\ crashed \in BOOLEAN
  BY DEF TypeOK
<1>1. ASSUME NEW u \in Users, NEW asked \in Requests, StartCheck(k, u, asked)
      PROVE  TypeOK'
  <2>1. users[u] \in UserType /\ asked \in Permits
    BY RequestTypes DEF TypeOK
  <2>2. UNCHANGED <<users, roles, setup, wasSetup, scans>> /\ crashed' \in BOOLEAN
    BY <1>0, <1>1 DEF StartCheck
  <2>3. CASE Conclude(k, "yes") \/ Conclude(k, "no")
    BY <2>2, <2>3, ConcludeTypes, OneCheckTypes
  <2>4. CASE users[u].known /\ ~users[u].super
    <3> DEFINE names == users[u].roles
               held == HeldFrom(names, asked)
               check == [Idle EXCEPT !.state = "busy", !.roles = names, !.asked = asked,
                                     !.stack = <<names>>, !.held = held]
    <3>1. names \in SUBSET Roles /\ <<names>> \in Seq(SUBSET Roles) /\ <<names>> # <<>>
      BY <2>1 DEF UserType
    <3>2. held \in BOOLEAN
      BY DEF HeldFrom
    <3>3. checks' = [checks EXCEPT ![k] = check]
      BY <1>1, <2>4 DEF StartCheck
    <3> HIDE DEF names, held
    <3>4. check \in CheckType /\ check.state = "busy" /\ check.stack = <<names>>
      BY <2>1, <3>1, <3>2, IdleType DEF CheckType
    <3> HIDE DEF check
    <3> QED
      BY <2>2, <3>1, <3>3, <3>4, OneCheckTypes
  <2> QED
    BY <1>1, <2>3, <2>4 DEF StartCheck
<1>2. ASSUME NEW r \in Roles, VisitRole(k, r)
      PROVE  TypeOK'
  <2> DEFINE stack == checks[k].stack
             deeper == Deeper(stack, r, roles[r].inherits)
  <2>1. /\ stack \in Seq(SUBSET Roles) /\ stack # <<>> /\ r \in Head(stack)
        /\ roles[r].inherits \in SUBSET Roles
        /\ Busy(k) /\ UNCHANGED <<users, roles, setup, wasSetup, scans>>
    BY <1>0, <1>2 DEF VisitRole, CheckType, RoleType
  <2>2. CASE Conclude(k, "yes") /\ UNCHANGED crashed
    <3>1. crashed' \in BOOLEAN
      BY <1>0, <2>2
    <3> QED
      BY <2>1, <2>2, <3>1, ConcludeTypes, OneCheckTypes
  <2>3. CASE /\ checks' = [checks EXCEPT ![k].stack = deeper]
             /\ crashed' = (Len(stack) >= StackBound)
    <3>1. crashed' \in BOOLEAN
      BY <2>3
    <3>2. deeper \in Seq(SUBSET Roles) /\ deeper # <<>>
      BY <2>1, PendingOfVisit
    <3> HIDE DEF deeper, stack
    <3> QED
      BY <2>1, <2>3, <3>1, <3>2, GoOnTypes
  <2> QED
    BY <1>2, <2>2, <2>3 DEF VisitRole, Inherited, Left, Deeper
<1>3. CASE ReturnFalse(k)
  <2> DEFINE stack == checks[k].stack
  <2>1. /\ stack \in Seq(SUBSET Roles) /\ stack # <<>> /\ Head(stack) = {}
        /\ Busy(k) /\ UNCHANGED <<users, roles, setup, wasSetup, scans, crashed>>
    BY <1>0, <1>3 DEF ReturnFalse, CheckType
  <2>2. crashed' \in BOOLEAN
    BY <1>0, <2>1
  <2>3. CASE Len(stack) = 1
    <3>1. Conclude(k, "no")
      BY <1>3, <2>3 DEF ReturnFalse
    <3> QED
      BY <2>1, <2>2, <3>1, ConcludeTypes, OneCheckTypes
  <2>4. CASE Len(stack) # 1
    <3>1. checks' = [checks EXCEPT ![k].stack = Tail(stack)]
      BY <1>3, <2>4 DEF ReturnFalse
    <3>2. Tail(stack) \in Seq(SUBSET Roles) /\ Tail(stack) # <<>>
      BY <2>1, <2>4, PendingOfReturn
    <3> HIDE DEF stack
    <3> QED
      BY <2>1, <2>2, <3>1, <3>2, GoOnTypes
  <2> QED
    BY <2>3, <2>4
<1> QED
  BY <1>1, <1>2, <1>3 DEF CheckStep

\* Every step keeps the types.
LEMMA TypeStep ==
  ASSUME TypeOK, [Next]_vars
  PROVE  TypeOK'
<1>1. ASSUME NEW k \in Checkers,
             \/ \E u \in Users, asked \in Requests : StartCheck(k, u, asked)
             \/ CheckStep(k)
      PROVE  TypeOK'
  BY <1>1, CheckTypes
<1>2. CASE Administer
  <2>1. ASSUME NEW u \in AdminUsers, NEW names \in SUBSET AdminRoles,
               NEW super \in SuperFlags, AddUser(u, names, super)
        PROVE  TypeOK'
    BY <1>2, <2>1, AdminAssumption
       DEF Administer, AddUser, User, UserType, TypeOK, Busy
  <2>2. ASSUME NEW r \in AdminRoles,
               \/ \E super \in SuperFlags : CreateRole(r, super)
               \/ \E g \in AdminGrants : Grant(r, g) \/ Revoke(r, g)
               \/ \E p \in AdminParents : Inherit(r, p) \/ Disinherit(r, p)
        PROVE  TypeOK'
    <3>1. /\ users' \in [Users -> UserType]
          /\ roles' \in [Roles -> RoleType]
          /\ \A x \in Roles : ~roles'[x].known => roles'[x] = NoRole
          /\ checks' \in [Checkers -> CheckType]
          /\ \A k \in Checkers : Busy(k)' <=> checks'[k].stack # <<>>
      <4>1. \/ \E super \in BOOLEAN : CreateRole(r, super)
            \/ \E g \in Permits : Grant(r, g) \/ Revoke(r, g)
            \/ \E p \in Roles : Inherit(r, p) \/ Disinherit(r, p)
        BY <2>2, AdminAssumption
      <4>2. r \in Roles
        BY AdminAssumption
      <4> QED
        BY <4>1, <4>2, ChangeTypes
    <3> QED
      BY <1>2, <3>1 DEF Administer, TypeOK
  <2> QED
    BY <1>2, <2>1, <2>2 DEF Administer
<1>3. ASSUME NEW c \in Callers, CallPredefined(c)
      PROVE  TypeOK'
  <2>1. PredefinedSteps \in Seq(Steps)
    BY DEF PredefinedSteps, Steps, Creation, Granting, PredefinedRoles, Permissions
  <2> QED
    BY <1>3, <2>1 DEF CallPredefined, TypeOK, Busy
<1>4. ASSUME NEW c \in Callers, PredefinedStep(c)
      PROVE  TypeOK'
  <2> DEFINE step == Head(setup[c])
  <2>1. /\ setup[c] \in Seq(Steps) /\ setup[c] # <<>>
        /\ step \in Steps /\ Tail(setup[c]) \in Seq(Steps)
    BY <1>4, HeadTailProperties DEF PredefinedStep, TypeOK
  <2>2. step.role \in Roles
    BY <2>1, NameAssumption DEF Steps
  <2>3. \/ \E super \in BOOLEAN : CreateRole(step.role, super)
        \/ \E g \in Permits : Grant(step.role, g) \/ Revoke(step.role, g)
        \/ \E p \in Roles : Inherit(step.role, p) \/ Disinherit(step.role, p)
    <3>1. CASE step.perm = "none"
      BY <1>4, <3>1 DEF PredefinedStep
    <3>2. CASE step.perm # "none"
      <4>1. Permit(step.perm, AllResources) \in Permits
        BY <2>1, <3>2 DEF Steps, Permit, Permits, Resources
      <4> QED
        BY <1>4, <3>2, <4>1 DEF PredefinedStep
    <3> QED
      BY <3>1, <3>2
  <2>4. /\ users' \in [Users -> UserType]
        /\ roles' \in [Roles -> RoleType]
        /\ \A x \in Roles : ~roles'[x].known => roles'[x] = NoRole
        /\ checks' \in [Checkers -> CheckType]
        /\ \A k \in Checkers : Busy(k)' <=> checks'[k].stack # <<>>
    BY <2>2, <2>3, ChangeTypes
  <2>5. setup' \in [Callers -> Seq(Steps)] /\ wasSetup' \in BOOLEAN
    BY <1>4, <2>1 DEF PredefinedStep, TypeOK
  <2> QED
    BY <1>4, <2>4, <2>5 DEF PredefinedStep, TypeOK
<1>5. ASSUME NEW b \in Scanners, StartScan(b) \/ ScanStep(b)
      PROVE  TypeOK'
  <2>1. scans[b] \in ScanType
    BY DEF TypeOK
  <2> USE DEF TypeOK, ScanType, Busy
  <2>2. CASE StartScan(b)
    BY <2>1, <2>2 DEF StartScan
  <2>3. CASE DelegateRoles(b)
    <3>1. crashed' \in BOOLEAN
      BY <2>3 DEF DelegateRoles
    <3>2. /\ scans' = [scans EXCEPT ![b].calls = scans[b].calls + 1]
          /\ UNCHANGED <<users, roles, checks, setup, wasSetup>>
      BY <2>3, Zenon DEF DelegateRoles
    <3>3. scans' \in [Scanners -> ScanType]
      <4> DEFINE n == scans[b].calls + 1
                 scan == [scans[b] EXCEPT !.calls = n]
      <4>0. n \in Nat
        BY <2>1
      <4> HIDE DEF n
      <4>1. scan \in ScanType
        BY <2>1, <4>0
      <4>2. scans' = [scans EXCEPT ![b] = scan]
        BY <3>2 DEF n
      <4> HIDE DEF scan
      <4> QED
        BY <4>1, <4>2
    <3> QED
      BY <3>1, <3>2, <3>3
  <2>4. CASE ListRoles(b)
    BY <2>1, <2>4 DEF ListRoles, Listed
  <2>5. ASSUME NEW r \in Roles, ScanRole(b, r)
        PROVE  TypeOK'
    BY <2>1, <2>5 DEF ScanRole
  <2>6. CASE FinishScan(b)
    BY <2>1, <2>6 DEF FinishScan, NotScanning
  <2> QED
    BY <1>5, <2>2, <2>3, <2>4, <2>5, <2>6 DEF ScanStep
<1>6. CASE UNCHANGED vars
  BY <1>6 DEF vars, TypeOK, Busy
<1> QED
  BY <1>1, <1>2, <1>3, <1>4, <1>5, <1>6 DEF Next

\* The variables of AuthManager and of the tasks that use it keep their types,
\* whatever users, roles, resources and tasks there are.
THEOREM RolesTypeCorrect == Spec => []TypeOK
<1>1. Init => TypeOK
  <2> SUFFICES ASSUME Init PROVE TypeOK
    OBVIOUS
  <2>1. User({"postgres"}, TRUE) \in UserType /\ NoUser \in UserType
    BY NameAssumption DEF User, NoUser, UserType
  <2>2. /\ Role(TRUE, {Permit("All", AllResources)}, {}) \in RoleType
        /\ NoRole \in RoleType
        /\ Role(TRUE, {Permit("All", AllResources)}, {}).known
    BY DEF Role, NoRole, RoleType, Permits, Permit, Permissions, Resources
  <2>3. Idle \in CheckType /\ Idle.stack = <<>> /\ Idle.state = "idle"
    BY NameAssumption DEF Idle, CheckType, Permits, Permit, Permissions, Resources
  <2>4. NotScanning \in ScanType
    BY DEF NotScanning, ScanType
  <2>5. roles \in [Roles -> RoleType] /\ \A r \in Roles : ~roles[r].known => roles[r] = NoRole
    BY <2>2 DEF Init
  <2>6. checks \in [Checkers -> CheckType]
        /\ \A k \in Checkers : Busy(k) <=> checks[k].stack # <<>>
    BY <2>3 DEF Init, Busy
  <2>7. users \in [Users -> UserType]
    BY <2>1 DEF Init
  <2>8. setup \in [Callers -> Seq(Steps)]
    <3>1. <<>> \in Seq(Steps)
      OBVIOUS
    <3> QED
      BY <3>1 DEF Init
  <2>9. scans \in [Scanners -> ScanType] /\ wasSetup \in BOOLEAN /\ crashed \in BOOLEAN
    BY <2>4 DEF Init
  <2> QED
    BY <2>5, <2>6, <2>7, <2>8, <2>9 DEF TypeOK
<1> QED
  BY <1>1, TypeStep, PTL DEF Spec

-----------------------------------------------------------------------------
(* The invariant *)

\* What CheckInv says of one check.
Sound(k) ==
  /\ ~checks[k].shrunk => Pending(k) \subseteq Reach(checks[k].roles)
  /\ ~checks[k].shrunk /\ checks[k].held => HeldFrom(Pending(k), checks[k].asked)
  /\ ~checks[k].grown /\ HeldFrom(Pending(k), checks[k].asked) => checks[k].held

\* What is reached and held depends on the roles only.
LEMMA SameRoles ==
  ASSUME UNCHANGED roles, NEW S, NEW asked
  PROVE  Reach(S)' = Reach(S) /\ (HeldFrom(S, asked)' <=> HeldFrom(S, asked))
BY DEF Reach, Closed, HeldFrom, Grants

\* A check that nothing happens to stays sound.
LEMMA SameCheck ==
  ASSUME UNCHANGED roles, NEW k \in Checkers, checks'[k] = checks[k],
         Busy(k) => Sound(k)
  PROVE  Busy(k)' => Sound(k)'
<1>1. Pending(k)' = Pending(k)
  BY DEF Pending
<1> QED
  BY <1>1 DEF Busy, Sound, Reach, Closed, HeldFrom, Grants

\* A visit to a role that does not grant the request changes what is left to
\* visit, but not what can be found there.
LEMMA VisitKeepsHeld ==
  ASSUME TypeOK, NEW P \in SUBSET Roles, NEW Q \in SUBSET Roles,
         NEW r \in P, NEW asked, ~Grants(r, asked),
         P \subseteq Q \union {r}, roles[r].inherits \subseteq Q,
         Q \subseteq P \union roles[r].inherits
  PROVE  /\ HeldFrom(P, asked) <=> HeldFrom(Q, asked)
         /\ Reach(Q) \subseteq Reach(P)
<1>1. P \subseteq Reach(P) /\ Closed(Reach(P)) /\ Reach(P) \in SUBSET Roles
  BY ReachBase, ReachClosed
<1>2. Q \subseteq Reach(Q) /\ Closed(Reach(Q)) /\ Reach(Q) \in SUBSET Roles
  BY ReachBase, ReachClosed
<1>3. Reach(Q) \subseteq Reach(P)
  <2>1. Q \subseteq Reach(P)
    BY <1>1 DEF Closed
  <2> QED
    BY <1>1, <2>1, ReachLeast
<1>4. Reach(P) \subseteq Reach(Q) \union {r}
  <2>1. Closed(Reach(Q) \union {r})
    BY <1>2 DEF Closed
  <2>2. P \subseteq Reach(Q) \union {r} /\ Reach(Q) \union {r} \in SUBSET Roles
    BY <1>2
  <2> QED
    BY <2>1, <2>2, ReachLeast
<1> QED
  BY <1>3, <1>4 DEF HeldFrom

\* What is left to visit, before and after a visit.
LEMMA VisitPending ==
  ASSUME TypeOK, NEW k \in Checkers, NEW r \in Roles, VisitRole(k, r),
         checks' = [checks EXCEPT ![k].stack =
           <<roles[r].inherits, Head(checks[k].stack) \ {r}>> \o Tail(checks[k].stack)]
  PROVE  /\ r \in Pending(k)
         /\ Pending(k) \subseteq Pending(k)' \union {r}
         /\ roles[r].inherits \subseteq Pending(k)'
         /\ Pending(k)' \subseteq Pending(k) \union roles[r].inherits
<1>1. /\ checks[k].stack \in Seq(SUBSET Roles) /\ checks[k].stack # <<>>
      /\ r \in Head(checks[k].stack)
      /\ roles[r].inherits \in SUBSET Roles /\ checks[k] \in CheckType
      /\ checks \in [Checkers -> CheckType]
  BY DEF TypeOK, VisitRole, CheckType, RoleType
<1>2. PICK stack \in Seq(SUBSET Roles), inner \in SUBSET Roles :
        stack = checks[k].stack /\ inner = roles[r].inherits
  BY <1>1
<1> DEFINE deeper == Deeper(stack, r, inner)
<1>3. checks'[k].stack = deeper
  BY <1>1, <1>2 DEF CheckType, Deeper
<1>4. Pending(k)' = Flat(deeper) /\ Pending(k) = Flat(stack)
  BY <1>2, <1>3, Zenon DEF Pending, Flat
<1>5. /\ r \in Flat(stack)
      /\ Flat(stack) \subseteq Flat(deeper) \union {r}
      /\ inner \subseteq Flat(deeper)
      /\ Flat(deeper) \subseteq Flat(stack) \union inner
  <2>1. stack # <<>> /\ r \in Head(stack)
    BY <1>1, <1>2
  <2> QED
    BY <2>1, PendingOfVisit
<1> QED
  BY <1>2, <1>4, <1>5, Zenon

\* A visit keeps the check sound, and answers yes only if the permission is
\* held.
LEMMA VisitSound ==
  ASSUME TypeOK, NEW k \in Checkers, NEW r \in Roles, VisitRole(k, r), Sound(k)
  PROVE  /\ Busy(k)' => Sound(k)'
         /\ checks'[k].state = "yes" =>
              /\ ~checks[k].shrunk => HeldFrom(checks[k].roles, checks[k].asked)
              /\ ~checks[k].grown => checks[k].held
         /\ checks'[k].state # "no"
<1>0. checks[k] \in CheckType
  BY DEF TypeOK
<1> PICK P \in SUBSET Roles, S \in SUBSET Roles, asked \in Permits :
           P = Pending(k) /\ S = checks[k].roles /\ asked = checks[k].asked
  BY <1>0 DEF CheckType, Pending
<1>1. /\ checks \in [Checkers -> CheckType] /\ checks[k] \in CheckType
      /\ P \in SUBSET Roles /\ S \in SUBSET Roles /\ Busy(k) /\ UNCHANGED roles
  BY DEF TypeOK, CheckType, Pending, VisitRole
<1>2. CASE Conclude(k, "yes") /\ Grants(r, asked)
  <2>1. checks'[k].state = "yes"
    BY <1>1, <1>2 DEF Conclude, CheckType
  <2>2. r \in P
    <3>1. /\ checks[k].stack \in Seq(SUBSET Roles) /\ checks[k].stack # <<>>
          /\ r \in Head(checks[k].stack)
      BY DEF TypeOK, VisitRole, CheckType
    <3>2. 1 \in DOMAIN checks[k].stack /\ Head(checks[k].stack) = checks[k].stack[1]
      BY <3>1, EmptySeq, LenProperties
    <3> QED
      BY <3>1, <3>2 DEF Pending
  <2>3. HeldFrom(P, asked)
    BY <1>1, <1>2, <2>2, ReachBase DEF HeldFrom
  <2>4. ~checks[k].shrunk => HeldFrom(S, asked)
    <3>1. SUFFICES ASSUME ~checks[k].shrunk PROVE HeldFrom(S, asked)
      OBVIOUS
    <3>2. P \subseteq Reach(S)
      BY <3>1 DEF Sound
    <3> QED
      BY <1>1, <2>3, <3>2, HeldMono
  <2>5. ~checks[k].grown => checks[k].held
    BY <2>3 DEF Sound
  <2>6. ~Busy(k)' /\ checks'[k].state # "no"
    BY <2>1 DEF Busy
  <2> QED
    BY <2>4, <2>5, <2>6
<1>3. CASE /\ ~Grants(r, asked)
           /\ checks' = [checks EXCEPT ![k].stack =
                <<roles[r].inherits, Head(checks[k].stack) \ {r}>> \o Tail(checks[k].stack)]
  <2>1. /\ checks'[k].state = "busy" /\ checks'[k].roles = S
        /\ checks'[k].asked = asked /\ checks'[k].held = checks[k].held
        /\ checks'[k].grown = checks[k].grown /\ checks'[k].shrunk = checks[k].shrunk
    BY <1>1, <1>3 DEF CheckType, Busy
  <2>2. PICK Q \in SUBSET Roles : Q = Pending(k)'
    BY DEF Pending
  <2>3. /\ r \in P /\ P \subseteq Q \union {r} /\ roles[r].inherits \subseteq Q
        /\ Q \subseteq P \union roles[r].inherits
    BY <1>3, <2>2, VisitPending
  <2>4. (HeldFrom(P, asked) <=> HeldFrom(Q, asked)) /\ Reach(Q) \subseteq Reach(P)
    <3>1. ~Grants(r, asked)
      BY <1>3
    <3>2. r \in P /\ P \subseteq Q \union {r} /\ roles[r].inherits \subseteq Q
      BY <2>3
    <3>3. Q \subseteq P \union roles[r].inherits
      BY <2>3
    <3> QED
      BY <3>1, <3>2, <3>3, VisitKeepsHeld
  <2>5. P \subseteq Reach(S) => Q \subseteq Reach(S)
    <3>1. Closed(Reach(S))
      BY <1>1, ReachClosed
    <3> QED
      BY <2>3, <3>1 DEF Closed
  <2>6. /\ ~checks[k].shrunk => Q \subseteq Reach(S)
        /\ ~checks[k].shrunk /\ checks[k].held => HeldFrom(Q, asked)
        /\ ~checks[k].grown /\ HeldFrom(Q, asked) => checks[k].held
    BY <2>4, <2>5 DEF Sound
  <2>7. Reach(S)' = Reach(S) /\ (HeldFrom(Q, asked)' <=> HeldFrom(Q, asked))
    BY <1>1, SameRoles
  <2>8. Sound(k)'
    BY <2>1, <2>2, <2>6, <2>7 DEF Sound
  <2> QED
    BY <2>1, <2>8
<1> QED
  BY <1>2, <1>3 DEF VisitRole, Inherited, Left

\* A call that returns keeps the check sound, and answers no only if the
\* permission was not held.
LEMMA ReturnSound ==
  ASSUME TypeOK, NEW k \in Checkers, ReturnFalse(k), Sound(k)
  PROVE  /\ Busy(k)' => Sound(k)'
         /\ checks'[k].state = "no" => (~checks[k].shrunk => ~checks[k].held)
         /\ checks'[k].state # "yes"
<1>0. /\ checks \in [Checkers -> CheckType] /\ checks[k] \in CheckType
      /\ Busy(k) /\ UNCHANGED roles
  BY DEF TypeOK, ReturnFalse
<1>1. PICK stack \in Seq(SUBSET Roles), S \in SUBSET Roles, asked \in Permits :
        /\ stack = checks[k].stack /\ S = checks[k].roles /\ asked = checks[k].asked
        /\ stack # <<>> /\ Head(stack) = {}
  BY <1>0 DEF CheckType, TypeOK, ReturnFalse
<1>2. Pending(k) = Flat(stack)
  BY <1>1 DEF Pending, Flat
<1>3. CASE Len(stack) = 1
  <2>1. checks'[k].state = "no"
    BY <1>1, <1>3, ConcludeTypes DEF ReturnFalse
  <2>2. ~HeldFrom(Pending(k), asked)
    BY <1>1, <1>2, <1>3, PendingOfReturn, HeldFromNone
  <2>3. ~checks[k].shrunk => ~checks[k].held
    BY <1>1, <2>2 DEF Sound
  <2> QED
    BY <2>1, <2>3 DEF Busy
<1>4. CASE Len(stack) # 1
  <2>1. checks' = [checks EXCEPT ![k].stack = Tail(stack)]
    BY <1>1, <1>4 DEF ReturnFalse
  <2>2. /\ checks'[k].state = "busy" /\ checks'[k].roles = S
        /\ checks'[k].asked = asked /\ checks'[k].held = checks[k].held
        /\ checks'[k].grown = checks[k].grown /\ checks'[k].shrunk = checks[k].shrunk
        /\ checks'[k].stack = Tail(stack)
    BY <1>0, <1>1, <2>1 DEF CheckType, Busy
  <2>3. PICK P \in SUBSET Roles : P = Flat(stack)
    BY DEF Flat
  <2>4. Flat(Tail(stack)) = Flat(stack)
    BY <1>1, <1>4, PendingOfReturn
  <2>5. Pending(k)' = P
    BY <2>2, <2>3, <2>4, Zenon DEF Pending, Flat
  <2>6. Reach(S)' = Reach(S) /\ (HeldFrom(P, asked)' <=> HeldFrom(P, asked))
    BY <1>0, SameRoles
  <2>7. Sound(k)'
    BY <1>1, <1>2, <2>2, <2>3, <2>5, <2>6 DEF Sound
  <2> QED
    BY <2>2, <2>7
<1> QED
  BY <1>3, <1>4

\* A change that is noted keeps every check sound.
LEMMA NoteSound ==
  ASSUME TypeOK, CheckInv, NEW grown \in BOOLEAN, NEW shrunk \in BOOLEAN,
         Note(grown, shrunk), grown \/ Losing, shrunk \/ Gaining
  PROVE  CheckInv'
<1> SUFFICES ASSUME NEW k \in Checkers, Busy(k)'
             PROVE  Sound(k)'
  BY DEF CheckInv, Sound
<1>1. /\ Busy(k)
      /\ checks'[k].stack = checks[k].stack /\ checks'[k].roles = checks[k].roles
      /\ checks'[k].asked = checks[k].asked /\ checks'[k].held = checks[k].held
      /\ checks'[k].grown = (checks[k].grown \/ grown)
      /\ checks'[k].shrunk = (checks[k].shrunk \/ shrunk)
  BY NoteTypes
<1>2. Sound(k)
  BY <1>1 DEF CheckInv, Sound
<1>3. PICK P \in SUBSET Roles, S \in SUBSET Roles, asked \in Permits :
        P = Pending(k) /\ S = checks[k].roles /\ asked = checks[k].asked
  BY DEF Pending, TypeOK, CheckType
<1>4. Pending(k)' = P
  BY <1>1, <1>3 DEF Pending
<1>5. ~shrunk => /\ Reach(S) \subseteq Reach(S)'
                 /\ HeldFrom(P, asked) => HeldFrom(P, asked)'
  BY GainingHolds
<1>6. ~grown => (HeldFrom(P, asked)' => HeldFrom(P, asked))
  BY LosingHolds
<1>7. /\ ~checks'[k].shrunk => ~checks[k].shrunk /\ ~shrunk
      /\ ~checks'[k].grown => ~checks[k].grown /\ ~grown
  BY <1>1
<1>8. ~checks'[k].shrunk => P \subseteq Reach(S)'
  BY <1>2, <1>3, <1>5, <1>7 DEF Sound
<1>9. ~checks'[k].shrunk /\ checks'[k].held => HeldFrom(P, asked)'
  BY <1>1, <1>2, <1>3, <1>5, <1>7 DEF Sound
<1>10. ~checks'[k].grown /\ HeldFrom(P, asked)' => checks'[k].held
  BY <1>1, <1>2, <1>3, <1>6, <1>7 DEF Sound
<1> QED
  BY <1>1, <1>3, <1>4, <1>8, <1>9, <1>10 DEF Sound

\* So does every change of the roles.
LEMMA ChangeSound ==
  ASSUME TypeOK, CheckInv, NEW r \in Roles,
         \/ \E super \in BOOLEAN : CreateRole(r, super)
         \/ \E g \in Permits : Grant(r, g) \/ Revoke(r, g)
         \/ \E p \in Roles : Inherit(r, p) \/ Disinherit(r, p)
  PROVE  CheckInv'
<1>0. roles \in [Roles -> RoleType] /\ roles[r] \in RoleType
  BY DEF TypeOK
<1>1. ASSUME NEW super \in BOOLEAN, CreateRole(r, super)
      PROVE  CheckInv'
  <2>1. CASE super
    BY <1>1, <2>1, NoteSound DEF CreateRole
  <2>2. CASE ~super
    <3>1. /\ roles'[r].inherits = {} /\ roles'[r].grants = {} /\ ~roles'[r].super
          /\ \A x \in Roles \ {r} : roles'[x] = roles[x]
      BY <1>0, <1>1, <2>2 DEF CreateRole, Role
    <3>2. \A x \in Roles : roles'[x].inherits \subseteq roles[x].inherits
      BY <3>1
    <3>3. \A x \in Roles : \A asked : Grants(x, asked)' => Grants(x, asked)
      BY <3>1 DEF Grants
    <3>4. Losing
      BY <3>2, <3>3 DEF Losing
    <3> QED
      BY <1>1, <3>4, NoteSound DEF CreateRole
  <2> QED
    BY <2>1, <2>2
<1>2. ASSUME NEW g \in Permits, Grant(r, g)
      PROVE  CheckInv'
  <2>1. /\ roles'[r] = [roles[r] EXCEPT !.grants = @ \union {g}]
        /\ \A x \in Roles \ {r} : roles'[x] = roles[x]
    BY <1>0, <1>2 DEF Grant
  <2>2. /\ roles'[r].known = roles[r].known /\ roles'[r].super = roles[r].super
        /\ roles'[r].inherits = roles[r].inherits
        /\ roles[r].grants \subseteq roles'[r].grants
    BY <1>0, <2>1 DEF RoleType
  <2>3. Gaining
    BY <2>1, <2>2 DEF Gaining, Grants
  <2> QED
    BY <1>2, <2>3, NoteSound DEF Grant
<1>3. ASSUME NEW g \in Permits, Revoke(r, g)
      PROVE  CheckInv'
  <2>1. /\ roles'[r] = [roles[r] EXCEPT !.grants = @ \ {g}]
        /\ \A x \in Roles \ {r} : roles'[x] = roles[x]
    BY <1>0, <1>3 DEF Revoke
  <2>2. /\ roles'[r].known = roles[r].known /\ roles'[r].super = roles[r].super
        /\ roles'[r].inherits = roles[r].inherits
        /\ roles'[r].grants \subseteq roles[r].grants
    BY <1>0, <2>1 DEF RoleType
  <2>3. Losing
    BY <2>1, <2>2 DEF Losing, Grants
  <2> QED
    BY <1>3, <2>3, NoteSound DEF Revoke
<1>4. ASSUME NEW p \in Roles, Inherit(r, p)
      PROVE  CheckInv'
  <2>1. /\ roles'[r] = [roles[r] EXCEPT !.inherits = @ \union {p}]
        /\ \A x \in Roles \ {r} : roles'[x] = roles[x]
    BY <1>0, <1>4 DEF Inherit
  <2>2. /\ roles'[r].known = roles[r].known /\ roles'[r].super = roles[r].super
        /\ roles[r].inherits \subseteq roles'[r].inherits
        /\ roles'[r].grants = roles[r].grants
    BY <1>0, <2>1 DEF RoleType
  <2>3. Gaining
    BY <2>1, <2>2 DEF Gaining, Grants
  <2> QED
    BY <1>4, <2>3, NoteSound DEF Inherit
<1>5. ASSUME NEW p \in Roles, Disinherit(r, p)
      PROVE  CheckInv'
  <2>1. /\ roles'[r] = [roles[r] EXCEPT !.inherits = @ \ {p}]
        /\ \A x \in Roles \ {r} : roles'[x] = roles[x]
    BY <1>0, <1>5 DEF Disinherit
  <2>2. /\ roles'[r].known = roles[r].known /\ roles'[r].super = roles[r].super
        /\ roles'[r].inherits \subseteq roles[r].inherits
        /\ roles'[r].grants = roles[r].grants
    BY <1>0, <2>1 DEF RoleType
  <2>3. Losing
    BY <2>1, <2>2 DEF Losing, Grants
  <2> QED
    BY <1>5, <2>3, NoteSound DEF Disinherit
<1> QED
  BY <1>1, <1>2, <1>3, <1>4, <1>5

\* A check that begins is sound.
LEMMA StartSound ==
  ASSUME TypeOK, NEW k \in Checkers, NEW u \in Users, NEW asked \in Permits,
         StartCheck(k, u, asked)
  PROVE  Busy(k)' => Sound(k)'
<1> SUFFICES ASSUME Busy(k)' PROVE Sound(k)'
  OBVIOUS
<1>1. PICK names \in SUBSET Roles : names = users[u].roles
  BY DEF TypeOK, UserType
<1>2. users[u].known /\ ~users[u].super
  <2>1. ~Conclude(k, "yes") /\ ~Conclude(k, "no")
    BY ConcludeTypes DEF Busy
  <2> QED
    BY <2>1 DEF StartCheck
<1>3. /\ checks'[k].stack = <<names>> /\ checks'[k].roles = names
      /\ checks'[k].asked = asked
      /\ checks'[k].held = HeldFrom(names, asked)
      /\ UNCHANGED roles
  <2> DEFINE held == HeldFrom(names, asked)
             check == [Idle EXCEPT !.state = "busy", !.roles = names, !.asked = asked,
                                   !.stack = <<names>>, !.held = held]
  <2>1. checks' = [checks EXCEPT ![k] = check] /\ UNCHANGED roles
    BY <1>1, <1>2 DEF StartCheck
  <2> HIDE DEF held
  <2>2. /\ check.stack = <<names>> /\ check.roles = names
        /\ check.asked = asked /\ check.held = held
    BY DEF Idle
  <2> HIDE DEF check
  <2>3. checks'[k] = check
    BY <2>1 DEF TypeOK
  <2> QED
    BY <2>1, <2>2, <2>3 DEF held
<1>4. Pending(k)' = names
  BY <1>3 DEF Pending
<1>5. names \subseteq Reach(names)'
  BY <1>3, ReachBase, SameRoles
<1>6. HeldFrom(names, asked)' <=> checks'[k].held
  BY <1>3, SameRoles
<1> QED
  BY <1>3, <1>4, <1>5, <1>6 DEF Sound

\* Every step keeps the invariant.
LEMMA CheckInvStep ==
  ASSUME TypeOK, CheckInv, [Next]_vars
  PROVE  CheckInv'
<1>1. ASSUME NEW k \in Checkers, NEW u \in Users, NEW asked \in Requests,
             StartCheck(k, u, asked)
      PROVE  CheckInv'
  <2>1. Busy(k)' => Sound(k)'
    BY <1>1, RequestTypes, StartSound
  <2>2. ASSUME NEW x \in Checkers, x # k
        PROVE  Busy(x)' => Sound(x)'
    <3>1. UNCHANGED roles /\ checks'[x] = checks[x] /\ (Busy(x) => Sound(x))
      BY <1>1, <2>2, StartLocal DEF CheckInv, Sound
    <3> QED
      BY <3>1, SameCheck
  <2> QED
    BY <2>1, <2>2 DEF CheckInv, Sound
<1>2. ASSUME NEW k \in Checkers, CheckStep(k)
      PROVE  CheckInv'
  <2>1. Busy(k) /\ Sound(k)
    BY <1>2 DEF CheckStep, VisitRole, ReturnFalse, CheckInv, Sound
  <2>2. Busy(k)' => Sound(k)'
    BY <1>2, <2>1, VisitSound, ReturnSound DEF CheckStep
  <2>3. ASSUME NEW x \in Checkers, x # k
        PROVE  Busy(x)' => Sound(x)'
    <3>1. UNCHANGED roles /\ checks'[x] = checks[x] /\ (Busy(x) => Sound(x))
      BY <1>2, <2>3 DEF CheckStep, VisitRole, ReturnFalse, Conclude, CheckInv, Sound, TypeOK
    <3> QED
      BY <3>1, SameCheck
  <2> QED
    BY <2>2, <2>3 DEF CheckInv, Sound
<1>3. ASSUME UNCHANGED <<roles, checks>>
      PROVE  CheckInv'
  <2>1. ASSUME NEW k \in Checkers
        PROVE  Busy(k)' => Sound(k)'
    <3>1. UNCHANGED roles /\ checks'[k] = checks[k] /\ (Busy(k) => Sound(k))
      BY <1>3 DEF CheckInv, Sound
    <3> QED
      BY <3>1, SameCheck
  <2> QED
    BY <2>1 DEF CheckInv, Sound
<1>4. CASE Administer
  <2>1. ASSUME NEW r \in AdminRoles,
               \/ \E super \in SuperFlags : CreateRole(r, super)
               \/ \E g \in AdminGrants : Grant(r, g) \/ Revoke(r, g)
               \/ \E p \in AdminParents : Inherit(r, p) \/ Disinherit(r, p)
        PROVE  CheckInv'
    <3>1. \/ \E super \in BOOLEAN : CreateRole(r, super)
          \/ \E g \in Permits : Grant(r, g) \/ Revoke(r, g)
          \/ \E p \in Roles : Inherit(r, p) \/ Disinherit(r, p)
      BY <2>1, AdminAssumption
    <3>2. r \in Roles
      BY AdminAssumption
    <3> QED
      BY <3>1, <3>2, ChangeSound
  <2> QED
    BY <1>3, <1>4, <2>1 DEF Administer, AddUser
<1>5. ASSUME NEW c \in Callers, PredefinedStep(c)
      PROVE  CheckInv'
  <2> DEFINE step == Head(setup[c])
  <2>1. step \in Steps
    BY <1>5, HeadTailProperties DEF PredefinedStep, TypeOK
  <2>2. step.role \in Roles
    BY <2>1, NameAssumption DEF Steps
  <2>3. \/ \E super \in BOOLEAN : CreateRole(step.role, super)
        \/ \E g \in Permits : Grant(step.role, g) \/ Revoke(step.role, g)
        \/ \E p \in Roles : Inherit(step.role, p) \/ Disinherit(step.role, p)
    <3>1. CASE step.perm = "none"
      BY <1>5, <3>1 DEF PredefinedStep
    <3>2. CASE step.perm # "none"
      <4>1. Permit(step.perm, AllResources) \in Permits
        BY <2>1, <3>2 DEF Steps, Permit, Permits, Resources
      <4> QED
        BY <1>5, <3>2, <4>1 DEF PredefinedStep
    <3> QED
      BY <3>1, <3>2
  <2> QED
    BY <2>2, <2>3, ChangeSound
<1>6. ASSUME NEW c \in Callers, CallPredefined(c)
      PROVE  CheckInv'
  BY <1>3, <1>6 DEF CallPredefined
<1>7. ASSUME NEW b \in Scanners, StartScan(b) \/ ScanStep(b)
      PROVE  CheckInv'
  BY <1>3, <1>7 DEF StartScan, ScanStep, DelegateRoles, ListRoles, ScanRole, FinishScan
<1>8. CASE UNCHANGED vars
  BY <1>3, <1>8 DEF vars
<1> QED
  BY <1>1, <1>2, <1>4, <1>5, <1>6, <1>7, <1>8 DEF Next

\* What a check has left to visit is reachable from the user's roles and decides
\* its answer, for as long as the roles do not change against it.
THEOREM ChecksSound == Spec => []CheckInv
<1>1. Init => CheckInv
  BY DEF Init, CheckInv, Busy, Idle
<1> QED
  BY <1>1, CheckInvStep, RolesTypeCorrect, PTL DEF Spec

-----------------------------------------------------------------------------
(* The answers *)

\* No step of another actor answers a check.
LEMMA OthersDoNotAnswer ==
  ASSUME TypeOK, [Next]_vars, NEW k \in Checkers, Busy(k), ~CheckStep(k)
  PROVE  checks'[k].state = "busy"
<1>0. checks[k].state = "busy"
  BY DEF Busy
<1>1. ASSUME NEW x \in Checkers, NEW u \in Users, NEW asked \in Requests,
             StartCheck(x, u, asked)
      PROVE  checks'[k].state = "busy"
  BY <1>0, <1>1, StartLocal
<1>2. ASSUME NEW x \in Checkers, CheckStep(x)
      PROVE  checks'[k].state = "busy"
  <2>1. x # k
    BY <1>2
  <2> QED
    BY <1>0, <1>2, <2>1 DEF CheckStep, VisitRole, ReturnFalse, Conclude, TypeOK
<1>3. ASSUME NEW grown \in BOOLEAN, NEW shrunk \in BOOLEAN, Note(grown, shrunk)
      PROVE  checks'[k].state = "busy"
  BY <1>0, <1>3, NoteTypes
<1>4. ASSUME NEW r, NEW super \in BOOLEAN, CreateRole(r, super)
      PROVE  checks'[k].state = "busy"
  BY <1>3, <1>4 DEF CreateRole
<1>5. ASSUME NEW r, NEW g, Grant(r, g) \/ Revoke(r, g) \/ Inherit(r, g) \/ Disinherit(r, g)
      PROVE  checks'[k].state = "busy"
  BY <1>3, <1>5 DEF Grant, Revoke, Inherit, Disinherit
<1>6. ASSUME UNCHANGED checks
      PROVE  checks'[k].state = "busy"
  BY <1>0, <1>6
<1>7. CASE Administer
  BY <1>4, <1>5, <1>6, <1>7, AdminAssumption DEF Administer, AddUser
<1>8. ASSUME NEW c \in Callers, CallPredefined(c) \/ PredefinedStep(c)
      PROVE  checks'[k].state = "busy"
  BY <1>4, <1>5, <1>6, <1>8 DEF CallPredefined, PredefinedStep
<1>9. ASSUME NEW b \in Scanners, StartScan(b) \/ ScanStep(b)
      PROVE  checks'[k].state = "busy"
  BY <1>6, <1>9 DEF StartScan, ScanStep, DelegateRoles, ListRoles, ScanRole, FinishScan
<1> QED
  BY <1>1, <1>2, <1>6, <1>7, <1>8, <1>9 DEF Next, vars

\* A permission check answers right, whatever users, roles, grants and
\* inheritance there are and whatever is changed between two of its visits.
THEOREM AnswersRight == Spec => AnswersAreRight
<1>1. ASSUME TypeOK, CheckInv, [Next]_vars
      PROVE  \A k \in Checkers :
               LET check == checks[k]
                   answer == checks'[k].state
               IN Busy(k) =>
                    /\ answer = "yes" /\ ~check.shrunk => HeldFrom(check.roles, check.asked)
                    /\ answer = "yes" /\ ~check.grown => check.held
                    /\ answer = "no" /\ ~check.shrunk => ~check.held
  <2> SUFFICES ASSUME NEW k \in Checkers, Busy(k)
               PROVE  /\ checks'[k].state = "yes" /\ ~checks[k].shrunk =>
                           HeldFrom(checks[k].roles, checks[k].asked)
                      /\ checks'[k].state = "yes" /\ ~checks[k].grown => checks[k].held
                      /\ checks'[k].state = "no" /\ ~checks[k].shrunk => ~checks[k].held
    OBVIOUS
  <2>1. Sound(k)
    BY <1>1 DEF CheckInv, Sound
  <2>2. CASE CheckStep(k)
    BY <1>1, <2>1, <2>2, VisitSound, ReturnSound DEF CheckStep
  <2>3. CASE ~CheckStep(k)
    BY <1>1, <2>3, OthersDoNotAnswer
  <2> QED
    BY <2>2, <2>3
<1> QED
  BY <1>1, RolesTypeCorrect, ChecksSound, PTL DEF Spec, AnswersAreRight

-----------------------------------------------------------------------------
(* Predefined roles *)

\* What a caller has left after its first j steps.
Rest(j) == [i \in 1 .. 9 - j |-> PredefinedSteps[i + j]]
Waits(c, r, p) == \E i \in DOMAIN setup[c] : setup[c][i] = Granting(r, p)

LEMMA StepsShape ==
  /\ DOMAIN PredefinedSteps = 1 .. 9
  /\ \A j \in 1 .. 9 : PredefinedSteps[j] \in Steps
  /\ PredefinedSteps[9] = Granting("dbadmin", "All")
BY DEF PredefinedSteps, Steps, Granting, Creation, PredefinedRoles, Permissions

LEMMA GrantsFollow ==
  ASSUME NEW r \in PredefinedRoles, NEW g \in PredefinedGrants(r), NEW j \in 1 .. 9,
         PredefinedSteps[j] = Creation(r)
  PROVE  \E k \in j + 1 .. 9 : PredefinedSteps[k] = Granting(r, g.perm)
<1>1. CASE r = "readonly"
  <2>1. g.perm = "Select" /\ PredefinedSteps[2] = Granting(r, "Select")
    BY <1>1 DEF PredefinedGrants, PredefinedSteps, Permit
  <2>2. j = 1
    BY <1>1 DEF PredefinedSteps, Creation, Granting
  <2> QED BY <2>1, <2>2
<1>2. CASE r = "readwrite"
  <2>1. g.perm \in {"Select", "Insert", "Update", "Delete"}
    BY <1>2 DEF PredefinedGrants, Permit
  <2>2. /\ PredefinedSteps[4] = Granting(r, "Select") /\ PredefinedSteps[5] = Granting(r, "Insert")
        /\ PredefinedSteps[6] = Granting(r, "Update") /\ PredefinedSteps[7] = Granting(r, "Delete")
    BY <1>2 DEF PredefinedSteps
  <2>3. j = 3
    BY <1>2 DEF PredefinedSteps, Creation, Granting
  <2> QED BY <2>1, <2>2, <2>3
<1>3. CASE r = "dbadmin"
  <2>1. g.perm = "All" /\ PredefinedSteps[9] = Granting(r, "All")
    BY <1>3 DEF PredefinedGrants, PredefinedSteps, Permit
  <2>2. j = 8
    BY <1>3 DEF PredefinedSteps, Creation, Granting
  <2> QED BY <2>1, <2>2
<1> QED BY <1>1, <1>2, <1>3 DEF PredefinedRoles

\* A caller at its last step has created every role.
LEMMA CreatedFirst ==
  ASSUME NEW r \in PredefinedRoles
  PROVE  \E j \in 1 .. 8 : PredefinedSteps[j] = Creation(r)
BY DEF PredefinedRoles, PredefinedSteps

LEMMA MeantSteps ==
  ASSUME NEW j \in 1 .. 9
  PROVE  \/ PredefinedSteps[j] = Creation(PredefinedSteps[j].role)
         \/ /\ PredefinedSteps[j].perm # "none"
            /\ Permit(PredefinedSteps[j].perm, AllResources) \in PredefinedGrants(PredefinedSteps[j].role)
BY DEF PredefinedSteps, Creation, Granting, PredefinedGrants

LEMMA SeqOfFunction ==
  ASSUME NEW T, NEW n \in Nat, NEW s \in [1 .. n -> T]
  PROVE  s \in Seq(T) /\ Len(s) = n /\ DOMAIN s = 1 .. n /\ (n > 0 => s # <<>>)
OBVIOUS

LEMMA TailAsFunction ==
  ASSUME NEW T, NEW s \in Seq(T), s # <<>>
  PROVE  Head(s) = s[1] /\ Tail(s) = [i \in 1 .. Len(s) - 1 |-> s[i + 1]]
<1>1. /\ Tail(s) \in Seq(T) /\ Len(Tail(s)) = Len(s) - 1
      /\ \A i \in 1 .. Len(Tail(s)) : Tail(s)[i] = s[i + 1]
  BY HeadTailProperties
<1> DEFINE t == Tail(s)
           n == Len(s) - 1
<1>2. t \in Seq(T) /\ Len(t) = n /\ \A i \in 1 .. n : t[i] = s[i + 1]
  BY <1>1
<1> HIDE DEF t, n
<1>3. t = [i \in 1 .. n |-> t[i]]
  BY <1>2
<1>4. t = [i \in 1 .. n |-> s[i + 1]]
  BY <1>2, <1>3
<1>5. Head(s) = s[1]
  OBVIOUS
<1> QED BY <1>4, <1>5 DEF t, n

LEMMA RestSteps ==
  ASSUME NEW j \in 0 .. 8
  PROVE  /\ Rest(j) # <<>> /\ Len(Rest(j)) = 9 - j
         /\ Head(Rest(j)) = PredefinedSteps[j + 1]
         /\ Tail(Rest(j)) = Rest(j + 1)
         /\ \A i \in DOMAIN Rest(j) :
              \/ i = 1 /\ Rest(j)[i] = PredefinedSteps[j + 1]
              \/ i - 1 \in DOMAIN Rest(j + 1) /\ Rest(j)[i] = Rest(j + 1)[i - 1]
<1> DEFINE s == Rest(j)
           n == 9 - j
<1>1. n \in 1 .. 9
  OBVIOUS
<1>2. s \in [1 .. n -> Steps] /\ s = [i \in 1 .. n |-> PredefinedSteps[i + j]]
  BY StepsShape DEF Rest
<1>3. Rest(j + 1) = [i \in 1 .. n - 1 |-> PredefinedSteps[i + (j + 1)]]
  <2>1. 9 - (j + 1) = n - 1
    OBVIOUS
  <2> QED BY <2>1 DEF Rest
<1> HIDE DEF s, n
<1>4. s \in Seq(Steps) /\ Len(s) = n /\ DOMAIN s = 1 .. n /\ s # <<>>
  <2>1. n \in Nat /\ n > 0
    BY <1>1
  <2>2. s \in [1 .. n -> Steps]
    BY <1>2
  <2> HIDE DEF Steps
  <2> QED BY <2>1, <2>2, SeqOfFunction
<1>5. Head(s) = s[1] /\ Tail(s) = [i \in 1 .. n - 1 |-> s[i + 1]]
  BY <1>4, TailAsFunction
<1>6. s[1] = PredefinedSteps[j + 1] /\ \A i \in 1 .. n - 1 : s[i + 1] = PredefinedSteps[i + (j + 1)]
  BY <1>1, <1>2
<1>7. Tail(s) = Rest(j + 1)
  BY <1>3, <1>5, <1>6
<1>8. \A i \in DOMAIN s :
        \/ i = 1 /\ s[i] = PredefinedSteps[j + 1]
        \/ i - 1 \in DOMAIN Rest(j + 1) /\ s[i] = Rest(j + 1)[i - 1]
  BY <1>1, <1>2, <1>3
<1>9. Head(s) = PredefinedSteps[j + 1]
  BY <1>5, <1>6
<1> QED BY <1>4, <1>7, <1>8, <1>9 DEF s, n

\* What holds of a role that only create_predefined_roles changes.
PredefinedRole(r) ==
  /\ ~roles[r].super /\ roles[r].inherits = {} /\ roles[r].grants \subseteq PredefinedGrants(r)
  /\ wasSetup => roles[r].known
  /\ \A c \in Callers : setup[c] # <<>> =>
       roles[r].known \/ \E i \in DOMAIN setup[c] : setup[c][i] = Creation(r)
  /\ roles[r].known => \A g \in PredefinedGrants(r) :
       g \in roles[r].grants \/ \E c \in Callers : Waits(c, r, g.perm)

\* Why: a grant that a replaced role lost is still to be given by the caller that
\* replaced it, or was given since.
PredefinedInv ==
  /\ \A c \in Callers : \E j \in 0 .. 9 : setup[c] = Rest(j)
  /\ \A r \in PredefinedRoles \ AdminRoles : PredefinedRole(r)

LEMMA PredefinedInit == Init => PredefinedInv
<1> SUFFICES ASSUME Init PROVE PredefinedInv
  OBVIOUS
<1>1. \A c \in Callers : setup[c] = <<>>
  BY DEF Init
<1>2. Rest(9) = <<>>
  BY DEF Rest
<1>3. ASSUME NEW r \in PredefinedRoles
      PROVE  roles[r] = NoRole /\ ~wasSetup
  BY NameAssumption DEF Init, PredefinedRoles
<1>4. ~NoRole.known /\ ~NoRole.super /\ NoRole.inherits = {} /\ NoRole.grants = {}
  BY DEF NoRole
<1>5. ASSUME NEW r \in PredefinedRoles PROVE PredefinedRole(r)
  BY <1>1, <1>3, <1>4 DEF PredefinedRole
<1> QED BY <1>1, <1>2, <1>5 DEF PredefinedInv

LEMMA PredefinedStepKeeps ==
  ASSUME TypeOK, PredefinedInv, NEW c \in Callers, PredefinedStep(c)
  PROVE  PredefinedInv'
<1>1. PICK j \in 0 .. 8 : setup[c] = Rest(j)
  <2>1. PICK j \in 0 .. 9 : setup[c] = Rest(j)
    BY DEF PredefinedInv
  <2>2. setup[c] # <<>> /\ Rest(9) = <<>>
    BY DEF PredefinedStep, Rest
  <2>3. j # 9
    BY <2>1, <2>2
  <2> QED BY <2>1, <2>3
<1> DEFINE step == PredefinedSteps[j + 1]
<1>2. /\ setup[c] # <<>> /\ Len(setup[c]) = 9 - j
      /\ Head(setup[c]) = step /\ Tail(setup[c]) = Rest(j + 1)
      /\ \A i \in DOMAIN setup[c] :
           \/ i = 1 /\ setup[c][i] = step
           \/ i - 1 \in DOMAIN Rest(j + 1) /\ setup[c][i] = Rest(j + 1)[i - 1]
  <2>1. /\ Rest(j) # <<>> /\ Len(Rest(j)) = 9 - j
        /\ Head(Rest(j)) = step /\ Tail(Rest(j)) = Rest(j + 1)
        /\ \A i \in DOMAIN Rest(j) :
             \/ i = 1 /\ Rest(j)[i] = step
             \/ i - 1 \in DOMAIN Rest(j + 1) /\ Rest(j)[i] = Rest(j + 1)[i - 1]
    BY RestSteps
  <2> QED BY <1>1, <2>1
<1>3. /\ setup' = [setup EXCEPT ![c] = Rest(j + 1)]
      /\ wasSetup' = (wasSetup \/ j = 8)
      /\ step.perm = "none" => roles' = [roles EXCEPT ![step.role] = Role(FALSE, {}, {})]
      /\ step.perm # "none" =>
           /\ roles[step.role].known
           /\ roles' = [roles EXCEPT ![step.role].grants = @ \union {Permit(step.perm, AllResources)}]
  <2>1. setup' = [setup EXCEPT ![c] = Rest(j + 1)] /\ wasSetup' = (wasSetup \/ Len(setup[c]) = 1)
    BY <1>2 DEF PredefinedStep
  <2>2. IF step.perm = "none" THEN CreateRole(step.role, FALSE)
        ELSE Grant(step.role, Permit(step.perm, AllResources))
    BY <1>2 DEF PredefinedStep
  <2>3. Len(setup[c]) = 1 <=> j = 8
    BY <1>2
  <2>4. wasSetup' = (wasSetup \/ j = 8)
    BY <2>1, <2>3
  <2>5. ASSUME step.perm = "none" PROVE roles' = [roles EXCEPT ![step.role] = Role(FALSE, {}, {})]
    BY <2>2, <2>5 DEF CreateRole
  <2>6. ASSUME step.perm # "none"
        PROVE  /\ roles[step.role].known
               /\ roles' = [roles EXCEPT ![step.role].grants = @ \union {Permit(step.perm, AllResources)}]
    BY <2>2, <2>6 DEF Grant
  <2> QED BY <2>1, <2>4, <2>5, <2>6
<1>4. step \in Steps /\ (step.perm = "none" => step = Creation(step.role))
      /\ (step.perm # "none" => Permit(step.perm, AllResources) \in PredefinedGrants(step.role))
  BY StepsShape, MeantSteps DEF Creation
<1>5. /\ setup'[c] = Rest(j + 1) /\ \A d \in Callers \ {c} : setup'[d] = setup[d]
      /\ roles \in [Roles -> RoleType] /\ step.role \in Roles
  BY <1>3, <1>4, NameAssumption DEF TypeOK, Steps
<1> HIDE DEF step
<1>6. \A d \in Callers : \E i \in 0 .. 9 : setup'[d] = Rest(i)
  BY <1>1, <1>5 DEF PredefinedInv
<1>7. ASSUME NEW r \in PredefinedRoles \ AdminRoles PROVE PredefinedRole(r)'
  <2>0. r \in Roles /\ PredefinedRole(r)
    BY NameAssumption DEF PredefinedInv
  <2>1. ASSUME r # step.role PROVE roles'[r] = roles[r]
    BY <1>3, <1>5, <2>0, <2>1
  <2>2. ASSUME r = step.role, step.perm = "none"
        PROVE  roles'[r] = Role(FALSE, {}, {})
    BY <1>3, <1>5, <2>0, <2>2
  <2>3. ASSUME r = step.role, step.perm # "none"
        PROVE  /\ roles'[r].known = roles[r].known /\ roles[r].known
               /\ roles'[r].super = roles[r].super /\ roles'[r].inherits = roles[r].inherits
               /\ roles'[r].grants = roles[r].grants \union {Permit(step.perm, AllResources)}
    <3>1. roles[r] \in RoleType
      BY <1>5, <2>0
    <3> QED BY <1>3, <1>5, <2>0, <2>3, <3>1 DEF RoleType
  <2>4. /\ Role(FALSE, {}, {}).known /\ ~Role(FALSE, {}, {}).super
        /\ Role(FALSE, {}, {}).inherits = {} /\ Role(FALSE, {}, {}).grants = {}
    BY DEF Role
  <2>5. ~roles'[r].super /\ roles'[r].inherits = {} /\ roles'[r].grants \subseteq PredefinedGrants(r)
    BY <1>4, <2>0, <2>1, <2>2, <2>3, <2>4 DEF PredefinedRole
  <2>6. roles[r].known => roles'[r].known
    BY <2>1, <2>2, <2>3, <2>4
  <2>7. roles'[r].known \/ \E i \in DOMAIN setup'[c] : setup'[c][i] = Creation(r)
    <3>1. roles[r].known \/ \E i \in DOMAIN setup[c] : setup[c][i] = Creation(r)
      BY <1>2, <2>0 DEF PredefinedRole
    <3>2. ASSUME step = Creation(r) PROVE roles'[r].known
      <4>1. step.role = r /\ step.perm = "none"
        BY <3>2 DEF Creation
      <4> QED BY <2>2, <2>4, <4>1
    <3> QED BY <1>2, <1>5, <2>6, <3>1, <3>2
  <2>8. wasSetup' => roles'[r].known
    <3>1. CASE wasSetup
      BY <2>0, <2>6, <3>1 DEF PredefinedRole
    <3>2. CASE j = 8
      <4>1. DOMAIN setup'[c] = {}
        BY <1>5, <3>2 DEF Rest
      <4> QED BY <2>7, <4>1
    <3> QED BY <1>3, <3>1, <3>2
  <2>9. \A d \in Callers : setup'[d] # <<>> =>
          roles'[r].known \/ \E i \in DOMAIN setup'[d] : setup'[d][i] = Creation(r)
    BY <1>5, <2>0, <2>6, <2>7 DEF PredefinedRole
  <2>10. ASSUME NEW g \in PredefinedGrants(r), roles'[r].known, g \notin roles'[r].grants
         PROVE  \E d \in Callers : \E i \in DOMAIN setup'[d] : setup'[d][i] = Granting(r, g.perm)
    <3>1. CASE r = step.role /\ step.perm = "none"
      <4>1. j + 1 \in 1 .. 9 /\ PredefinedSteps[j + 1] = Creation(r)
        BY <1>4, <3>1 DEF step
      <4>2. PICK k \in j + 2 .. 9 : PredefinedSteps[k] = Granting(r, g.perm)
        <5>1. \E k \in (j + 1) + 1 .. 9 : PredefinedSteps[k] = Granting(r, g.perm)
          BY <4>1, GrantsFollow
        <5> QED BY <5>1
      <4>3. k - (j + 1) \in DOMAIN Rest(j + 1) /\ Rest(j + 1)[k - (j + 1)] = PredefinedSteps[k]
        BY <4>2 DEF Rest
      <4> QED BY <1>5, <4>2, <4>3
    <3>2. CASE ~(r = step.role /\ step.perm = "none")
      <4>1. roles[r].known /\ g \notin roles[r].grants
        BY <2>1, <2>3, <2>10, <3>2
      <4>2. PICK d \in Callers : \E i \in DOMAIN setup[d] : setup[d][i] = Granting(r, g.perm)
        BY <2>0, <4>1 DEF PredefinedRole, Waits
      <4>3. CASE d # c
        BY <1>5, <4>2, <4>3
      <4>4. CASE d = c
        <5>1. step # Granting(r, g.perm)
          <6>1. g = Permit(g.perm, AllResources) /\ g.perm # "none"
            BY DEF PredefinedGrants, Permit, PredefinedRoles
          <6> SUFFICES ASSUME step = Granting(r, g.perm) PROVE FALSE
            OBVIOUS
          <6>2. step.role = r /\ step.perm = g.perm
            BY DEF Granting
          <6> QED BY <2>3, <2>10, <6>1, <6>2
        <5> QED BY <1>2, <1>5, <4>2, <4>4, <5>1
      <4> QED BY <4>3, <4>4
    <3> QED BY <3>1, <3>2
  <2> QED BY <2>5, <2>8, <2>9, <2>10 DEF PredefinedRole, Waits
<1> QED BY <1>6, <1>7 DEF PredefinedInv

LEMMA CallKeeps ==
  ASSUME TypeOK, PredefinedInv, NEW c \in Callers, CallPredefined(c)
  PROVE  PredefinedInv'
<1>1. /\ setup[c] = <<>> /\ setup' = [setup EXCEPT ![c] = PredefinedSteps]
      /\ UNCHANGED <<roles, wasSetup>> /\ setup \in [Callers -> Seq(Steps)]
  BY DEF CallPredefined, TypeOK
<1>2. setup'[c] = PredefinedSteps /\ \A d \in Callers \ {c} : setup'[d] = setup[d]
  BY <1>1
<1>3. PredefinedSteps = Rest(0) /\ DOMAIN PredefinedSteps = 1 .. 9
  <2>1. PredefinedSteps = [i \in 1 .. 9 |-> PredefinedSteps[i]]
    BY DEF PredefinedSteps
  <2> HIDE DEF PredefinedSteps
  <2>2. Rest(0) = [i \in 1 .. 9 |-> PredefinedSteps[i]]
    BY DEF Rest
  <2> QED BY <2>1, <2>2
<1>4. \A d \in Callers : \E i \in 0 .. 9 : setup'[d] = Rest(i)
  BY <1>2, <1>3 DEF PredefinedInv
<1>5. ASSUME NEW r \in PredefinedRoles \ AdminRoles PROVE PredefinedRole(r)'
  <2>1. PredefinedRole(r)
    BY DEF PredefinedInv
  <2>2. \E i \in DOMAIN setup'[c] : setup'[c][i] = Creation(r)
    BY <1>2, <1>3, CreatedFirst
  <2>3. \A d \in Callers : \A i \in DOMAIN setup[d] : d # c /\ setup'[d] = setup[d]
    <3>1. DOMAIN setup[c] = {}
      BY <1>1
    <3> QED BY <1>2, <3>1
  <2> QED BY <1>1, <1>2, <2>1, <2>2, <2>3 DEF PredefinedRole, Waits
<1> QED BY <1>4, <1>5 DEF PredefinedInv

LEMMA PredefinedNext ==
  ASSUME TypeOK, PredefinedInv, [Next]_vars
  PROVE  PredefinedInv'
<1>1. ASSUME UNCHANGED <<setup, wasSetup>>, \A r \in PredefinedRoles \ AdminRoles : roles'[r] = roles[r]
      PROVE  PredefinedInv'
  BY <1>1 DEF PredefinedInv, PredefinedRole, Waits
<1>2. ASSUME NEW k \in Checkers,
             \/ \E u \in Users, asked \in Requests : StartCheck(k, u, asked)
             \/ CheckStep(k)
      PROVE  PredefinedInv'
  BY <1>1, <1>2 DEF StartCheck, CheckStep, VisitRole, ReturnFalse
<1>3. CASE Administer
  <2>1. UNCHANGED <<setup, wasSetup>>
    BY <1>3 DEF Administer
  <2>2. ASSUME NEW r \in PredefinedRoles \ AdminRoles PROVE roles'[r] = roles[r]
    <3>1. r \in Roles /\ roles \in [Roles -> RoleType]
      BY NameAssumption DEF TypeOK
    <3>2. CASE UNCHANGED roles
      BY <3>2
    <3>3. ASSUME NEW x \in AdminRoles, NEW role, roles' = [roles EXCEPT ![x] = role]
          PROVE  roles'[r] = roles[r]
      BY <3>1, <3>3
    <3>4. \/ UNCHANGED roles
          \/ \E x \in AdminRoles : \E role : roles' = [roles EXCEPT ![x] = role]
      <4>1. CASE \E u \in AdminUsers, names \in SUBSET AdminRoles, super \in SuperFlags : AddUser(u, names, super)
        BY <4>1 DEF AddUser
      <4>2. ASSUME NEW x \in AdminRoles,
                   \/ \E super \in SuperFlags : CreateRole(x, super)
                   \/ \E g \in AdminGrants : Grant(x, g) \/ Revoke(x, g)
                   \/ \E p \in AdminParents : Inherit(x, p) \/ Disinherit(x, p)
            PROVE  \E role : roles' = [roles EXCEPT ![x] = role]
        <5>1. CASE \E super \in SuperFlags : CreateRole(x, super)
          BY <5>1 DEF CreateRole
        <5>2. CASE \E g \in AdminGrants : Grant(x, g) \/ Revoke(x, g)
          BY <5>2 DEF Grant, Revoke
        <5>3. CASE \E p \in AdminParents : Inherit(x, p) \/ Disinherit(x, p)
          BY <5>3 DEF Inherit, Disinherit
        <5> QED BY <4>2, <5>1, <5>2, <5>3
      <4> QED BY <1>3, <4>1, <4>2 DEF Administer
    <3> QED BY <3>2, <3>3, <3>4
  <2> QED BY <1>1, <2>1, <2>2
<1>4. ASSUME NEW c \in Callers, CallPredefined(c) \/ PredefinedStep(c)
      PROVE  PredefinedInv'
  BY <1>4, CallKeeps, PredefinedStepKeeps
<1>5. ASSUME NEW b \in Scanners, StartScan(b) \/ ScanStep(b)
      PROVE  PredefinedInv'
  BY <1>1, <1>5 DEF StartScan, ScanStep, DelegateRoles, ListRoles, ScanRole, FinishScan
<1>6. CASE UNCHANGED vars
  BY <1>1, <1>6 DEF vars
<1> QED BY <1>2, <1>3, <1>4, <1>5, <1>6 DEF Next

LEMMA PredefinedEnough == TypeOK /\ PredefinedInv => PredefinedInForce
<1> SUFFICES ASSUME TypeOK, PredefinedInv, wasSetup, \A c \in Callers : setup[c] = <<>>,
                    NEW r \in PredefinedRoles \ AdminRoles
             PROVE  roles[r] = Role(FALSE, PredefinedGrants(r), {})
  BY DEF PredefinedInForce
<1>1. PredefinedRole(r) /\ r \in Roles
  BY NameAssumption DEF PredefinedInv
<1>2. roles[r].known /\ ~roles[r].super /\ roles[r].inherits = {}
  BY <1>1 DEF PredefinedRole
<1>3. \A c \in Callers : DOMAIN setup[c] = {}
  OBVIOUS
<1>4. roles[r].grants = PredefinedGrants(r)
  BY <1>1, <1>2, <1>3 DEF PredefinedRole, Waits
<1>5. roles[r] \in RoleType
  BY <1>1 DEF TypeOK
<1>6. roles[r] = [known |-> roles[r].known, super |-> roles[r].super,
                  grants |-> roles[r].grants, inherits |-> roles[r].inherits]
  BY <1>5 DEF RoleType
<1>7. roles[r].known = TRUE /\ roles[r].super = FALSE
  BY <1>2, <1>5 DEF RoleType
<1> QED BY <1>2, <1>4, <1>6, <1>7 DEF Role

\* Any number of calls of create_predefined_roles may overlap, with each other and
\* with everything else: when all have returned, the predefined roles that no
\* administrator changes have their grants and no others.
THEOREM PredefinedKept == Spec => []PredefinedInForce
<1>1. Spec => [](TypeOK /\ PredefinedInv)
  BY RolesTypeCorrect, PredefinedInit, PredefinedNext, PTL DEF Spec
<1> QED BY <1>1, PredefinedEnough, PTL
=============================================================================
