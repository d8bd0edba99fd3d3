--------------------------- MODULE Session_proofs ---------------------------
(***************************************************************************)
(* Proofs about Session: type correctness and the inertness of failed      *)
(* blocks for messages of every size; agreement of server and client and   *)
(* the implementation of TxBlock for messages of one statement.            *)
(***************************************************************************)
EXTENDS Session, TLAPS

-----------------------------------------------------------------------------
(* Running a statement *)

\* A plain response says nothing about the block.
LEMMA PlainCoherent ==
  \A r \in {Done, Rows, Stream, Empty, Failure} : r \in Responses /\ Coherent(r)
BY DEF Done, Rows, Stream, Empty, Failure, Response, Responses, Coherent

\* A statement that names something names a portal.
LEMMA StatementNames ==
  \A s \in Statements : /\ s.cmd \in Commands
                        /\ s.cmd \in Named => s.name \in Names
                        /\ s.arg \in Settings
BY DEF Statements, Settings

\* A portal of kind "cursor" has its rows, one of kind "bound" its statement.
LEMMA PortalShapes ==
  ASSUME NEW p \in Portals
  PROVE  /\ p.kind = "cursor" => p.left \in 0 .. MaxRows
         /\ p.kind = "bound" => p.stmt \in Statements
BY DEF Portals, Portal, NoPortal, EmptyPortal, Writer, Cursor, Bound

\* FETCH leaves a number of rows the cursor can have.
LEMMA RemainingType ==
  ASSUME NEW limit, NEW left \in 0 .. MaxRows
  PROVE  Remaining(limit, left) \in 0 .. MaxRows
BY BoundAssumption DEF Remaining

\* The cursor hook keeps the store a store and answers plainly; what its queries
\* write is counted on its own.
LEMMA CursorHookSound ==
  ASSUME TypeOK, NEW s \in Statements, NEW r, CursorStatementHook(s, r)
  PROVE  /\ portals' \in [Names -> Portals]
         /\ r \in {Done, Rows, Failure}
         /\ cursorWrites' \in {cursorWrites, cursorWrites + 1}
         /\ UNCHANGED <<setting, writes>>
<1>0. portals \in [Names -> Portals]
  BY DEF TypeOK
<1>1. NoPortal \in Portals /\ Writer \in Portals /\ \A n \in 0 .. MaxRows : Cursor(n) \in Portals
  BY DEF Portals
<1>2. UNCHANGED <<setting, writes>>
  BY DEF CursorStatementHook
<1>3. CASE s.cmd \in Declarations /\ Declare(s, r)
  <2>1. s.name \in Names
    BY <1>3, StatementNames DEF Named
  <2>2. 0 \in 0 .. MaxRows
    BY BoundAssumption
  <2>3. \A p \in Portals : [portals EXCEPT ![s.name] = p] \in [Names -> Portals]
    BY <1>0, <2>1
  <2> QED
    BY <1>0, <1>1, <1>2, <1>3, <2>2, <2>3 DEF Declare
<1>4. CASE s.cmd = "fetch" /\ Fetch(s, r)
  <2>1. s.name \in Names
    BY <1>4, StatementNames DEF Named
  <2>2. portals[s.name].kind = "cursor" =>
          Cursor(Remaining(s.arg, portals[s.name].left)) \in Portals
    BY <1>0, <1>1, <2>1, PortalShapes, RemainingType
  <2>3. Cursor(0) \in Portals
    BY <1>1, BoundAssumption
  <2>4. \A p \in Portals : [portals EXCEPT ![s.name] = p] \in [Names -> Portals]
    BY <1>0, <2>1
  <2> QED
    BY <1>0, <1>2, <1>4, <2>2, <2>3, <2>4 DEF Fetch
<1>5. CASE s.cmd = "scroll" /\ r = Failure /\ UNCHANGED <<portals, cursorWrites>>
  BY <1>0, <1>2, <1>5
<1>6. CASE s.cmd = "close" /\ Close(s, r) /\ UNCHANGED cursorWrites
  <2>1. s.name \in Names
    BY <1>6, StatementNames DEF Named
  <2> QED
    BY <1>0, <1>1, <1>2, <1>6, <2>1 DEF Close
<1>7. CASE s.cmd = "closeall" /\ CloseAll(r) /\ UNCHANGED cursorWrites
  BY <1>1, <1>2, <1>7 DEF CloseAll
<1> QED
  BY <1>3, <1>4, <1>5, <1>6, <1>7 DEF CursorStatementHook

\* The transaction hook answers in step with the block.
LEMMA TransactionHookSound ==
  ASSUME TypeOK, NEW s, NEW r, TransactionStatementHook(s, r)
  PROVE  Coherent(r) /\ UNCHANGED <<portals, setting, tables>>
<1>1. Coherent(Failure)
  BY PlainCoherent
<1>2. EndTag(s) = "ROLLBACK" \/ (EndTag(s) = "COMMIT" /\ status # "Error")
  BY DEF EndTag
<1>3. Coherent(Response("end", EndTag(s)))
  BY <1>2 DEF Coherent, Response
<1>4. Coherent(BeginResponse)
  <2>1. CASE status = "Error"
    BY <1>1, <2>1 DEF BeginResponse
  <2>2. CASE status = "Transaction"
    BY <2>2 DEF BeginResponse, Coherent, Response
  <2>3. CASE status \notin {"Error", "Transaction"}
    BY <2>3 DEF BeginResponse, Coherent, Response
  <2> QED
    BY <2>1, <2>2, <2>3
<1> QED
  BY <1>1, <1>3, <1>4 DEF TransactionStatementHook

\* A statement that runs keeps the types, writes at most once and in a failed
\* block by a cursor alone, and answers in step with the block.
LEMMA RunSound ==
  ASSUME TypeOK, NEW s \in Statements, NEW r, Run(s, r)
  PROVE  /\ portals' \in [Names -> Portals]
         /\ setting' \in Settings
         /\ writes' \in {writes, writes + 1}
         /\ cursorWrites' \in {cursorWrites, cursorWrites + 1}
         /\ status = "Error" => writes' = writes
         /\ Coherent(r)
<1>0. portals \in [Names -> Portals] /\ setting \in Settings
  BY DEF TypeOK
<1>1. CASE s.cmd \in CursorCommands
  <2>1. CursorStatementHook(s, r)
    BY <1>1 DEF Run
  <2> QED
    BY <1>0, <2>1, CursorHookSound, PlainCoherent
<1>2. CASE s.cmd \notin CursorCommands /\ s.cmd \in SettingCommands
  <2>1. SetShowHook(s, r)
    BY <1>2 DEF Run
  <2> QED
    BY <1>0, <2>1, PlainCoherent, StatementNames DEF tables, SetShowHook
<1>3. CASE s.cmd \notin CursorCommands \union SettingCommands /\ TransactionHookAnswers(s)
  <2>1. TransactionStatementHook(s, r)
    BY <1>3 DEF Run
  <2> QED
    BY <1>0, <2>1, TransactionHookSound DEF tables
<1>4. CASE s.cmd \notin CursorCommands \union SettingCommands /\ ~TransactionHookAnswers(s)
  <2>1. Plan(s, r)
    BY <1>4 DEF Run
  <2>2. status # "Error"
    BY <1>4 DEF TransactionHookAnswers
  <2> QED
    BY <1>0, <2>1, <2>2, PlainCoherent DEF Plan
<1> QED
  BY <1>1, <1>2, <1>3, <1>4

-----------------------------------------------------------------------------
(* Type correctness *)

\* The status after a response or an error is a status.
LEMMA StatusTypes ==
  \A t \in Statuses : /\ ToError(t) \in Statuses
                      /\ \A r : After(t, r) \in Statuses
BY DEF Statuses, ToError, After

\* What the client is told keeps the type of its view.
LEMMA ToldTypes ==
  ASSUME TypeOK, NEW r \in Responses, Told(r)
  PROVE  /\ view' \in Statuses
         /\ said' \in {"NONE", "ERROR", "BEGIN", "COMMIT", "ROLLBACK"}
BY DEF TypeOK, Told, Responses, Statuses

\* A failed message leaves a well-typed ready connection.
LEMMA FailMessageTypes ==
  ASSUME TypeOK, FailMessage,
         portals' \in [Names -> Portals], setting' \in Settings, writes' \in Nat, cursorWrites' \in Nat
  PROVE  TypeOK'
<1>1. ToError(status) \in Statuses /\ ToError(view) \in Statuses
  BY StatusTypes DEF TypeOK
<1> QED
  BY <1>1 DEF FailMessage, ToldError, TypeOK, Phases

\* So does a failed extended message, up to its Sync.
LEMMA FailExtendedTypes ==
  ASSUME TypeOK, FailExtended, Extended,
         portals' \in [Names -> Portals], setting' \in Settings, writes' \in Nat, cursorWrites' \in Nat
  PROVE  TypeOK'
<1>1. ToError(status) \in Statuses /\ ToError(view) \in Statuses
  BY StatusTypes DEF TypeOK
<1> QED
  BY <1>1 DEF FailExtended, Extended, ToldError, TypeOK, Phases

\* Init and every step keep the types.
LEMMA TypeInit == Init => TypeOK
<1>1. NoPortal \in Portals
  BY DEF Portals
<1> SUFFICES ASSUME Init
             PROVE  TypeOK
  OBVIOUS
<1>2. portals \in [Names -> Portals] /\ prepared \in [Names -> Portals]
  BY <1>1 DEF Init
<1>3. results \in Seq(Responses)
  BY DEF Init
<1>4. writes \in Nat /\ cursorWrites \in Nat /\ todo \in Nat /\ asked \in Nat /\ sent \in Nat /\ todo <= asked
  BY DEF Init
<1> QED
  BY <1>2, <1>3, <1>4 DEF Init, TypeOK, Statuses, Settings, Phases

LEMMA TypeStep == TypeOK /\ [Next]_vars => TypeOK'
<1> SUFFICES ASSUME TypeOK, [Next]_vars
             PROVE  TypeOK'
  OBVIOUS
<1>1. ASSUME NEW n \in 0 .. BatchBound, Query(n)
      PROVE  TypeOK'
  <2>1. n \in Nat /\ n <= n
    BY BoundAssumption
  <2> QED
    BY <1>1, <2>1 DEF tables, Query, TypeOK, Phases
<1>2. CASE QueryUnparsable
  BY <1>2, FailMessageTypes DEF tables, QueryUnparsable, TypeOK
<1>3. CASE QueryEmpty
  BY <1>3, PlainCoherent DEF tables, QueryEmpty, TypeOK, Phases, client
<1>4. ASSUME NEW s \in Statements, RunStatement(s)
      PROVE  TypeOK'
  <2>1. PICK r \in Responses :
          /\ Run(s, r)
          /\ \/ r = Failure /\ FailMessage
             \/ /\ r # Failure
                /\ results' = Append(results, r)
                /\ todo' = RemainingAfter(s)
                /\ phase' = IF todo' = 0 THEN "answer" ELSE "batch"
                /\ UNCHANGED <<status, prepared, pending, client>>
    BY <1>4 DEF RunStatement
  <2>2. portals' \in [Names -> Portals] /\ setting' \in Settings /\ writes' \in Nat /\ cursorWrites' \in Nat
    BY <2>1, RunSound DEF TypeOK
  <2>3. CASE FailMessage
    BY <2>2, <2>3, FailMessageTypes
  <2>4. CASE ~FailMessage
    <3>1. todo' \in Nat /\ todo' <= asked'
      BY <1>4, <2>1, <2>4 DEF RunStatement, RemainingAfter, TypeOK, client
    <3>2. results' \in Seq(Responses)
      BY <2>1, <2>4 DEF TypeOK
    <3> QED
      BY <2>1, <2>2, <2>4, <3>1, <3>2 DEF TypeOK, Phases, client
  <2> QED
    BY <2>3, <2>4
<1>5. CASE SendResponse
  <2>1. Head(results) \in Responses /\ Tail(results) \in Seq(Responses)
    BY <1>5 DEF SendResponse, TypeOK
  <2>2. sent' \in Nat
    BY <1>5 DEF SendResponse, TypeOK
  <2>3. pending' \in Statuses
    BY <1>5, StatusTypes DEF SendResponse, TypeOK
  <2> QED
    BY <1>5, <2>1, <2>2, <2>3, ToldTypes DEF tables, SendResponse, TypeOK
<1>6. CASE StreamFails
  BY <1>6, FailMessageTypes DEF tables, StreamFails, TypeOK
<1>7. CASE EndQuery
  BY <1>7 DEF tables, EndQuery, TypeOK, Phases, client
<1>8. ASSUME NEW n \in Names, NEW portal \in Portals, Parse(n, portal)
      PROVE  TypeOK'
  BY <1>8 DEF tables, Parse, Extended, TypeOK, Phases, client
<1>9. CASE ParseFails
  BY <1>9, FailExtendedTypes DEF tables, ParseFails, TypeOK
<1>10. ASSUME NEW n \in Names, NEW p \in Names, Bind(n, p)
       PROVE  TypeOK'
  BY <1>10 DEF tables, Bind, Extended, TypeOK, Phases, client
<1>11. CASE BindFails
  BY <1>11, FailExtendedTypes DEF tables, BindFails, TypeOK
<1>12. ASSUME NEW n \in Names, ExecuteBound(n)
       PROVE  TypeOK'
  <2>1. portals[n].stmt \in Statements
    BY <1>12, PortalShapes DEF ExecuteBound, TypeOK
  <2>2. PICK r \in Responses :
          /\ Run(portals[n].stmt, r)
          /\ \/ r \in {Failure, Stream} /\ FailExtended
             \/ /\ r # Failure
                /\ phase' = "pipeline"
                /\ status' = After(status, r)
                /\ Told(r)
                /\ UNCHANGED <<prepared, todo, results, pending, asked, sent, failed>>
    BY <1>12 DEF ExecuteBound
  <2>3. portals' \in [Names -> Portals] /\ setting' \in Settings /\ writes' \in Nat /\ cursorWrites' \in Nat
    BY <2>1, <2>2, RunSound DEF TypeOK
  <2>4. Extended
    BY <1>12 DEF ExecuteBound
  <2>5. CASE FailExtended
    BY <2>3, <2>4, <2>5, FailExtendedTypes
  <2>6. CASE ~FailExtended
    <3>1. status' \in Statuses
      BY <2>2, <2>6, StatusTypes DEF TypeOK
    <3> QED
      BY <2>2, <2>3, <2>4, <2>6, <3>1, ToldTypes DEF TypeOK, Phases, Extended
  <2> QED
    BY <2>5, <2>6
<1>13. ASSUME NEW n \in Names, ExecuteEmpty(n)
       PROVE  TypeOK'
  BY <1>13 DEF tables, ExecuteEmpty, Extended, TypeOK, Phases, client
<1>14. ASSUME NEW n \in Names, ExecuteMissing(n)
       PROVE  TypeOK'
  BY <1>14, FailExtendedTypes DEF tables, ExecuteMissing, TypeOK
<1>15. CASE Sync
  BY <1>15 DEF tables, Sync, TypeOK, Phases, client
<1>16. CASE UNCHANGED vars
  BY <1>16 DEF vars, tables, client, TypeOK
<1>17. EmptyPortal \in Portals /\ \A s \in Statements : Bound(s) \in Portals
  BY DEF Portals
<1> QED
  BY <1>1, <1>2, <1>3, <1>4, <1>5, <1>6, <1>7, <1>8, <1>9, <1>10, <1>11, <1>12,
     <1>13, <1>14, <1>15, <1>16, <1>17 DEF Next, Serve, ServeExtended

\* The types hold in every reachable state, for messages of every size.
THEOREM SessionTypeCorrect == Spec => []TypeOK
BY TypeInit, TypeStep, PTL DEF Spec

-----------------------------------------------------------------------------
(* Failed blocks *)

\* In a failed block no step of either protocol writes.
LEMMA InertStep ==
  TypeOK /\ [Next]_vars /\ status = "Error" => writes' = writes
<1> SUFFICES ASSUME TypeOK, [Next]_vars, status = "Error"
             PROVE  writes' = writes
  OBVIOUS
<1>1. ASSUME NEW s \in Statements, RunStatement(s)
      PROVE  writes' = writes
  BY <1>1, RunSound DEF RunStatement
<1>2. ASSUME NEW n \in Names, ExecuteBound(n)
      PROVE  writes' = writes
  <2>1. portals[n].stmt \in Statements
    BY <1>2, PortalShapes DEF ExecuteBound, TypeOK
  <2> QED
    BY <1>2, <2>1, RunSound DEF ExecuteBound
<1>3. ASSUME NEW n \in 0 .. BatchBound, Query(n)
      PROVE  writes' = writes
  BY <1>3 DEF tables, Query
<1>4. CASE QueryUnparsable \/ QueryEmpty \/ SendResponse \/ StreamFails \/ EndQuery
  BY <1>4 DEF tables, QueryUnparsable, QueryEmpty, SendResponse, StreamFails, EndQuery
<1>5. ASSUME NEW n \in Names, NEW portal, Parse(n, portal)
      PROVE  writes' = writes
  BY <1>5 DEF tables, Parse
<1>6. ASSUME NEW n \in Names, NEW p \in Names, Bind(n, p)
      PROVE  writes' = writes
  BY <1>6 DEF tables, Bind
<1>7. ASSUME NEW n \in Names, ExecuteEmpty(n) \/ ExecuteMissing(n)
      PROVE  writes' = writes
  BY <1>7 DEF tables, ExecuteEmpty, ExecuteMissing
<1>8. CASE ParseFails \/ BindFails \/ Sync
  BY <1>8 DEF tables, ParseFails, BindFails, Sync
<1>9. CASE UNCHANGED vars
  BY <1>9 DEF vars, tables
<1> QED
  BY <1>1, <1>2, <1>3, <1>4, <1>5, <1>6, <1>7, <1>8, <1>9
     DEF Next, Serve, ServeExtended

\* While the block has failed no statement changes a table, in any message of
\* either protocol (the guard at the end of TransactionStatementHook).
THEOREM FailedBlocksInert == Spec => FailedBlockIsInert
<1>1. TypeOK /\ [Next]_vars => [status = "Error" => writes' = writes]_vars
  BY InertStep
<1> QED
  BY <1>1, SessionTypeCorrect, PTL DEF Spec, FailedBlockIsInert

-----------------------------------------------------------------------------
(* Every message is answered in full *)

\* A response a statement can have is not EmptyQuery.
LEMMA RunNotEmpty ==
  ASSUME TypeOK, NEW s \in Statements, NEW r, Run(s, r)
  PROVE  r # Empty
<1>1. Empty \notin {Done, Rows, Stream, Failure}
  BY DEF Empty, Done, Rows, Stream, Failure, Response
<1>2. BeginResponse # Empty
  BY <1>1 DEF BeginResponse, Empty, Response
<1>3. \A t : \A k \in {"start", "exec", "end"} : Response(k, t) # Empty
  BY DEF Empty, Response
<1> QED
  BY <1>1, <1>2, <1>3, CursorHookSound DEF Run, SetShowHook, TransactionStatementHook, Plan

\* A failed message owes nothing more, nor does a failed extended one.
LEMMA FailedOwesNothing ==
  ASSUME TypeOK, FailMessage \/ (FailExtended /\ Extended)
  PROVE  AnsweredInFull'
BY DEF FailMessage, FailExtended, ToldError, AnsweredInFull, TypeOK, Extended

\* Extended messages do not touch the count.
LEMMA ExtendedKeepsCount ==
  ASSUME AnsweredInFull, phase \notin {"batch", "answer"},
         phase' \notin {"batch", "answer"}, UNCHANGED <<asked, sent, failed, results>>
  PROVE  AnsweredInFull'
BY DEF AnsweredInFull

LEMMA CountInit == Init => AnsweredInFull
BY DEF Init, AnsweredInFull

LEMMA CountStep ==
  ASSUME TypeOK, AnsweredInFull, [Next]_vars
  PROVE  AnsweredInFull'
<1>1. ASSUME NEW n \in 0 .. BatchBound, Query(n)
      PROVE  AnsweredInFull'
  <2>1. results = <<>> /\ n \in Nat
    BY <1>1, BoundAssumption DEF Query, TypeOK
  <2> QED
    BY <1>1, <2>1 DEF Query, AnsweredInFull
<1>2. CASE QueryUnparsable \/ StreamFails
  BY <1>2, FailedOwesNothing DEF QueryUnparsable, StreamFails
<1>3. CASE QueryEmpty
  BY <1>3 DEF QueryEmpty, AnsweredInFull, client
<1>4. ASSUME NEW s \in Statements, RunStatement(s)
      PROVE  AnsweredInFull'
  <2>1. CASE FailMessage
    BY <2>1, FailedOwesNothing
  <2>2. CASE ~FailMessage
    <3>1. PICK r \in Responses :
            /\ Run(s, r)
            /\ results' = Append(results, r)
            /\ todo' = RemainingAfter(s)
            /\ phase' = IF todo' = 0 THEN "answer" ELSE "batch"
            /\ UNCHANGED client
      BY <1>4, <2>2 DEF RunStatement
    <3>2. r # Empty
      BY <3>1, RunNotEmpty
    <3>3. asked > 0
      BY <1>4 DEF RunStatement, TypeOK
    <3> QED
      BY <1>4, <3>1, <3>2, <3>3 DEF RunStatement, RemainingAfter, AnsweredInFull, TypeOK, client
  <2> QED
    BY <2>1, <2>2
<1>5. CASE SendResponse
  BY <1>5 DEF SendResponse, AnsweredInFull, TypeOK
<1>6. CASE EndQuery
  BY <1>6 DEF EndQuery, AnsweredInFull, TypeOK, client
<1>7. ASSUME NEW n \in Names, NEW portal, Parse(n, portal)
      PROVE  AnsweredInFull'
  BY <1>7, ExtendedKeepsCount DEF Parse, Extended, client
<1>8. CASE ParseFails \/ BindFails
  BY <1>8, FailedOwesNothing DEF ParseFails, BindFails
<1>9. ASSUME NEW n \in Names, NEW p \in Names, Bind(n, p)
      PROVE  AnsweredInFull'
  BY <1>9, ExtendedKeepsCount DEF Bind, Extended, client
<1>10. ASSUME NEW n \in Names, ExecuteBound(n)
       PROVE  AnsweredInFull'
  BY <1>10, FailedOwesNothing, ExtendedKeepsCount DEF ExecuteBound, Extended
<1>11. ASSUME NEW n \in Names, ExecuteEmpty(n) \/ ExecuteMissing(n)
       PROVE  AnsweredInFull'
  BY <1>11, FailedOwesNothing, ExtendedKeepsCount
     DEF ExecuteEmpty, ExecuteMissing, Extended, client
<1>12. CASE Sync
  BY <1>12, ExtendedKeepsCount DEF Sync, client
<1>13. CASE UNCHANGED vars
  BY <1>13 DEF vars, tables, client, AnsweredInFull
<1> QED
  BY <1>1, <1>2, <1>3, <1>4, <1>5, <1>6, <1>7, <1>8, <1>9, <1>10, <1>11, <1>12, <1>13
     DEF Next, Serve, ServeExtended

\* A simple message of any size is answered in full or with an error.
THEOREM AnswersInFull == Spec => []AnsweredInFull
BY CountInit, CountStep, SessionTypeCorrect, PTL DEF Spec

-----------------------------------------------------------------------------
(* Server and client in step *)

\* In step at the start.
LEMMA InStepInit == Init => InStep
<1> SUFFICES ASSUME Init
             PROVE  InStep
  OBVIOUS
<1>1. TypeOK
  BY TypeInit
<1> QED
  BY <1>1 DEF Init, InStep

\* A failure fails the block for both sides.
LEMMA FailMessageInStep ==
  ASSUME FailMessage, TypeOK', status = view
  PROVE  InStep'
BY DEF FailMessage, ToldError, InStep

LEMMA FailExtendedInStep ==
  ASSUME FailExtended, InStep, Extended, TypeOK'
  PROVE  InStep'
BY DEF FailExtended, ToldError, InStep, Extended

\* A coherent response moves the status and the client's view alike.
LEMMA CoherentFollows ==
  ASSUME NEW r \in Responses, Coherent(r), status = view, Told(r), status \in Statuses
  PROVE  view' = After(status, r)
BY DEF Coherent, Told, After, Responses, Statuses

\* A response that changes neither side leaves them in step.
LEMMA SameInStep ==
  ASSUME InStep, TypeOK', phase # "answer", phase' \notin {"answer", "batch"},
         UNCHANGED <<status, view, todo, results, pending>>
  PROVE  InStep'
BY DEF InStep

\* Every step with messages of one statement keeps them in step.
LEMMA InStepStep ==
  ASSUME BatchBound = 1, InStep, [Next]_vars
  PROVE  InStep'
<1>0. TypeOK /\ TypeOK'
  BY TypeStep DEF InStep
<1>1. ASSUME NEW n \in 0 .. BatchBound, Query(n)
      PROVE  InStep'
  BY <1>0, <1>1 DEF Query, InStep, TypeOK
<1>2. CASE QueryUnparsable
  BY <1>0, <1>2, FailMessageInStep DEF QueryUnparsable, InStep
<1>3. CASE QueryEmpty
  <2>1. Empty \in Responses /\ Coherent(Empty)'
    BY PlainCoherent DEF Empty, Response, Coherent
  <2> QED
    BY <1>0, <1>3, <2>1 DEF QueryEmpty, InStep, client
<1>4. ASSUME NEW s \in Statements, RunStatement(s)
      PROVE  InStep'
  <2>1. PICK r \in Responses :
          /\ Run(s, r)
          /\ \/ r = Failure /\ FailMessage
             \/ /\ r # Failure
                /\ results' = Append(results, r)
                /\ todo' = RemainingAfter(s)
                /\ phase' = IF todo' = 0 THEN "answer" ELSE "batch"
                /\ UNCHANGED <<status, prepared, pending, client>>
    BY <1>4 DEF RunStatement
  <2>2. phase = "batch" /\ results = <<>> /\ pending = status /\ status = view
    BY <1>4 DEF RunStatement, InStep
  <2>3. CASE FailMessage
    BY <1>0, <2>2, <2>3, FailMessageInStep
  <2>4. CASE ~FailMessage
    <3>1. todo' = 0
      BY <1>0, <1>4, <2>1, <2>4 DEF RunStatement, RemainingAfter, InStep, TypeOK
    <3>2. results' = <<r>>
      BY <2>1, <2>2, <2>4
    <3>3. Coherent(r)'
      BY <1>0, <2>1, <2>4, RunSound DEF Coherent
    <3> QED
      BY <1>0, <2>1, <2>2, <2>4, <3>1, <3>2, <3>3 DEF InStep, client
  <2> QED
    BY <2>3, <2>4
<1>5. CASE SendResponse
  <2>1. PICK r \in Responses : results = <<r>> /\ Coherent(r)
    BY <1>5 DEF SendResponse, InStep
  <2>2. status = view /\ pending = status
    BY <1>5 DEF SendResponse, InStep
  <2>3. Head(results) = r /\ Tail(results) = <<>>
    BY <2>1
  <2>4. view' = After(status, r)
    BY <1>0, <1>5, <2>1, <2>2, <2>3, CoherentFollows DEF SendResponse, TypeOK
  <2> QED
    BY <1>0, <1>5, <2>2, <2>3, <2>4 DEF SendResponse, InStep
<1>6. CASE StreamFails
  BY <1>0, <1>6, FailMessageInStep DEF StreamFails, InStep
<1>7. CASE EndQuery
  BY <1>0, <1>7 DEF EndQuery, InStep, client
<1>8. ASSUME NEW n \in Names, NEW portal, Parse(n, portal)
      PROVE  InStep'
  BY <1>0, <1>8, SameInStep DEF Parse, Extended, client
<1>9. CASE ParseFails
  BY <1>0, <1>9, FailExtendedInStep DEF ParseFails
<1>10. ASSUME NEW n \in Names, NEW p \in Names, Bind(n, p)
       PROVE  InStep'
  BY <1>0, <1>10, SameInStep DEF Bind, Extended, client
<1>11. CASE BindFails
  BY <1>0, <1>11, FailExtendedInStep DEF BindFails
<1>12. ASSUME NEW n \in Names, ExecuteBound(n)
       PROVE  InStep'
  <2>1. portals[n].stmt \in Statements
    BY <1>0, <1>12, PortalShapes DEF ExecuteBound, TypeOK
  <2>2. PICK r \in Responses :
          /\ Run(portals[n].stmt, r)
          /\ \/ r \in {Failure, Stream} /\ FailExtended
             \/ /\ r # Failure
                /\ phase' = "pipeline"
                /\ status' = After(status, r)
                /\ Told(r)
                /\ UNCHANGED <<prepared, todo, results, pending, asked, sent, failed>>
    BY <1>12 DEF ExecuteBound
  <2>3. Extended
    BY <1>12 DEF ExecuteBound
  <2>4. CASE FailExtended
    BY <1>0, <2>3, <2>4, FailExtendedInStep
  <2>5. CASE ~FailExtended
    <3>1. Coherent(r)
      BY <1>0, <2>1, <2>2, RunSound
    <3>2. view' = After(status, r)
      BY <1>0, <2>2, <2>3, <2>5, <3>1, CoherentFollows DEF InStep, Extended, TypeOK
    <3> QED
      BY <1>0, <2>2, <2>3, <2>5, <3>2 DEF InStep, Extended
  <2> QED
    BY <2>4, <2>5
<1>13. ASSUME NEW n \in Names, ExecuteEmpty(n)
       PROVE  InStep'
  BY <1>0, <1>13, SameInStep DEF ExecuteEmpty, Extended, client
<1>14. ASSUME NEW n \in Names, ExecuteMissing(n)
       PROVE  InStep'
  BY <1>0, <1>14, FailExtendedInStep DEF ExecuteMissing
<1>15. CASE Sync
  BY <1>0, <1>15, SameInStep DEF Sync, client
<1>16. CASE UNCHANGED vars
  BY <1>0, <1>16 DEF vars, tables, client, InStep, Coherent
<1> QED
  BY <1>1, <1>2, <1>3, <1>4, <1>5, <1>6, <1>7, <1>8, <1>9, <1>10, <1>11, <1>12,
     <1>13, <1>14, <1>15, <1>16 DEF Next, Serve, ServeExtended

\* With messages of one statement server and client stay in step, whatever mix
\* of simple and extended messages the client sends.
THEOREM StaysInStep == BatchBound = 1 => (Spec => []InStep)
<1> SUFFICES ASSUME BatchBound = 1
             PROVE  Spec => []InStep
  OBVIOUS
<1>1. InStep /\ [Next]_vars => InStep'
  BY InStepStep
<1> QED
  BY <1>1, InStepInit, PTL DEF Spec

\* So the transaction status is what the client concludes from its answers.
THEOREM ServerFollowsAnswers == BatchBound = 1 => (Spec => []StatusFollowsAnswers)
<1> SUFFICES ASSUME BatchBound = 1
             PROVE  Spec => []StatusFollowsAnswers
  OBVIOUS
<1>1. InStep => StatusFollowsAnswers
  BY DEF InStep, StatusFollowsAnswers
<1> QED
  BY <1>1, StaysInStep, PTL

-----------------------------------------------------------------------------
(* The session implements the transaction block *)

\* An error fails the client's block, with at most the one write before it.
LEMMA ErrorFails ==
  ASSUME TypeOK, ToldError, writes' \in {writes, writes + 1},
         view = "Error" => writes' = writes
  PROVE  Block!Fail
BY DEF ToldError, ToError, Block!Fail

\* A response the client is told is its Begin, Commit or Rollback, or nothing.
LEMMA ToldIsStep ==
  ASSUME NEW r \in Responses, Coherent(r), status = view, Told(r), UNCHANGED writes
  PROVE  Block!Next \/ UNCHANGED <<view, said, writes>>
<1>1. CASE r.tag = "BEGIN"
  <2>1. Block!Begin
    BY <1>1 DEF Block!Begin, Told, Coherent
  <2> QED
    BY <2>1 DEF Block!Next
<1>2. CASE r.tag = "COMMIT"
  <2>1. Block!Commit
    BY <1>2 DEF Block!Commit, Told, Coherent
  <2> QED
    BY <2>1 DEF Block!Next
<1>3. CASE r.tag = "ROLLBACK"
  <2>1. Block!Rollback
    BY <1>3 DEF Block!Rollback, Told
  <2> QED
    BY <2>1 DEF Block!Next
<1>4. CASE r.tag = "OTHER"
  BY <1>4 DEF Told
<1> QED
  BY <1>1, <1>2, <1>3, <1>4 DEF Responses

\* A write outside a failed block that the client is told of later, or never.
LEMMA WriteIsStep ==
  ASSUME writes' \in {writes, writes + 1}, view = "Error" => writes' = writes,
         UNCHANGED <<view, said>>
  PROVE  Block!Next \/ UNCHANGED <<view, said, writes>>
BY DEF Block!Next, Block!Work

\* A plain response of the extended protocol comes with its write.
LEMMA PlainToldIsStep ==
  ASSUME NEW r \in Responses, r.tag = "OTHER", Told(r),
         writes' \in {writes, writes + 1}, view = "Error" => writes' = writes
  PROVE  Block!Next \/ UNCHANGED <<view, said, writes>>
BY DEF Block!Next, Block!Work, Told

\* Transaction statements write nothing.
LEMMA TagsDoNotWrite ==
  ASSUME TypeOK, NEW s \in Statements, NEW r \in Responses, Run(s, r), r.tag # "OTHER"
  PROVE  UNCHANGED writes
<1>1. r \notin {Done, Rows, Stream, Failure}
  BY DEF Done, Rows, Stream, Failure, Response
<1> QED
  BY <1>1, CursorHookSound DEF tables, Run, SetShowHook, TransactionStatementHook, Plan

\* Every step of the session is a step of the block or changes nothing of it.
LEMMA BlockStep ==
  ASSUME InStep, [Next]_vars
  PROVE  Block!Next \/ UNCHANGED <<view, said, writes>>
<1>0. TypeOK
  BY DEF InStep
<1>1. ASSUME ToldError, UNCHANGED writes
      PROVE  Block!Next
  BY <1>0, <1>1, ErrorFails DEF Block!Next
<1>2. ASSUME NEW s \in Statements, RunStatement(s)
      PROVE  Block!Next \/ UNCHANGED <<view, said, writes>>
  <2>1. status = view
    BY <1>2 DEF RunStatement, InStep
  <2>2. writes' \in {writes, writes + 1} /\ (view = "Error" => writes' = writes)
    BY <1>0, <1>2, <2>1, RunSound DEF RunStatement
  <2>3. ToldError \/ UNCHANGED <<view, said>>
    BY <1>2 DEF RunStatement, FailMessage, client
  <2> QED
    BY <1>0, <2>2, <2>3, ErrorFails, WriteIsStep DEF Block!Next
<1>3. ASSUME SendResponse
      PROVE  Block!Next \/ UNCHANGED <<view, said, writes>>
  <2>1. PICK r \in Responses : results = <<r>> /\ Coherent(r)
    BY <1>3 DEF SendResponse, InStep
  <2>2. Told(r) /\ UNCHANGED writes /\ status = view
    BY <1>3, <2>1 DEF tables, SendResponse, InStep
  <2> QED
    BY <2>1, <2>2, ToldIsStep
<1>4. ASSUME NEW n \in Names, ExecuteBound(n)
      PROVE  Block!Next \/ UNCHANGED <<view, said, writes>>
  <2>1. portals[n].stmt \in Statements /\ status = view
    BY <1>0, <1>4, PortalShapes DEF ExecuteBound, Extended, InStep, TypeOK
  <2>2. PICK r \in Responses :
          /\ Run(portals[n].stmt, r)
          /\ FailExtended \/ Told(r)
    BY <1>4 DEF ExecuteBound
  <2>3. /\ writes' \in {writes, writes + 1}
        /\ view = "Error" => writes' = writes
        /\ Coherent(r)
    BY <1>0, <2>1, <2>2, RunSound
  <2>4. CASE FailExtended
    BY <1>0, <2>3, <2>4, ErrorFails DEF FailExtended, Block!Next
  <2>5. CASE Told(r) /\ r.tag = "OTHER"
    BY <2>3, <2>5, PlainToldIsStep
  <2>6. CASE Told(r) /\ r.tag # "OTHER"
    BY <1>0, <2>1, <2>2, <2>3, <2>6, TagsDoNotWrite, ToldIsStep
  <2> QED
    BY <2>2, <2>4, <2>5, <2>6
<1>5. CASE QueryUnparsable \/ StreamFails
  BY <1>1, <1>5 DEF tables, QueryUnparsable, StreamFails, FailMessage
<1>6. CASE ParseFails \/ BindFails
  BY <1>1, <1>6 DEF tables, ParseFails, BindFails, FailExtended
<1>7. ASSUME NEW n \in Names, ExecuteMissing(n)
      PROVE  Block!Next
  BY <1>1, <1>7 DEF tables, ExecuteMissing, FailExtended
<1>8. ASSUME NEW n \in 0 .. BatchBound, Query(n)
      PROVE  UNCHANGED <<view, said, writes>>
  BY <1>8 DEF tables, Query
<1>9. ASSUME NEW n \in Names, NEW portal, Parse(n, portal)
      PROVE  UNCHANGED <<view, said, writes>>
  BY <1>9 DEF tables, Parse, client
<1>10. ASSUME NEW n \in Names, NEW p \in Names, Bind(n, p)
       PROVE  UNCHANGED <<view, said, writes>>
  BY <1>10 DEF tables, Bind, client
<1>11. ASSUME NEW n \in Names, ExecuteEmpty(n)
       PROVE  UNCHANGED <<view, said, writes>>
  BY <1>11 DEF tables, ExecuteEmpty, client
<1>12. CASE QueryEmpty \/ EndQuery \/ Sync
  BY <1>12 DEF tables, QueryEmpty, EndQuery, Sync, client
<1>13. CASE UNCHANGED vars
  BY <1>13 DEF vars, tables, client
<1> QED
  BY <1>2, <1>3, <1>4, <1>5, <1>6, <1>7, <1>8, <1>9, <1>10, <1>11, <1>12, <1>13
     DEF Next, Serve, ServeExtended

\* With messages of one statement the session is a PostgreSQL transaction block:
\* every session behaviour is a behaviour of TxBlock.
THEOREM ImplementsBlock == BatchBound = 1 => (Spec => ImplementsTxBlock)
<1> SUFFICES ASSUME BatchBound = 1
             PROVE  Spec => ImplementsTxBlock
  OBVIOUS
<1>1. Init => Block!Init
  BY DEF Init, Block!Init
<1>2. InStep /\ [Next]_vars => [Block!Next]_(Block!txBlock)
  BY BlockStep DEF Block!txBlock
<1> QED
  BY <1>1, <1>2, StaysInStep, PTL DEF Spec, ImplementsTxBlock, Block!Spec

=============================================================================
