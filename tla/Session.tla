------------------------------ MODULE Session -------------------------------
(***************************************************************************)
(* One connection of datafusion-postgres: the simple query loop of         *)
(* DfSessionService, its extended query handler, the query hooks in the    *)
(* order DfSessionService::new installs them, and the part of pgwire that  *)
(* calls them and keeps the transaction status.                            *)
(*                                                                         *)
(* A simple message holds several statements.  do_query runs them all and  *)
(* collects a response for each; pgwire sends the responses afterwards and *)
(* moves the transaction status along with them, so the hooks of one       *)
(* message all see the status the message began with.  A SELECT is still   *)
(* an unread stream when it is answered and can fail while it is sent.     *)
(* Extended messages (Parse, Bind, Execute) are answered one by one, and   *)
(* after an error the rest is discarded until Sync.                        *)
(***************************************************************************)
EXTENDS Naturals, Sequences

CONSTANTS
  Names,       \* names of portals, cursors and prepared statements
  NoName,      \* filler where a statement names none
  Commands,    \* the commands clients send
  MaxRows,     \* bound on the rows of a cursor
  BatchBound,  \* bound on the statements of a simple message
  WriteBound   \* bound on the writes: no statement is sent beyond it

\* A cursor is declared for rows, for an INSERT, UPDATE or DELETE ("declarewrite"),
\* or for a SELECT INTO ("declareinto").
Declarations == {"declare", "declarewrite", "declareinto"}
AllCommands ==
  {"begin", "commit", "rollback", "select", "insert", "ddl", "set", "show",
   "fetch", "scroll", "close", "closeall"} \union Declarations

ASSUME NameAssumption == NoName \notin Names
ASSUME CommandAssumption == Commands \subseteq AllCommands
ASSUME BoundAssumption == MaxRows \in Nat /\ BatchBound \in Nat /\ WriteBound \in Nat

VARIABLES
  status,    \* client.transaction_status()
  setting,   \* the value of a variable in client.metadata()
  portals,   \* the portal store: portals of Bind and cursors of DECLARE
  prepared,  \* the prepared statements of Parse
  writes,    \* changes to tables by statements that were planned
  cursorWrites,  \* changes to tables by the queries of cursors
  phase,     \* what the connection is doing
  todo,      \* statements of the message do_query has yet to run
  results,   \* responses it has collected
  pending,   \* the transaction status pgwire will set after the last response
  asked,     \* statements in the last simple message
  sent,      \* responses to it the client has received
  failed,    \* the last message was answered with an ErrorResponse
  view,      \* the block state a client concludes from the tags and errors it got
  said       \* the last such tag, or "ERROR"

client == <<asked, sent, failed, view, said>>
tables == <<writes, cursorWrites>>
vars == <<status, setting, portals, prepared, tables, phase, todo, results,
          pending, client>>

-----------------------------------------------------------------------------
(* Statements, responses, portals *)

Statuses == {"Idle", "Transaction", "Error"}
Settings == {0, 1}

\* arg is the new value of a SET and the row limit of a FETCH, 0 for no limit.
Statement(cmd, name, arg) == [cmd |-> cmd, name |-> name, arg |-> arg]
Named == Declarations \union {"fetch", "scroll", "close"}
Statements ==
  {s \in [cmd : Commands, name : Names \union {NoName}, arg : {0, 1}] :
     /\ s.cmd \in Named <=> s.name \in Names
     /\ s.arg = 1 => s.cmd \in {"fetch", "set"}}
NoStatement == Statement("none", NoName, 0)

Response(kind, tag) == [kind |-> kind, tag |-> tag]
Responses ==
  [kind : {"exec", "rows", "stream", "start", "end", "empty", "error"},
   tag : {"BEGIN", "COMMIT", "ROLLBACK", "OTHER"}]
Done == Response("exec", "OTHER")       \* Response::Execution
Rows == Response("rows", "OTHER")       \* Response::Query, rows at hand
Stream == Response("stream", "OTHER")   \* Response::Query, rows to be read
Empty == Response("empty", "OTHER")     \* Response::EmptyQuery
Failure == Response("error", "OTHER")   \* Err(PgWireError)

Portal(kind, stmt, left) == [kind |-> kind, stmt |-> stmt, left |-> left]
NoPortal == Portal("none", NoStatement, 0)
EmptyPortal == Portal("empty", NoStatement, 0)
Cursor(n) == Portal("cursor", NoStatement, n)
Writer == Portal("writer", NoStatement, 1)  \* a cursor whose query is yet to write
Bound(s) == Portal("bound", s, 0)
Portals ==
  {NoPortal, EmptyPortal, Writer} \union {Cursor(n) : n \in 0 .. MaxRows}
    \union {Bound(s) : s \in Statements}

-----------------------------------------------------------------------------
(* The query hooks: what a statement answers, r, and changes.              *)

\* handle_declare: the query is planned, which is when a SELECT INTO creates its
\* table, and its stream stored unread.
Declare(s, r) ==
  LET Stored(portal) == r = Done /\ portals' = [portals EXCEPT ![s.name] = portal] IN
  \/ /\ r = Failure /\ UNCHANGED portals
     /\ \/ UNCHANGED cursorWrites
        \/ s.cmd = "declareinto" /\ cursorWrites' = cursorWrites + 1
  \/ /\ s.cmd = "declare"
     /\ \E n \in 0 .. MaxRows : Stored(Cursor(n))
     /\ UNCHANGED cursorWrites
  \/ s.cmd = "declarewrite" /\ Stored(Writer) /\ UNCHANGED cursorWrites
  \/ s.cmd = "declareinto" /\ Stored(Cursor(0)) /\ cursorWrites' = cursorWrites + 1

\* Rows left after a FETCH.
Remaining(limit, left) == IF limit = 0 \/ left = 0 THEN 0 ELSE left - 1

\* handle_fetch reads the stream: an INSERT, UPDATE or DELETE runs when its row,
\* the count, is read first.  What pgwire does with a portal of Bind is left open.
Fetch(s, r) ==
  LET portal == portals[s.name] IN
  \/ /\ portal.kind \in {"none", "empty"}
     /\ r = Failure /\ UNCHANGED <<portals, cursorWrites>>
  \/ /\ portal.kind = "cursor"
     /\ r \in {Rows, Failure}
     /\ portals' = [portals EXCEPT ![s.name] = Cursor(Remaining(s.arg, portal.left))]
     /\ UNCHANGED cursorWrites
  \/ /\ portal.kind = "writer"
     /\ \/ r \in {Rows, Failure} /\ cursorWrites' = cursorWrites + 1
        \/ r = Failure /\ UNCHANGED cursorWrites
     /\ portals' = [portals EXCEPT ![s.name] = Cursor(0)]
  \/ /\ portal.kind = "bound"
     /\ r \in {Rows, Failure} /\ UNCHANGED <<portals, cursorWrites>>

\* handle_close: closing what is not there is no error.
Close(s, r) == r = Done /\ portals' = [portals EXCEPT ![s.name] = NoPortal]
CloseAll(r) == r = Done /\ portals' = [n \in Names |-> NoPortal]

CursorCommands == Declarations \union {"fetch", "scroll", "close", "closeall"}

CursorStatementHook(s, r) ==
  /\ \/ s.cmd \in Declarations /\ Declare(s, r)
     \/ s.cmd = "fetch" /\ Fetch(s, r)
     \/ /\ \/ s.cmd = "scroll" /\ r = Failure /\ UNCHANGED portals
           \/ s.cmd = "close" /\ Close(s, r)
           \/ s.cmd = "closeall" /\ CloseAll(r)
        /\ UNCHANGED cursorWrites
  /\ UNCHANGED <<setting, writes>>

SettingCommands == {"set", "show"}

\* The variable is set even if its ParameterStatus cannot be sent.
SetShowHook(s, r) ==
  /\ \/ s.cmd = "set" /\ r \in {Done, Failure} /\ setting' = s.arg
     \/ s.cmd = "show" /\ r = Rows /\ UNCHANGED setting
  /\ UNCHANGED <<portals, tables>>

BlockCommands == {"begin", "commit", "rollback"}

\* Mutant: only transaction statements are answered.
TransactionHookAnswersOpen(s) == s.cmd \in BlockCommands

\* In a failed block the hook answers whatever reaches it.
TransactionHookAnswers(s) == s.cmd \in BlockCommands \/ status = "Error"

\* Mutant: COMMIT in a failed block answers as in any other.
EndTagCommit(s) == IF s.cmd = "commit" THEN "COMMIT" ELSE "ROLLBACK"

EndTag(s) ==
  IF s.cmd = "commit" /\ status # "Error" THEN "COMMIT" ELSE "ROLLBACK"

\* Mutant: BEGIN is answered like any other command.
BeginResponseExec ==
  IF status = "Error" THEN Failure ELSE Response("exec", "BEGIN")

\* Mutant: BEGIN starts a block in a failed one.
BeginResponseOpen ==
  Response(IF status = "Transaction" THEN "exec" ELSE "start", "BEGIN")

\* A nested BEGIN succeeds and does nothing.
BeginResponse ==
  IF status = "Error" THEN Failure
  ELSE Response(IF status = "Transaction" THEN "exec" ELSE "start", "BEGIN")

\* Only COMMIT and ROLLBACK are accepted in a failed block.
TransactionStatementHook(s, r) ==
  /\ \/ s.cmd \in {"commit", "rollback"} /\ r = Response("end", EndTag(s))
     \/ s.cmd = "begin" /\ r = BeginResponse
     \/ s.cmd \notin BlockCommands /\ status = "Error" /\ r = Failure
  /\ UNCHANGED <<portals, setting, tables>>

\* DataFusion plans and runs what no hook answers.  An INSERT is collected and
\* DDL runs while it is planned; either may fail or time out after it took
\* effect.  A SELECT that plans is answered with its stream.
Plan(s, r) ==
  /\ \/ r = Failure /\ UNCHANGED writes
     \/ s.cmd = "insert" /\ r \in {Done, Failure} /\ writes' = writes + 1
     \/ s.cmd = "ddl" /\ r \in {Rows, Failure} /\ writes' = writes + 1
     \/ s.cmd = "select" /\ r = Stream /\ UNCHANGED writes
  /\ UNCHANGED <<portals, setting, cursorWrites>>

\* Some hook answers the statement.
Hooked(s) == s.cmd \in CursorCommands \union SettingCommands \/ TransactionHookAnswers(s)

\* The hooks are asked in this order and the first that answers wins.
Run(s, r) ==
  IF s.cmd \in CursorCommands THEN CursorStatementHook(s, r)
  ELSE IF s.cmd \in SettingCommands THEN SetShowHook(s, r)
  ELSE IF TransactionHookAnswers(s) THEN TransactionStatementHook(s, r)
  ELSE Plan(s, r)

-----------------------------------------------------------------------------
(* pgwire *)

\* TransactionStatus::to_error_state
ToError(t) == IF t = "Idle" THEN "Idle" ELSE "Error"

\* The transaction status after a response.
After(t, r) ==
  IF r.kind = "start" /\ t # "Error" THEN "Transaction"
  ELSE IF r.kind = "end" THEN "Idle" ELSE t

\* The client is sent a response, or an error.
Told(r) ==
  /\ view' = IF r.tag = "BEGIN" THEN "Transaction"
             ELSE IF r.tag \in {"COMMIT", "ROLLBACK"} THEN "Idle" ELSE view
  /\ said' = IF r.tag = "OTHER" THEN said ELSE r.tag

ToldError == view' = ToError(view) /\ said' = "ERROR" /\ failed' = TRUE

-----------------------------------------------------------------------------
Init ==
  /\ status = "Idle"
  /\ setting = 0
  /\ portals = [n \in Names |-> NoPortal]
  /\ prepared = [n \in Names |-> NoPortal]
  /\ writes = 0 /\ cursorWrites = 0
  /\ phase = "ready" /\ todo = 0 /\ results = <<>> /\ pending = "Idle"
  /\ asked = 0 /\ sent = 0 /\ failed = FALSE
  /\ view = "Idle" /\ said = "NONE"

(* Simple protocol *)

\* A message of n statements arrives.
Query(n) ==
  /\ phase = "ready"
  /\ writes + cursorWrites < WriteBound
  /\ phase' = "batch"
  /\ todo' = n
  /\ asked' = n /\ sent' = 0 /\ failed' = FALSE
  /\ pending' = status
  /\ UNCHANGED <<status, setting, portals, prepared, tables, results, view, said>>

\* Mutant: a simple message that fails waits for a Sync, as extended ones do.
FailMessageNoReady ==
  /\ ToldError
  /\ status' = ToError(status)
  /\ pending' = ToError(status)
  /\ phase' = "discard" /\ todo' = 0 /\ results' = <<>>
  /\ UNCHANGED <<prepared, asked, sent>>

\* Mutant: responses that were not sent are kept.
FailMessageKeepsResults ==
  /\ ToldError
  /\ status' = ToError(status)
  /\ pending' = ToError(status)
  /\ phase' = "ready" /\ todo' = 0
  /\ UNCHANGED <<results, prepared, asked, sent>>

\* do_query, or the sending of a response, fails: the client gets an error and
\* ReadyForQuery; responses not sent yet are dropped.
FailMessage ==
  /\ ToldError
  /\ status' = ToError(status)
  /\ pending' = ToError(status)
  /\ phase' = "ready" /\ todo' = 0 /\ results' = <<>>
  /\ UNCHANGED <<prepared, asked, sent>>

\* The message does not parse: nothing of it runs.
QueryUnparsable ==
  /\ phase = "batch" /\ todo = asked
  /\ FailMessage
  /\ UNCHANGED <<setting, portals, tables>>

\* The message holds no statement.
QueryEmpty ==
  /\ phase = "batch" /\ asked = 0
  /\ results' = <<Empty>>
  /\ phase' = "answer"
  /\ UNCHANGED <<status, setting, portals, prepared, tables, todo, pending, client>>

\* Mutant: a hook's answer ends the loop over the statements (issue #227).
RemainingAfterBreak(s) == IF Hooked(s) THEN 0 ELSE todo - 1

RemainingAfter(s) == todo - 1

\* One turn of the loop over the statements.
RunStatement(s) ==
  /\ phase = "batch" /\ todo > 0
  /\ \E r \in Responses :
       /\ Run(s, r)
       /\ \/ /\ r = Failure
             /\ FailMessage
          \/ /\ r # Failure
             /\ results' = Append(results, r)
             /\ todo' = RemainingAfter(s)
             /\ phase' = IF todo' = 0 THEN "answer" ELSE "batch"
             /\ UNCHANGED <<status, prepared, pending, client>>

SendResponse ==
  /\ phase = "answer" /\ results # <<>>
  /\ Told(Head(results))
  /\ pending' = After(pending, Head(results))
  /\ results' = Tail(results)
  /\ sent' = sent + (IF Head(results) = Empty THEN 0 ELSE 1)
  /\ UNCHANGED <<status, setting, portals, prepared, tables, phase, todo, asked, failed>>

\* A row of the stream is an error.
StreamFails ==
  /\ phase = "answer" /\ results # <<>> /\ Head(results) = Stream
  /\ FailMessage
  /\ UNCHANGED <<setting, portals, tables>>

\* All responses are sent: the status is set and ReadyForQuery follows.
EndQuery ==
  /\ phase = "answer" /\ results = <<>>
  /\ status' = pending
  /\ phase' = "ready"
  /\ UNCHANGED <<setting, portals, prepared, tables, todo, results, pending, client>>

(* Extended protocol *)

Extended == phase \in {"ready", "pipeline"}

FailExtended ==
  /\ ToldError
  /\ status' = ToError(status)
  /\ phase' = "discard"
  /\ UNCHANGED <<prepared, todo, results, pending, asked, sent>>

\* Only the first statement of the text is kept, an empty text is a statement
\* too.  Unless a hook has a dummy plan for it, the statement may fail to plan.
Parse(n, portal) ==
  /\ Extended
  /\ phase' = "pipeline"
  /\ prepared' = [prepared EXCEPT ![n] = portal]
  /\ UNCHANGED <<status, setting, portals, tables, todo, results, pending, client>>

ParseFails ==
  /\ Extended
  /\ FailExtended
  /\ UNCHANGED <<setting, portals, tables>>

\* The portal of that name, a cursor too, is replaced.
Bind(n, p) ==
  /\ Extended
  /\ prepared[p] # NoPortal
  /\ phase' = "pipeline"
  /\ portals' = [portals EXCEPT ![n] = prepared[p]]
  /\ UNCHANGED <<status, setting, prepared, tables, todo, results, pending, client>>

BindFails ==
  /\ Extended
  /\ FailExtended
  /\ UNCHANGED <<setting, portals, tables>>

\* The portal's statement runs; the status follows each response at once.
ExecuteBound(n) ==
  /\ Extended
  /\ writes + cursorWrites < WriteBound
  /\ portals[n].kind = "bound"
  /\ \E r \in Responses :
       /\ Run(portals[n].stmt, r)
       /\ \/ /\ r \in {Failure, Stream}
             /\ FailExtended
          \/ /\ r # Failure
             /\ phase' = "pipeline"
             /\ status' = After(status, r)
             /\ Told(r)
             /\ UNCHANGED <<prepared, todo, results, pending, asked, sent, failed>>

\* No hook sees a portal of an empty text.
ExecuteEmpty(n) ==
  /\ Extended
  /\ portals[n].kind = "empty"
  /\ phase' = "pipeline"
  /\ UNCHANGED <<status, setting, portals, prepared, tables, todo, results, pending, client>>

ExecuteMissing(n) ==
  /\ Extended
  /\ portals[n].kind = "none"
  /\ FailExtended
  /\ UNCHANGED <<setting, portals, tables>>

Sync ==
  /\ phase \in {"pipeline", "discard"}
  /\ phase' = "ready"
  /\ UNCHANGED <<status, setting, portals, prepared, tables, todo, results, pending, client>>

-----------------------------------------------------------------------------
Serve ==
  \/ QueryUnparsable \/ QueryEmpty
  \/ \E s \in Statements : RunStatement(s)
  \/ SendResponse \/ StreamFails \/ EndQuery

ServeExtended ==
  \/ \E n \in Names, s \in Statements : Parse(n, Bound(s))
  \/ \E n \in Names : Parse(n, EmptyPortal)
  \/ ParseFails
  \/ \E n, p \in Names : Bind(n, p)
  \/ BindFails
  \/ \E n \in Names : ExecuteBound(n) \/ ExecuteEmpty(n) \/ ExecuteMissing(n)
  \/ Sync

Next ==
  \/ \E n \in 0 .. BatchBound : Query(n)
  \/ Serve
  \/ ServeExtended

Spec == Init /\ [][Next]_vars

\* The runtime keeps polling the connection's task while it works on a message.
FairSpec == Spec /\ WF_vars(Serve)

-----------------------------------------------------------------------------
Phases == {"ready", "batch", "answer", "pipeline", "discard"}

\* Every variable has its type, and nothing of a message is left over when it is
\* over.
TypeOK ==
  /\ status \in Statuses /\ pending \in Statuses /\ view \in Statuses
  /\ setting \in Settings
  /\ portals \in [Names -> Portals]
  /\ prepared \in [Names -> Portals]
  /\ writes \in Nat /\ cursorWrites \in Nat
  /\ phase \in Phases
  /\ todo \in Nat /\ asked \in Nat /\ sent \in Nat
  /\ todo <= asked
  /\ results \in Seq(Responses)
  /\ failed \in BOOLEAN
  /\ said \in {"NONE", "ERROR", "BEGIN", "COMMIT", "ROLLBACK"}
  /\ phase # "batch" => todo = 0
  /\ phase \notin {"batch", "answer"} => results = <<>>

\* A simple message is answered in full: unless it failed, the client has one
\* response for each of its statements when the message is over, EmptyQuery being
\* the answer to a message of none; and while do_query runs nothing is sent, so
\* a message do_query fails gets the error alone.
AnsweredInFull ==
  /\ phase = "batch" => sent = 0 /\ Len(results) + todo = asked
  /\ phase = "answer" =>
       /\ asked > 0 => Len(results) + sent = asked
       /\ asked = 0 => sent = 0
  /\ \A i \in 1 .. Len(results) : results[i] = Empty <=> asked = 0
  /\ phase \notin {"batch", "answer"} /\ ~failed => sent = asked

\* While the block has failed no statement changes a table, in any message of
\* either protocol, but by the query of a cursor: DECLARE and FETCH are answered
\* before TransactionStatementHook is asked.
FailedBlockIsInert == [][status = "Error" => writes' = writes]_vars

\* Between messages the transaction status is what the client concludes from
\* the command tags and errors it was sent.
StatusFollowsAnswers == phase \in {"ready", "pipeline", "discard"} => status = view

\* A response agrees with the block it was given in: BEGIN and COMMIT never
\* answer in a failed block, and a tag that changes the block is on a response
\* pgwire changes the status for.
Coherent(r) ==
  /\ r.tag = "BEGIN" =>
       \/ r.kind = "start" /\ status # "Error"
       \/ r.kind = "exec" /\ status = "Transaction"
  /\ r.tag = "COMMIT" => r.kind = "end" /\ status # "Error"
  /\ r.tag = "ROLLBACK" => r.kind = "end"
  /\ r.tag = "OTHER" => r.kind \notin {"start", "end"}

\* With one statement in a message the server and the client are never more than
\* the one unsent response apart.  The inductive invariant.
InStep ==
  /\ TypeOK
  /\ todo <= 1
  /\ phase = "batch" => results = <<>> /\ pending = status
  /\ phase # "answer" => status = view
  /\ phase = "answer" =>
       \/ results = <<>> /\ pending = view
       \/ /\ status = view /\ pending = status
          /\ \E r \in Responses : results = <<r>> /\ Coherent(r)

\* With one statement in a message a client sees PostgreSQL's transaction
\* block: no BEGIN or COMMIT is acknowledged in a failed block and no table
\* changed but by a cursor, only COMMIT and ROLLBACK end it, and an error fails
\* an open block.
Block == INSTANCE TxBlock WITH block <- view, said <- said, effects <- writes
ImplementsTxBlock == Block!Spec

\* A simple message is answered: the connection gets ready for the next one.
Responsive == phase \in {"batch", "answer"} ~> phase = "ready"

\* In a failed block nothing but its end is obeyed ("current transaction is aborted,
\* commands ignored until end of transaction block"): no setting and no table
\* changes, be it by the query of a cursor that was declared before the block failed.
FailedBlockIgnoresCommands ==
  [][status = "Error" => UNCHANGED <<setting, tables>>]_vars
=============================================================================
