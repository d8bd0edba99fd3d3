------------------------------ MODULE Settings ------------------------------
(***************************************************************************)
(* SET and SHOW on the connections of Server.  Each connection has its own *)
(* metadata, which pgwire creates with the connection and SetShowHook      *)
(* reads and writes; a ParameterStatus is sent as soon as a variable is    *)
(* set, while the responses of a message are collected and sent after its  *)
(* last statement.  A SELECT takes the format options from the metadata    *)
(* when it runs, and its rows are encoded with them when they are sent.    *)
(***************************************************************************)
EXTENDS Server, Sequences, FiniteSetsExt

CONSTANTS
  Sends,      \* what statements the client of each socket sends
  Values,     \* values that are set
  Default,    \* the value of a variable that is not in the metadata
  Blank,      \* the empty string
  Width,      \* u64 has this many values
  BatchBound  \* bound on the statements of a message

\* A variable that formats rows and is told to the client, and the time zone.
Variables == {"datestyle", "timezone"}
Settable == Values \union {Blank, Default}

\* How a value is written: a string, a number, or a name as in SET datestyle TO ISO.
Forms == {"string", "number", "name"}
Assign(var, form, value) == [kind |-> "set", var |-> var, form |-> form, value |-> value]
Show(var) == [kind |-> "show", var |-> var]
Select == [kind |-> "select"]

\* SET statement_timeout to a number with a unit or none; -1 for what is no number.
Units == {"ms", "s", "min", "none"}
Numbers == Nat \union {-1}
SetTimeout(n, unit) == [kind |-> "timeout", n |-> n, unit |-> unit]

AllStatements ==
  [kind : {"set"}, var : Variables, form : Forms, value : Values]
    \union [kind : {"show"}, var : Variables]
    \union {Select}
    \union [kind : {"timeout"}, n : Numbers, unit : Units]

ASSUME SendsAssumption == Sends \in [Sockets -> SUBSET AllStatements]
ASSUME BatchAssumption == BatchBound \in Nat
ASSUME WidthAssumption == Width \in Nat \ {0}

VARIABLE sessions   \* what each connection keeps

vars == <<server, sessions>>

-----------------------------------------------------------------------------
(* statement_timeout *)

Off == 0
Factor(unit) ==
  CASE unit = "s" -> 1000 [] unit = "min" -> 60 * 1000 [] unit \in {"ms", "none"} -> 1

\* The suffixes a text with that unit ends with.
Ends(unit) == CASE unit = "ms" -> {"ms", "s"} [] unit = "none" -> {} [] OTHER -> {unit}

\* Mutant: seconds are tried before milliseconds.
SuffixesSecondsFirst == <<"s", "ms", "min">>

\* The suffixes in the order they are tried.
Suffixes == <<"ms", "s", "min">>

Suffix(unit) ==
  IF Ends(unit) = {} THEN "none"
  ELSE Suffixes[CHOOSE i \in DOMAIN Suffixes :
         /\ Suffixes[i] \in Ends(unit)
         /\ \A j \in DOMAIN Suffixes : Suffixes[j] \in Ends(unit) => i <= j]

\* What is left after the suffix has to be a number; the product may overflow,
\* and what fails or is zero turns the timeout off.
TimeoutMs(n, unit) ==
  IF n < 0 \/ Suffix(unit) # unit THEN Off
  ELSE (n * Factor(unit)) % Width

-----------------------------------------------------------------------------
(* A connection *)

Defaults == [var \in Variables |-> Default]

\* metadata, timeout: client.metadata().  told: the last ParameterStatus of each
\* variable.  The rest is the message that is being served, and what was asked:
\* asked, before and got are its statements, what the client had been told when
\* it sent them, and the values it got; lastTimeout is the last timeout set.
NewSession ==
  [metadata |-> Defaults, timeout |-> Off, told |-> Defaults,
   phase |-> "ready", todo |-> <<>>, results |-> <<>>,
   asked |-> <<>>, before |-> Defaults, got |-> <<>>,
   lastTimeout |-> SetTimeout(0, "none")]

Serving(c, phase) == conn[c] = "serving" /\ sessions[c].phase = phase
Update(c, session) == sessions' = [sessions EXCEPT ![c] = session] /\ UNCHANGED server

\* The loop moves on with a response.
Answered(session, response) ==
  [session EXCEPT !.todo = Tail(@), !.results = Append(@, response),
                  !.phase = IF Len(session.todo) = 1 THEN "answer" ELSE "run"]

\* Responses by the value they show: of a variable, the style of rows, or none.
Done == "done"

\* The metadata after a SET.  A number has no string value; a name is no value at
\* all, DataFusion is asked to set it and its error is ignored.
Stored(stmt, metadata) ==
  IF stmt.var = "datestyle" /\ stmt.form = "name" THEN metadata
  ELSE [metadata EXCEPT ![stmt.var] =
          IF stmt.var = "datestyle" /\ stmt.form = "number" THEN Blank ELSE stmt.value]

\* Mutant: the status is looked up under the name the client knows it by.
StatusSentByDisplayName(stmt, told, metadata) == told

\* A ParameterStatus is sent with what was stored.
StatusSent(stmt, told, metadata) ==
  IF stmt.var = "datestyle" /\ stmt.form = "name" THEN told
  ELSE [told EXCEPT ![stmt.var] = metadata[stmt.var]]

RunSet(c) ==
  LET session == sessions[c]
      stmt == Head(session.todo)
      metadata == Stored(stmt, session.metadata)
  IN
  /\ Serving(c, "run") /\ stmt.kind = "set"
  /\ Update(c, [Answered(session, Done) EXCEPT
                  !.metadata = metadata,
                  !.told = StatusSent(stmt, session.told, metadata)])

RunSetTimeout(c) ==
  LET session == sessions[c]
      stmt == Head(session.todo)
  IN
  /\ Serving(c, "run") /\ stmt.kind = "timeout"
  /\ Update(c, [Answered(session, Done) EXCEPT
                  !.timeout = TimeoutMs(stmt.n, stmt.unit), !.lastTimeout = stmt])

RunShow(c) ==
  LET session == sessions[c]
      stmt == Head(session.todo)
  IN
  /\ Serving(c, "run") /\ stmt.kind = "show"
  /\ Update(c, Answered(session, session.metadata[stmt.var]))

\* The rows are yet to be read and encoded, the options are fixed.
RunSelect(c) ==
  LET session == sessions[c] IN
  /\ Serving(c, "run") /\ Head(session.todo).kind = "select"
  /\ Update(c, Answered(session, session.metadata.datestyle))

\* A SELECT fails: the responses are dropped, what was set stays set.
FailSelect(c) ==
  LET session == sessions[c] IN
  /\ Serving(c, "run") /\ Head(session.todo).kind = "select"
  /\ Update(c, [session EXCEPT !.phase = "ready", !.todo = <<>>, !.results = <<>>])

\* Mutant: the options are read when the rows are encoded.
ValueSentNow(session) ==
  IF session.asked[Len(session.got) + 1].kind = "select"
  THEN session.metadata.datestyle ELSE Head(session.results)

ValueSent(session) == Head(session.results)

SendResponse(c) ==
  LET session == sessions[c] IN
  /\ Serving(c, "answer") /\ session.results # <<>>
  /\ Update(c, [session EXCEPT !.results = Tail(@), !.got = Append(@, ValueSent(session))])

\* Rows are read while they are sent, and reading fails.
StreamFails(c) ==
  LET session == sessions[c] IN
  /\ Serving(c, "answer") /\ session.results # <<>>
  /\ session.asked[Len(session.got) + 1].kind = "select"
  /\ Update(c, [session EXCEPT !.phase = "ready", !.results = <<>>])

EndQuery(c) ==
  /\ Serving(c, "answer") /\ sessions[c].results = <<>>
  /\ Update(c, [sessions[c] EXCEPT !.phase = "ready"])

Messages(c) == UNION {[1 .. n -> Sends[c]] : n \in 1 .. BatchBound}

Query(c, message) ==
  /\ Serving(c, "ready")
  /\ Update(c, [sessions[c] EXCEPT
                  !.phase = "run", !.todo = message, !.asked = message,
                  !.before = sessions[c].told, !.got = <<>>])

-----------------------------------------------------------------------------
Init == ServerInit /\ sessions = [c \in Sockets |-> NewSession]

Run(c) == RunSet(c) \/ RunSetTimeout(c) \/ RunShow(c) \/ RunSelect(c) \/ FailSelect(c)

\* Mutant: the settings of the last connection are found again.
AtEndKept(c) == sessions

AtEnd(c) == [sessions EXCEPT ![c] = NewSession]

\* The server's steps; the metadata goes with the connection.
Serve(c) ==
  \/ (Accept(c) \/ Admit(c) \/ Refuse(c) \/ StartUp(c)) /\ UNCHANGED sessions
  \/ End(c) /\ sessions' = AtEnd(c)

Next ==
  \E c \in Sockets :
    \/ Serve(c)
    \/ \E message \in Messages(c) : Query(c, message)
    \/ Run(c) \/ SendResponse(c) \/ StreamFails(c) \/ EndQuery(c)

Spec == Init /\ [][Next]_vars

-----------------------------------------------------------------------------
SessionType ==
  [metadata : [Variables -> Settable], timeout : Nat, told : [Variables -> Settable],
   phase : {"ready", "run", "answer"}, todo : Seq(AllStatements),
   results : Seq(Settable \union {Done}), asked : Seq(AllStatements),
   before : [Variables -> Settable], got : Seq(Settable \union {Done}),
   lastTimeout : [kind : {"timeout"}, n : Numbers, unit : Units]]

\* Every variable has its type, a socket without a connection keeps nothing, and
\* a message is run until no statement of it is left.
TypeOK ==
  /\ conn \in [Sockets -> States] /\ permits \in Nat
  /\ sessions \in [Sockets -> SessionType]
  /\ \A c \in Sockets : conn[c] # "serving" => sessions[c] = NewSession
  /\ \A c \in Sockets : sessions[c].phase = "run" <=> sessions[c].todo # <<>>

\* What a client was last told of a variable is what the server has stored for
\* it, whatever forms of SET it used and whatever failed after them (the test
\* "parameter status sent for all set vars").
ToldIsStored == \A c \in Sockets : sessions[c].told = sessions[c].metadata

\* The value a variable has for statement i of the last message: the one of the
\* last SET before it in the message, or what the client was told before.
SetBefore(session, i, var) ==
  {j \in 1 .. (i - 1) : /\ session.asked[j].kind = "set" /\ session.asked[j].var = var
                        /\ var = "timezone" \/ session.asked[j].form # "name"}
Expected(session, i, var) ==
  LET set == SetBefore(session, i, var)
      last == session.asked[Max(set)]
  IN IF set = {} THEN session.before[var]
     ELSE IF var = "datestyle" /\ last.form = "number" THEN Blank
     ELSE last.value

\* Rows and SHOW come to the client as of the place their statement has in the
\* message, although responses are sent after later statements ran and other
\* connections set variables meanwhile.
AnswersInOrder ==
  \A c \in Sockets : \A i \in DOMAIN sessions[c].got :
    LET session == sessions[c]
        stmt == session.asked[i]
    IN /\ stmt.kind = "select" => session.got[i] = Expected(session, i, "datestyle")
       /\ stmt.kind = "show" => session.got[i] = Expected(session, i, stmt.var)

InForce(session, factor) ==
  LET ms == session.lastTimeout.n * factor
  IN ms < Width => session.timeout = IF ms <= 0 THEN Off ELSE ms

\* The statement timeout in force is the one that was last set, in milliseconds
\* ("supports ms, s, min formats"), unless it exceeds what a u64 can count.
TimeoutAsSet ==
  \A c \in Sockets :
    /\ sessions[c].lastTimeout.unit \in {"ms", "none"} => InForce(sessions[c], 1)
    /\ sessions[c].lastTimeout.unit = "s" => InForce(sessions[c], 1000)
    /\ sessions[c].lastTimeout.unit = "min" => InForce(sessions[c], 60000)
=============================================================================
