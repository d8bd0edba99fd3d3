--------------------------- MODULE Settings_proofs ---------------------------
(***************************************************************************)
(* Theorems about Server and Settings: the connection limit, and what      *)
(* clients are told of their settings, for any sockets, limit and values.  *)
(***************************************************************************)
EXTENDS Settings, FiniteSetTheorems, SequenceTheorems, TLAPS

-----------------------------------------------------------------------------
(* The server *)

\* A socket that enters or leaves process changes the count by one.
LEMMA EnterLeave ==
  ASSUME conn \in [Sockets -> States], NEW c \in Sockets, NEW to \in States,
         conn' = [conn EXCEPT ![c] = to]
  PROVE  /\ Cardinality(InProcess) \in Nat
         /\ c \notin InProcess /\ to \in {"startup", "serving"} =>
              Cardinality(InProcess') = Cardinality(InProcess) + 1
         /\ c \in InProcess /\ to \in {"closed", "accepted"} =>
              Cardinality(InProcess') = Cardinality(InProcess) - 1
         /\ (c \in InProcess <=> to \in {"startup", "serving"}) => InProcess' = InProcess
<1>1. IsFiniteSet(InProcess)
  BY SocketAssumption, FS_Subset DEF InProcess
<1>2. InProcess' = IF to \in {"startup", "serving"} THEN InProcess \union {c} ELSE InProcess \ {c}
  BY DEF InProcess, States
<1>3. Cardinality(InProcess) \in Nat
  BY <1>1, FS_CardinalityType
<1>4. c \notin InProcess => Cardinality(InProcess \union {c}) = Cardinality(InProcess) + 1
  BY <1>1, FS_AddElement
<1>5. c \in InProcess => Cardinality(InProcess \ {c}) = Cardinality(InProcess) - 1
  BY <1>1, FS_RemoveElement
<1>6. /\ c \in InProcess => InProcess \union {c} = InProcess
      /\ c \notin InProcess => InProcess \ {c} = InProcess
  OBVIOUS
<1> QED
  BY <1>2, <1>3, <1>4, <1>5, <1>6 DEF States

\* Every step of the server keeps count of the permits.
LEMMA PermitsStep ==
  ASSUME PermitsCount, [ServerNext]_server
  PROVE  PermitsCount'
<1> USE LimitAssumption DEF PermitsCount
<1>1. ASSUME NEW c \in Sockets, Accept(c) \/ Refuse(c)
      PROVE  PermitsCount'
  <2>1. PICK to \in {"closed", "accepted"} : conn' = [conn EXCEPT ![c] = to]
    BY <1>1 DEF Accept, Refuse
  <2>2. c \notin InProcess /\ UNCHANGED permits
    BY <1>1 DEF Accept, Refuse, InProcess
  <2>3. InProcess' = InProcess
    BY <2>1, <2>2, EnterLeave DEF States
  <2> QED
    BY <2>1, <2>2, <2>3 DEF States, Limited
<1>2. ASSUME NEW c \in Sockets, Admit(c)
      PROVE  PermitsCount'
  <2>1. c \notin InProcess /\ conn' = [conn EXCEPT ![c] = "startup"]
    BY <1>2 DEF Admit, InProcess
  <2>2. Cardinality(InProcess') = Cardinality(InProcess) + 1 /\ Cardinality(InProcess) \in Nat
    BY <2>1, EnterLeave DEF States
  <2>3. permits' = IF Limited THEN permits - 1 ELSE permits
    BY <1>2 DEF Admit, PermitsAfterAdmit
  <2> QED
    BY <1>2, <2>1, <2>2, <2>3 DEF Admit, States, Limited
<1>3. ASSUME NEW c \in Sockets, StartUp(c)
      PROVE  PermitsCount'
  <2>1. c \in InProcess /\ conn' = [conn EXCEPT ![c] = "serving"] /\ UNCHANGED permits
    BY <1>3 DEF StartUp, InProcess
  <2>2. InProcess' = InProcess
    BY <2>1, EnterLeave DEF States
  <2> QED
    BY <2>1, <2>2 DEF States, Limited
<1>4. ASSUME NEW c \in Sockets, End(c)
      PROVE  PermitsCount'
  <2>1. c \in InProcess /\ conn' = [conn EXCEPT ![c] = "closed"]
    BY <1>4 DEF End
  <2>2. Cardinality(InProcess') = Cardinality(InProcess) - 1 /\ Cardinality(InProcess) \in Nat
    BY <2>1, EnterLeave DEF States
  <2>3. permits' = IF Limited THEN permits + 1 ELSE permits
    BY <1>4 DEF End, PermitsAfterEnd
  <2> QED
    BY <2>1, <2>2, <2>3 DEF States, Limited
<1>5. CASE UNCHANGED server
  BY <1>5 DEF server, Limited, InProcess
<1> QED
  BY <1>1, <1>2, <1>3, <1>4, <1>5 DEF ServerNext

\* SET, SHOW and queries are no steps of the server.
LEMMA ServerStep ==
  ASSUME [Next]_vars
  PROVE  [ServerNext]_server
BY DEF Next, vars, server, Serve, ServerNext, Query, Run, RunSet, RunSetTimeout, RunShow,
       RunSelect, FailSelect, SendResponse, StreamFails, EndQuery, Update

\* Settings runs on the connections of Server.
THEOREM RunsOnServer == Spec => ServerSpec
<1>1. Init => ServerInit
  BY DEF Init
<1> QED
  BY <1>1, ServerStep, PTL DEF Spec, ServerSpec

\* Every permit is in the semaphore or with a connection in process.
THEOREM PermitsCounted == Spec => []PermitsCount
<1>1. Init => PermitsCount
  <2> SUFFICES ASSUME ServerInit PROVE PermitsCount
    BY DEF Init
  <2>1. InProcess = {}
    BY DEF ServerInit, InProcess
  <2> QED
    BY <2>1, FS_EmptySet, LimitAssumption DEF ServerInit, PermitsCount, States
<1> QED
  BY <1>1, PermitsStep, ServerStep, PTL DEF Spec

\* However many clients connect, and however their connections end, the limit of
\* connections is kept.
THEOREM LimitKept == Spec => []LimitRespected
<1>1. PermitsCount => LimitRespected
  <2>1. conn \in [Sockets -> States] => Cardinality(InProcess) \in Nat
    BY SocketAssumption, FS_Subset, FS_CardinalityType DEF InProcess
  <2> QED
    BY <2>1, LimitAssumption DEF PermitsCount, LimitRespected
<1> QED
  BY <1>1, PermitsCounted, PTL

\* No client is turned away while there is room.
THEOREM RefusalsRight == Spec => RefusedOnlyWhenFull
<1>1. ASSUME PermitsCount, [Next]_vars, NEW c \in Sockets,
             conn[c] = "accepted", conn'[c] = "closed"
      PROVE  Limited /\ Cardinality(InProcess) = MaxConnections
  <2>1. conn[c] # conn'[c]
    BY <1>1
  <2>2. PICK x \in Sockets : Accept(x) \/ Admit(x) \/ Refuse(x) \/ StartUp(x) \/ End(x)
    BY <1>1, <2>1, ServerStep DEF ServerNext, server
  <2>3. Refuse(c)
    BY <1>1, <2>1, <2>2 DEF Accept, Admit, Refuse, StartUp, End, InProcess, PermitsCount
  <2>4. Cardinality(InProcess) \in Nat
    BY SocketAssumption, FS_Subset, FS_CardinalityType DEF InProcess
  <2> QED
    BY <1>1, <2>3, <2>4 DEF Refuse, PermitsCount
<1>2. ASSUME PermitsCount, [Next]_vars
      PROVE  [\A c \in Sockets :
                conn[c] = "accepted" /\ conn'[c] = "closed" =>
                  Limited /\ Cardinality(InProcess) = MaxConnections]_server
  BY <1>1, <1>2
<1> QED
  BY <1>2, PermitsCounted, PTL DEF Spec, RefusedOnlyWhenFull

-----------------------------------------------------------------------------
(* Types *)

\* The fields of a statement, by its kind.
LEMMA StatementTypes ==
  ASSUME NEW stmt \in AllStatements
  PROVE  /\ stmt.kind = "set" => /\ stmt.var \in Variables /\ stmt.form \in Forms
                                 /\ stmt.value \in Values
         /\ stmt.kind = "show" => stmt.var \in Variables
         /\ stmt.kind = "timeout" =>
              /\ stmt.n \in Numbers /\ stmt.unit \in Units
              /\ stmt \in [kind : {"timeout"}, n : Numbers, unit : Units]
BY DEF AllStatements, Select

LEMMA NewSessionType ==
  NewSession \in SessionType /\ NewSession.phase = "ready" /\ NewSession.todo = <<>>
<1>1. Defaults \in [Variables -> Settable]
  BY DEF Defaults, Settable
<1>2. /\ <<>> \in Seq(AllStatements) /\ <<>> \in Seq(Settable \union {Done})
      /\ SetTimeout(0, "none") \in [kind : {"timeout"}, n : Numbers, unit : Units]
  BY DEF SetTimeout, Numbers, Units
<1> QED
  BY <1>1, <1>2 DEF NewSession, SessionType, Off

\* A session that is replaced by one with the same type keeps the types.
LEMMA UpdateTypes ==
  ASSUME TypeOK, NEW c \in Sockets, conn[c] = "serving", NEW session \in SessionType,
         session.phase = "run" <=> session.todo # <<>>,
         Update(c, session)
  PROVE  TypeOK'
BY DEF TypeOK, Update, server

\* A response moves the loop on.
LEMMA AnsweredTypes ==
  ASSUME NEW session \in SessionType, session.todo # <<>>,
         NEW response \in Settable \union {Done}
  PROVE  /\ Answered(session, response) \in SessionType
         /\ Answered(session, response).phase = "run" <=>
              Answered(session, response).todo # <<>>
         /\ Answered(session, response).phase \in {"run", "answer"}
         /\ Answered(session, response).todo = Tail(session.todo)
         /\ Answered(session, response).results = Append(session.results, response)
         /\ \A f \in {"metadata", "timeout", "told", "asked", "before", "got", "lastTimeout"} :
              Answered(session, response)[f] = session[f]
<1> DEFINE todo == Tail(session.todo)
           results == Append(session.results, response)
           phase == IF Len(session.todo) = 1 THEN "answer" ELSE "run"
           answered == [session EXCEPT !.todo = todo, !.results = results, !.phase = phase]
<1>1. /\ todo \in Seq(AllStatements) /\ results \in Seq(Settable \union {Done})
      /\ session.todo \in Seq(AllStatements)
  BY HeadTailProperties DEF SessionType
<1>2. Len(session.todo) = 1 <=> todo = <<>>
  <2>1. Len(todo) = Len(session.todo) - 1
    BY <1>1, HeadTailProperties
  <2>2. todo = <<>> <=> Len(todo) = 0
    BY <1>1, EmptySeq
  <2>3. Len(session.todo) \in Nat
    BY <1>1, LenProperties
  <2> QED
    BY <2>1, <2>2, <2>3
<1>3. phase \in {"run", "answer"} /\ (phase = "run" <=> todo # <<>>)
  BY <1>2
<1>4. Answered(session, response) = answered
  BY DEF Answered
<1> HIDE DEF todo, results, phase
<1>5. /\ answered \in SessionType
      /\ answered.phase = phase /\ answered.todo = todo /\ answered.results = results
      /\ \A f \in {"metadata", "timeout", "told", "asked", "before", "got", "lastTimeout"} :
           answered[f] = session[f]
  BY <1>1, <1>3 DEF SessionType
<1> HIDE DEF answered
<1> QED
  BY <1>3, <1>4, <1>5 DEF todo, results

\* SET: what is stored is a value of the variable, and so is what is told of it.
LEMMA SetTypes ==
  ASSUME NEW stmt \in AllStatements, stmt.kind = "set",
         NEW metadata \in [Variables -> Settable], NEW told \in [Variables -> Settable]
  PROVE  /\ Stored(stmt, metadata) \in [Variables -> Settable]
         /\ StatusSent(stmt, told, Stored(stmt, metadata)) \in [Variables -> Settable]
         /\ told = metadata =>
              StatusSent(stmt, told, Stored(stmt, metadata)) = Stored(stmt, metadata)
<1>1. stmt.var \in Variables /\ stmt.form \in Forms /\ stmt.value \in Settable /\ Blank \in Settable
  BY StatementTypes DEF Settable
<1>2. Stored(stmt, metadata) \in [Variables -> Settable]
  BY <1>1 DEF Stored, Variables, Forms
<1>3. StatusSent(stmt, told, Stored(stmt, metadata)) \in [Variables -> Settable]
  BY <1>1, <1>2 DEF StatusSent
<1>4. ASSUME told = metadata, ~(stmt.var = "datestyle" /\ stmt.form = "name")
      PROVE  StatusSent(stmt, told, Stored(stmt, metadata)) = Stored(stmt, metadata)
  <2>1. PICK value : Stored(stmt, metadata) = [metadata EXCEPT ![stmt.var] = value]
    BY <1>4 DEF Stored
  <2>2. StatusSent(stmt, told, Stored(stmt, metadata)) =
          [metadata EXCEPT ![stmt.var] = Stored(stmt, metadata)[stmt.var]]
    BY <1>4 DEF StatusSent
  <2>3. Stored(stmt, metadata)[stmt.var] = value
    BY <1>1, <2>1
  <2> QED
    BY <2>1, <2>2, <2>3
<1>5. ASSUME told = metadata, stmt.var = "datestyle", stmt.form = "name"
      PROVE  StatusSent(stmt, told, Stored(stmt, metadata)) = Stored(stmt, metadata)
  BY <1>5 DEF Stored, StatusSent
<1> QED
  BY <1>2, <1>3, <1>4, <1>5

LEMMA FactorType ==
  ASSUME NEW unit \in Units
  PROVE  Factor(unit) \in Nat
<1>1. unit = "s" \/ unit = "min" \/ unit \in {"ms", "none"}
  BY DEF Units
<1>2. CASE unit = "s"
  BY <1>2 DEF Factor
<1>3. CASE unit = "min"
  BY <1>3 DEF Factor
<1>4. CASE unit \in {"ms", "none"}
  BY <1>4 DEF Factor
<1> QED
  BY <1>1, <1>2, <1>3, <1>4

\* The statement timeout is a number of milliseconds.
LEMMA TimeoutMsType ==
  ASSUME NEW n \in Numbers, NEW unit \in Units
  PROVE  TimeoutMs(n, unit) \in Nat
<1>1. CASE n < 0 \/ Suffix(unit) # unit
  BY <1>1 DEF TimeoutMs, Off
<1>2. CASE ~(n < 0 \/ Suffix(unit) # unit)
  <2>1. n \in Nat
    BY <1>2 DEF Numbers
  <2>2. Factor(unit) \in Nat
    BY FactorType
  <2>3. TimeoutMs(n, unit) = (n * Factor(unit)) % Width
    BY <1>2 DEF TimeoutMs
  <2>4. n * Factor(unit) \in Nat
    BY <2>1, <2>2
  <2> QED
    BY <2>3, <2>4, WidthAssumption
<1> QED
  BY <1>1, <1>2

\* The steps of a connection that serves a message, one by one.
LEMMA RunSetTypes ==
  ASSUME TypeOK, NEW c \in Sockets, RunSet(c)
  PROVE  TypeOK'
<1> DEFINE session == sessions[c]
           stmt == Head(session.todo)
           answered == Answered(session, Done)
           metadata == Stored(stmt, session.metadata)
           told == StatusSent(stmt, session.told, metadata)
           next == [answered EXCEPT !.metadata = metadata, !.told = told]
<1>1. conn[c] = "serving" /\ session.phase = "run" /\ stmt.kind = "set" /\ Update(c, next)
  BY DEF RunSet, Serving
<1>2. session \in SessionType /\ session.todo # <<>> /\ session.todo \in Seq(AllStatements)
  BY <1>1 DEF TypeOK, SessionType
<1>3. stmt \in AllStatements
  BY <1>2, HeadTailProperties
<1>4. answered \in SessionType /\ (answered.phase = "run" <=> answered.todo # <<>>)
  BY <1>2, AnsweredTypes
<1>5. metadata \in [Variables -> Settable] /\ told \in [Variables -> Settable]
  BY <1>1, <1>2, <1>3, SetTypes DEF SessionType
<1> HIDE DEF session, stmt, answered, metadata, told
<1>6. next \in SessionType /\ next.phase = answered.phase /\ next.todo = answered.todo
  BY <1>4, <1>5 DEF SessionType
<1> QED
  BY <1>1, <1>4, <1>6, UpdateTypes

LEMMA RunSetTimeoutTypes ==
  ASSUME TypeOK, NEW c \in Sockets, RunSetTimeout(c)
  PROVE  TypeOK'
<1> DEFINE session == sessions[c]
           stmt == Head(session.todo)
           answered == Answered(session, Done)
           timeout == TimeoutMs(stmt.n, stmt.unit)
           next == [answered EXCEPT !.timeout = timeout, !.lastTimeout = stmt]
<1>1. conn[c] = "serving" /\ session.phase = "run" /\ stmt.kind = "timeout" /\ Update(c, next)
  BY DEF RunSetTimeout, Serving
<1>2. session \in SessionType /\ session.todo # <<>> /\ session.todo \in Seq(AllStatements)
  BY <1>1 DEF TypeOK, SessionType
<1>3. stmt \in [kind : {"timeout"}, n : Numbers, unit : Units] /\ timeout \in Nat
  BY <1>1, <1>2, HeadTailProperties, StatementTypes, TimeoutMsType
<1>4. answered \in SessionType /\ (answered.phase = "run" <=> answered.todo # <<>>)
  BY <1>2, AnsweredTypes
<1> HIDE DEF session, stmt, answered, timeout
<1>5. next \in SessionType /\ next.phase = answered.phase /\ next.todo = answered.todo
  BY <1>3, <1>4 DEF SessionType
<1> QED
  BY <1>1, <1>4, <1>5, UpdateTypes

LEMMA RunShowTypes ==
  ASSUME TypeOK, NEW c \in Sockets, RunShow(c) \/ RunSelect(c)
  PROVE  TypeOK'
<1>1. PICK var \in Variables : /\ Update(c, Answered(sessions[c], sessions[c].metadata[var]))
                               /\ conn[c] = "serving" /\ sessions[c].phase = "run"
  <2>1. sessions[c].phase = "run" => sessions[c].todo # <<>> /\ sessions[c].todo \in Seq(AllStatements)
    BY DEF TypeOK, SessionType
  <2>2. sessions[c].phase = "run" => Head(sessions[c].todo) \in AllStatements
    BY <2>1, HeadTailProperties
  <2>3. CASE RunShow(c)
    BY <2>2, <2>3, StatementTypes DEF RunShow, Serving
  <2>4. CASE RunSelect(c)
    BY <2>4 DEF RunSelect, Serving, Variables
  <2> QED
    BY <2>3, <2>4
<1>2. sessions[c] \in SessionType /\ sessions[c].todo # <<>> /\ sessions[c].metadata[var] \in Settable
  BY <1>1 DEF TypeOK, SessionType
<1>3. /\ Answered(sessions[c], sessions[c].metadata[var]) \in SessionType
      /\ Answered(sessions[c], sessions[c].metadata[var]).phase = "run" <=>
           Answered(sessions[c], sessions[c].metadata[var]).todo # <<>>
  BY <1>2, AnsweredTypes
<1> QED
  BY <1>1, <1>3, UpdateTypes

LEMMA AnswerTypes ==
  ASSUME TypeOK, NEW c \in Sockets,
         FailSelect(c) \/ SendResponse(c) \/ StreamFails(c) \/ EndQuery(c)
  PROVE  TypeOK'
<1>1. sessions[c] \in SessionType /\ (sessions[c].phase = "run" <=> sessions[c].todo # <<>>)
  BY DEF TypeOK
<1>2. CASE FailSelect(c)
  <2> DEFINE next == [sessions[c] EXCEPT !.phase = "ready", !.todo = <<>>, !.results = <<>>]
  <2>1. <<>> \in Seq(AllStatements) /\ <<>> \in Seq(Settable \union {Done})
    BY EmptySeq
  <2>2. next \in SessionType /\ next.phase = "ready" /\ next.todo = <<>>
    BY <1>1, <2>1 DEF SessionType
  <2>3. conn[c] = "serving" /\ Update(c, next)
    BY <1>2 DEF FailSelect, Serving
  <2> QED
    BY <2>2, <2>3, UpdateTypes
<1>3. CASE SendResponse(c)
  <2> DEFINE session == sessions[c]
             results == Tail(session.results)
             got == Append(session.got, Head(session.results))
             next == [session EXCEPT !.results = results, !.got = got]
  <2>1. conn[c] = "serving" /\ session.phase = "answer" /\ Update(c, next) /\ session.results # <<>>
    BY <1>3 DEF SendResponse, Serving, ValueSent
  <2>2. results \in Seq(Settable \union {Done}) /\ got \in Seq(Settable \union {Done})
    BY <1>1, <2>1, HeadTailProperties, AppendProperties DEF SessionType
  <2> HIDE DEF results, got
  <2>3. next \in SessionType /\ next.phase = "answer" /\ next.todo = session.todo
    BY <1>1, <2>1, <2>2 DEF SessionType
  <2> QED
    BY <1>1, <2>1, <2>3, UpdateTypes
<1>4. CASE EndQuery(c)
  <2> DEFINE next == [sessions[c] EXCEPT !.phase = "ready"]
  <2>1. conn[c] = "serving" /\ sessions[c].phase = "answer" /\ Update(c, next)
    BY <1>4 DEF EndQuery, Serving
  <2>2. next \in SessionType /\ next.phase = "ready" /\ next.todo = sessions[c].todo
    BY <1>1 DEF SessionType
  <2> QED
    BY <1>1, <2>1, <2>2, UpdateTypes
<1>5. CASE StreamFails(c)
  <2> DEFINE next == [sessions[c] EXCEPT !.phase = "ready", !.results = <<>>]
  <2>1. <<>> \in Seq(Settable \union {Done})
    BY EmptySeq
  <2>2. conn[c] = "serving" /\ sessions[c].phase = "answer" /\ Update(c, next)
    BY <1>5 DEF StreamFails, Serving
  <2>3. next \in SessionType /\ next.phase = "ready" /\ next.todo = sessions[c].todo
    BY <1>1, <2>1 DEF SessionType
  <2> QED
    BY <1>1, <2>2, <2>3, UpdateTypes
<1> QED
  BY <1>2, <1>3, <1>4, <1>5

\* Messages are sequences of at least one statement.
LEMMA MessageTypes ==
  ASSUME NEW c \in Sockets, NEW message \in Messages(c)
  PROVE  message \in Seq(AllStatements) /\ message # <<>>
<1>1. PICK n \in 1 .. BatchBound : message \in [1 .. n -> Sends[c]]
  BY DEF Messages
<1>2. message \in [1 .. n -> AllStatements] /\ n \in Nat /\ n > 0
  BY <1>1, SendsAssumption, BatchAssumption
<1>3. message \in Seq(AllStatements) /\ Len(message) = n
  BY <1>2
<1> QED
  BY <1>2, <1>3, EmptySeq

LEMMA QueryTypes ==
  ASSUME TypeOK, NEW c \in Sockets, NEW message \in Messages(c), Query(c, message)
  PROVE  TypeOK'
<1> DEFINE next == [sessions[c] EXCEPT !.phase = "run", !.todo = message, !.asked = message,
                                       !.before = sessions[c].told, !.got = <<>>]
<1>1. sessions[c] \in SessionType
  BY DEF TypeOK
<1>2. message \in Seq(AllStatements) /\ <<>> \in Seq(Settable \union {Done})
  BY MessageTypes, EmptySeq
<1>4. next \in SessionType /\ next.phase = "run" /\ next.todo = message
  BY <1>1, <1>2 DEF SessionType
<1>3. conn[c] = "serving" /\ Update(c, next)
  BY DEF Query, Serving
<1> QED
  BY <1>3, <1>4, MessageTypes, UpdateTypes

LEMMA ServeTypes ==
  ASSUME TypeOK, PermitsCount', NEW c \in Sockets, Serve(c)
  PROVE  TypeOK'
<1> USE DEF TypeOK, PermitsCount
<1>1. CASE (Accept(c) \/ Admit(c) \/ Refuse(c) \/ StartUp(c)) /\ UNCHANGED sessions
  <2>1. \A d \in Sockets : conn'[d] # "serving" => conn[d] # "serving"
    BY <1>1 DEF Accept, Admit, Refuse, StartUp
  <2> QED
    BY <1>1, <2>1
<1>2. CASE End(c) /\ sessions' = AtEnd(c)
  <2>1. sessions' = [sessions EXCEPT ![c] = NewSession] /\ conn' = [conn EXCEPT ![c] = "closed"]
    BY <1>2 DEF AtEnd, End
  <2> QED
    BY <2>1, NewSessionType
<1> QED
  BY <1>1, <1>2 DEF Serve

LEMMA TypesStep ==
  ASSUME TypeOK, PermitsCount', [Next]_vars
  PROVE  TypeOK'
<1>1. CASE UNCHANGED vars
  BY <1>1 DEF vars, server, TypeOK
<1> QED
  BY <1>1, ServeTypes, QueryTypes, RunSetTypes, RunSetTimeoutTypes, RunShowTypes, AnswerTypes
  DEF Next, Run

\* The variables keep their types, a socket without a connection keeps nothing,
\* and a message is run until no statement of it is left.
THEOREM SettingsTypeCorrect == Spec => []TypeOK
<1>1. Init => TypeOK
  BY NewSessionType, LimitAssumption DEF Init, ServerInit, TypeOK, States
<1> QED
  BY <1>1, TypesStep, PermitsCounted, PTL DEF Spec

-----------------------------------------------------------------------------
(* What clients are told *)

\* Each SET that changes what is stored tells the client, and nothing else does.
LEMMA ToldStep ==
  ASSUME TypeOK, ToldIsStored, [Next]_vars
  PROVE  ToldIsStored'
<1>1. ASSUME NEW c \in Sockets, NEW session, Update(c, session), session.told = session.metadata
      PROVE  ToldIsStored'
  BY <1>1 DEF ToldIsStored, TypeOK, Update
<1>2. ASSUME NEW c \in Sockets
      PROVE  /\ sessions[c] \in SessionType /\ sessions[c].told = sessions[c].metadata
             /\ sessions[c].phase = "run" => sessions[c].todo # <<>>
  BY <1>2 DEF TypeOK, ToldIsStored
<1>3. ASSUME NEW c \in Sockets, Serving(c, "run"), NEW response \in Settable \union {Done}
      PROVE  /\ Answered(sessions[c], response) \in SessionType
             /\ Answered(sessions[c], response).told = sessions[c].told
             /\ Answered(sessions[c], response).metadata = sessions[c].metadata
  <2>1. sessions[c] \in SessionType /\ sessions[c].todo # <<>>
    BY <1>2, <1>3 DEF Serving
  <2>2. /\ Answered(sessions[c], response) \in SessionType
        /\ Answered(sessions[c], response)["told"] = sessions[c]["told"]
        /\ Answered(sessions[c], response)["metadata"] = sessions[c]["metadata"]
    BY <2>1, AnsweredTypes
  <2> QED
    BY <2>2
<1>4. ASSUME NEW c \in Sockets, RunSet(c)
      PROVE  ToldIsStored'
  <2> DEFINE session == sessions[c]
             stmt == Head(session.todo)
             answered == Answered(session, Done)
             metadata == Stored(stmt, session.metadata)
             told == StatusSent(stmt, session.told, metadata)
             next == [answered EXCEPT !.metadata = metadata, !.told = told]
  <2>1. stmt.kind = "set" /\ Update(c, next) /\ Serving(c, "run")
    BY <1>4 DEF RunSet
  <2>2. stmt \in AllStatements
    BY <1>2, <2>1, HeadTailProperties DEF Serving, SessionType
  <2>3. told = metadata
    BY <1>2, <2>1, <2>2, SetTypes DEF SessionType
  <2>4. answered \in SessionType
    BY <1>3, <2>1
  <2> HIDE DEF session, stmt, answered, metadata, told
  <2>5. next.told = told /\ next.metadata = metadata
    BY <2>4 DEF SessionType
  <2> QED
    BY <1>1, <2>1, <2>3, <2>5
<1>5. ASSUME NEW c \in Sockets, RunSetTimeout(c)
      PROVE  ToldIsStored'
  <2> DEFINE answered == Answered(sessions[c], Done)
             next == [answered EXCEPT !.timeout = sessions'[c].timeout,
                                      !.lastTimeout = sessions'[c].lastTimeout]
  <2>1. Serving(c, "run")
    BY <1>5 DEF RunSetTimeout
  <2>2. /\ answered \in SessionType
        /\ answered.told = sessions[c].told /\ answered.metadata = sessions[c].metadata
    BY <1>3, <2>1
  <2>3. /\ Update(c, sessions'[c])
        /\ sessions'[c].told = answered.told /\ sessions'[c].metadata = answered.metadata
    BY <1>5, <2>2 DEF RunSetTimeout, Update, TypeOK, SessionType
  <2> QED
    BY <1>1, <1>2, <2>2, <2>3
<1>6. ASSUME NEW c \in Sockets, RunShow(c) \/ RunSelect(c)
      PROVE  ToldIsStored'
  <2>1. PICK response : /\ Update(c, Answered(sessions[c], response))
                        /\ Serving(c, "run") /\ response \in Settable
    <3>1. Serving(c, "run") => Head(sessions[c].todo) \in AllStatements
      BY <1>2, HeadTailProperties DEF Serving, SessionType
    <3>2. CASE RunShow(c)
      BY <1>2, <3>1, <3>2, StatementTypes DEF RunShow, SessionType
    <3>3. CASE RunSelect(c)
      BY <1>2, <3>3 DEF RunSelect, SessionType, Variables
    <3> QED
      BY <1>6, <3>2, <3>3
  <2> QED
    BY <1>1, <1>2, <1>3, <2>1
<1>7. ASSUME NEW c \in Sockets, NEW session, Update(c, session),
             session.told = sessions[c].told, session.metadata = sessions[c].metadata
      PROVE  ToldIsStored'
  BY <1>1, <1>2, <1>7
<1>8. ASSUME NEW c \in Sockets, FailSelect(c) \/ StreamFails(c) \/ EndQuery(c)
      PROVE  ToldIsStored'
  <2>1. CASE FailSelect(c)
    BY <1>2, <1>7, <2>1 DEF FailSelect, SessionType
  <2>2. CASE EndQuery(c)
    BY <1>2, <1>7, <2>2 DEF EndQuery, SessionType
  <2>3. CASE StreamFails(c)
    BY <1>2, <1>7, <2>3 DEF StreamFails, SessionType
  <2> QED
    BY <1>8, <2>1, <2>2, <2>3
<1>9. ASSUME NEW c \in Sockets, SendResponse(c)
      PROVE  ToldIsStored'
  BY <1>2, <1>7, <1>9 DEF SendResponse, SessionType
<1>10. ASSUME NEW c \in Sockets, NEW message, Query(c, message)
       PROVE  ToldIsStored'
  BY <1>2, <1>7, <1>10 DEF Query, SessionType
<1>11. ASSUME NEW c \in Sockets, Serve(c)
       PROVE  ToldIsStored'
  <2>1. NewSession.told = NewSession.metadata
    BY DEF NewSession
  <2>2. \A d \in Sockets : sessions'[d] \in {sessions[d], NewSession}
    BY <1>11 DEF Serve, AtEnd, TypeOK
  <2> QED
    BY <2>1, <2>2 DEF ToldIsStored
<1>12. CASE UNCHANGED vars
  BY <1>12 DEF vars, ToldIsStored
<1> QED
  BY <1>4, <1>5, <1>6, <1>8, <1>9, <1>10, <1>11, <1>12 DEF Next, Run

\* What a client was last told of a variable is what the server has stored.
THEOREM ToldRight == Spec => []ToldIsStored
<1>1. NewSession.told = NewSession.metadata
  BY DEF NewSession
<1>2. Init => ToldIsStored
  BY <1>1 DEF Init, ToldIsStored
<1> QED
  BY <1>2, ToldStep, SettingsTypeCorrect, PTL DEF Spec

-----------------------------------------------------------------------------
(* The order of answers *)

\* What the value sent for statement i has to be.
Right(session, i, value) ==
  LET stmt == session.asked[i]
  IN /\ stmt.kind = "select" => value = Expected(session, i, "datestyle")
     /\ stmt.kind = "show" => value = Expected(session, i, stmt.var)

\* The statements of the message that have run.
Ran(session) == Len(session.asked) - Len(session.todo)

\* While a message runs, what is stored is what its next statement is to find;
\* the responses that wait are the ones of the statements after those that were
\* answered.
OrderInv(session) ==
  /\ session.phase = "ready" => session.results = <<>>
  /\ session.phase = "run" =>
       /\ Len(session.todo) <= Len(session.asked)
       /\ \A i \in 1 .. Len(session.todo) : session.todo[i] = session.asked[Ran(session) + i]
       /\ session.got = <<>>
       /\ Len(session.results) = Ran(session)
       /\ \A var \in Variables :
            session.metadata[var] = Expected(session, Ran(session) + 1, var)
  /\ \A i \in 1 .. Len(session.results) :
       Right(session, Len(session.got) + i, session.results[i])
  /\ \A i \in 1 .. Len(session.got) : Right(session, i, session.got[i])

\* What is expected depends on the message and on what the client knew only.
LEMMA SameExpected ==
  ASSUME NEW session, NEW next, NEW i, NEW var,
         next.asked = session.asked, next.before = session.before
  PROVE  Expected(next, i, var) = Expected(session, i, var)
<1>1. SetBefore(next, i, var) = SetBefore(session, i, var)
  BY DEF SetBefore
<1> QED
  BY <1>1 DEF Expected

LEMMA SameRight ==
  ASSUME NEW session, NEW next, NEW i, NEW value,
         next.asked = session.asked, next.before = session.before
  PROVE  Right(next, i, value) <=> Right(session, i, value)
BY SameExpected DEF Right

\* A statement changes what the next one is to find as SET changes what is stored.
LEMMA ExpectedNext ==
  ASSUME NEW session, NEW i \in Nat \ {0}, NEW var \in Variables,
         NEW stmt, stmt = session.asked[i]
  PROVE  Expected(session, i + 1, var) =
           IF stmt.kind = "set" /\ stmt.var = var /\ (var = "timezone" \/ stmt.form # "name")
           THEN IF var = "datestyle" /\ stmt.form = "number" THEN Blank ELSE stmt.value
           ELSE Expected(session, i, var)
<1> DEFINE sets == /\ stmt.kind = "set" /\ stmt.var = var
                   /\ var = "timezone" \/ stmt.form # "name"
           old == SetBefore(session, i, var)
           new == SetBefore(session, i + 1, var)
<1>1. new = IF sets THEN old \union {i} ELSE old
  <2>1. 1 .. ((i + 1) - 1) = (1 .. (i - 1)) \union {i}
    OBVIOUS
  <2> QED
    BY <2>1 DEF SetBefore
<1>2. CASE ~sets
  BY <1>1, <1>2 DEF Expected
<1>3. CASE sets
  <2>1. i \in new /\ \A k \in new : k <= i /\ k \in Nat
    BY <1>1, <1>3 DEF SetBefore
  <2>2. Max(new) \in new /\ \A k \in new : Max(new) >= k
    BY <2>1 DEF Max
  <2>3. Max(new) = i
    BY <2>1, <2>2
  <2>4. new # {}
    BY <2>1
  <2>5. Expected(session, i + 1, var) =
          IF var = "datestyle" /\ stmt.form = "number" THEN Blank ELSE stmt.value
    BY <2>3, <2>4 DEF Expected
  <2> QED
    BY <1>3, <2>5
<1> QED
  BY <1>2, <1>3

\* The loop over the statements keeps the order.
LEMMA AnsweredInOrder ==
  ASSUME NEW session \in SessionType, OrderInv(session),
         session.phase = "run", session.todo # <<>>,
         NEW response \in Settable \union {Done}, NEW next \in SessionType,
         next.asked = session.asked, next.before = session.before, next.got = session.got,
         next.todo = Tail(session.todo), next.results = Append(session.results, response),
         next.phase \in {"run", "answer"},
         Right(session, Ran(session) + 1, response),
         \A var \in Variables : next.metadata[var] = Expected(session, Ran(session) + 2, var)
  PROVE  OrderInv(next)
<1>1. /\ session.todo \in Seq(AllStatements) /\ session.asked \in Seq(AllStatements)
      /\ session.results \in Seq(Settable \union {Done}) /\ session.got = <<>>
      /\ Len(session.results) = Ran(session) /\ Len(session.todo) <= Len(session.asked)
  BY DEF SessionType, OrderInv
<1>2. /\ Len(next.todo) = Len(session.todo) - 1
      /\ \A i \in 1 .. Len(next.todo) : next.todo[i] = session.todo[i + 1]
      /\ Len(session.todo) \in Nat \ {0} /\ Len(session.asked) \in Nat
  BY <1>1, HeadTailProperties, EmptySeq, LenProperties
<1>3. Ran(next) = Ran(session) + 1 /\ Ran(session) \in Nat
  <2>1. /\ Ran(next) = Len(session.asked) - Len(next.todo)
        /\ Ran(session) = Len(session.asked) - Len(session.todo)
    BY DEF Ran
  <2>2. /\ Len(next.todo) = Len(session.todo) - 1 /\ Len(session.todo) <= Len(session.asked)
        /\ Len(session.todo) \in Nat /\ Len(session.asked) \in Nat
    BY <1>1, <1>2
  <2>3. \A a, t \in Nat : t <= a => a - (t - 1) = (a - t) + 1 /\ a - t \in Nat
    OBVIOUS
  <2>4. Ran(next) = Len(session.asked) - (Len(session.todo) - 1)
    BY <2>1, <2>2
  <2> QED
    BY <2>1, <2>2, <2>3, <2>4
<1>4. /\ Len(next.results) = Ran(session) + 1
      /\ next.results[Ran(session) + 1] = response
      /\ \A i \in 1 .. Ran(session) : next.results[i] = session.results[i]
  BY <1>1, AppendProperties
<1>5. Len(next.got) = 0
  BY <1>1
<1>6. \A i \in 1 .. Len(next.todo) : next.todo[i] = next.asked[Ran(next) + i]
  <2> SUFFICES ASSUME NEW i \in 1 .. Len(next.todo)
               PROVE  next.todo[i] = next.asked[Ran(next) + i]
    OBVIOUS
  <2>1. next.todo[i] = session.todo[i + 1] /\ i + 1 \in 1 .. Len(session.todo)
    BY <1>2
  <2>2. session.todo[i + 1] = session.asked[Ran(session) + (i + 1)]
    BY <2>1 DEF OrderInv
  <2>3. Ran(session) + (i + 1) = Ran(next) + i
    BY <1>3
  <2> QED
    BY <2>1, <2>2, <2>3
<1>7. \A var \in Variables : next.metadata[var] = Expected(next, Ran(next) + 1, var)
  <2>1. Ran(next) + 1 = Ran(session) + 2
    BY <1>3
  <2> QED
    BY <2>1, SameExpected
<1>8. ASSUME NEW i \in 1 .. Len(next.results)
      PROVE  Right(next, Len(next.got) + i, next.results[i])
  <2>1. Len(next.got) + i = i /\ i \in 1 .. (Ran(session) + 1)
    BY <1>4, <1>5, <1>8
  <2>2. Right(session, i, next.results[i])
    <3>1. CASE i = Ran(session) + 1
      BY <1>4, <3>1
    <3>2. CASE i # Ran(session) + 1
      <4>1. i \in 1 .. Len(session.results) /\ Len(session.got) + i = i
        BY <1>1, <1>3, <1>5, <2>1, <3>2
      <4>2. Right(session, Len(session.got) + i, session.results[i])
        BY <4>1 DEF OrderInv
      <4>3. next.results[i] = session.results[i]
        BY <1>1, <1>4, <4>1
      <4> QED
        BY <4>1, <4>2, <4>3
    <3> QED
      BY <3>1, <3>2
  <2> QED
    BY <2>1, <2>2, SameRight
<1>9. Len(next.todo) <= Len(next.asked)
  BY <1>1, <1>2
<1> QED
  BY <1>1, <1>3, <1>4, <1>5, <1>6, <1>7, <1>8, <1>9 DEF OrderInv

\* The next statement is the one of the message at its place, and after it the
\* metadata are what the statement after it is to find.
LEMMA NextStatement ==
  ASSUME NEW session \in SessionType, OrderInv(session),
         session.phase = "run", session.todo # <<>>,
         NEW stmt, stmt = Head(session.todo)
  PROVE  /\ stmt \in AllStatements
         /\ \A value : Right(session, Ran(session) + 1, value) <=>
              /\ stmt.kind = "select" => value = session.metadata["datestyle"]
              /\ stmt.kind = "show" => value = session.metadata[stmt.var]
         /\ \A var \in Variables : Expected(session, Ran(session) + 2, var) =
              IF stmt.kind = "set" THEN Stored(stmt, session.metadata)[var]
              ELSE session.metadata[var]
<1> DEFINE i == Ran(session) + 1
<1>1. session.todo \in Seq(AllStatements) /\ session.metadata \in [Variables -> Settable]
  BY DEF SessionType
<1>2. stmt \in AllStatements /\ stmt = session.todo[1] /\ Len(session.todo) \in Nat \ {0}
  BY <1>1, HeadTailProperties, EmptySeq
<1>3. Ran(session) \in Nat
  <2>1. Len(session.asked) \in Nat /\ Len(session.todo) \in Nat
        /\ Len(session.todo) <= Len(session.asked)
    BY <1>2, LenProperties DEF OrderInv, SessionType
  <2>2. \A a, t \in Nat : t <= a => a - t \in Nat
    OBVIOUS
  <2> QED
    BY <2>1, <2>2 DEF Ran
<1>4. i \in Nat \ {0} /\ i + 1 = Ran(session) + 2
  BY <1>3
<1>5. stmt = session.asked[i]
  BY <1>2 DEF OrderInv
<1>6. \A var \in Variables : session.metadata[var] = Expected(session, i, var)
  BY DEF OrderInv
<1>7. ASSUME NEW value
      PROVE  Right(session, i, value) <=>
               /\ stmt.kind = "select" => value = session.metadata["datestyle"]
               /\ stmt.kind = "show" => value = session.metadata[stmt.var]
  <2>1. "datestyle" \in Variables
    BY DEF Variables
  <2>2. stmt.kind = "show" => stmt.var \in Variables
    BY <1>2, StatementTypes
  <2> HIDE DEF i
  <2> QED
    BY <1>5, <1>6, <2>1, <2>2 DEF Right
<1>8. ASSUME NEW var \in Variables
      PROVE  Expected(session, i + 1, var) =
               IF stmt.kind = "set" THEN Stored(stmt, session.metadata)[var]
               ELSE session.metadata[var]
  <2> HIDE DEF i
  <2>1. Expected(session, i + 1, var) =
           IF stmt.kind = "set" /\ stmt.var = var /\ (var = "timezone" \/ stmt.form # "name")
           THEN IF var = "datestyle" /\ stmt.form = "number" THEN Blank ELSE stmt.value
           ELSE session.metadata[var]
    BY <1>4, <1>5, <1>6, ExpectedNext
  <2>2. CASE stmt.kind # "set"
    BY <2>1, <2>2
  <2>3. CASE stmt.kind = "set" /\ stmt.var # var
    BY <1>1, <2>1, <2>3 DEF Stored
  <2>4. CASE stmt.kind = "set" /\ stmt.var = var
    <3>1. var = "datestyle" \/ var = "timezone"
      BY DEF Variables
    <3>2. ASSUME NEW value
          PROVE  [session.metadata EXCEPT ![stmt.var] = value][var] = value
      BY <1>1, <2>4
    <3>3. CASE var = "datestyle" /\ stmt.form = "name"
      BY <2>1, <2>4, <3>3 DEF Stored
    <3>4. CASE ~(var = "datestyle" /\ stmt.form = "name")
      BY <2>1, <2>4, <3>1, <3>2, <3>4 DEF Stored
    <3> QED
      BY <3>3, <3>4
  <2> QED
    BY <2>2, <2>3, <2>4
<1> QED
  BY <1>2, <1>4, <1>7, <1>8

AllInOrder == \A c \in Sockets : OrderInv(sessions[c])

\* The responses of a connection do not depend on the others.
LEMMA UpdateOrder ==
  ASSUME TypeOK, AllInOrder, NEW c \in Sockets, NEW session, Update(c, session),
         OrderInv(session)
  PROVE  AllInOrder'
<1>1. ASSUME NEW d \in Sockets
      PROVE  sessions'[d] = IF d = c THEN session ELSE sessions[d]
  BY DEF Update, TypeOK
<1>2. ASSUME NEW d \in Sockets
      PROVE  OrderInv(sessions'[d])
  BY <1>1, <1>2 DEF AllInOrder
<1>3. ASSUME NEW d \in Sockets
      PROVE  OrderInv(sessions[d])'
  BY <1>2 DEF OrderInv, Right, Ran, Expected, SetBefore
<1> QED
  BY <1>3 DEF AllInOrder

LEMMA RunOrder ==
  ASSUME TypeOK, AllInOrder, NEW c \in Sockets,
         RunSet(c) \/ RunSetTimeout(c) \/ RunShow(c) \/ RunSelect(c)
  PROVE  AllInOrder'
<1> DEFINE session == sessions[c]
           stmt == Head(session.todo)
           answered(response) == Answered(session, response)
<1>1. Serving(c, "run")
  BY DEF RunSet, RunSetTimeout, RunShow, RunSelect
<1>2. /\ session \in SessionType /\ OrderInv(session)
      /\ session.phase = "run" /\ session.todo # <<>>
  BY <1>1 DEF TypeOK, AllInOrder, Serving
<1>3. /\ stmt \in AllStatements
      /\ \A value : Right(session, Ran(session) + 1, value) <=>
           /\ stmt.kind = "select" => value = session.metadata["datestyle"]
           /\ stmt.kind = "show" => value = session.metadata[stmt.var]
      /\ \A var \in Variables : Expected(session, Ran(session) + 2, var) =
           IF stmt.kind = "set" THEN Stored(stmt, session.metadata)[var]
           ELSE session.metadata[var]
  BY <1>2, NextStatement
<1>4. session.metadata \in [Variables -> Settable] /\ session.told \in [Variables -> Settable]
  BY <1>2 DEF SessionType
<1>5. ASSUME NEW response \in Settable \union {Done}
      PROVE  /\ answered(response) \in SessionType
             /\ answered(response).phase \in {"run", "answer"}
             /\ answered(response).todo = Tail(session.todo)
             /\ answered(response).results = Append(session.results, response)
             /\ answered(response)["asked"] = session["asked"]
             /\ answered(response)["before"] = session["before"]
             /\ answered(response)["got"] = session["got"]
             /\ answered(response)["metadata"] = session["metadata"]
  BY <1>2, <1>5, AnsweredTypes
<1>6. CASE RunShow(c) \/ RunSelect(c)
  <2>1. PICK response \in Settable : /\ Update(c, answered(response))
                                     /\ Right(session, Ran(session) + 1, response)
                                     /\ stmt.kind # "set"
    <3>1. "datestyle" \in Variables /\ (stmt.kind = "show" => stmt.var \in Variables)
      BY <1>3, StatementTypes DEF Variables
    <3>2. CASE RunShow(c)
      BY <1>3, <1>4, <3>1, <3>2 DEF RunShow
    <3>3. CASE RunSelect(c)
      BY <1>3, <1>4, <3>1, <3>3 DEF RunSelect
    <3> QED
      BY <1>6, <3>2, <3>3
  <2> HIDE DEF session, stmt, answered
  <2>2. OrderInv(answered(response))
    BY <1>2, <1>3, <1>5, <2>1, AnsweredInOrder
  <2> QED
    BY <2>1, <2>2, UpdateOrder
<1>7. CASE RunSet(c)
  <2> DEFINE metadata == Stored(stmt, session.metadata)
             told == StatusSent(stmt, session.told, metadata)
             next == [answered(Done) EXCEPT !.metadata = metadata, !.told = told]
  <2>1. Update(c, next) /\ stmt.kind = "set"
    BY <1>7 DEF RunSet
  <2>2. metadata \in [Variables -> Settable] /\ told \in [Variables -> Settable]
    BY <1>3, <1>4, <2>1, SetTypes
  <2>3. Right(session, Ran(session) + 1, Done)
    BY <1>3, <2>1
  <2>4. \A var \in Variables : metadata[var] = Expected(session, Ran(session) + 2, var)
    BY <1>3, <2>1
  <2> HIDE DEF session, stmt, answered, metadata, told
  <2>5. /\ next \in SessionType /\ next.metadata = metadata
        /\ next.phase = answered(Done).phase /\ next.todo = answered(Done).todo
        /\ next.results = answered(Done).results /\ next.asked = answered(Done).asked
        /\ next.before = answered(Done).before /\ next.got = answered(Done).got
    <3>1. answered(Done) \in SessionType
      BY <1>5
    <3> QED
      BY <2>2, <3>1 DEF SessionType
  <2> HIDE DEF next
  <2>6. OrderInv(next)
    BY <1>2, <1>5, <2>3, <2>4, <2>5, AnsweredInOrder
  <2> QED
    BY <2>1, <2>6, UpdateOrder
<1>8. CASE RunSetTimeout(c)
  <2> DEFINE timeout == TimeoutMs(stmt.n, stmt.unit)
             next == [answered(Done) EXCEPT !.timeout = timeout, !.lastTimeout = stmt]
  <2>1. Update(c, next) /\ stmt.kind = "timeout"
    BY <1>8 DEF RunSetTimeout
  <2>2. stmt \in [kind : {"timeout"}, n : Numbers, unit : Units] /\ timeout \in Nat
    BY <1>3, <2>1, StatementTypes, TimeoutMsType
  <2>3. Right(session, Ran(session) + 1, Done)
    BY <1>3, <2>1
  <2>4. \A var \in Variables : session.metadata[var] = Expected(session, Ran(session) + 2, var)
    BY <1>3, <2>1
  <2> HIDE DEF session, stmt, answered, timeout
  <2>5. /\ next \in SessionType /\ next.metadata = answered(Done).metadata
        /\ next.phase = answered(Done).phase /\ next.todo = answered(Done).todo
        /\ next.results = answered(Done).results /\ next.asked = answered(Done).asked
        /\ next.before = answered(Done).before /\ next.got = answered(Done).got
    <3>1. answered(Done) \in SessionType
      BY <1>5
    <3> QED
      BY <2>2, <3>1 DEF SessionType
  <2> HIDE DEF next
  <2>6. OrderInv(next)
    BY <1>2, <1>5, <2>3, <2>4, <2>5, AnsweredInOrder
  <2> QED
    BY <2>1, <2>6, UpdateOrder
<1> QED
  BY <1>6, <1>7, <1>8

LEMMA FailOrder ==
  ASSUME TypeOK, AllInOrder, NEW c \in Sockets,
         FailSelect(c) \/ StreamFails(c) \/ EndQuery(c)
  PROVE  AllInOrder'
<1>1. sessions[c] \in SessionType /\ OrderInv(sessions[c])
  BY DEF TypeOK, AllInOrder
<1>2. PICK next : /\ Update(c, next)
                  /\ next.phase = "ready" /\ next.results = <<>>
                  /\ next.got = sessions[c].got
                  /\ next.asked = sessions[c].asked /\ next.before = sessions[c].before
  <2>1. CASE FailSelect(c)
    <3> DEFINE next == [sessions[c] EXCEPT !.phase = "ready", !.todo = <<>>, !.results = <<>>]
    <3>1. Update(c, next)
      BY <2>1 DEF FailSelect
    <3>2. /\ next.phase = "ready" /\ next.results = <<>> /\ next.got = sessions[c].got
          /\ next.asked = sessions[c].asked /\ next.before = sessions[c].before
      BY <1>1 DEF SessionType
    <3> QED
      BY <3>1, <3>2
  <2>2. CASE EndQuery(c)
    <3> DEFINE next == [sessions[c] EXCEPT !.phase = "ready"]
    <3>1. Update(c, next) /\ sessions[c].results = <<>>
      BY <2>2 DEF EndQuery
    <3>2. /\ next.phase = "ready" /\ next.results = <<>> /\ next.got = sessions[c].got
          /\ next.asked = sessions[c].asked /\ next.before = sessions[c].before
      BY <1>1, <3>1 DEF SessionType
    <3> QED
      BY <3>1, <3>2
  <2>3. CASE StreamFails(c)
    <3> DEFINE next == [sessions[c] EXCEPT !.phase = "ready", !.results = <<>>]
    <3>1. Update(c, next)
      BY <2>3 DEF StreamFails
    <3>2. /\ next.phase = "ready" /\ next.results = <<>> /\ next.got = sessions[c].got
          /\ next.asked = sessions[c].asked /\ next.before = sessions[c].before
      BY <1>1 DEF SessionType
    <3> QED
      BY <3>1, <3>2
  <2> QED
    BY <2>1, <2>2, <2>3
<1>3. \A i \in 1 .. Len(next.got) : Right(next, i, next.got[i])
  BY <1>1, <1>2, SameRight DEF OrderInv
<1>4. OrderInv(next)
  BY <1>2, <1>3, EmptySeq DEF OrderInv
<1> QED
  BY <1>2, <1>4, UpdateOrder

LEMMA SendOrder ==
  ASSUME TypeOK, AllInOrder, NEW c \in Sockets, SendResponse(c)
  PROVE  AllInOrder'
<1> DEFINE session == sessions[c]
           results == Tail(session.results)
           got == Append(session.got, Head(session.results))
           next == [session EXCEPT !.results = results, !.got = got]
<1>1. session \in SessionType /\ OrderInv(session)
  BY DEF TypeOK, AllInOrder
<1>2. Update(c, next) /\ session.phase = "answer" /\ session.results # <<>>
  BY DEF SendResponse, Serving, ValueSent
<1>3. /\ session.results \in Seq(Settable \union {Done})
      /\ session.got \in Seq(Settable \union {Done})
  BY <1>1 DEF SessionType
<1>4. /\ Len(results) = Len(session.results) - 1 /\ Len(session.results) \in Nat \ {0}
      /\ \A i \in 1 .. Len(results) : results[i] = session.results[i + 1]
      /\ Head(session.results) = session.results[1]
      /\ Head(session.results) \in Settable \union {Done}
  BY <1>2, <1>3, HeadTailProperties, EmptySeq
<1>5. /\ Len(got) = Len(session.got) + 1 /\ Len(session.got) \in Nat
      /\ got[Len(session.got) + 1] = session.results[1]
      /\ \A i \in 1 .. Len(session.got) : got[i] = session.got[i]
  BY <1>3, <1>4, AppendProperties, LenProperties
<1> HIDE DEF results, got
<1>6. /\ next.phase = "answer" /\ next.results = results /\ next.got = got
      /\ next.asked = session.asked /\ next.before = session.before
  BY <1>1, <1>2 DEF SessionType
<1> HIDE DEF session, next
<1>7. \A i \in 1 .. Len(session.results) :
        Right(session, Len(session.got) + i, session.results[i])
  BY <1>1 DEF OrderInv
<1>8. ASSUME NEW i \in 1 .. Len(next.results)
      PROVE  Right(next, Len(next.got) + i, next.results[i])
  <2>1. i + 1 \in 1 .. Len(session.results)
        /\ Len(next.got) + i = Len(session.got) + (i + 1)
    <3>1. i \in 1 .. Len(results) /\ Len(next.got) = Len(session.got) + 1
      BY <1>5, <1>6, <1>8
    <3>2. i \in Nat /\ 1 <= i /\ i <= Len(session.results) - 1
      BY <1>4, <3>1
    <3>3. \A a, b, j \in Nat : 1 <= j /\ j <= a - 1 =>
            j + 1 \in 1 .. a /\ (b + 1) + j = b + (j + 1)
      OBVIOUS
    <3>4. Len(session.results) \in Nat /\ Len(session.got) \in Nat
      BY <1>4, <1>5
    <3> QED
      BY <3>1, <3>2, <3>3, <3>4
  <2>2. Right(session, Len(session.got) + (i + 1), session.results[i + 1])
    BY <1>7, <2>1
  <2>3. next.results[i] = session.results[i + 1]
    BY <1>4, <1>6
  <2> QED
    BY <1>6, <2>1, <2>2, <2>3, SameRight
<1>9. ASSUME NEW i \in 1 .. Len(next.got)
      PROVE  Right(next, i, next.got[i])
  <2>1. CASE i = Len(session.got) + 1
    <3>1. 1 \in 1 .. Len(session.results)
      BY <1>4
    <3>2. Right(session, Len(session.got) + 1, session.results[1])
      BY <1>7, <3>1
    <3> QED
      BY <1>5, <1>6, <2>1, <3>2, SameRight
  <2>2. CASE i # Len(session.got) + 1
    <3>1. i \in 1 .. Len(session.got)
      BY <1>5, <1>6, <2>2
    <3>2. Right(session, i, session.got[i])
      BY <1>1, <3>1 DEF OrderInv
    <3> QED
      BY <1>5, <1>6, <3>1, <3>2, SameRight
  <2> QED
    BY <2>1, <2>2
<1>10. OrderInv(next)
  BY <1>6, <1>8, <1>9 DEF OrderInv
<1> QED
  BY <1>2, <1>10, UpdateOrder DEF session

\* A message finds what the client was told.
LEMMA QueryOrder ==
  ASSUME TypeOK, ToldIsStored, AllInOrder, NEW c \in Sockets,
         NEW message \in Messages(c), Query(c, message)
  PROVE  AllInOrder'
<1> DEFINE session == sessions[c]
           next == [session EXCEPT !.phase = "run", !.todo = message, !.asked = message,
                                   !.before = session.told, !.got = <<>>]
<1>1. /\ session \in SessionType /\ OrderInv(session) /\ session.told = session.metadata
      /\ session.phase = "ready" /\ Update(c, next)
  BY DEF TypeOK, AllInOrder, ToldIsStored, Query, Serving
<1>2. message \in Seq(AllStatements) /\ Len(message) \in Nat
  BY MessageTypes, LenProperties
<1>3. session.results = <<>>
  BY <1>1 DEF OrderInv
<1>4. /\ next.phase = "run" /\ next.todo = message /\ next.asked = message
      /\ next.before = session.metadata /\ next.got = <<>> /\ next.results = <<>>
      /\ next.metadata = session.metadata
  BY <1>1, <1>3 DEF SessionType
<1> HIDE DEF session, next
<1>5. Ran(next) = 0
  BY <1>2, <1>4 DEF Ran
<1>6. \A var \in Variables : Expected(next, 1, var) = next.metadata[var]
  BY <1>4 DEF Expected, SetBefore
<1>7. OrderInv(next)
  BY <1>2, <1>4, <1>5, <1>6, EmptySeq DEF OrderInv
<1> QED
  BY <1>1, <1>7, UpdateOrder

LEMMA NewInOrder == OrderInv(NewSession)
<1>1. NewSession.phase = "ready" /\ NewSession.results = <<>> /\ NewSession.got = <<>>
  BY DEF NewSession
<1> QED
  BY <1>1, EmptySeq DEF OrderInv

LEMMA OrderStep ==
  ASSUME TypeOK, ToldIsStored, AllInOrder, [Next]_vars
  PROVE  AllInOrder'
<1>1. ASSUME UNCHANGED vars \/ \E c \in Sockets : Serve(c)
      PROVE  AllInOrder'
  <2>1. \A d \in Sockets : sessions'[d] \in {sessions[d], NewSession}
    BY <1>1 DEF vars, Serve, AtEnd, TypeOK
  <2>2. \A d \in Sockets : OrderInv(sessions'[d])
    BY <2>1, NewInOrder DEF AllInOrder
  <2> QED
    BY <2>2 DEF AllInOrder, OrderInv, Right, Ran, Expected, SetBefore
<1> QED
  BY <1>1, RunOrder, FailOrder, SendOrder, QueryOrder DEF Next, Run

\* Rows and SHOW come to the client as of the place of their statement.
THEOREM AnsweredInPlace == Spec => []AnswersInOrder
<1>1. Init => AllInOrder
  BY NewInOrder DEF Init, AllInOrder
<1>2. TypeOK /\ AllInOrder => AnswersInOrder
  <2> SUFFICES ASSUME TypeOK, AllInOrder, NEW c \in Sockets, NEW i \in DOMAIN sessions[c].got
               PROVE  Right(sessions[c], i, sessions[c].got[i])
    BY DEF AnswersInOrder, Right
  <2>1. i \in 1 .. Len(sessions[c].got)
    BY DEF TypeOK, SessionType
  <2> QED
    BY <2>1 DEF AllInOrder, OrderInv
<1> QED
  BY <1>1, <1>2, OrderStep, SettingsTypeCorrect, ToldRight, PTL DEF Spec

-----------------------------------------------------------------------------
(* The statement timeout *)

\* The suffix that is found is the whole unit.
LEMMA SuffixFound ==
  ASSUME NEW unit \in Units
  PROVE  Suffix(unit) = unit
<1> DEFINE first(i) == /\ Suffixes[i] \in Ends(unit)
                       /\ \A j \in DOMAIN Suffixes : Suffixes[j] \in Ends(unit) => i <= j
           found == CHOOSE i \in DOMAIN Suffixes : first(i)
<1>1. /\ DOMAIN Suffixes = {1, 2, 3}
      /\ Suffixes[1] = "ms" /\ Suffixes[2] = "s" /\ Suffixes[3] = "min"
  BY DEF Suffixes
<1>2. CASE unit = "none"
  BY <1>2 DEF Suffix, Ends
<1>3. ASSUME NEW i \in {1, 2, 3}, Suffixes[i] = unit,
             \A j \in {1, 2, 3} : Suffixes[j] \in Ends(unit) => i <= j,
             unit \in Ends(unit)
      PROVE  Suffix(unit) = unit
  <2>1. first(i)
    BY <1>1, <1>3
  <2>2. found \in {1, 2, 3} /\ first(found)
    BY <1>1, <2>1
  <2>3. found = i
    BY <1>1, <1>3, <2>1, <2>2
  <2>4. Suffix(unit) = Suffixes[found]
    BY <1>3 DEF Suffix
  <2> QED
    BY <1>3, <2>3, <2>4
<1>4. CASE unit = "ms"
  <2>1. Ends(unit) = {"ms", "s"}
    BY <1>4 DEF Ends
  <2> QED
    BY <1>1, <1>3, <1>4, <2>1
<1>5. CASE unit \in {"s", "min"}
  <2>1. Ends(unit) = {unit}
    BY <1>5 DEF Ends
  <2> QED
    BY <1>1, <1>3, <1>5, <2>1
<1> QED
  BY <1>2, <1>4, <1>5 DEF Units

\* What fits into the width is not changed by it.
LEMMA Fits ==
  ASSUME NEW a \in Nat, a < Width
  PROVE  a % Width = a
BY WidthAssumption

LEMMA TimeoutMsValue ==
  ASSUME NEW n \in Nat, NEW unit \in Units
  PROVE  TimeoutMs(n, unit) = (n * Factor(unit)) % Width
BY SuffixFound DEF TimeoutMs

\* The timeout in force is what the last SET statement_timeout came to.
TimeoutStored(session) ==
  session.timeout = TimeoutMs(session.lastTimeout.n, session.lastTimeout.unit)
AllTimeoutsStored == \A c \in Sockets : TimeoutStored(sessions[c])

\* No timeout is set on a new connection.
LEMMA NewTimeout == TimeoutStored(NewSession)
<1>1. NewSession.timeout = 0 /\ NewSession.lastTimeout.n = 0 /\ NewSession.lastTimeout.unit = "none"
  BY DEF NewSession, SetTimeout, Off
<1>2. TimeoutMs(0, "none") = 0
  <2>1. TimeoutMs(0, "none") = (0 * Factor("none")) % Width
    BY TimeoutMsValue DEF Units
  <2>2. Factor("none") \in Nat
    BY FactorType DEF Units
  <2>3. \A f \in Nat : 0 * f = 0
    OBVIOUS
  <2>4. 0 * Factor("none") = 0
    BY <2>2, <2>3
  <2>5. 0 % Width = 0
    BY WidthAssumption, Fits
  <2> QED
    BY <2>1, <2>4, <2>5
<1> QED
  BY <1>1, <1>2 DEF TimeoutStored

LEMMA TimeoutUpdate ==
  ASSUME TypeOK, AllTimeoutsStored, NEW c \in Sockets, NEW session, Update(c, session),
         TimeoutStored(session)
  PROVE  AllTimeoutsStored'
<1>1. \A d \in Sockets : sessions'[d] \in {session, sessions[d]}
  BY DEF Update, TypeOK
<1> QED
  BY <1>1 DEF AllTimeoutsStored, TimeoutStored

\* Only SET statement_timeout changes the two.
LEMMA TimeoutStep ==
  ASSUME TypeOK, AllTimeoutsStored, [Next]_vars
  PROVE  AllTimeoutsStored'
<1>1. ASSUME NEW c \in Sockets, NEW session, Update(c, session),
             session.timeout = sessions[c].timeout,
             session.lastTimeout = sessions[c].lastTimeout
      PROVE  AllTimeoutsStored'
  BY <1>1, TimeoutUpdate DEF AllTimeoutsStored, TimeoutStored
<1>2. ASSUME NEW c \in Sockets
      PROVE  /\ sessions[c] \in SessionType
             /\ sessions[c].phase = "run" => sessions[c].todo # <<>>
  BY <1>2 DEF TypeOK
<1>3. ASSUME NEW c \in Sockets, Serving(c, "run"), NEW response \in Settable \union {Done}
      PROVE  /\ Answered(sessions[c], response) \in SessionType
             /\ Answered(sessions[c], response).timeout = sessions[c].timeout
             /\ Answered(sessions[c], response).lastTimeout = sessions[c].lastTimeout
  <2>1. sessions[c] \in SessionType /\ sessions[c].todo # <<>>
    BY <1>2, <1>3 DEF Serving
  <2>2. /\ Answered(sessions[c], response) \in SessionType
        /\ Answered(sessions[c], response)["timeout"] = sessions[c]["timeout"]
        /\ Answered(sessions[c], response)["lastTimeout"] = sessions[c]["lastTimeout"]
    BY <2>1, AnsweredTypes
  <2> QED
    BY <2>2
<1>4. ASSUME NEW c \in Sockets, RunSetTimeout(c)
      PROVE  AllTimeoutsStored'
  <2> DEFINE stmt == Head(sessions[c].todo)
             timeout == TimeoutMs(stmt.n, stmt.unit)
             answered == Answered(sessions[c], Done)
             next == [answered EXCEPT !.timeout = timeout, !.lastTimeout = stmt]
  <2>1. Update(c, next) /\ Serving(c, "run")
    BY <1>4 DEF RunSetTimeout
  <2>2. answered \in SessionType
    BY <1>3, <2>1
  <2> HIDE DEF answered
  <2>3. next.timeout = timeout /\ next.lastTimeout = stmt
    BY <2>2 DEF SessionType
  <2>4. TimeoutStored(next)
    BY <2>3 DEF TimeoutStored
  <2> QED
    BY <2>1, <2>4, TimeoutUpdate
<1>5. ASSUME NEW c \in Sockets, RunSet(c)
      PROVE  AllTimeoutsStored'
  <2> DEFINE answered == Answered(sessions[c], Done)
  <2>1. Serving(c, "run")
    BY <1>5 DEF RunSet
  <2>2. PICK metadata, told : Update(c, [answered EXCEPT !.metadata = metadata, !.told = told])
    BY <1>5 DEF RunSet
  <2> DEFINE next == [answered EXCEPT !.metadata = metadata, !.told = told]
  <2>3. /\ answered \in SessionType
        /\ answered.timeout = sessions[c].timeout
        /\ answered.lastTimeout = sessions[c].lastTimeout
    BY <1>3, <2>1
  <2> HIDE DEF answered
  <2>4. next.timeout = answered.timeout /\ next.lastTimeout = answered.lastTimeout
    BY <2>3 DEF SessionType
  <2> QED
    BY <1>1, <2>2, <2>3, <2>4
<1>6. ASSUME NEW c \in Sockets, RunShow(c) \/ RunSelect(c)
      PROVE  AllTimeoutsStored'
  <2>1. PICK response \in Settable : /\ Update(c, Answered(sessions[c], response))
                                     /\ Serving(c, "run")
    <3>1. Serving(c, "run") => Head(sessions[c].todo) \in AllStatements
      BY <1>2, HeadTailProperties DEF Serving, SessionType
    <3>2. CASE RunShow(c)
      BY <1>2, <3>1, <3>2, StatementTypes DEF RunShow, SessionType
    <3>3. CASE RunSelect(c)
      BY <1>2, <3>3 DEF RunSelect, SessionType, Variables
    <3> QED
      BY <1>6, <3>2, <3>3
  <2> QED
    BY <1>1, <1>3, <2>1
<1>7. ASSUME NEW c \in Sockets, FailSelect(c) \/ StreamFails(c) \/ EndQuery(c)
      PROVE  AllTimeoutsStored'
  <2>1. CASE FailSelect(c)
    BY <1>1, <1>2, <2>1 DEF FailSelect, SessionType
  <2>2. CASE EndQuery(c)
    BY <1>1, <1>2, <2>2 DEF EndQuery, SessionType
  <2>3. CASE StreamFails(c)
    BY <1>1, <1>2, <2>3 DEF StreamFails, SessionType
  <2> QED
    BY <1>7, <2>1, <2>2, <2>3
<1>8. ASSUME NEW c \in Sockets, SendResponse(c)
      PROVE  AllTimeoutsStored'
  BY <1>1, <1>2, <1>8 DEF SendResponse, SessionType
<1>9. ASSUME NEW c \in Sockets, NEW message, Query(c, message)
      PROVE  AllTimeoutsStored'
  BY <1>1, <1>2, <1>9 DEF Query, SessionType
<1>10. ASSUME UNCHANGED vars \/ \E c \in Sockets : Serve(c)
       PROVE  AllTimeoutsStored'
  <2>1. \A d \in Sockets : sessions'[d] \in {sessions[d], NewSession}
    BY <1>10 DEF vars, Serve, AtEnd, TypeOK
  <2> QED
    BY <2>1, NewTimeout DEF AllTimeoutsStored, TimeoutStored
<1> QED
  BY <1>4, <1>5, <1>6, <1>7, <1>8, <1>9, <1>10 DEF Next, Run

\* The milliseconds of a unit, by number.
LEMMA TimeoutInForce ==
  ASSUME NEW n \in Numbers, NEW unit \in Units, NEW ms \in Int,
         ms = n * Factor(unit), ms < Width
  PROVE  TimeoutMs(n, unit) = IF ms <= 0 THEN Off ELSE ms
<1>1. Factor(unit) \in Nat
  BY FactorType
<1>2. CASE n < 0
  <2>1. n = -1
    BY <1>2 DEF Numbers
  <2>2. \A f \in Nat : (-1) * f <= 0
    OBVIOUS
  <2>3. ms <= 0
    BY <1>1, <2>1, <2>2
  <2>4. TimeoutMs(n, unit) = Off
    BY <1>2 DEF TimeoutMs
  <2> QED
    BY <2>3, <2>4
<1>3. CASE ~(n < 0)
  <2>1. n \in Nat
    BY <1>3 DEF Numbers
  <2>2. \A m, f \in Nat : m * f \in Nat
    OBVIOUS
  <2>3. ms \in Nat
    BY <1>1, <2>1, <2>2
  <2>4. TimeoutMs(n, unit) = ms % Width
    BY <2>1, TimeoutMsValue
  <2>5. TimeoutMs(n, unit) = ms
    BY <2>3, <2>4, Fits
  <2> QED
    BY <2>3, <2>5 DEF Off
<1> QED
  BY <1>2, <1>3

\* The statement timeout in force is the one last set, if it fits into the width.
THEOREM TimeoutRight == Spec => []TimeoutAsSet
<1>1. Init => AllTimeoutsStored
  BY NewTimeout DEF Init, AllTimeoutsStored
<1>2. ASSUME TypeOK, AllTimeoutsStored
      PROVE  TimeoutAsSet
  <2>1. ASSUME NEW c \in Sockets, NEW factor \in Nat,
               Factor(sessions[c].lastTimeout.unit) = factor
        PROVE  InForce(sessions[c], factor)
    <3> DEFINE set == sessions[c].lastTimeout
               ms == set.n * factor
    <3>1. set.n \in Numbers /\ set.unit \in Units /\ set.n \in Int
      BY <1>2 DEF TypeOK, SessionType, Numbers
    <3>2. sessions[c].timeout = TimeoutMs(set.n, set.unit)
      BY <1>2 DEF AllTimeoutsStored, TimeoutStored
    <3>3. ms \in Int /\ ms = set.n * Factor(set.unit)
      BY <2>1, <3>1
    <3> HIDE DEF set, ms
    <3>4. ms < Width => sessions[c].timeout = IF ms <= 0 THEN Off ELSE ms
      BY <3>1, <3>2, <3>3, TimeoutInForce
    <3> QED
      BY <3>4 DEF InForce, set, ms
  <2>2. Factor("s") = 1000 /\ Factor("min") = 60000
    BY DEF Factor
  <2>3. \A unit \in {"ms", "none"} : Factor(unit) = 1
    BY DEF Factor
  <2>4. ASSUME NEW c \in Sockets, sessions[c].lastTimeout.unit \in {"ms", "none"}
        PROVE  InForce(sessions[c], 1)
    <3>1. Factor(sessions[c].lastTimeout.unit) = 1
      BY <2>3, <2>4
    <3> QED
      BY <2>1, <3>1, SMT
  <2>5. ASSUME NEW c \in Sockets, sessions[c].lastTimeout.unit = "s"
        PROVE  InForce(sessions[c], 1000)
    <3>1. Factor(sessions[c].lastTimeout.unit) = 1000
      BY <2>2, <2>5
    <3> QED
      BY <2>1, <3>1, SMT
  <2>6. ASSUME NEW c \in Sockets, sessions[c].lastTimeout.unit = "min"
        PROVE  InForce(sessions[c], 60000)
    <3>1. Factor(sessions[c].lastTimeout.unit) = 60000
      BY <2>2, <2>6
    <3> QED
      BY <2>1, <3>1, SMT
  <2> QED
    BY <2>4, <2>5, <2>6, SMT DEF TimeoutAsSet
<1> QED
  BY <1>1, <1>2, TimeoutStep, SettingsTypeCorrect, PTL DEF Spec
=============================================================================
