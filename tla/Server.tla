------------------------------- MODULE Server -------------------------------
(***************************************************************************)
(* The accept loop of serve_with_handlers.  Every accepted socket gets a   *)
(* task of its own, which first tries to take a permit of the connection   *)
(* limiter and keeps it until process_socket returns, be it that the TLS   *)
(* handshake or the start-up fails, that the client leaves or that the     *)
(* connection breaks.                                                      *)
(***************************************************************************)
EXTENDS Integers, FiniteSets

CONSTANTS
  Sockets,        \* the connections there may be at a time
  MaxConnections  \* ServerOptions::max_connections, 0 for no limit

ASSUME SocketAssumption == IsFiniteSet(Sockets)
ASSUME LimitAssumption == MaxConnections \in Nat

VARIABLES
  conn,     \* what has become of each socket
  permits   \* permits left in the semaphore, 0 if there is none

server == <<conn, permits>>

Limited == MaxConnections > 0
States == {"closed", "accepted", "startup", "serving"}
InProcess == {c \in Sockets : conn[c] \in {"startup", "serving"}}

-----------------------------------------------------------------------------
ServerInit ==
  /\ conn = [c \in Sockets |-> "closed"]
  /\ permits = MaxConnections

\* A client connects and a task is spawned; the task asks for its permit later.
Accept(c) ==
  /\ conn[c] = "closed"
  /\ conn' = [conn EXCEPT ![c] = "accepted"]
  /\ UNCHANGED permits

\* Mutant: the permit is not bound to a name and dropped at once.
PermitsAfterAdmitDropped == permits

PermitsAfterAdmit == IF Limited THEN permits - 1 ELSE permits

\* try_acquire
Admit(c) ==
  /\ conn[c] = "accepted"
  /\ Limited => permits > 0
  /\ conn' = [conn EXCEPT ![c] = "startup"]
  /\ permits' = PermitsAfterAdmit

Refuse(c) ==
  /\ conn[c] = "accepted"
  /\ Limited /\ permits = 0
  /\ conn' = [conn EXCEPT ![c] = "closed"]
  /\ UNCHANGED permits

\* process_socket: TLS, if it is set up, and the start-up messages.
StartUp(c) ==
  /\ conn[c] = "startup"
  /\ conn' = [conn EXCEPT ![c] = "serving"]
  /\ UNCHANGED permits

\* Mutant: a connection that fails to start up does not give its permit back.
PermitsAfterEndServed(c) ==
  IF Limited /\ conn[c] = "serving" THEN permits + 1 ELSE permits

PermitsAfterEnd(c) == IF Limited THEN permits + 1 ELSE permits

\* process_socket returns and the permit is dropped.
End(c) ==
  /\ c \in InProcess
  /\ conn' = [conn EXCEPT ![c] = "closed"]
  /\ permits' = PermitsAfterEnd(c)

ServerNext ==
  \E c \in Sockets : Accept(c) \/ Admit(c) \/ Refuse(c) \/ StartUp(c) \/ End(c)

ServerSpec == ServerInit /\ [][ServerNext]_server

-----------------------------------------------------------------------------
\* There are never more connections than the limit ("max connections reached").
LimitRespected == Limited => Cardinality(InProcess) <= MaxConnections

\* A connection is turned away only while as many as the limit allows are in
\* process: no permit is lost, however connections end.
RefusedOnlyWhenFull ==
  [][\A c \in Sockets :
       conn[c] = "accepted" /\ conn'[c] = "closed" =>
         Limited /\ Cardinality(InProcess) = MaxConnections]_server

\* Why: permits are with connections in process or in the semaphore.
PermitsCount ==
  /\ conn \in [Sockets -> States]
  /\ permits \in Nat
  /\ Limited => permits + Cardinality(InProcess) = MaxConnections
=============================================================================
