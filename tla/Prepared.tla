------------------------------ MODULE Prepared -------------------------------
(***************************************************************************)
(* A prepared statement from Parse to the last row of its portals: the     *)
(* message is rewritten (SqlRewrite), and its first statement goes on to   *)
(* be planned, described, bound and executed (Portal).                     *)
(***************************************************************************)
EXTENDS SqlRewrite, Portal

vars == <<rewriteVars, portalVars>>

Init == RewriteInit /\ PortalInit

Rewrite == RewriteNext /\ UNCHANGED portalVars

\* Only the first statement of the message is kept.
ParseFirst ==
  /\ \/ stage = "ready" /\ statements # <<>> /\ Prepare(statements[1])
     \/ stage = "ready" /\ statements = <<>> /\ PrepareEmpty
     \/ /\ PrepareFails
        /\ \/ stage = "failed"
           \/ stage = "ready" /\ statements # <<>> /\ ~CanBePlanned(statements[1])
  /\ UNCHANGED rewriteVars

Server == Rewrite \/ ParseFirst \/ (Run /\ UNCHANGED rewriteVars)
Next == Server \/ (Client /\ UNCHANGED rewriteVars)
Spec == Init /\ [][Next]_vars /\ WF_vars(Server)

\* A message is rewritten in the end, and an Execute is answered or the
\* connection is lost.
Answered ==
  /\ stage \in {"scan", "rewrite"} ~> stage \in {"ready", "failed"}
  /\ phase = "executing" ~> phase # "executing"
=============================================================================
