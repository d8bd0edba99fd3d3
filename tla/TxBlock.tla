------------------------------ MODULE TxBlock -------------------------------
(***************************************************************************)
(* The transaction block of one connection as a PostgreSQL client sees it: *)
(* where it stands, the last thing it was told, and how many changes to    *)
(* tables its statements have made.                                        *)
(***************************************************************************)
EXTENDS Naturals

VARIABLES
  block,     \* "Idle", "Transaction" or "Error"
  said,      \* the last transaction tag, or "ERROR"
  effects    \* changes made to tables

txBlock == <<block, said, effects>>

Init == block = "Idle" /\ said = "NONE" /\ effects = 0

Begin ==
  /\ block # "Error"
  /\ block' = "Transaction" /\ said' = "BEGIN"
  /\ UNCHANGED effects

\* Nobody is told that a failed block committed.
Commit ==
  /\ block # "Error"
  /\ block' = "Idle" /\ said' = "COMMIT"
  /\ UNCHANGED effects

Rollback ==
  /\ block' = "Idle" /\ said' = "ROLLBACK"
  /\ UNCHANGED effects

\* A failed block changes no table.
Work ==
  /\ block # "Error"
  /\ effects' = effects + 1
  /\ UNCHANGED <<block, said>>

Fail ==
  /\ block' = IF block = "Idle" THEN "Idle" ELSE "Error"
  /\ said' = "ERROR"
  /\ \/ UNCHANGED effects
     \/ block # "Error" /\ effects' = effects + 1

Next == Begin \/ Commit \/ Rollback \/ Work \/ Fail

Spec == Init /\ [][Next]_txBlock
=============================================================================
