---------------------------- MODULE OidRegistry -----------------------------
(***************************************************************************)
(* What the OID catalog promises its clients, whatever it caches: an OID   *)
(* it has shown names one object for ever, and an object keeps the OID it  *)
(* was shown with until it is dropped.  Some objects share an OID by       *)
(* design (every namespace called pg_catalog).                             *)
(***************************************************************************)
CONSTANTS
  Objects,   \* everything that can have an OID
  Sharing,   \* the objects that share one fixed OID
  Unknown    \* the OID of an object no client has seen

VARIABLES
  known,     \* object -> the OID clients know it by, or Unknown
  shown      \* every (OID, object) pair ever shown

registry == <<known, shown>>

Unambiguous(pairs) ==
  \A p, q \in pairs :
    p.oid = q.oid => p.key = q.key \/ (p.key \in Sharing /\ q.key \in Sharing)

Init == known = [x \in Objects |-> Unknown] /\ shown = {}

\* A catalog query answers.  Known objects appear under the OID they are known
\* by; clients learn the OIDs of some of the others.
Answer ==
  /\ shown \subseteq shown'
  /\ Unambiguous(shown')
  /\ \A p \in shown' \ shown : known[p.key] \in {Unknown, p.oid}
  /\ \A x \in Objects :
       known'[x] # known[x] =>
         known[x] = Unknown /\ [oid |-> known'[x], key |-> x] \in shown'

\* Objects are dropped.
Forget ==
  /\ \A x \in Objects : known'[x] \in {known[x], Unknown}
  /\ UNCHANGED shown

Next == Answer \/ Forget

Spec == Init /\ [][Next]_registry
=============================================================================
