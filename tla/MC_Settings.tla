---------------------------- MODULE MC_Settings -----------------------------
(***************************************************************************)
(* Three clients and room for two: one uses every statement, one changes   *)
(* what the first reads, one only connects.                                *)
(***************************************************************************)
EXTENDS Settings

MCSockets == {"c1", "c2", "c3"}

\* Three minutes exceed the width.
Timeouts == {SetTimeout(5, "ms"), SetTimeout(2, "s"), SetTimeout(3, "min")}
MCSends ==
  [c1 |-> {Assign("datestyle", form, "iso") : form \in Forms}
            \union {Assign("timezone", "string", "utc"), Show("timezone"), Select}
            \union Timeouts,
   c2 |-> {Assign("datestyle", "string", "sql")},
   c3 |-> {}]
MCValues == {"iso", "sql", "utc"}
=============================================================================
