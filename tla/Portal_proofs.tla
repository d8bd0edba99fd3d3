---------------------------- MODULE Portal_proofs ----------------------------
(***************************************************************************)
(* Proofs about Portal: what a client is told of a statement is what it    *)
(* gets from every portal of it.                                           *)
(***************************************************************************)
EXTENDS Portal, Encoding_proofs, FiniteSetTheorems

-----------------------------------------------------------------------------
(* Placeholders by their number *)

LEMMA BeforeNumber ==
  ASSUME NEW n \in Nat, NEW k \in 1 .. n
  PROVE  Cardinality({j \in 1 .. n : j < k}) = k - 1
<1>1. {j \in 1 .. n : j < k} = 1 .. (k - 1)
  OBVIOUS
<1>2. Cardinality(1 .. (k - 1)) = k - 1
  BY FS_Interval
<1> QED BY <1>1, <1>2

LEMMA OrderedByNumber ==
  ASSUME NEW p, NEW n \in Nat, DOMAIN p.context = 1 .. n
  PROVE  OrderedParamTypes(p) = [i \in 1 .. n |-> InferredTypes(p)[i]]
<1> DEFINE types == InferredTypes(p)
           Before(k) == Cardinality({j \in DOMAIN types : j < k})
<1>1. DOMAIN types = 1 .. n
  BY DEF InferredTypes
<1>2. Cardinality(1 .. n) = n
  BY FS_Interval
<1>3. OrderedParamTypes(p) =
        [i \in 1 .. Cardinality(DOMAIN types) |-> types[CHOOSE k \in DOMAIN types : Before(k) = i - 1]]
  BY DEF OrderedParamTypes
<1>4. ASSUME NEW i \in 1 .. n PROVE (CHOOSE k \in DOMAIN types : Before(k) = i - 1) = i
  <2>1. \A k \in 1 .. n : Before(k) = k - 1
    BY <1>1, BeforeNumber
  <2> HIDE DEF Before, types
  <2>2. \A k \in 1 .. n : Before(k) = i - 1 <=> k = i
    BY <2>1
  <2> QED BY <1>1, <2>2
<1> HIDE DEF Before, types
<1> QED BY <1>1, <1>2, <1>3, <1>4 DEF types

LEMMA ParameterTypesByNumber ==
  ASSUME NEW p, NEW n \in Nat, DOMAIN p.context = 1 .. n
  PROVE  /\ Len(ParameterTypes(p)) = n
         /\ \A k \in 1 .. n : ParameterTypes(p)[k] = DescribedType(InferredTypes(p)[k])
<1>1. ParameterTypes(p) = [i \in 1 .. n |-> DescribedType(InferredTypes(p)[i])]
  BY OrderedByNumber DEF ParameterTypes
<1> QED BY <1>1

-----------------------------------------------------------------------------
(* Plans *)

\* A plan stays what Parse made it, and a portal is bound to values of its client.
PlanInv ==
  /\ version \in Versions
  /\ \/ plan = NoPlan /\ phase \in {"unprepared", "refused"}
     \/ plan = EmptyPlan /\ phase \in {"prepared", "bound", "done", "failed"}
     \/ /\ phase \in {"prepared", "bound", "executing", "done", "failed", "lost"}
        /\ \E s \in Statements, v \in Versions : plan \in Plans(s, v)
        /\ hints \in Hints(plan)
        /\ phase \in {"bound", "executing", "done", "lost"} => bound \in Values(plan, hints)

\* Wherever a plan comes from, its rows are sequences of cells for its columns.
Shaped(p) ==
  /\ IsFiniteSet(DOMAIN p.context)
  /\ p.columns \in Seq([field : Fields, param : Nat])
  /\ p.batches \in Seq([fails : BOOLEAN, rows : Seq(Seq(Cells))])
  /\ \A b \in DOMAIN p.batches : \A r \in DOMAIN p.batches[b].rows : \A i \in DOMAIN p.columns :
       p.columns[i].param = Computed => p.batches[b].rows[r][i] \in CellsOf[p.columns[i].field]

LEMMA PlansShaped ==
  ASSUME NEW p, IsPlan(p) \/ p \in {NoPlan, EmptyPlan}
  PROVE  Shaped(p)
<1>1. CASE p \in {NoPlan, EmptyPlan}
  <2>1. p.context = <<>> /\ p.columns = <<>> /\ p.batches = <<>>
    BY <1>1 DEF NoPlan, EmptyPlan
  <2>2. DOMAIN p.context = {}
    BY <2>1
  <2> QED BY <2>1, <2>2, FS_EmptySet DEF Shaped
<1>2. CASE IsPlan(p)
  <2>1. /\ IsFiniteSet(DOMAIN p.context)
        /\ p.columns \in Seq([field : Fields, param : Nat])
        /\ p.batches \in Seq([fails : BOOLEAN, rows : Seq(Seq(Cells))])
    BY <1>2 DEF IsPlan
  <2>2. ASSUME NEW b \in DOMAIN p.batches, NEW r \in DOMAIN p.batches[b].rows, NEW i \in DOMAIN p.columns,
               p.columns[i].param = Computed
        PROVE  p.batches[b].rows[r][i] \in CellsOf[p.columns[i].field]
    <3>1. p.batches[b] \in Range(p.batches) /\ p.batches[b].rows[r] \in Range(p.batches[b].rows)
      BY DEF Range
    <3>2. /\ DOMAIN p.batches[b].rows[r] = DOMAIN p.columns
          /\ \A j \in DOMAIN p.batches[b].rows[r] :
               p.columns[j].param = Computed => p.batches[b].rows[r][j] \in CellsOf[p.columns[j].field]
      BY <1>2, <3>1, Zenon DEF IsPlan
    <3> QED BY <2>2, <3>2
  <2> QED BY <2>1, <2>2 DEF Shaped
<1> QED BY <1>1, <1>2

LEMMA PlanShaped == PlanInv => Shaped(plan)
<1>1. ASSUME NEW s \in Statements, NEW v \in Versions, plan \in Plans(s, v) PROVE IsPlan(plan)
  BY <1>1, PlansAssumption DEF PlansAssumption
<1> QED BY <1>1, PlansShaped DEF PlanInv

LEMMA PlanInvInit == PortalInit => PlanInv
BY DEF PortalInit, PlanInv, Versions

LEMMA EmptyKind == EmptyPlan.kind = "empty" /\ NoPlan.kind = "none"
BY DEF EmptyPlan, NoPlan

LEMMA PlanInvNext == PlanInv /\ [PortalNext]_portalVars => PlanInv'
<1> SUFFICES ASSUME PlanInv, [PortalNext]_portalVars PROVE PlanInv'
  OBVIOUS
<1> USE DEF PlanInv
<1>1. ASSUME NEW s \in Statements, Prepare(s) PROVE PlanInv'
  BY <1>1 DEF Prepare
<1>2. CASE PrepareEmpty
  BY <1>2 DEF PrepareEmpty
<1>3. CASE PrepareFails
  BY <1>3 DEF PrepareFails
<1>4. CASE SendRow
  BY <1>4 DEF SendRow
<1>5. CASE RowFails
  BY <1>5 DEF RowFails, Streaming
<1>6. CASE RowPanics
  BY <1>6 DEF RowPanics, Streaming
<1>7. CASE NextBatch
  BY <1>7 DEF NextBatch
<1>8. CASE BatchFails
  BY <1>8 DEF BatchFails, Streaming
<1>9. CASE LastRow
  BY <1>9 DEF LastRow, Streaming
<1>10. CASE Insert
  BY <1>10 DEF Insert
<1>11. CASE Describe
  BY <1>11 DEF Describe
<1>12. CASE DescribeFails
  BY <1>12 DEF DescribeFails
<1>13. CASE Redefine
  BY <1>13 DEF Redefine, Versions
<1>14. CASE Bind
  BY <1>14 DEF Bind
<1>15. CASE ExecuteEmpty
  BY <1>15, EmptyKind DEF ExecuteEmpty
<1>16. CASE Execute
  BY <1>16, EmptyKind DEF Execute, PlanToExecute
<1>17. CASE ExecuteFails
  BY <1>17, EmptyKind DEF ExecuteFails
<1>18. CASE ExecutePanics
  BY <1>18, EmptyKind DEF ExecutePanics
<1>19. CASE UNCHANGED portalVars
  BY <1>19 DEF portalVars
<1> QED BY <1>1, <1>2, <1>3, <1>4, <1>5, <1>6, <1>7, <1>8, <1>9, <1>10, <1>11, <1>12, <1>13,
           <1>14, <1>15, <1>16, <1>17, <1>18, <1>19
       DEF PortalNext, Parse, Run, Client

-----------------------------------------------------------------------------
(* What a client is told *)

\* What it was told is what the plan says, now that it is not planned again.
ToldInv ==
  /\ phase = "unprepared" => ~described.told
  /\ described.told =>
       /\ described.params = ParameterTypes(plan) /\ described.columns = ResultSchema(plan)
       /\ NoType \notin Range(described.params) \union Range(described.columns)

LEMMA ToldInvInit == PortalInit => ToldInv
BY DEF PortalInit, ToldInv, NotDescribed

LEMMA ToldInvNext == ToldInv /\ [PortalNext]_portalVars => ToldInv'
<1> SUFFICES ASSUME ToldInv, [PortalNext]_portalVars PROVE ToldInv'
  OBVIOUS
<1>1. CASE Describe
  BY <1>1 DEF Describe, ToldInv
<1>2. CASE Parse
  <2>1. described' = described /\ ~described.told /\ phase' # "unprepared"
    BY <1>2 DEF ToldInv, Parse, Prepare, PrepareEmpty, PrepareFails
  <2> QED BY <2>1 DEF ToldInv
<1>3. CASE UNCHANGED <<plan, described>> /\ (phase' = "unprepared" => phase = "unprepared")
  BY <1>3 DEF ToldInv, ParameterTypes, ResultSchema
<1>4. Run \/ UNCHANGED portalVars => UNCHANGED <<plan, described>> /\ (phase' = "unprepared" => phase = "unprepared")
  BY DEF Run, SendRow, RowFails, RowPanics, NextBatch, BatchFails, LastRow, Insert, portalVars
<1>5. Client /\ ~Describe => UNCHANGED <<plan, described>> /\ (phase' = "unprepared" => phase = "unprepared")
  BY DEF Client, DescribeFails, Redefine, Bind, ExecuteEmpty, Execute, PlanToExecute, ExecuteFails,
         ExecutePanics
<1> QED BY <1>1, <1>2, <1>3, <1>4, <1>5 DEF PortalNext

LEMMA PlanAlways == PortalSpec => [](PlanInv /\ ToldInv)
<1>1. PortalInit => PlanInv /\ ToldInv
  BY PlanInvInit, ToldInvInit
<1>2. PlanInv /\ ToldInv /\ [PortalNext]_portalVars => (PlanInv /\ ToldInv)'
  BY PlanInvNext, ToldInvNext
<1> QED BY <1>1, <1>2, PTL DEF PortalSpec

\* The type told at position k is that of $k, however many there are
\* (Parser::get_parameter_types).
THEOREM DescribedByNumberHolds == PortalSpec => []DescribedByNumber
<1>1. ASSUME PlanInv, ToldInv PROVE DescribedByNumber
  <2> SUFFICES ASSUME described.told, Contiguous
               PROVE  /\ Len(described.params) = Cardinality(DOMAIN plan.context)
                      /\ \A k \in DOMAIN plan.context :
                           described.params[k] =
                             DescribedType(IF plan.context[k] = Untyped THEN CastType(plan, k)
                                           ELSE plan.context[k])
    BY DEF DescribedByNumber
  <2> DEFINE n == Cardinality(DOMAIN plan.context)
  <2>1. n \in Nat /\ DOMAIN plan.context = 1 .. n
    BY <1>1, PlanShaped, FS_CardinalityType DEF Shaped, Contiguous
  <2>2. described.params = ParameterTypes(plan)
    BY <1>1 DEF ToldInv
  <2> HIDE DEF n
  <2>3. Len(described.params) = n
        /\ \A k \in DOMAIN plan.context : described.params[k] = DescribedType(InferredTypes(plan)[k])
    BY <2>1, <2>2, ParameterTypesByNumber
  <2>4. \A k \in DOMAIN plan.context :
          InferredTypes(plan)[k] = IF plan.context[k] = Untyped THEN CastType(plan, k) ELSE plan.context[k]
    BY DEF InferredTypes
  <2> QED BY <2>3, <2>4 DEF n
<1> QED BY <1>1, PlanAlways, PTL

-----------------------------------------------------------------------------
(* Rows *)

RowSeqs == Seq(Seq(Cells))
BatchSeqs == Seq([fails : BOOLEAN, rows : RowSeqs])

LEMMA RowSeqsJoined ==
  ASSUME NEW s \in RowSeqs, NEW t \in RowSeqs
  PROVE  /\ s \o t \in RowSeqs /\ s \o <<>> = s /\ <<>> \o s = s
         /\ \A x \in Seq(Cells) : s \o Append(t, x) = Append(s \o t, x)
<1> DEFINE T == Seq(Cells)
<1>1. RowSeqs = Seq(T)
  BY DEF RowSeqs
<1> HIDE DEF T
<1>2. /\ s \o t \in Seq(T) /\ s \o <<>> = s /\ <<>> \o s = s
      /\ \A x \in T : s \o Append(t, x) = Append(s \o t, x)
  BY <1>1
<1> QED BY <1>1, <1>2 DEF T

LEMMA BatchShape ==
  ASSUME NEW B \in BatchSeqs
  PROVE  /\ Len(B) \in Nat /\ DOMAIN B = 1 .. Len(B)
         /\ \A b \in 1 .. Len(B) : B[b].rows \in RowSeqs
<1> DEFINE R == [fails : BOOLEAN, rows : RowSeqs]
<1>1. B \in Seq(R)
  BY Zenon DEF BatchSeqs
<1>2. \A x \in R : x.rows \in RowSeqs
  BY Zenon
<1> HIDE DEF R
<1>3. Len(B) \in Nat /\ DOMAIN B = 1 .. Len(B) /\ \A b \in 1 .. Len(B) : B[b] \in R
  BY <1>1
<1> QED BY <1>2, <1>3

LEMMA RowsShape ==
  ASSUME NEW rows \in RowSeqs
  PROVE  /\ Len(rows) \in Nat /\ DOMAIN rows = 1 .. Len(rows) /\ \A r \in 1 .. Len(rows) : rows[r] \in Seq(Cells)
         /\ SubSeq(rows, 1, 0) = <<>> /\ SubSeq(rows, 1, Len(rows)) = rows
         /\ \A r \in 0 .. Len(rows) : SubSeq(rows, 1, r) \in RowSeqs
         /\ \A r \in 0 .. Len(rows) : r < Len(rows) => SubSeq(rows, 1, r + 1) = Append(SubSeq(rows, 1, r), rows[r + 1])
<1>1. ASSUME NEW T, NEW s \in Seq(T)
      PROVE  /\ Len(s) \in Nat /\ DOMAIN s = 1 .. Len(s) /\ \A r \in 1 .. Len(s) : s[r] \in T
             /\ SubSeq(s, 1, 0) = <<>> /\ SubSeq(s, 1, Len(s)) = s
             /\ \A r \in 0 .. Len(s) : SubSeq(s, 1, r) \in Seq(T)
             /\ \A r \in 0 .. Len(s) : r < Len(s) => SubSeq(s, 1, r + 1) = Append(SubSeq(s, 1, r), s[r + 1])
  OBVIOUS
<1> QED BY <1>1, Zenon DEF RowSeqs

LEMMA RowsUpToExists ==
  ASSUME NEW B \in BatchSeqs
  PROVE  \E g : g = [k \in 0 .. Len(B) |-> IF k = 0 THEN <<>> ELSE g[k - 1] \o B[k].rows]
<1> DEFINE Level(g, k) == IF k = 0 THEN <<>> ELSE g[k - 1] \o B[k].rows
           S == {n \in Nat : \E g : g = [k \in 0 .. n |-> Level(g, k)]}
<1>0. Len(B) \in Nat
  BY BatchShape
<1>1. 0 \in S
  <2> DEFINE g == [k \in 0 .. 0 |-> <<>>]
  <2>1. g = [k \in 0 .. 0 |-> Level(g, k)]
    OBVIOUS
  <2> QED BY <2>1
<1>2. ASSUME NEW n \in 1 .. Len(B), n - 1 \in S PROVE n \in S
  <2>0. n \in Nat
    BY <1>0
  <2>1. PICK h : h = [k \in 0 .. n - 1 |-> Level(h, k)]
    BY <1>2
  <2> DEFINE g == [k \in 0 .. n |-> Level(h, k)]
  <2>2. \A k \in 1 .. n : g[k - 1] = h[k - 1]
    <3> HIDE DEF Level
    <3>1. \A k \in 1 .. n : k - 1 \in 0 .. n /\ k - 1 \in 0 .. n - 1
      BY <2>0
    <3> QED BY <2>1, <3>1
  <2>3. \A k \in 0 .. n : Level(g, k) = Level(h, k)
    <3>1. \A k \in 0 .. n : k = 0 \/ k \in 1 .. n
      BY <2>0
    <3> HIDE DEF g
    <3> QED BY <2>2, <3>1
  <2> HIDE DEF Level
  <2>4. g = [k \in 0 .. n |-> Level(g, k)]
    BY <2>3
  <2> QED BY <2>0, <2>4
<1> HIDE DEF S
<1>3. 0 .. Len(B) \subseteq S
  BY <1>0, <1>1, <1>2, UpTo
<1>4. Len(B) \in S
  BY <1>0, <1>3
<1> QED BY <1>4 DEF S

LEMMA RowsUpToLevels ==
  ASSUME NEW B \in BatchSeqs
  PROVE  /\ RowsUpTo(B, 0) = <<>>
         /\ \A k \in 1 .. Len(B) : RowsUpTo(B, k) = RowsUpTo(B, k - 1) \o B[k].rows
<1> DEFINE G == CHOOSE g : g = [k \in 0 .. Len(B) |-> IF k = 0 THEN <<>> ELSE g[k - 1] \o B[k].rows]
<1>0. Len(B) \in Nat
  BY BatchShape
<1>1. \A n : RowsUpTo(B, n) = G[n]
  BY DEF RowsUpTo
<1>2. G = [k \in 0 .. Len(B) |-> IF k = 0 THEN <<>> ELSE G[k - 1] \o B[k].rows]
  BY RowsUpToExists, Zenon
<1> HIDE DEF G
<1>3. 0 \in 0 .. Len(B) /\ \A k \in 1 .. Len(B) : k \in 0 .. Len(B) /\ k # 0
  BY <1>0
<1>4. G[0] = <<>>
  BY <1>2, <1>3
<1>5. \A k \in 1 .. Len(B) : G[k] = G[k - 1] \o B[k].rows
  BY <1>2, <1>3
<1> QED BY <1>1, <1>4, <1>5

LEMMA RowsUpToRows ==
  ASSUME NEW B \in BatchSeqs
  PROVE  \A k \in 0 .. Len(B) : RowsUpTo(B, k) \in RowSeqs
<1> DEFINE S == {k \in Nat : k \in 0 .. Len(B) => RowsUpTo(B, k) \in RowSeqs}
<1>0. Len(B) \in Nat /\ \A k \in 1 .. Len(B) : B[k].rows \in RowSeqs
  BY BatchShape
<1>1. 0 \in S
  <2>1. <<>> \in RowSeqs
    BY DEF RowSeqs
  <2> QED BY <2>1, RowsUpToLevels
<1>2. ASSUME NEW k \in 1 .. Len(B), k - 1 \in S PROVE k \in S
  <2>1. RowsUpTo(B, k - 1) \in RowSeqs
    BY <1>0, <1>2
  <2>2. RowsUpTo(B, k - 1) \o B[k].rows \in RowSeqs
    BY <1>0, <2>1, RowSeqsJoined
  <2>3. RowsUpTo(B, k) = RowsUpTo(B, k - 1) \o B[k].rows
    BY RowsUpToLevels
  <2>4. k \in Nat
    BY <1>0
  <2> QED BY <2>2, <2>3, <2>4
<1> HIDE DEF S
<1>3. 0 .. Len(B) \subseteq S
  BY <1>0, <1>1, <1>2, UpTo
<1> QED BY <1>3 DEF S

\* What was sent grows by a row at a time, and not at all from batch to batch.
LEMMA RowsBeforeSteps ==
  ASSUME NEW B \in BatchSeqs
  PROVE  /\ RowsBefore(B, 1, 0) = <<>>
         /\ \A b \in 1 .. Len(B) : \A r \in 0 .. Len(B[b].rows) :
              /\ RowsBefore(B, b, r) \in RowSeqs
              /\ r < Len(B[b].rows) => RowsBefore(B, b, r + 1) = Append(RowsBefore(B, b, r), B[b].rows[r + 1])
              /\ r = Len(B[b].rows) => RowsBefore(B, b + 1, 0) = RowsBefore(B, b, r)
<1>0. Len(B) \in Nat /\ DOMAIN B = 1 .. Len(B) /\ \A b \in 1 .. Len(B) : B[b].rows \in RowSeqs
  BY BatchShape
<1>1. \A b \in 1 .. Len(B) : SubSeq(B[b].rows, 1, 0) = <<>>
  BY <1>0, RowsShape
<1>2. ASSUME NEW b \in 1 .. Len(B) + 1
      PROVE  RowsUpTo(B, b - 1) \in RowSeqs /\ RowsBefore(B, b, 0) = RowsUpTo(B, b - 1)
  <2>1. RowsUpTo(B, b - 1) \in RowSeqs
    BY <1>0, RowsUpToRows
  <2>2. RowsBefore(B, b, 0) = RowsUpTo(B, b - 1) \o <<>>
    BY <1>0, <1>1 DEF RowsBefore
  <2> QED BY <2>1, <2>2, RowSeqsJoined
<1>3. RowsBefore(B, 1, 0) = <<>>
  <2>1. 1 \in 1 .. Len(B) + 1 /\ 1 - 1 = 0
    BY <1>0
  <2> QED BY <1>2, <2>1, RowsUpToLevels
<1>4. ASSUME NEW b \in 1 .. Len(B), NEW r \in 0 .. Len(B[b].rows)
      PROVE  /\ RowsBefore(B, b, r) \in RowSeqs
             /\ r < Len(B[b].rows) => RowsBefore(B, b, r + 1) = Append(RowsBefore(B, b, r), B[b].rows[r + 1])
             /\ r = Len(B[b].rows) => RowsBefore(B, b + 1, 0) = RowsBefore(B, b, r)
  <2> DEFINE before == RowsUpTo(B, b - 1)
             rows == B[b].rows
  <2>0. b \in 1 .. Len(B) + 1
    BY <1>0
  <2>1. before \in RowSeqs /\ rows \in RowSeqs /\ Len(rows) \in Nat /\ r \in Nat /\ r <= Len(rows)
    BY <1>0, <1>2, <2>0, RowsShape
  <2>2. \A q : RowsBefore(B, b, q) = before \o SubSeq(rows, 1, q)
    BY <1>0 DEF RowsBefore
  <2>3. RowsBefore(B, b + 1, 0) = before \o rows
    <3>1. b + 1 \in 1 .. Len(B) + 1 /\ (b + 1) - 1 = b
      BY <1>0
    <3> QED BY <1>2, <3>1, RowsUpToLevels
  <2>4. r \in 0 .. Len(rows)
    OBVIOUS
  <2> HIDE DEF before, rows
  <2>5. SubSeq(rows, 1, r) \in RowSeqs /\ SubSeq(rows, 1, Len(rows)) = rows
    BY <2>1, <2>4, RowsShape
  <2>6. RowsBefore(B, b, r) \in RowSeqs
    <3>1. before \o SubSeq(rows, 1, r) \in RowSeqs
      BY <2>1, <2>5, RowSeqsJoined
    <3> QED BY <2>2, <3>1
  <2>7. ASSUME r < Len(rows)
        PROVE  RowsBefore(B, b, r + 1) = Append(RowsBefore(B, b, r), rows[r + 1])
    <3>1. rows[r + 1] \in Seq(Cells)
      <4>1. r + 1 \in 1 .. Len(rows)
        BY <2>1, <2>7
      <4> QED BY <2>1, <4>1, RowsShape
    <3>2. before \o Append(SubSeq(rows, 1, r), rows[r + 1]) = Append(before \o SubSeq(rows, 1, r), rows[r + 1])
      BY <2>1, <2>5, <3>1, RowSeqsJoined
    <3>3. SubSeq(rows, 1, r + 1) = Append(SubSeq(rows, 1, r), rows[r + 1])
      BY <2>1, <2>4, <2>7, RowsShape
    <3> QED BY <2>2, <3>2, <3>3
  <2> QED BY <2>2, <2>3, <2>5, <2>6, <2>7 DEF rows
<1> QED BY <1>3, <1>4

\* Where the portal is in the batches.
PlaceInv ==
  /\ batch \in 1 .. Len(plan.batches) + 1
  /\ row \in Nat
  /\ batch \in DOMAIN plan.batches => row <= Len(plan.batches[batch].rows)
  /\ \A b \in DOMAIN plan.batches : b < batch => ~plan.batches[b].fails
  /\ phase \in {"unprepared", "refused", "prepared", "bound"} => batch = 1 /\ row = 0 /\ sent = <<>>
  /\ phase = "done" /\ plan.kind \notin {"insert", "empty"} => batch = Len(plan.batches) + 1

\* What a row of cells becomes, for the columns that are not placeholders.
EncodedFrom(cells, encoded) ==
  /\ DOMAIN encoded = DOMAIN plan.columns
  /\ \A i \in DOMAIN plan.columns : plan.columns[i].param = Computed =>
       LET f == plan.columns[i].field IN
       /\ f \in Fields /\ FieldIntoPgType[f] # NoType
       /\ cells[i] \in CellsOf[f]
       /\ encoded[i] = EncodeValue[f][cells[i]] /\ encoded[i] \notin {Error, Panic}

\* What was sent are the rows that were read.
SentInv ==
  /\ sent \in Seq(Range(sent)) /\ RowsRead \in RowSeqs
  /\ Len(sent) = Len(RowsRead)
  /\ \A r \in DOMAIN sent : EncodedFrom(RowsRead[r], sent[r])
  /\ phase = "executing" /\ plan.kind # "insert" => Announced(literals)

LEMMA SeqOfItsRange ==
  ASSUME NEW S, NEW s \in Seq(S), NEW x
  PROVE  /\ <<>> \in Seq(Range(<<>>))
         /\ s \in Seq(Range(s))
         /\ Append(s, x) \in Seq(Range(Append(s, x)))
         /\ Len(Append(s, x)) = Len(s) + 1
         /\ DOMAIN Append(s, x) = DOMAIN s \union {Len(s) + 1} /\ DOMAIN s = 1 .. Len(s) /\ Len(s) \in Nat
         /\ \A r \in DOMAIN s : Append(s, x)[r] = s[r]
         /\ Append(s, x)[Len(s) + 1] = x
<1>1. ASSUME NEW T, NEW t \in Seq(T) PROVE t \in Seq(Range(t))
  <2>1. DOMAIN t = 1 .. Len(t) /\ Len(t) \in Nat
    OBVIOUS
  <2>2. \A i \in 1 .. Len(t) : t[i] \in Range(t)
    BY <2>1 DEF Range
  <2>3. t \in [1 .. Len(t) -> Range(t)]
    BY <2>1, <2>2
  <2> QED BY <2>1, <2>3
<1>2. <<>> \in Seq(Range(<<>>))
  OBVIOUS
<1>3. Append(s, x) \in Seq(S \union {x})
  <2>1. s \in Seq(S \union {x})
    OBVIOUS
  <2> QED BY <2>1
<1>4. Append(s, x) \in Seq(Range(Append(s, x)))
  BY <1>1, <1>3
<1>5. s \in Seq(Range(s))
  BY <1>1
<1>6. /\ Len(Append(s, x)) = Len(s) + 1
      /\ DOMAIN Append(s, x) = DOMAIN s \union {Len(s) + 1} /\ DOMAIN s = 1 .. Len(s) /\ Len(s) \in Nat
      /\ \A r \in DOMAIN s : Append(s, x)[r] = s[r]
      /\ Append(s, x)[Len(s) + 1] = x
  <2>1. s \in Seq(S \union {x}) /\ x \in S \union {x}
    OBVIOUS
  <2> QED BY <2>1
<1> QED BY <1>2, <1>4, <1>5, <1>6

LEMMA PlanBatches ==
  ASSUME NEW p, Shaped(p)
  PROVE  /\ p.batches \in BatchSeqs
         /\ Len(p.batches) \in Nat /\ DOMAIN p.batches = 1 .. Len(p.batches)
         /\ \A b \in 1 .. Len(p.batches) : p.batches[b].rows \in RowSeqs /\ Len(p.batches[b].rows) \in Nat
         /\ \A i \in DOMAIN p.columns : p.columns[i].field \in Fields
<1>1. p.batches \in BatchSeqs
  BY DEF Shaped, BatchSeqs, RowSeqs
<1>2. \A b \in 1 .. Len(p.batches) : p.batches[b].rows \in RowSeqs /\ Len(p.batches[b].rows) \in Nat
  BY <1>1, BatchShape, RowsShape
<1>3. ASSUME NEW i \in DOMAIN p.columns PROVE p.columns[i].field \in Fields
  <2> DEFINE C == [field : Fields, param : Nat]
  <2>1. p.columns \in Seq(C) /\ \A c \in C : c.field \in Fields
    BY DEF Shaped
  <2> HIDE DEF C
  <2> QED BY <2>1
<1> QED BY <1>1, <1>2, <1>3, BatchShape

LEMMA PlaceInvInit == PortalInit => PlaceInv
<1> SUFFICES ASSUME PortalInit PROVE PlaceInv
  OBVIOUS
<1>1. plan.batches = <<>> /\ batch = 1 /\ row = 0 /\ sent = <<>> /\ phase = "unprepared"
  BY DEF PortalInit, NoPlan
<1> QED BY <1>1 DEF PlaceInv

LEMMA PlaceInvNext == PlanInv /\ PlanInv' /\ PlaceInv /\ [PortalNext]_portalVars => PlaceInv'
<1> SUFFICES ASSUME PlanInv, PlanInv', PlaceInv, [PortalNext]_portalVars PROVE PlaceInv'
  OBVIOUS
<1>0. Shaped(plan)
  BY PlanShaped
<1>1. /\ Len(plan.batches) \in Nat /\ DOMAIN plan.batches = 1 .. Len(plan.batches)
      /\ \A b \in 1 .. Len(plan.batches) : Len(plan.batches[b].rows) \in Nat
  BY <1>0, PlanBatches
<1>2. CASE Parse
  <2>1. batch' = batch /\ row' = row /\ sent' = sent /\ batch = 1 /\ row = 0 /\ sent = <<>>
    BY <1>2 DEF Parse, Prepare, PrepareEmpty, PrepareFails, PlaceInv
  <2>2. phase' \in {"prepared", "refused"}
    BY <1>2 DEF Parse, Prepare, PrepareEmpty, PrepareFails
  <2>3. Shaped(plan)'
    <3>1. PlanInv' => Shaped(plan)'
      BY PlanShaped, PTL
    <3> QED BY <3>1
  <2>4. (/\ Len(plan.batches) \in Nat /\ DOMAIN plan.batches = 1 .. Len(plan.batches)
         /\ \A b \in 1 .. Len(plan.batches) : Len(plan.batches[b].rows) \in Nat)'
    BY <2>3, PlanBatches
  <2> QED BY <2>1, <2>2, <2>4 DEF PlaceInv
<1>3. CASE SendRow
  <2>1. plan' = plan /\ batch' = batch /\ row' = row + 1 /\ phase' = phase /\ phase = "executing"
    BY <1>3 DEF SendRow, Streaming, RowAfter
  <2>2. batch \in 1 .. Len(plan.batches) /\ row < Len(plan.batches[batch].rows)
    BY <1>1, <1>3 DEF SendRow, InBatch, Batch
  <2>3. row + 1 <= Len(plan.batches[batch].rows)
    BY <1>1, <2>2 DEF PlaceInv
  <2>4. row + 1 \in Nat /\ phase \notin {"unprepared", "refused", "prepared", "bound", "done"}
    BY <2>1 DEF PlaceInv
  <2>5. batch' \in 1 .. Len(plan'.batches) + 1 /\ row' \in Nat
    BY <2>1, <2>4 DEF PlaceInv
  <2>6. batch' \in DOMAIN plan'.batches => row' <= Len(plan'.batches[batch'].rows)
    BY <2>1, <2>3
  <2>7. \A b \in DOMAIN plan'.batches : b < batch' => ~plan'.batches[b].fails
    BY <2>1 DEF PlaceInv
  <2>8. phase' \notin {"unprepared", "refused", "prepared", "bound", "done"}
    BY <2>1, <2>4
  <2> QED BY <2>5, <2>6, <2>7, <2>8 DEF PlaceInv
<1>4. CASE NextBatch
  <2>1. plan' = plan /\ batch' = batch + 1 /\ row' = 0 /\ sent' = sent /\ phase' = phase /\ phase = "executing"
    BY <1>4 DEF NextBatch, Streaming
  <2>2. batch \in 1 .. Len(plan.batches) /\ ~plan.batches[batch].fails
    BY <1>1, <1>4 DEF NextBatch, Batch
  <2>3. \A b \in DOMAIN plan.batches : b < batch + 1 => b < batch \/ b = batch
    BY <1>1, <2>2
  <2>4. \A b \in DOMAIN plan.batches : b < batch + 1 => ~plan.batches[b].fails
    BY <2>2, <2>3 DEF PlaceInv
  <2>5. batch' \in 1 .. Len(plan'.batches) + 1 /\ row' \in Nat
    BY <1>1, <2>1, <2>2
  <2>6. batch' \in DOMAIN plan'.batches => row' <= Len(plan'.batches[batch'].rows)
    <3> SUFFICES ASSUME batch' \in DOMAIN plan'.batches PROVE row' <= Len(plan'.batches[batch'].rows)
      OBVIOUS
    <3>1. batch' \in 1 .. Len(plan.batches)
      BY <1>1, <2>1
    <3>2. Len(plan.batches[batch'].rows) \in Nat
      BY <1>1, <3>1
    <3> QED BY <2>1, <3>2
  <2>7. \A b \in DOMAIN plan'.batches : b < batch' => ~plan'.batches[b].fails
    BY <2>1, <2>4
  <2>8. phase' \notin {"unprepared", "refused", "prepared", "bound", "done"}
    BY <2>1
  <2> QED BY <2>5, <2>6, <2>7, <2>8 DEF PlaceInv
<1>5. CASE RowFails \/ RowPanics \/ BatchFails
  BY <1>5 DEF RowFails, RowPanics, BatchFails, Streaming, PlaceInv
<1>6. CASE LastRow
  BY <1>1, <1>6 DEF LastRow, Streaming, PlaceInv
<1>7. CASE Insert
  BY <1>7 DEF Insert, PlaceInv
<1>8. CASE Bind
  <2>1. plan' = plan /\ batch' = 1 /\ row' = 0 /\ sent' = <<>> /\ phase' = "bound"
    BY <1>8 DEF Bind
  <2>2. batch' \in 1 .. Len(plan'.batches) + 1 /\ row' \in Nat
    BY <1>1, <2>1
  <2>3. batch' \in DOMAIN plan'.batches => row' <= Len(plan'.batches[batch'].rows)
    <3> SUFFICES ASSUME batch' \in DOMAIN plan'.batches PROVE row' <= Len(plan'.batches[batch'].rows)
      OBVIOUS
    <3>1. Len(plan.batches[batch'].rows) \in Nat
      BY <1>1, <2>1
    <3> QED BY <2>1, <3>1
  <2>4. \A b \in DOMAIN plan'.batches : b < batch' => ~plan'.batches[b].fails
    <3> SUFFICES ASSUME NEW b \in DOMAIN plan'.batches, b < batch' PROVE FALSE
      OBVIOUS
    <3>1. b \in 1 .. Len(plan.batches) /\ b < 1
      BY <1>1, <2>1
    <3> QED BY <1>1, <3>1
  <2> QED BY <2>1, <2>2, <2>3, <2>4 DEF PlaceInv
<1>9. CASE Describe \/ Redefine \/ UNCHANGED portalVars
  BY <1>9 DEF Describe, Redefine, portalVars, PlaceInv
<1>10. CASE DescribeFails \/ ExecuteFails \/ ExecutePanics
  BY <1>10 DEF DescribeFails, ExecuteFails, ExecutePanics, PlaceInv
<1>11. CASE ExecuteEmpty
  BY <1>11 DEF ExecuteEmpty, PlaceInv
<1>12. CASE Execute
  BY <1>12 DEF Execute, PlanToExecute, PlaceInv
<1> QED BY <1>2, <1>3, <1>4, <1>5, <1>6, <1>7, <1>8, <1>9, <1>10, <1>11, <1>12
       DEF PortalNext, Run, Client

LEMMA SentInvInit == PortalInit => SentInv
<1> SUFFICES ASSUME PortalInit PROVE SentInv
  OBVIOUS
<1>1. plan.batches = <<>> /\ batch = 1 /\ row = 0 /\ sent = <<>> /\ phase = "unprepared"
  BY DEF PortalInit, NoPlan
<1>2. <<>> \in BatchSeqs /\ <<>> \in RowSeqs
  BY DEF BatchSeqs, RowSeqs
<1>3. RowsRead = <<>>
  BY <1>1, <1>2, RowsBeforeSteps DEF RowsRead
<1>4. sent \in Seq(Range(sent))
  BY <1>1, SeqOfItsRange
<1> QED BY <1>1, <1>2, <1>3, <1>4 DEF SentInv

\* The row that is sent next.
LEMMA EncodedRowFrom ==
  ASSUME PlanInv, PlaceInv, SentInv, Streaming, InBatch, Wrong(EncodedRow) = {}
  PROVE  EncodedFrom(plan.batches[batch].rows[row + 1], EncodedRow)
<1>1. Shaped(plan)
  BY PlanShaped
<1>2. batch \in DOMAIN plan.batches /\ row + 1 \in DOMAIN plan.batches[batch].rows
  <2>1. batch \in 1 .. Len(plan.batches) /\ row < Len(plan.batches[batch].rows) /\ row \in Nat
    BY <1>1, PlanBatches DEF InBatch, Batch, PlaceInv
  <2>2. plan.batches[batch].rows \in RowSeqs
    BY <1>1, <2>1, PlanBatches
  <2>3. DOMAIN plan.batches[batch].rows = 1 .. Len(plan.batches[batch].rows) /\ Len(plan.batches[batch].rows) \in Nat
    BY <2>2, RowsShape
  <2> QED BY <1>1, <2>1, <2>3, PlanBatches
<1>3. DOMAIN EncodedRow = DOMAIN plan.columns
  BY DEF EncodedRow
<1>4. ASSUME NEW i \in DOMAIN plan.columns, plan.columns[i].param = Computed
      PROVE  LET f == plan.columns[i].field
                 cell == plan.batches[batch].rows[row + 1][i] IN
             /\ f \in Fields /\ FieldIntoPgType[f] # NoType
             /\ cell \in CellsOf[f]
             /\ EncodedRow[i] = EncodeValue[f][cell] /\ EncodedRow[i] \notin {Error, Panic}
  <2>1. plan.columns[i].field \in Fields
    BY <1>1, PlanBatches
  <2>2. FieldIntoPgType[plan.columns[i].field] # NoType
    BY <1>4 DEF SentInv, Streaming, Announced, FieldIn
  <2>3. plan.batches[batch].rows[row + 1][i] \in CellsOf[plan.columns[i].field]
    BY <1>1, <1>2, <1>4 DEF Shaped
  <2>4. EncodedRow[i] = EncodeValue[plan.columns[i].field][plan.batches[batch].rows[row + 1][i]]
    BY <1>4 DEF EncodedRow, FieldIn, CellIn
  <2>5. EncodedRow[i] \notin {Error, Panic}
    BY <1>3 DEF Wrong
  <2> QED BY <2>1, <2>2, <2>3, <2>4, <2>5
<1> QED BY <1>3, <1>4 DEF EncodedFrom

LEMMA SentInvKept ==
  ASSUME SentInv, UNCHANGED <<plan, sent>>, RowsRead' = RowsRead,
         phase' = "executing" => phase = "executing" /\ UNCHANGED literals
  PROVE  SentInv'
<1>1. /\ (sent \in Seq(Range(sent)))' /\ (RowsRead \in RowSeqs)'
      /\ (Len(sent) = Len(RowsRead))'
  BY DEF SentInv
<1>2. (\A r \in DOMAIN sent : EncodedFrom(RowsRead[r], sent[r]))'
  BY DEF SentInv, EncodedFrom
<1>3. (phase = "executing" /\ plan.kind # "insert" => Announced(literals))'
  BY DEF SentInv, Announced, FieldIn
<1> QED BY <1>1, <1>2, <1>3 DEF SentInv

LEMMA SentInvNone ==
  ASSUME Shaped(plan)', batch' = 1, row' = 0, sent' = <<>>, phase' # "executing"
  PROVE  SentInv'
<1>1. (plan.batches \in BatchSeqs)'
  BY PlanBatches
<1>2. (RowsRead = <<>>)'
  BY <1>1, RowsBeforeSteps DEF RowsRead
<1>3. <<>> \in RowSeqs /\ <<>> \in Seq(Range(<<>>))
  BY SeqOfItsRange DEF RowSeqs
<1> QED BY <1>2, <1>3 DEF SentInv

LEMMA SentInvNext == PlanInv /\ PlanInv' /\ PlaceInv /\ SentInv /\ [PortalNext]_portalVars => SentInv'
<1> SUFFICES ASSUME PlanInv, PlanInv', PlaceInv, SentInv, [PortalNext]_portalVars PROVE SentInv'
  OBVIOUS
<1>0. Shaped(plan) /\ Shaped(plan)'
  BY PlanShaped, PTL
<1>1. /\ Len(plan.batches) \in Nat /\ DOMAIN plan.batches = 1 .. Len(plan.batches)
      /\ \A b \in 1 .. Len(plan.batches) : Len(plan.batches[b].rows) \in Nat
      /\ plan.batches \in BatchSeqs
  BY <1>0, PlanBatches
<1>2. CASE Parse
  <2>1. batch' = 1 /\ row' = 0 /\ sent' = <<>> /\ phase' # "executing"
    BY <1>2 DEF Parse, Prepare, PrepareEmpty, PrepareFails, PlaceInv
  <2> QED BY <1>0, <2>1, SentInvNone
<1>3. CASE Bind
  <2>1. batch' = 1 /\ row' = 0 /\ sent' = <<>> /\ phase' # "executing"
    BY <1>3 DEF Bind
  <2> QED BY <1>0, <2>1, SentInvNone
<1>4. CASE SendRow
  <2> DEFINE next == plan.batches[batch].rows[row + 1]
  <2>1. /\ UNCHANGED <<plan, phase, literals, batch>> /\ row' = row + 1 /\ sent' = Append(sent, EncodedRow)
        /\ Streaming /\ InBatch /\ Wrong(EncodedRow) = {}
    BY <1>4 DEF SendRow, RowAfter
  <2>2. batch \in 1 .. Len(plan.batches) /\ row \in 0 .. Len(plan.batches[batch].rows) /\ row < Len(plan.batches[batch].rows)
    BY <1>1, <2>1 DEF InBatch, Batch, PlaceInv
  <2>3. RowsRead' = Append(RowsRead, next)
    BY <1>1, <2>1, <2>2, RowsBeforeSteps DEF RowsRead
  <2>4. EncodedFrom(next, EncodedRow)
    BY <2>1, EncodedRowFrom
  <2>5. next \in Seq(Cells)
    <3>1. plan.batches[batch].rows \in RowSeqs
      BY <1>0, <2>2, PlanBatches
    <3>2. row + 1 \in 1 .. Len(plan.batches[batch].rows)
      BY <1>1, <2>2
    <3> QED BY <3>1, <3>2, RowsShape
  <2> HIDE DEF next
  <2>6. RowsRead \in Seq(Seq(Cells)) /\ sent \in Seq(Range(sent)) /\ Len(sent) = Len(RowsRead)
    BY DEF SentInv, RowSeqs
  <2>7. RowsRead' \in RowSeqs
    BY <2>3, <2>5, <2>6 DEF RowSeqs
  <2>8. sent' \in Seq(Range(sent'))
    BY <2>1, <2>6, SeqOfItsRange
  <2>9. Len(sent') = Len(RowsRead')
    BY <2>1, <2>3, <2>6, SeqOfItsRange
  <2>10. ASSUME NEW r \in DOMAIN sent' PROVE EncodedFrom(RowsRead'[r], sent'[r])
    <3>1. CASE r \in DOMAIN sent
      <4>1. sent'[r] = sent[r] /\ r \in DOMAIN RowsRead
        BY <2>1, <2>6, <3>1, SeqOfItsRange
      <4>2. RowsRead'[r] = RowsRead[r]
        BY <2>3, <2>6, <4>1, SeqOfItsRange
      <4> QED BY <3>1, <4>1, <4>2 DEF SentInv
    <3>2. CASE r = Len(sent) + 1
      <4>1. sent'[r] = EncodedRow
        BY <2>1, <2>6, <3>2, SeqOfItsRange
      <4>2. RowsRead'[r] = next
        BY <2>3, <2>6, <3>2, SeqOfItsRange
      <4> QED BY <2>4, <4>1, <4>2
    <3> QED BY <2>1, <2>6, <3>1, <3>2, SeqOfItsRange
  <2>11. (\A r \in DOMAIN sent : EncodedFrom(RowsRead[r], sent[r]))'
    BY <2>1, <2>10 DEF EncodedFrom
  <2>12. (phase = "executing" /\ plan.kind # "insert" => Announced(literals))'
    BY <2>1 DEF SentInv, Announced, FieldIn
  <2> QED BY <2>7, <2>8, <2>9, <2>11, <2>12 DEF SentInv
<1>5. CASE NextBatch
  <2>1. UNCHANGED <<plan, phase, literals, sent>> /\ batch' = batch + 1 /\ row' = 0
    BY <1>5 DEF NextBatch
  <2>2. batch \in 1 .. Len(plan.batches) /\ row = Len(plan.batches[batch].rows) /\ row \in 0 .. Len(plan.batches[batch].rows)
    BY <1>1, <1>5 DEF NextBatch, Batch
  <2>3. RowsRead' = RowsRead
    BY <1>1, <2>1, <2>2, RowsBeforeSteps DEF RowsRead
  <2> QED BY <2>1, <2>3, SentInvKept
<1>6. CASE RowFails \/ RowPanics \/ BatchFails \/ LastRow \/ Insert
  <2>1. UNCHANGED <<plan, sent, batch, row>> /\ phase' # "executing"
    BY <1>6 DEF RowFails, RowPanics, BatchFails, LastRow, Insert
  <2> QED BY <2>1, SentInvKept DEF RowsRead
<1>7. CASE Describe \/ Redefine \/ UNCHANGED portalVars
  <2>1. UNCHANGED <<plan, sent, batch, row, phase, literals>>
    BY <1>7 DEF Describe, Redefine, portalVars
  <2> QED BY <2>1, SentInvKept DEF RowsRead
<1>8. CASE DescribeFails \/ ExecuteFails \/ ExecutePanics \/ ExecuteEmpty
  <2>1. UNCHANGED <<plan, sent, batch, row>> /\ phase' # "executing"
    BY <1>8 DEF DescribeFails, ExecuteFails, ExecutePanics, ExecuteEmpty
  <2> QED BY <2>1, SentInvKept DEF RowsRead
<1>9. CASE Execute
  <2>1. UNCHANGED <<plan, sent, batch, row>>
    BY <1>9 DEF Execute, PlanToExecute
  <2>2. RowsRead' = RowsRead
    BY <2>1 DEF RowsRead
  <2>3. plan.kind # "insert" => Announced(literals)'
    BY <1>9, <2>1 DEF Execute, Announced, FieldIn
  <2> QED BY <2>1, <2>2, <2>3 DEF SentInv, EncodedFrom
<1> QED BY <1>2, <1>3, <1>4, <1>5, <1>6, <1>7, <1>8, <1>9 DEF PortalNext, Run, Client

LEMMA RowsAlways == PortalSpec => [](PlanInv /\ ToldInv /\ PlaceInv /\ SentInv)
<1>1. PortalInit => PlanInv /\ ToldInv /\ PlaceInv /\ SentInv
  BY PlanInvInit, ToldInvInit, PlaceInvInit, SentInvInit
<1>2. PlanInv /\ ToldInv /\ PlaceInv /\ SentInv /\ [PortalNext]_portalVars
        => (PlanInv /\ ToldInv /\ PlaceInv /\ SentInv)'
  BY PlanInvNext, ToldInvNext, PlaceInvNext, SentInvNext
<1> QED BY <1>1, <1>2, PTL DEF PortalSpec

\* Rows arrive in their order, none twice and none left out, and are NULL where
\* the table is (RowEncoder::next_row, encode_value).
THEOREM RowsFaithfulHolds == PortalSpec => []RowsFaithful
<1>1. ASSUME PlanInv, PlaceInv, SentInv PROVE RowsFaithful
  <2> SUFFICES ASSUME plan.kind \notin {"insert", "empty"}
               PROVE  /\ Len(sent) = Len(RowsRead)
                      /\ phase = "done" => batch > Len(plan.batches) /\ \A b \in Range(plan.batches) : ~b.fails
                      /\ \A r \in DOMAIN sent : \A i \in DOMAIN plan.columns :
                           plan.columns[i].param = Computed =>
                             sent[r][i] \in NullsKept[plan.columns[i].field][RowsRead[r][i]]
    BY DEF RowsFaithful
  <2>1. Len(plan.batches) \in Nat /\ DOMAIN plan.batches = 1 .. Len(plan.batches)
    BY <1>1, PlanShaped, PlanBatches
  <2>2. ASSUME phase = "done"
        PROVE  batch > Len(plan.batches) /\ \A b \in Range(plan.batches) : ~b.fails
    <3>1. batch = Len(plan.batches) + 1
      BY <1>1, <2>2 DEF PlaceInv
    <3>2. \A b \in DOMAIN plan.batches : ~plan.batches[b].fails
      BY <1>1, <2>1, <3>1 DEF PlaceInv
    <3> QED BY <2>1, <3>1, <3>2 DEF Range
  <2>3. ASSUME NEW r \in DOMAIN sent, NEW i \in DOMAIN plan.columns, plan.columns[i].param = Computed
        PROVE  sent[r][i] \in NullsKept[plan.columns[i].field][RowsRead[r][i]]
    BY <1>1, <2>3, WrittenKeepsNulls DEF SentInv, EncodedFrom
  <2> QED BY <1>1, <2>2, <2>3 DEF SentInv
<1> QED BY <1>1, RowsAlways, PTL

\* Whatever becomes of the tables between Describe and Execute, a row can be read
\* by what Describe told (get_result_schema, encode_dataframe).
THEOREM ReadAsDescribedHolds == PortalSpec => []ReadAsDescribed
<1>1. ASSUME PlanInv, ToldInv, SentInv PROVE ReadAsDescribed
  <2> SUFFICES ASSUME described.told, plan.kind = "query", NEW r \in DOMAIN sent
               PROVE  /\ DOMAIN sent[r] = DOMAIN described.columns
                      /\ \A i \in DOMAIN plan.columns :
                           plan.columns[i].param = Computed => sent[r][i] \in ReadableAs[described.columns[i]]
    BY DEF ReadAsDescribed
  <2>1. described.columns = [i \in DOMAIN plan.columns |-> FieldIntoPgType[plan.columns[i].field]]
    BY <1>1 DEF ToldInv, ResultSchema
  <2>2. EncodedFrom(RowsRead[r], sent[r])
    BY <1>1 DEF SentInv
  <2>3. ASSUME NEW i \in DOMAIN plan.columns, plan.columns[i].param = Computed
        PROVE  sent[r][i] \in ReadableAs[described.columns[i]]
    BY <2>1, <2>2, <2>3, WrittenReadable DEF EncodedFrom
  <2> QED BY <2>1, <2>2, <2>3 DEF EncodedFrom
<1> QED BY <1>1, RowsAlways, PTL

-----------------------------------------------------------------------------
(* Numbers that become floats *)

Steps == {1, 2, 4, 8, 16, 32, 64, 128, 256, 512, 1024}
Bounded == -MaxNumber .. MaxNumber
Within(h) == h \in Int /\ -16384 <= h /\ h <= 16384

LEMMA BoundedIs ==
  ASSUME NEW h
  PROVE  h \in Bounded <=> Within(h)
<1>1. MaxNumber = 16384 /\ MaxNumber \in Int
  BY DEF MaxNumber, One
<1>2. h \in Bounded <=> h \in Int /\ -MaxNumber <= h /\ h <= MaxNumber
  <2>1. MaxNumber \in Int
    BY <1>1
  <2> QED BY <2>1 DEF Bounded
<1> QED BY <1>1, <1>2 DEF Within

Step(m, h) ==
  LET steps == {s \in Steps : Size(h) <= m * s} IN CHOOSE s \in steps : \A t \in steps : s <= t

LEMMA StepShape ==
  ASSUME NEW m \in {16, 64}, NEW h \in Bounded
  PROVE  /\ Step(m, h) \in Steps /\ Size(h) <= m * Step(m, h)
         /\ \A t \in Steps : Size(h) <= m * t => Step(m, h) <= t
         /\ Within(h) /\ h \in Int /\ Size(h) \in Nat /\ Size(h) <= 16384
<1> DEFINE steps == {s \in Steps : Size(h) <= m * s}
<1>1. Within(h) /\ h \in Int /\ Size(h) \in Nat /\ Size(h) <= 16384
  BY BoundedIs DEF Within, Size
<1>2. steps \subseteq Nat /\ steps # {}
  <2>1. 1024 \in Steps /\ Size(h) <= m * 1024
    BY <1>1 DEF Steps
  <2>2. Steps \subseteq Nat
    BY DEF Steps
  <2>3. 1024 \in steps /\ steps \subseteq Steps
    BY <2>1
  <2> HIDE DEF steps
  <2> QED BY <2>2, <2>3
<1>3. \E s \in steps : \A t \in steps : s <= t
  <2> HIDE DEF steps
  <2> QED BY <1>2, LeastNumber
<1>4. Step(m, h) = CHOOSE s \in steps : \A t \in steps : s <= t
  BY DEF Step
<1>5. Step(m, h) \in steps /\ \A t \in steps : Step(m, h) <= t
  <2> HIDE DEF steps
  <2> QED BY <1>3, <1>4
<1> QED BY <1>1, <1>5

LEMMA RoundIs ==
  ASSUME NEW m, NEW h
  PROVE  RoundTo(m, h) =
           LET step == Step(m, h)
               low == h - (h % step)
           IN IF 2 * (h % step) < step \/ (2 * (h % step) = step /\ (low \div step) % 2 = 0)
              THEN low ELSE low + step
BY DEF RoundTo, Step, Steps

\* r is the multiple of s that is nearest to h.
Rounds(s, h, r) ==
  /\ r = h - (h % s) \/ (r = h - (h % s) + s /\ ~(2 * (h % s) < s))
  /\ 2 * (h % s) > s => r = h - (h % s) + s
Nearest(s, h, r) ==
  /\ Within(r) /\ r % s = 0
  /\ \A b \in {16 * s, 64 * s} : Size(h) <= b => Size(r) <= b
  /\ h % s = 0 <=> r = h
  /\ \A k \in {h - 1, h, h + 1} : k % s = 0 => r \in {h - 1, h, h + 1}

LEMMA Round1 ==
  ASSUME NEW h, Within(h), NEW r, Rounds(1, h, r)
  PROVE  Nearest(1, h, r)
<1>1. r \in Int /\ h \in Int
  BY DEF Rounds, Within
<1>2. Within(r) /\ r % 1 = 0
  BY <1>1 DEF Rounds, Within
<1>3. \A b \in {16 * 1, 64 * 1} : Size(h) <= b => Size(r) <= b
  BY <1>1 DEF Size, Rounds
<1>4. h % 1 = 0 <=> r = h
  BY <1>1 DEF Rounds
<1>5. \A k \in {h - 1, h, h + 1} : k % 1 = 0 => r \in {h - 1, h, h + 1}
  BY <1>1 DEF Rounds
<1> QED BY <1>2, <1>3, <1>4, <1>5 DEF Nearest

LEMMA Round2 ==
  ASSUME NEW h, Within(h), NEW r, Rounds(2, h, r)
  PROVE  Nearest(2, h, r)
<1>1. r \in Int /\ h \in Int
  BY DEF Rounds, Within
<1>2. Within(r) /\ r % 2 = 0
  BY <1>1 DEF Rounds, Within
<1>3. \A b \in {16 * 2, 64 * 2} : Size(h) <= b => Size(r) <= b
  BY <1>1 DEF Size, Rounds
<1>4. h % 2 = 0 <=> r = h
  BY <1>1 DEF Rounds
<1>5. \A k \in {h - 1, h, h + 1} : k % 2 = 0 => r \in {h - 1, h, h + 1}
  BY <1>1 DEF Rounds
<1> QED BY <1>2, <1>3, <1>4, <1>5 DEF Nearest

LEMMA Round4 ==
  ASSUME NEW h, Within(h), NEW r, Rounds(4, h, r)
  PROVE  Nearest(4, h, r)
<1>1. r \in Int /\ h \in Int
  BY DEF Rounds, Within
<1>2. Within(r) /\ r % 4 = 0
  BY <1>1 DEF Rounds, Within
<1>3. \A b \in {16 * 4, 64 * 4} : Size(h) <= b => Size(r) <= b
  BY <1>1 DEF Size, Rounds
<1>4. h % 4 = 0 <=> r = h
  BY <1>1 DEF Rounds
<1>5. \A k \in {h - 1, h, h + 1} : k % 4 = 0 => r \in {h - 1, h, h + 1}
  BY <1>1 DEF Rounds
<1> QED BY <1>2, <1>3, <1>4, <1>5 DEF Nearest

LEMMA Round8 ==
  ASSUME NEW h, Within(h), NEW r, Rounds(8, h, r)
  PROVE  Nearest(8, h, r)
<1>1. r \in Int /\ h \in Int
  BY DEF Rounds, Within
<1>2. Within(r) /\ r % 8 = 0
  BY <1>1 DEF Rounds, Within
<1>3. \A b \in {16 * 8, 64 * 8} : Size(h) <= b => Size(r) <= b
  BY <1>1 DEF Size, Rounds
<1>4. h % 8 = 0 <=> r = h
  BY <1>1 DEF Rounds
<1>5. \A k \in {h - 1, h, h + 1} : k % 8 = 0 => r \in {h - 1, h, h + 1}
  BY <1>1 DEF Rounds
<1> QED BY <1>2, <1>3, <1>4, <1>5 DEF Nearest

LEMMA Round16 ==
  ASSUME NEW h, Within(h), NEW r, Rounds(16, h, r)
  PROVE  Nearest(16, h, r)
<1>1. r \in Int /\ h \in Int
  BY DEF Rounds, Within
<1>2. Within(r) /\ r % 16 = 0
  BY <1>1 DEF Rounds, Within
<1>3. \A b \in {16 * 16, 64 * 16} : Size(h) <= b => Size(r) <= b
  BY <1>1 DEF Size, Rounds
<1>4. h % 16 = 0 <=> r = h
  BY <1>1 DEF Rounds
<1>5. \A k \in {h - 1, h, h + 1} : k % 16 = 0 => r \in {h - 1, h, h + 1}
  BY <1>1 DEF Rounds
<1> QED BY <1>2, <1>3, <1>4, <1>5 DEF Nearest

LEMMA Round32 ==
  ASSUME NEW h, Within(h), NEW r, Rounds(32, h, r)
  PROVE  Nearest(32, h, r)
<1>1. r \in Int /\ h \in Int
  BY DEF Rounds, Within
<1>2. Within(r) /\ r % 32 = 0
  BY <1>1 DEF Rounds, Within
<1>3. \A b \in {16 * 32, 64 * 32} : Size(h) <= b => Size(r) <= b
  BY <1>1 DEF Size, Rounds
<1>4. h % 32 = 0 <=> r = h
  BY <1>1 DEF Rounds
<1>5. \A k \in {h - 1, h, h + 1} : k % 32 = 0 => r \in {h - 1, h, h + 1}
  BY <1>1 DEF Rounds
<1> QED BY <1>2, <1>3, <1>4, <1>5 DEF Nearest

LEMMA Round64 ==
  ASSUME NEW h, Within(h), NEW r, Rounds(64, h, r)
  PROVE  Nearest(64, h, r)
<1>1. r \in Int /\ h \in Int
  BY DEF Rounds, Within
<1>2. Within(r) /\ r % 64 = 0
  BY <1>1 DEF Rounds, Within
<1>3. \A b \in {16 * 64, 64 * 64} : Size(h) <= b => Size(r) <= b
  BY <1>1 DEF Size, Rounds
<1>4. h % 64 = 0 <=> r = h
  BY <1>1 DEF Rounds
<1>5. \A k \in {h - 1, h, h + 1} : k % 64 = 0 => r \in {h - 1, h, h + 1}
  BY <1>1 DEF Rounds
<1> QED BY <1>2, <1>3, <1>4, <1>5 DEF Nearest

LEMMA Round128 ==
  ASSUME NEW h, Within(h), NEW r, Rounds(128, h, r)
  PROVE  Nearest(128, h, r)
<1>1. r \in Int /\ h \in Int
  BY DEF Rounds, Within
<1>2. Within(r) /\ r % 128 = 0
  BY <1>1 DEF Rounds, Within
<1>3. \A b \in {16 * 128, 64 * 128} : Size(h) <= b => Size(r) <= b
  BY <1>1 DEF Size, Rounds
<1>4. h % 128 = 0 <=> r = h
  BY <1>1 DEF Rounds
<1>5. \A k \in {h - 1, h, h + 1} : k % 128 = 0 => r \in {h - 1, h, h + 1}
  BY <1>1 DEF Rounds
<1> QED BY <1>2, <1>3, <1>4, <1>5 DEF Nearest

LEMMA Round256 ==
  ASSUME NEW h, Within(h), NEW r, Rounds(256, h, r)
  PROVE  Nearest(256, h, r)
<1>1. r \in Int /\ h \in Int
  BY DEF Rounds, Within
<1>2. Within(r) /\ r % 256 = 0
  BY <1>1 DEF Rounds, Within
<1>3. \A b \in {16 * 256, 64 * 256} : Size(h) <= b => Size(r) <= b
  BY <1>1 DEF Size, Rounds
<1>4. h % 256 = 0 <=> r = h
  BY <1>1 DEF Rounds
<1>5. \A k \in {h - 1, h, h + 1} : k % 256 = 0 => r \in {h - 1, h, h + 1}
  BY <1>1 DEF Rounds
<1> QED BY <1>2, <1>3, <1>4, <1>5 DEF Nearest

LEMMA Round512 ==
  ASSUME NEW h, Within(h), NEW r, Rounds(512, h, r)
  PROVE  Nearest(512, h, r)
<1>1. r \in Int /\ h \in Int
  BY DEF Rounds, Within
<1>2. Within(r) /\ r % 512 = 0
  BY <1>1 DEF Rounds, Within
<1>3. \A b \in {16 * 512, 64 * 512} : Size(h) <= b => Size(r) <= b
  BY <1>1 DEF Size, Rounds
<1>4. h % 512 = 0 <=> r = h
  BY <1>1 DEF Rounds
<1>5. \A k \in {h - 1, h, h + 1} : k % 512 = 0 => r \in {h - 1, h, h + 1}
  BY <1>1 DEF Rounds
<1> QED BY <1>2, <1>3, <1>4, <1>5 DEF Nearest

LEMMA Round1024 ==
  ASSUME NEW h, Within(h), NEW r, Rounds(1024, h, r)
  PROVE  Nearest(1024, h, r)
<1>1. r \in Int /\ h \in Int
  BY DEF Rounds, Within
<1>2. Within(r) /\ r % 1024 = 0
  BY <1>1 DEF Rounds, Within
<1>3. \A b \in {16 * 1024, 64 * 1024} : Size(h) <= b => Size(r) <= b
  BY <1>1 DEF Size, Rounds
<1>4. h % 1024 = 0 <=> r = h
  BY <1>1 DEF Rounds
<1>5. \A k \in {h - 1, h, h + 1} : k % 1024 = 0 => r \in {h - 1, h, h + 1}
  BY <1>1 DEF Rounds
<1> QED BY <1>2, <1>3, <1>4, <1>5 DEF Nearest

LEMMA RoundShape ==
  ASSUME NEW m \in {16, 64}, NEW h \in Bounded
  PROVE  /\ RoundTo(m, h) \in Bounded /\ Size(RoundTo(m, h)) <= m * Step(m, h)
         /\ RoundTo(m, h) % Step(m, h) = 0
         /\ h % Step(m, h) = 0 <=> RoundTo(m, h) = h
         /\ \A k \in {h - 1, h, h + 1} : k % Step(m, h) = 0 => RoundTo(m, h) \in {h - 1, h, h + 1}
<1> DEFINE s == Step(m, h)
           r == RoundTo(m, h)
<1>1. s \in Steps /\ Size(h) <= m * s /\ Within(h)
  BY StepShape
<1>2. Rounds(s, h, r)
  <2>1. r = LET low == h - (h % s)
            IN IF 2 * (h % s) < s \/ (2 * (h % s) = s /\ (low \div s) % 2 = 0) THEN low ELSE low + s
    BY RoundIs
  <2>2. s \in Nat /\ h % s \in Int
    BY <1>1 DEF Steps, Within
  <2> HIDE DEF s, r
  <2> QED BY <2>1, <2>2 DEF Rounds
<1> HIDE DEF s, r
<1>3. Nearest(s, h, r)
  BY <1>1, <1>2, Round1, Round2, Round4, Round8, Round16, Round32, Round64,
     Round128, Round256, Round512, Round1024 DEF Steps
<1>4. m * s \in {16 * s, 64 * s}
  OBVIOUS
<1>5. /\ Within(r) /\ r % s = 0
      /\ \A b \in {16 * s, 64 * s} : Size(h) <= b => Size(r) <= b
      /\ h % s = 0 <=> r = h
      /\ \A k \in {h - 1, h, h + 1} : k % s = 0 => r \in {h - 1, h, h + 1}
  BY <1>3 DEF Nearest
<1>6. Size(r) <= m * s
  BY <1>1, <1>4, <1>5
<1> QED BY <1>5, <1>6, BoundedIs DEF s, r

LEMMA Divides ==
  ASSUME NEW s \in Steps, NEW t \in Steps, t <= s, NEW h \in Int, h % s = 0
  PROVE  h % t = 0
<1>1. ASSUME s = 1 PROVE h % t = 0
  BY <1>1 DEF Steps
<1>2. ASSUME s = 2 PROVE h % t = 0
  BY <1>2 DEF Steps
<1>3. ASSUME s = 4 PROVE h % t = 0
  BY <1>3 DEF Steps
<1>4. ASSUME s = 8 PROVE h % t = 0
  BY <1>4 DEF Steps
<1>5. ASSUME s = 16 PROVE h % t = 0
  BY <1>5 DEF Steps
<1>6. ASSUME s = 32 PROVE h % t = 0
  BY <1>6 DEF Steps
<1>7. ASSUME s = 64 PROVE h % t = 0
  BY <1>7 DEF Steps
<1>8. ASSUME s = 128 PROVE h % t = 0
  BY <1>8 DEF Steps
<1>9. ASSUME s = 256 PROVE h % t = 0
  BY <1>9 DEF Steps
<1>10. ASSUME s = 512 PROVE h % t = 0
  BY <1>10 DEF Steps
<1>11. ASSUME s = 1024 PROVE h % t = 0
  BY <1>11 DEF Steps
<1> QED BY <1>1, <1>2, <1>3, <1>4, <1>5, <1>6, <1>7, <1>8, <1>9, <1>10, <1>11 DEF Steps

\* What was rounded stays.
LEMMA RoundIdempotent ==
  ASSUME NEW m \in {16, 64}, NEW h \in Bounded
  PROVE  RoundTo(m, h) \in Bounded /\ RoundTo(m, RoundTo(m, h)) = RoundTo(m, h)
<1> DEFINE s == Step(m, h)
           r == RoundTo(m, h)
           t == Step(m, r)
<1>1. r \in Bounded /\ Size(r) <= m * s /\ r % s = 0 /\ s \in Steps
  BY RoundShape, StepShape
<1>2. t \in Steps /\ t <= s
  BY <1>1, StepShape
<1>3. r \in Int
  BY <1>1, BoundedIs DEF Within
<1>4. r % t = 0
  BY <1>1, <1>2, <1>3, Divides
<1> QED BY <1>1, <1>4, RoundShape

\* If a neighbour is a float, the number does not move further than to it.
LEMMA RoundNear ==
  ASSUME NEW m \in {16, 64}, NEW h \in Bounded, NEW k \in {h - 1, h, h + 1}, RoundTo(m, k) = k
  PROVE  RoundTo(m, h) \in {h - 1, h, h + 1}
<1> DEFINE s == Step(m, h)
           r == RoundTo(m, h)
           t == Step(m, k)
<1>1. /\ s \in Steps /\ Size(h) <= m * s /\ Within(h) /\ h \in Int
      /\ \A u \in Steps : Size(h) <= m * u => s <= u
      /\ h % s = 0 <=> r = h
      /\ k % s = 0 => r \in {h - 1, h, h + 1}
  BY RoundShape, StepShape
<1>2. ASSUME k \notin Bounded PROVE r = h
  <2>1. h = 16384 \/ h = -16384
    BY <1>1, <1>2, BoundedIs DEF Within
  <2>2. h % 1024 = 0 /\ 1024 \in Steps
    BY <2>1 DEF Steps
  <2>3. s <= 1024
    BY <1>1 DEF Steps
  <2>4. h % s = 0
    BY <1>1, <2>2, <2>3, Divides
  <2> QED BY <1>1, <2>4
<1>3. ASSUME k \in Bounded PROVE k % s = 0
  <2>1. t \in Steps /\ Size(k) <= m * t /\ k % t = 0 /\ k \in Int
    BY <1>3, RoundShape, StepShape
  <2>2. ASSUME s <= t PROVE k % s = 0
    BY <1>1, <2>1, <2>2, Divides
  <2>3. ASSUME t < s PROVE k % s = 0
    <3>1. ~(Size(h) <= m * t)
      <4>1. ~(s <= t)
        BY <1>1, <2>1, <2>3 DEF Steps
      <4> QED BY <1>1, <2>1, <4>1
    <3> HIDE DEF s, t, r
    <3>2. Size(k) = m * t /\ Size(h) = m * t + 1
      BY <1>1, <2>1, <3>1 DEF Size, Steps
    <3>3. 2 * t \in Steps
      BY <1>1, <2>1, <2>3 DEF Steps
    <3>4. s = 2 * t
      <4>1. Size(h) <= m * (2 * t)
        BY <2>1, <3>2 DEF Steps
      <4>2. s <= 2 * t
        BY <1>1, <3>3, <4>1
      <4> QED BY <1>1, <2>1, <2>3, <4>2 DEF Steps
    <3>5. k = m * t \/ k = -(m * t)
      BY <1>1, <2>1, <3>2 DEF Size, Steps
    <3> QED BY <1>1, <2>1, <3>4, <3>5 DEF Steps
  <2> QED BY <1>1, <2>1, <2>2, <2>3 DEF Steps
<1> QED BY <1>1, <1>2, <1>3

-----------------------------------------------------------------------------
(* What a value becomes *)

NumberNames == {"INT2", "INT4", "INT8", "FLOAT4", "FLOAT8"}
CoercedNames == NumberNames \union {"TIMESTAMP", "TIMESTAMPTZ", "NUMERIC", "INTERVAL"}

LEMMA NamesOfTypes ==
  /\ DOMAIN NumberKinds = NumberNames
  /\ AsTheyAre = {"BOOL", "CHAR", "BYTEA", "DATE", "TIME", "UUID", "JSON", "JSONB", "MONEY", "INET", "MACADDR"}
  /\ DOMAIN NumberKinds \union {"TIMESTAMP", "TIMESTAMPTZ", "NUMERIC", "INTERVAL"} = CoercedNames
  /\ NoType.name = "unsupported"
BY DEF NumberKinds, NumberNames, CoercedNames, AsTheyAre, OwnKind, NoType, PgType

LEMMA DeserializedAs ==
  ASSUME NEW hint, NEW inferred, NEW v, NEW type, type = ParameterType(hint, inferred)
  PROVE  /\ type.name \in AsTheyAre => Deserialized(hint, inferred, v) = LiteralOf(OwnKind[type.name], v)
         /\ type.name = "TEXT" =>
              Deserialized(hint, inferred, v) =
                LiteralOf(IF inferred = Plain("LargeUtf8") THEN "LargeUtf8" ELSE "Utf8", v)
         /\ type.name \in CoercedNames =>
              Deserialized(hint, inferred, v) =
                IF inferred = Untyped THEN Uncoerced(type.name, v) ELSE Coerced(type.name, v, inferred.kind)
         /\ type.name = "ARRAY" =>
              IF NumericArray(type) THEN Deserialized(hint, inferred, v) = NumericList(v, inferred)
              ELSE Deserialized(hint, inferred, v) \in
                     {ArrayLiteral(Plain(ItemKind[type.of[1].name]), v), Guessed(v)}
         /\ type.name \notin AsTheyAre \union {"TEXT", "ARRAY"} \union CoercedNames =>
              Deserialized(hint, inferred, v) \in {Refused, Guessed(v)}
<1>1. /\ type.name \in AsTheyAre => type.name \notin CoercedNames \union {"TEXT", "ARRAY"} /\ type # NoType
      /\ type.name \in CoercedNames => type.name \notin {"TEXT", "ARRAY"} /\ type # NoType
      /\ type.name = "TEXT" => type # NoType
      /\ type.name = "ARRAY" => type # NoType
      /\ "NUMERIC" \notin DOMAIN ItemKind
      /\ NumericArray(type) => type.name = "ARRAY"
  BY NamesOfTypes DEF CoercedNames, NumberNames, ItemKind, NumericArray
<1> DEFINE result == Deserialized(hint, inferred, v)
<1>2. result =
        CASE type.name \in AsTheyAre -> LiteralOf(OwnKind[type.name], v)
          [] type.name = "TEXT" ->
               LiteralOf(IF inferred = Plain("LargeUtf8") THEN "LargeUtf8" ELSE "Utf8", v)
          [] type.name \in CoercedNames ->
               IF inferred = Untyped THEN Uncoerced(type.name, v) ELSE Coerced(type.name, v, inferred.kind)
          [] type.name = "ARRAY" /\ type.of[1].name \in DOMAIN ItemKind ->
               ArrayLiteral(Plain(ItemKind[type.of[1].name]), v)
          [] NumericArray(type) -> NumericList(v, inferred)
          [] type = NoType -> Refused
          [] OTHER -> Guessed(v)
  BY NamesOfTypes DEF Deserialized
<1> HIDE DEF result
<1>3. type.name \in AsTheyAre => result = LiteralOf(OwnKind[type.name], v)
  BY <1>1, <1>2
<1>4. type.name = "TEXT" =>
        result = LiteralOf(IF inferred = Plain("LargeUtf8") THEN "LargeUtf8" ELSE "Utf8", v)
  BY <1>1, <1>2
<1>5. type.name \in CoercedNames =>
        result = IF inferred = Untyped THEN Uncoerced(type.name, v) ELSE Coerced(type.name, v, inferred.kind)
  BY <1>1, <1>2
<1>6. type.name = "ARRAY" =>
        IF NumericArray(type) THEN result = NumericList(v, inferred)
        ELSE result \in {ArrayLiteral(Plain(ItemKind[type.of[1].name]), v), Guessed(v)}
  <2>1. type.name = "ARRAY" /\ NumericArray(type) => type.of[1].name \notin DOMAIN ItemKind
    BY <1>1 DEF NumericArray
  <2>2. type.name = "ARRAY" /\ ~NumericArray(type) /\ type.of[1].name \notin DOMAIN ItemKind
          => result = Guessed(v)
    BY <1>1, <1>2
  <2>3. type.name = "ARRAY" /\ ~NumericArray(type) /\ type.of[1].name \in DOMAIN ItemKind
          => result = ArrayLiteral(Plain(ItemKind[type.of[1].name]), v)
    BY <1>1, <1>2
  <2>4. type.name = "ARRAY" /\ NumericArray(type) => result = NumericList(v, inferred)
    BY <1>1, <1>2, <2>1
  <2> QED BY <2>2, <2>3, <2>4
<1>7. type.name \notin AsTheyAre \union {"TEXT", "ARRAY"} \union CoercedNames => result \in {Refused, Guessed(v)}
  BY <1>1, <1>2
<1> QED BY <1>3, <1>4, <1>5, <1>6, <1>7 DEF result

LEMMA WellFormedValues ==
  ASSUME NEW type, NEW v, WellFormed(type, v), v # NullValue
  PROVE  /\ v.is # "null"
         /\ v.is = "number" \/ type.name \in NumberNames \union {"NUMERIC"} =>
              \E h \in Bounded :
                 /\ v = Number(h)
                 /\ type.name = "NUMERIC" \/ (type.name \in NumberNames /\ Representable(type.name, h))
         /\ type.name \in {"TIMESTAMP", "TIMESTAMPTZ"} => \E u \in Int : v = Value("instant", <<u>>)
         /\ type.name = "INTERVAL" => v.is = "span"
         /\ type.name = "ARRAY" => v.is = "array" /\ v.n \in Seq(Bounded \union {NullItem})
<1> DEFINE A == \E h \in Bounded :
                  /\ v = Number(h)
                  /\ type.name = "NUMERIC" \/ (type.name \in NumberNames /\ Representable(type.name, h))
           B == type.name \in {"TIMESTAMP", "TIMESTAMPTZ"} /\ \E u \in IntRange.Int64 : v = Value("instant", <<u>>)
           C == type.name = "INTERVAL" /\ v \in [is : {"span"}, n : Int \X Int \X Int]
           D == type.name = "ARRAY" /\ v \in [is : {"array"}, n : Seq(Bounded \union {NullItem})]
           E == /\ type.name \notin NumberNames \union {"NUMERIC", "TIMESTAMP", "TIMESTAMPTZ", "INTERVAL", "ARRAY"}
                /\ v \in [is : {"text", "braces", "bool", "bytes", "date", "time"}, n : Seq(Int)]
<1>1. A \/ B \/ C \/ D \/ E
  BY NamesOfTypes DEF WellFormed, Bounded
<1>2. A => v.is = "number" /\ type.name \in NumberNames \union {"NUMERIC"}
  BY DEF Number, Value
<1>3. B => v.is = "instant" /\ \E u \in Int : v = Value("instant", <<u>>)
  <2>1. IntRange.Int64 \subseteq Int
    BY DEF IntRange
  <2> QED BY <2>1 DEF Value
<1>4. C => v.is = "span"
  OBVIOUS
<1>5. D => v.is = "array" /\ v.n \in Seq(Bounded \union {NullItem})
  OBVIOUS
<1>6. E => v.is \in {"text", "braces", "bool", "bytes", "date", "time"}
  OBVIOUS
<1>7. /\ B => type.name \in {"TIMESTAMP", "TIMESTAMPTZ"}
      /\ C => type.name = "INTERVAL"
      /\ D => type.name = "ARRAY"
      /\ E => type.name \notin NumberNames \union {"NUMERIC", "TIMESTAMP", "TIMESTAMPTZ", "INTERVAL", "ARRAY"}
  OBVIOUS
<1> HIDE DEF A, B, C, D, E
<1>8. /\ v.is # "null"
      /\ v.is = "number" \/ type.name \in NumberNames \union {"NUMERIC"} => A
      /\ type.name \in {"TIMESTAMP", "TIMESTAMPTZ"} => B
      /\ type.name = "INTERVAL" => v.is = "span"
      /\ type.name = "ARRAY" => v.is = "array" /\ v.n \in Seq(Bounded \union {NullItem})
  BY <1>1, <1>2, <1>3, <1>4, <1>5, <1>6, <1>7 DEF NumberNames
<1> QED BY <1>3, <1>8 DEF A

LEMMA MantissaOfFloats ==
  ASSUME NEW kind \in Floats
  PROVE  Mantissa[kind] \in {16, 64} /\ kind \in {"Float32", "Float64"}
BY DEF Floats, Mantissa

LEMMA FloatArrives ==
  ASSUME NEW kind \in Floats, NEW h \in Bounded
  PROVE  LET l == Float(kind, Number(h))
             m == Mantissa[kind]
         IN /\ l.type = Plain(kind) /\ l.value = Number(RoundTo(m, h)) /\ l.value.n[1] = RoundTo(m, h)
            /\ RoundTo(m, RoundTo(m, h)) = RoundTo(m, h)
            /\ \A k \in {h - 1, h, h + 1} : RoundTo(m, k) = k => RoundTo(m, h) \in {h - 1, h, h + 1}
<1>1. Number(h) # NullValue /\ Number(h).n[1] = h
  BY DEF Number, Value, NullValue
<1>2. Float(kind, Number(h)) = LiteralOf(kind, Number(RoundTo(Mantissa[kind], h)))
  BY <1>1 DEF Float
<1>3. \A r : LiteralOf(kind, Number(r)).type = Plain(kind) /\ LiteralOf(kind, Number(r)).value = Number(r)
             /\ Number(r).n[1] = r
  BY DEF LiteralOf, Literal, Number, Value
<1>4. Mantissa[kind] \in {16, 64}
  BY MantissaOfFloats
<1>5. RoundTo(Mantissa[kind], RoundTo(Mantissa[kind], h)) = RoundTo(Mantissa[kind], h)
  BY <1>4, RoundIdempotent
<1>6. \A k \in {h - 1, h, h + 1} : RoundTo(Mantissa[kind], k) = k => RoundTo(Mantissa[kind], h) \in {h - 1, h, h + 1}
  BY <1>4, RoundNear
<1> QED BY <1>2, <1>3, <1>5, <1>6

\* The widths are no floats, and times neither.
LEMMA KindsApart ==
  /\ "untyped" \notin Ints \union Floats
  /\ Ints \intersect Floats = {}
  /\ \A u \in Units : {Timestamp[u], TimestampTz[u]} \intersect (Ints \union Floats) = {}
  /\ \A i \in Ints : IntRange[i] \subseteq Int
BY DEF Ints, Floats, IntRange, Mantissa, Units, Timestamp, TimestampTz

LEMMA WholeNumbers ==
  ASSUME NEW name \in NumberNames, NEW h \in Bounded, Representable(name, h)
  PROVE  /\ name \in {"INT2", "INT4", "INT8"} => h % 64 = 0
         /\ name \in {"FLOAT4", "FLOAT8"} => RoundTo(64, h) = h \/ RoundTo(16, h) = h
<1>1. /\ NumberKinds["INT2"] = "Int16" /\ NumberKinds["INT4"] = "Int32" /\ NumberKinds["INT8"] = "Int64"
      /\ NumberKinds["FLOAT4"] = "Float32" /\ NumberKinds["FLOAT8"] = "Float64"
  BY DEF NumberKinds
<1>2. {"Int16", "Int32", "Int64"} \intersect Floats = {} /\ {"Float32", "Float64"} \subseteq Floats
      /\ Mantissa["Float32"] = 16 /\ Mantissa["Float64"] = 64
  BY DEF Floats, Mantissa
<1> QED BY <1>1, <1>2 DEF Representable, IsWhole, One

\* An integer that arrives as an integer is the one that was sent.
LEMMA CheckedIntArrives ==
  ASSUME NEW kind, NEW n \in Int, CheckedInt(n, kind) # Refused
  PROVE  CheckedInt(n, kind) = LiteralOf(kind, Number(64 * n)) /\ n \in IntRange[kind]
BY DEF CheckedInt, One

\* Small integers are doubles; the greatest i64 is none, and rounds up.
LEMMA IntegersAsFloats ==
  /\ \A n \in -64 .. 64 : RoundTo(64, 64 * n) = 64 * n
  /\ RoundTo(64, 64 * 127) = 8192 /\ RoundTo(64, 64 * (-128)) = -8192
<1>1. ASSUME NEW n \in -64 .. 64 PROVE RoundTo(64, 64 * n) = 64 * n
  <2> DEFINE h == 64 * n
  <2>1. 64 \in Steps /\ Size(h) <= 64 * 64 /\ h % 64 = 0 /\ h \in Int
    BY DEF Steps, Size
  <2>2. h \in Bounded
    BY BoundedIs DEF Within
  <2> HIDE DEF h
  <2>3. Step(64, h) \in Steps /\ Step(64, h) <= 64
    BY <2>1, <2>2, StepShape
  <2>4. h % Step(64, h) = 0
    BY <2>1, <2>3, Divides
  <2>5. RoundTo(64, h) = h
    BY <2>2, <2>4, RoundShape
  <2> QED BY <2>5 DEF h
<1>2. ASSUME NEW h \in {8128, -8192} PROVE Step(64, h) = 128
  <2>1. h \in Bounded /\ 128 \in Steps /\ Size(h) <= 64 * 128 /\ Size(h) > 64 * 64
    BY BoundedIs DEF Within, Steps, Size
  <2>2. Step(64, h) \in Steps /\ Step(64, h) <= 128 /\ Size(h) <= 64 * Step(64, h) /\ Size(h) \in Int
    BY <2>1, StepShape
  <2> QED BY <2>1, <2>2 DEF Steps
<1>3. RoundTo(64, 8128) = 8192
  <2>1. Step(64, 8128) = 128
    BY <1>2
  <2>2. RoundTo(64, 8128) =
          LET low == 8128 - (8128 % 128)
          IN IF 2 * (8128 % 128) < 128 \/ (2 * (8128 % 128) = 128 /\ (low \div 128) % 2 = 0)
             THEN low ELSE low + 128
    BY <2>1, RoundIs
  <2> QED BY <2>2
<1>4. RoundTo(64, -8192) = -8192
  <2>1. Step(64, -8192) = 128 /\ -8192 \in Bounded /\ (-8192) % 128 = 0
    BY <1>2, BoundedIs DEF Within
  <2> QED BY <2>1, RoundShape
<1>5. 64 * 127 = 8128 /\ 64 * (-128) = -8192
  OBVIOUS
<1> QED BY <1>1, <1>3, <1>4, <1>5

\* A great float is an even integer.
LEMMA GreatFloats ==
  ASSUME NEW m \in {16, 64}, NEW h \in Bounded, RoundTo(m, h) = h, Size(h) > 4096
  PROVE  h % 128 = 0
<1>1. /\ Step(m, h) \in Steps /\ Size(h) <= m * Step(m, h) /\ h % Step(m, h) = 0 /\ h \in Int
      /\ Size(h) \in Int
  BY StepShape, RoundShape
<1>2. 128 <= Step(m, h) /\ 128 \in Steps
  BY <1>1 DEF Steps
<1> QED BY <1>1, <1>2, Divides

LEMMA CheckedFloatArrives ==
  ASSUME NEW kind, NEW h \in Bounded, RoundTo(64, h) = h \/ RoundTo(16, h) = h,
         NEW name \in {"FLOAT4", "FLOAT8"}, CheckedFloat(Number(h), kind) # Refused
  PROVE  \E n \in Int : CheckedFloat(Number(h), kind) = LiteralOf(kind, Number(n)) /\ ArrivesAsInt(name, h, n)
<1> DEFINE n == Saturated(Truncated(h))
<1>1. h \in Int /\ Number(h).n[1] = h
  BY BoundedIs DEF Within, Number, Value
<1>2. Mantissa["Float64"] = 64 /\ Mantissa.Float64 = 64
  BY DEF Mantissa
<1>3. CheckedFloat(Number(h), kind) =
        IF Size(RoundTo(64, 64 * n) - h) > 2 THEN Refused ELSE CheckedInt(n, kind)
  BY <1>1, <1>2 DEF CheckedFloat, One, Epsilon
<1>4. n \in -128 .. 127
  BY <1>1 DEF Saturated, Truncated, One
<1>5. ~(Size(RoundTo(64, 64 * n) - h) > 2) /\ CheckedInt(n, kind) = LiteralOf(kind, Number(64 * n))
  <2> HIDE DEF n
  <2>1. ~(Size(RoundTo(64, 64 * n) - h) > 2)
    BY <1>3
  <2> QED BY <1>3, <1>4, <2>1, CheckedIntArrives
<1>6. ASSUME n \in -64 .. 64 PROVE Size(64 * n - h) <= 2
  <2> HIDE DEF n
  <2>1. RoundTo(64, 64 * n) = 64 * n
    BY <1>6, IntegersAsFloats
  <2>2. ~(Size(64 * n - h) > 2)
    BY <1>5, <2>1
  <2> QED BY <1>1, <1>4, <2>2 DEF Size
<1>7. ASSUME n \notin -64 .. 64 PROVE Size(64 * n - h) <= 2 \/ (h = 8192 /\ n = 127)
  <2>1. Size(h) > 4096
    BY <1>1, <1>4, <1>7 DEF Saturated, Truncated, One, Size
  <2>2. h % 128 = 0
    <3> HIDE DEF n
    <3> QED BY <2>1, GreatFloats
  <2>3. CASE Truncated(h) \in -128 .. 127
    BY <1>1, <2>2, <2>3 DEF Saturated, Truncated, One, Size
  <2>4. CASE Truncated(h) > 127
    <3>1. n = 127 /\ h >= 8192
      BY <1>1, <2>4 DEF Saturated, Truncated, One
    <3> HIDE DEF n
    <3>2. ~(Size(8192 - h) > 2)
      BY <1>5, <3>1, IntegersAsFloats
    <3> QED BY <1>1, <2>2, <3>1, <3>2 DEF Size
  <2>5. CASE Truncated(h) < -128
    <3>1. n = -128 /\ h < -8192
      BY <1>1, <2>5 DEF Saturated, Truncated, One
    <3> HIDE DEF n
    <3>2. ~(Size(-8192 - h) > 2)
      BY <1>5, <3>1, IntegersAsFloats
    <3> QED BY <1>1, <2>2, <3>1, <3>2 DEF Size
  <2>6. Truncated(h) \in Int
    BY <1>1 DEF Truncated, One
  <2> QED BY <2>3, <2>4, <2>5, <2>6
<1>8. CheckedFloat(Number(h), kind) = LiteralOf(kind, Number(64 * n))
  BY <1>3, <1>5
<1> HIDE DEF n
<1>9. 64 * n \in Int /\ IsWhole(64 * n)
  BY <1>4 DEF IsWhole, One
<1>10. ArrivesAsInt(name, h, 64 * n)
  BY <1>6, <1>7, <1>9 DEF ArrivesAsInt, One, Epsilon
<1> QED BY <1>8, <1>9, <1>10

LEMMA PartsOfLiterals ==
  /\ \A kind, x : LiteralOf(kind, x).value = x /\ LiteralOf(kind, x).type = Plain(kind)
  /\ \A kind : Overflowed(kind).value # NullValue
  /\ \A h : Number(h) # NullValue /\ Number(h).n[1] = h /\ Number(h).is = "number"
  /\ \A is, n : is # "null" => Value(is, n) # NullValue /\ Value(is, n).n = n /\ Value(is, n).is = is
  /\ Refused.value = NullValue /\ Dropped.value = NullValue /\ NullValue.is = "null"
BY DEF LiteralOf, Literal, Overflowed, Number, Value, NullValue, Refused, Dropped

\* NULL stays NULL.
LEMMA NullCoerced ==
  ASSUME NEW name \in CoercedNames, NEW kind
  PROVE  Coerced(name, NullValue, kind).value = NullValue
<1>1. CoerceInt(NullValue, kind).value = NullValue
  BY PartsOfLiterals DEF CoerceInt, Float
<1>2. CoerceFloat(NullValue, kind).value = NullValue
  BY PartsOfLiterals DEF CoerceFloat, Float
<1>3. CoerceNumeric(NullValue, kind).value = NullValue
  <2>1. Rescaled(NullValue) = NullValue /\ \A k : CutToInt(NullValue, k) = NullValue
    BY DEF Rescaled, CutToInt
  <2>2. "Decimal128" \notin {"UInt64", "UInt32", "Int64", "Int32"} \union Floats
        /\ {"UInt64", "UInt32", "Int64", "Int32"} \intersect Floats = {}
    BY DEF Floats, Mantissa
  <2> QED BY <2>1, <2>2, PartsOfLiterals DEF CoerceNumeric, Float
<1>4. CoerceTimestamp(NullValue, kind).value = NullValue
  BY PartsOfLiterals DEF CoerceTimestamp, InUnit
<1>5. CoerceTimestampTz(NullValue, kind).value = NullValue
  BY PartsOfLiterals DEF CoerceTimestampTz, InUnit
<1>6. MonthDayNano(NullValue).value = NullValue
  BY PartsOfLiterals DEF MonthDayNano
<1>7. CoerceInterval(NullValue, kind).value = NullValue
  BY <1>6, PartsOfLiterals DEF CoerceInterval
<1>8. /\ name \in {"INT2", "INT4", "INT8"} => Coerced(name, NullValue, kind) = CoerceInt(NullValue, kind)
      /\ name \in {"FLOAT4", "FLOAT8"} => Coerced(name, NullValue, kind) = CoerceFloat(NullValue, kind)
      /\ name = "NUMERIC" => Coerced(name, NullValue, kind) = CoerceNumeric(NullValue, kind)
      /\ name = "TIMESTAMP" => Coerced(name, NullValue, kind) = CoerceTimestamp(NullValue, kind)
      /\ name = "TIMESTAMPTZ" => Coerced(name, NullValue, kind) = CoerceTimestampTz(NullValue, kind)
      /\ name = "INTERVAL" => Coerced(name, NullValue, kind) = CoerceInterval(NullValue, kind)
  BY DEF Coerced
<1> QED BY <1>1, <1>2, <1>3, <1>4, <1>5, <1>7, <1>8 DEF CoercedNames, NumberNames

LEMMA NullArrives ==
  ASSUME NEW type, NEW inferred, NEW l, l.value = NullValue
  PROVE  Arrives(NullValue, type, inferred, l)
BY PartsOfLiterals DEF Arrives

\* A value that is no number has to arrive as one that is not NULL.
LEMMA OtherArrives ==
  ASSUME NEW v, NEW type, NEW inferred, NEW l,
         v # NullValue, v.is # "number", l.value # NullValue, ~NumericArray(type),
         inferred = Untyped /\ type.name # "INTERVAL" => l.value = v
  PROVE  Arrives(v, type, inferred, l)
BY DEF Arrives

LEMMA InUnitArrives ==
  ASSUME NEW u \in Int, NEW unit \in Units
  PROVE  \/ InUnit(Value("instant", <<u>>), unit) # NullValue
         \/ unit = "Nanosecond" /\ u * Thousand \notin IntRange.Int64
<1>1. /\ Value("instant", <<u>>) # NullValue /\ \A n : Value("instant", n) # NullValue
      /\ Value("instant", <<u>>).n[1] = u
  BY PartsOfLiterals
<1>2. unit \in {"Second", "Millisecond", "Microsecond", "Nanosecond"}
  BY DEF Units, Timestamp
<1> QED BY <1>1, <1>2 DEF InUnit

LEMMA TimesArrive ==
  ASSUME NEW v, NEW u \in Int, v = Value("instant", <<u>>), NEW inferred, inferred # Untyped,
         NEW type, type.name \in {"TIMESTAMP", "TIMESTAMPTZ"},
         NEW l, l = Coerced(type.name, v, inferred.kind), l # Refused
  PROVE  Arrives(v, type, inferred, l)
<1> DEFINE units == {w \in Units : inferred.kind \in {Timestamp[w], TimestampTz[w]}}
           unit == CHOOSE w \in units : TRUE
<1>1. l = IF type.name = "TIMESTAMP" THEN CoerceTimestamp(v, inferred.kind) ELSE CoerceTimestampTz(v, inferred.kind)
  BY DEF Coerced
<1>2. units # {} /\ l.value = InUnit(v, unit)
  BY <1>1, PartsOfLiterals DEF CoerceTimestamp, CoerceTimestampTz
<1>3. unit \in Units /\ inferred.kind \in {Timestamp[unit], TimestampTz[unit]}
  BY <1>2
<1>4. l.value # NullValue \/ (unit = "Nanosecond" /\ u * Thousand \notin IntRange.Int64)
  <2> HIDE DEF units, unit
  <2> QED BY <1>2, <1>3, InUnitArrives
<1>5. l.value = NullValue => /\ inferred.kind \in {Timestamp.Nanosecond, TimestampTz.Nanosecond}
                             /\ u * Thousand \notin IntRange.Int64
  <2>1. Timestamp.Nanosecond = Timestamp["Nanosecond"] /\ TimestampTz.Nanosecond = TimestampTz["Nanosecond"]
    OBVIOUS
  <2> QED BY <1>3, <1>4, <2>1
<1>6. v # NullValue /\ v.is # "number" /\ v.n[1] = u /\ ~NumericArray(type)
  BY PartsOfLiterals DEF NumericArray
<1> QED BY <1>5, <1>6 DEF Arrives

LEMMA SpansArrive ==
  ASSUME NEW v, v.is = "span", NEW inferred, NEW type, type.name = "INTERVAL",
         NEW l, l = IF inferred = Untyped THEN MonthDayNano(v) ELSE CoerceInterval(v, inferred.kind), l # Refused
  PROVE  Arrives(v, type, inferred, l)
<1>1. v # NullValue /\ \A n : Value("span", n) # NullValue
  BY PartsOfLiterals
<1>2. MonthDayNano(v).value # NullValue
  BY <1>1, PartsOfLiterals DEF MonthDayNano
<1>3. l.value # NullValue
  <2>1. CASE inferred = Untyped
    BY <1>2, <2>1
  <2>2. CASE inferred # Untyped /\ inferred.kind = "IntervalYearMonth"
    BY <1>1, <2>2, PartsOfLiterals DEF CoerceInterval
  <2>3. CASE inferred # Untyped /\ inferred.kind = "IntervalDayTime"
    BY <1>1, <2>3, PartsOfLiterals DEF CoerceInterval
  <2>4. CASE inferred # Untyped /\ inferred.kind \in {"IntervalMonthDayNano", "Duration"}
    BY <1>2, <2>4 DEF CoerceInterval
  <2>5. CASE inferred # Untyped /\ inferred.kind \notin Intervals \union {"Duration"}
    BY <2>5 DEF CoerceInterval, Intervals
  <2> QED BY <2>1, <2>2, <2>3, <2>4, <2>5 DEF Intervals
<1>4. ~NumericArray(type)
  BY DEF NumericArray
<1> QED BY <1>1, <1>3, <1>4, OtherArrives

\* What there is to show of a number that is not lost.
NumberArrives(h, name, inferred, l) ==
  /\ l.value # NullValue
  /\ inferred.kind \in Ints => l.type = inferred /\ ArrivesAsInt(name, h, l.value.n[1])
  /\ inferred.kind \in Floats => l = Float(inferred.kind, Number(h))

LEMMA NumberIsEnough ==
  ASSUME NEW h \in Bounded, NEW type, type.name \in NumberNames \union {"NUMERIC"}, NEW inferred, NEW l,
         inferred # Untyped, inferred.kind \in Ints \union Floats => inferred = Plain(inferred.kind),
         NumberArrives(h, type.name, inferred, l),
         type.name = "NUMERIC" /\ inferred.kind = "Decimal128" =>
           IsWhole(l.value.n[1]) /\ 2 * Size(l.value.n[1] - h) <= One
  PROVE  Arrives(Number(h), type, inferred, l)
<1>1. Number(h) # NullValue /\ Number(h).n[1] = h
  BY PartsOfLiterals
<1>2. ~NumericArray(type)
  BY DEF NumericArray, NumberNames
<1>3. ASSUME inferred.kind \in Floats
      PROVE  /\ l.type = inferred
             /\ RoundTo(Mantissa[inferred.kind], l.value.n[1]) = l.value.n[1]
             /\ \A k \in {Number(h).n[1] - 1, Number(h).n[1], Number(h).n[1] + 1} :
                  RoundTo(Mantissa[inferred.kind], k) = k
                    => l.value.n[1] \in {Number(h).n[1] - 1, Number(h).n[1], Number(h).n[1] + 1}
  <2>1. l = Float(inferred.kind, Number(h)) /\ inferred = Plain(inferred.kind)
    BY <1>3 DEF NumberArrives
  <2> DEFINE m == Mantissa[inferred.kind]
  <2>2. /\ l.type = Plain(inferred.kind) /\ l.value.n[1] = RoundTo(m, h)
        /\ RoundTo(m, RoundTo(m, h)) = RoundTo(m, h)
        /\ \A k \in {h - 1, h, h + 1} : RoundTo(m, k) = k => RoundTo(m, h) \in {h - 1, h, h + 1}
    BY <1>3, <2>1, FloatArrives
  <2> HIDE DEF m
  <2> QED BY <1>1, <2>1, <2>2 DEF m
<1>4. l.value # NullValue
      /\ (inferred.kind \in Ints => l.type = inferred /\ ArrivesAsInt(type.name, h, l.value.n[1]))
  BY DEF NumberArrives
<1> QED BY <1>1, <1>2, <1>3, <1>4 DEF Arrives

LEMMA IntegersArrive ==
  ASSUME NEW h \in Bounded, h % 64 = 0, NEW type, type.name \in {"INT2", "INT4", "INT8"},
         NEW inferred, inferred # Untyped,
         inferred.kind \in Ints \union Floats => inferred = Plain(inferred.kind),
         NEW l, l = CoerceInt(Number(h), inferred.kind), l # Refused
  PROVE  Arrives(Number(h), type, inferred, l)
<1>1. Number(h) # NullValue /\ Number(h).n[1] = h /\ h \in Int /\ h \div 64 \in Int /\ 64 * (h \div 64) = h
  <2>1. h \in Int
    BY BoundedIs DEF Within
  <2> QED BY <2>1, PartsOfLiterals
<1>2. ASSUME inferred.kind \in Ints PROVE NumberArrives(h, type.name, inferred, l)
  <2>1. l = CheckedInt(h \div 64, inferred.kind)
    BY <1>1, <1>2 DEF CoerceInt, One
  <2>2. l = LiteralOf(inferred.kind, Number(64 * (h \div 64)))
    BY <1>1, <2>1, CheckedIntArrives
  <2>3. l = LiteralOf(inferred.kind, Number(h))
    BY <1>1, <2>2
  <2>4. l.value = Number(h) /\ l.type = Plain(inferred.kind)
    BY <2>3, PartsOfLiterals
  <2>5. ArrivesAsInt(type.name, h, h)
    BY <1>1 DEF ArrivesAsInt, IsWhole, One
  <2> QED BY <1>1, <1>2, <2>4, <2>5, KindsApart DEF NumberArrives
<1>3. ASSUME inferred.kind \in Floats PROVE NumberArrives(h, type.name, inferred, l)
  <2>1. l = Float(inferred.kind, Number(h))
    BY <1>3, KindsApart DEF CoerceInt
  <2>2. l.value # NullValue
    BY <1>3, <2>1, FloatArrives, PartsOfLiterals
  <2> QED BY <1>3, <2>1, <2>2, KindsApart DEF NumberArrives
<1>4. ASSUME inferred.kind \notin Ints \union Floats PROVE NumberArrives(h, type.name, inferred, l)
  <2> DEFINE units == {u \in Units : inferred.kind \in {Timestamp[u], TimestampTz[u]}}
             unit == CHOOSE u \in units : TRUE
             scaled == (Number(h).n[1] \div One) * PerSecond[unit]
  <2>1. l = IF scaled \notin IntRange.Int64 THEN Overflowed(Timestamp[unit])
            ELSE LiteralOf(Timestamp[unit], Value("instant", <<scaled>>))
    BY <1>1, <1>4 DEF CoerceInt
  <2> HIDE DEF scaled, unit
  <2>2. l.value # NullValue
    BY <2>1, PartsOfLiterals
  <2> QED BY <1>4, <2>2 DEF NumberArrives
<1>5. NumberArrives(h, type.name, inferred, l)
  BY <1>2, <1>3, <1>4
<1> QED BY <1>5, NumberIsEnough DEF NumberNames

LEMMA FloatsArrive ==
  ASSUME NEW h \in Bounded, NEW type, type.name \in {"FLOAT4", "FLOAT8"},
         RoundTo(64, h) = h \/ RoundTo(16, h) = h, NEW inferred, inferred # Untyped,
         inferred.kind \in Ints \union Floats => inferred = Plain(inferred.kind),
         NEW l, l = CoerceFloat(Number(h), inferred.kind), l # Refused
  PROVE  Arrives(Number(h), type, inferred, l)
<1>1. Number(h) # NullValue
  BY PartsOfLiterals
<1>2. ASSUME inferred.kind \in Ints PROVE NumberArrives(h, type.name, inferred, l)
  <2>1. l = CheckedFloat(Number(h), inferred.kind)
    BY <1>1, <1>2 DEF CoerceFloat
  <2>2. PICK n \in Int : l = LiteralOf(inferred.kind, Number(n)) /\ ArrivesAsInt(type.name, h, n)
    BY <2>1, CheckedFloatArrives
  <2>3. l.type = Plain(inferred.kind) /\ l.value.n[1] = n /\ l.value # NullValue
    BY <2>2, PartsOfLiterals
  <2> QED BY <1>2, <2>2, <2>3, KindsApart DEF NumberArrives
<1>3. ASSUME inferred.kind \in Floats PROVE NumberArrives(h, type.name, inferred, l)
  <2>1. l = Float(inferred.kind, Number(h))
    BY <1>3, KindsApart DEF CoerceFloat
  <2>2. l.value # NullValue
    BY <1>3, <2>1, FloatArrives, PartsOfLiterals
  <2> QED BY <1>3, <2>1, <2>2, KindsApart DEF NumberArrives
<1>4. inferred.kind \in Ints \union Floats
  BY DEF CoerceFloat
<1>5. NumberArrives(h, type.name, inferred, l)
  BY <1>2, <1>3, <1>4
<1> QED BY <1>5, NumberIsEnough DEF NumberNames

LEMMA NumericsArrive ==
  ASSUME NEW h \in Bounded, NEW type, type.name = "NUMERIC", NEW inferred, inferred # Untyped,
         inferred.kind \in Ints \union Floats => inferred = Plain(inferred.kind),
         NEW l, l = CoerceNumeric(Number(h), inferred.kind), l # Refused
  PROVE  Arrives(Number(h), type, inferred, l)
<1>1. Number(h) # NullValue /\ Number(h).n[1] = h /\ h \in Int
  BY PartsOfLiterals, BoundedIs DEF Within
<1>2. CASE inferred.kind \in Floats
  <2>1. l = Float(inferred.kind, Number(h))
    <3>1. inferred.kind # "Decimal128" /\ inferred.kind \notin {"UInt64", "UInt32", "Int64", "Int32"}
      BY <1>2, MantissaOfFloats
    <3> QED BY <1>2, <3>1 DEF CoerceNumeric
  <2>2. l.value # NullValue
    BY <1>2, <2>1, FloatArrives, PartsOfLiterals
  <2>3. NumberArrives(h, type.name, inferred, l) /\ inferred.kind # "Decimal128"
    BY <1>2, <2>1, <2>2, KindsApart, MantissaOfFloats DEF NumberArrives
  <2> QED BY <2>3, NumberIsEnough
<1>3. CASE inferred.kind = "Decimal128"
  <2> DEFINE whole == ((2 * Size(h) + One) \div (2 * One)) * One
             r == IF h < 0 THEN -whole ELSE whole
  <2>1. l = LiteralOf("Decimal128", Number(r))
    <3>1. Rescaled(Number(h)) = Number(r)
      BY <1>1 DEF Rescaled
    <3>2. l = LiteralOf("Decimal128", Rescaled(Number(h)))
      BY <1>3, MantissaOfFloats DEF CoerceNumeric
    <3> QED BY <3>1, <3>2
  <2>2. r % 64 = 0 /\ 2 * Size(r - h) <= 64
    BY <1>1 DEF Size, One
  <2> HIDE DEF r
  <2>3. l.value # NullValue /\ l.value.n[1] = r
    BY <2>1, PartsOfLiterals
  <2>4. "Decimal128" \notin Ints \union Floats
    BY DEF Ints, IntRange, Floats, Mantissa
  <2>5. NumberArrives(h, type.name, inferred, l)
    BY <1>3, <2>3, <2>4 DEF NumberArrives
  <2>6. IsWhole(l.value.n[1]) /\ 2 * Size(l.value.n[1] - h) <= One
    BY <2>2, <2>3 DEF IsWhole, One
  <2> QED BY <2>5, <2>6, NumberIsEnough
<1>4. CASE inferred.kind \in {"UInt64", "UInt32", "Int64", "Int32"}
  <2> DEFINE k == inferred.kind
             t == Truncated(h)
  <2>1. l = LiteralOf(k, CutToInt(Number(h), k)) /\ k # "Decimal128"
    BY <1>4, MantissaOfFloats DEF CoerceNumeric
  <2>2. /\ k \in Ints /\ k \notin Floats /\ inferred = Plain(k)
        /\ k \in {"UInt64", "UInt32"} => \A x \in IntRange[k] : x \in Nat
    <3>1. k \in Ints /\ k \notin Floats
      BY <1>4 DEF Ints, IntRange, Floats, Mantissa
    <3>2. IntRange["UInt64"] = 0 .. 255 /\ IntRange["UInt32"] = 0 .. 31
      BY DEF IntRange
    <3>3. k \in {"UInt64", "UInt32"} => \A x \in IntRange[k] : x \in Nat
      BY <3>2
    <3> QED BY <1>4, <3>1, <3>3
  <2>3. t \in Int /\ Size(64 * t) <= Size(h) /\ Size(h - 64 * t) < 64 /\ (64 * t) % 64 = 0
    BY <1>1 DEF Truncated, One, Size
  <2>4. CASE t \notin IntRange[k] \/ (h < 0 /\ k \in {"UInt64", "UInt32"})
    <3>1. l.value = NullValue /\ l.type = Plain(k)
      BY <1>1, <2>1, <2>4, PartsOfLiterals DEF CutToInt
    <3>2. h \div 64 \notin IntRange[k]
      <4>1. CASE h < 0 /\ k \in {"UInt64", "UInt32"}
        <5>1. h \div 64 \notin Nat
          BY <1>1, <4>1
        <5> QED BY <2>2, <4>1, <5>1
      <4>2. CASE t \notin IntRange[k] /\ h >= 0
        <5>1. t = h \div 64
          BY <1>1, <4>2 DEF Truncated, One
        <5> QED BY <4>2, <5>1
      <4>3. CASE t \notin IntRange[k] /\ h < 0 /\ k \in {"Int64", "Int32"}
        <5>1. h \div 64 <= t /\ t <= 0
          BY <1>1, <4>3 DEF Truncated, One
        <5>2. IntRange["Int64"] = -128 .. 127 /\ IntRange["Int32"] = -16 .. 15 /\ h \div 64 \in Int
          BY <1>1 DEF IntRange
        <5> HIDE DEF t, k
        <5> QED BY <2>3, <4>3, <5>1, <5>2
      <4> QED BY <1>1, <1>4, <2>4, <4>1, <4>2, <4>3
    <3>3. ~NumericArray(type) /\ inferred.kind \notin Floats
      BY <2>2 DEF NumericArray
    <3> HIDE DEF t, k
    <3> QED BY <1>1, <2>2, <3>1, <3>2, <3>3, PartsOfLiterals DEF Arrives, One, k
  <2>5. CASE t \in IntRange[k] /\ ~(h < 0 /\ k \in {"UInt64", "UInt32"})
    <3>1. l = LiteralOf(k, Number(64 * t))
      BY <1>1, <2>1, <2>5 DEF CutToInt, One
    <3> HIDE DEF t, k
    <3>2. l.value # NullValue /\ l.value.n[1] = 64 * t /\ l.type = Plain(k)
      BY <3>1, PartsOfLiterals
    <3>3. ArrivesAsInt(type.name, h, 64 * t)
      BY <2>3 DEF ArrivesAsInt, IsWhole, One
    <3>4. NumberArrives(h, type.name, inferred, l) /\ inferred.kind # "Decimal128"
      BY <2>1, <2>2, <3>2, <3>3 DEF NumberArrives, k
    <3> QED BY <3>4, NumberIsEnough
  <2> QED BY <2>4, <2>5
<1> QED BY <1>2, <1>3, <1>4 DEF CoerceNumeric

\* All that is not coerced.
LEMMA UncoercedArrives ==
  ASSUME NEW type, type.name \in CoercedNames \ {"INTERVAL"}, NEW v, NEW l, l = Uncoerced(type.name, v)
  PROVE  Arrives(v, type, Untyped, l)
<1>1. l.value = v
  <2>1. type.name \in NumberNames => type.name \notin {"TIMESTAMP", "TIMESTAMPTZ", "NUMERIC"}
    BY DEF NumberNames
  <2>2. l = LiteralOf(NumberKinds[type.name], v) \/ l = LiteralOf(OwnKind[type.name], v)
    BY <2>1, NamesOfTypes DEF Uncoerced, CoercedNames
  <2> QED BY <2>2, PartsOfLiterals
<1>2. Untyped.kind = "untyped" /\ Untyped.kind # "Decimal128"
  BY DEF Untyped, Plain, Field
<1>3. ~NumericArray(type)
  BY DEF NumericArray, CoercedNames, NumberNames
<1> QED BY <1>1, <1>2, <1>3, KindsApart DEF Arrives

-----------------------------------------------------------------------------
(* Arrays of numbers *)

Places == {1, 2, 4, 8, 16, 32, 64}

LEMMA LastPlaceIs ==
  ASSUME NEW h \in Int
  PROVE  LastPlace(h) \in Places /\ h % LastPlace(h) = 0
<1> DEFINE places == {u \in Places : h % u = 0}
<1>1. 1 \in places /\ places \subseteq Nat
  BY DEF Places
<1>2. \E u \in places : \A w \in places : w <= u
  <2> DEFINE gaps == {64 - u : u \in places}
  <2>1. \A u \in places : 64 - u \in Nat
    BY DEF Places
  <2> HIDE DEF places
  <2>2. gaps \subseteq Nat /\ gaps # {}
    BY <1>1, <2>1
  <2>3. PICK g \in gaps : \A f \in gaps : g <= f
    <3> HIDE DEF gaps
    <3> QED BY <2>2, LeastNumber
  <2>4. PICK u \in places : g = 64 - u
    OBVIOUS
  <2>5. \A w \in places : g <= 64 - w
    BY <2>3
  <2> HIDE DEF gaps
  <2> QED BY <1>1, <2>4, <2>5
<1>3. LastPlace(h) = CHOOSE u \in places : \A w \in places : w <= u
  BY DEF LastPlace, Places
<1>4. LastPlace(h) \in places
  <2> HIDE DEF places
  <2> QED BY <1>2, <1>3
<1> QED BY <1>4

\* The digits of a number with the places of another are no NULL, and with its own
\* the number.
LEMMA Reread ==
  ASSUME NEW h \in Bounded, NEW f \in Places
  PROVE  /\ (h \div LastPlace(h)) * f # NullItem
         /\ f = LastPlace(h) => (h \div LastPlace(h)) * f = h
<1> DEFINE u == LastPlace(h)
<1>1. u \in Places /\ h % u = 0 /\ h \in Int /\ Within(h)
  <2>1. h \in Int /\ Within(h)
    BY BoundedIs DEF Within
  <2> QED BY <2>1, LastPlaceIs
<1> HIDE DEF u
<1>2. Within(h \div u)
  <2>1. ASSUME NEW w \in Places PROVE Within(h \div w)
    <3>1. CASE w = 1
      BY <1>1, <3>1 DEF Within
    <3>2. CASE w = 2
      BY <1>1, <3>2 DEF Within
    <3>3. CASE w = 4
      BY <1>1, <3>3 DEF Within
    <3>4. CASE w = 8
      BY <1>1, <3>4 DEF Within
    <3>5. CASE w = 16
      BY <1>1, <3>5 DEF Within
    <3>6. CASE w = 32
      BY <1>1, <3>6 DEF Within
    <3>7. CASE w = 64
      BY <1>1, <3>7 DEF Within
    <3> QED BY <3>1, <3>2, <3>3, <3>4, <3>5, <3>6, <3>7 DEF Places
  <2> QED BY <1>1, <2>1
<1>3. (h \div u) * f # NullItem
  <2> DEFINE q == h \div u
  <2>1. Within(q)
    BY <1>2
  <2> HIDE DEF q
  <2>2. q * f < 16384000
    BY <2>1 DEF Places, Within
  <2>3. NullItem = 16384000
    BY DEF NullItem, MaxNumber, One
  <2>4. q * f \in Int
    BY <2>1 DEF Places, Within
  <2>5. q * f # NullItem
    BY <2>2, <2>3, <2>4
  <2> QED BY <2>5 DEF q
<1>4. (h \div u) * u = h
  <2>1. CASE u \in {1, 2, 4}
    BY <1>1, <2>1
  <2>2. CASE u \in {8, 16}
    BY <1>1, <2>2
  <2>3. CASE u \in {32, 64}
    BY <1>1, <2>3
  <2> QED BY <1>1, <2>1, <2>2, <2>3 DEF Places
<1> QED BY <1>3, <1>4 DEF u

LEMMA ListsArrive ==
  ASSUME NEW type, NumericArray(type), NEW v, WellFormed(type, v), NEW inferred,
         NEW l, l = NumericList(v, inferred), l # Panicked
  PROVE  Arrives(v, type, inferred, l)
<1>0. type.name = "ARRAY" /\ \A item, x : ArrayLiteral(item, x).value = x
  BY DEF NumericArray, ArrayLiteral, Literal
<1>1. CASE v = NullValue
  <2>1. l.value = NullValue
    BY <1>0, <1>1 DEF NumericList
  <2> QED BY <1>1, <2>1, NullArrives
<1>2. CASE v # NullValue
  <2>1. v.is = "array" /\ v.is # "number" /\ v.n \in Seq(Bounded \union {NullItem})
    BY <1>0, <1>2, WellFormedValues
  <2>2. CASE inferred.kind = "List"
    <3>1. l.value = NumericItems(v, NumericItem(inferred))
      BY <1>0, <1>2, <2>2 DEF NumericList
    <3>2. l.value # NullValue /\ DOMAIN l.value.n = DOMAIN v.n
      BY <3>1, PartsOfLiterals DEF NumericItems
    <3>3. inferred # Untyped
      BY <2>2 DEF Untyped, Plain, Field
    <3> QED BY <1>2, <2>1, <2>2, <3>2, <3>3 DEF Arrives
  <2>3. CASE inferred.kind # "List"
    <3>1. ~Unscaled(v) /\ l.value = Value("array", FirstScale(v))
      <4>1. l = IF Unscaled(v) THEN Panicked
                ELSE ArrayLiteral(Plain("Decimal128"), Value("array", FirstScale(v)))
        BY <1>2, <2>3 DEF NumericList
      <4> QED BY <1>0, <4>1
    <3>2. l.value # NullValue /\ l.value.n = FirstScale(v)
      BY <3>1, PartsOfLiterals
    <3>3. DOMAIN l.value.n = DOMAIN v.n
      BY <3>2 DEF FirstScale
    <3>4. ASSUME NEW i \in DOMAIN v.n
          PROVE  IF v.n[i] # NullItem /\ LastPlace(v.n[i]) = LastPlace(v.n[1]) THEN l.value.n[i] = v.n[i]
                 ELSE (l.value.n[i] = NullItem) = (v.n[i] = NullItem)
      <4>1. /\ v.n[i] \in Bounded \union {NullItem} /\ v.n[1] \in Bounded \union {NullItem}
            /\ v.n # <<>>
        BY <2>1
      <4>2. v.n[1] # NullItem /\ v.n[1] \in Int
        <5>1. v.n[1] # NullItem
          BY <3>1, <4>1 DEF Unscaled
        <5> QED BY <4>1, <5>1, BoundedIs DEF Within
      <4>3. LastPlace(v.n[1]) \in Places
        BY <4>2, LastPlaceIs
      <4>4. l.value.n[i] =
              IF v.n[i] = NullItem THEN NullItem ELSE (v.n[i] \div LastPlace(v.n[i])) * LastPlace(v.n[1])
        BY <3>2 DEF FirstScale
      <4>5. CASE v.n[i] = NullItem
        BY <4>4, <4>5
      <4>6. CASE v.n[i] # NullItem
        <5>1. v.n[i] \in Bounded
          BY <4>1, <4>6
        <5>2. (v.n[i] \div LastPlace(v.n[i])) * LastPlace(v.n[1]) # NullItem
          BY <4>3, <5>1, Reread
        <5>3. LastPlace(v.n[i]) = LastPlace(v.n[1]) => l.value.n[i] = v.n[i]
          BY <4>3, <4>4, <4>6, <5>1, Reread
        <5> QED BY <4>4, <4>6, <5>2, <5>3
      <4> QED BY <4>5, <4>6
    <3> QED BY <1>0, <1>2, <2>1, <3>2, <3>3, <3>4 DEF Arrives
  <2> QED BY <2>2, <2>3
<1> QED BY <1>1, <1>2

-----------------------------------------------------------------------------
(* A value, whatever its type and the one that is inferred *)

\* Only plain types have the kinds of numbers.
LEMMA NumbersArePlain ==
  ASSUME NEW f \in DataTypes, f.kind \in Ints \union Floats
  PROVE  f = Plain(f.kind)
<1>1. f \in FieldsAt[Nesting] /\ f.alias = NoAlias
  BY DEF DataTypes, Fields
<1>2. f \in PlainFields \/ \E S : f \in FieldsOver(S)
  <2>1. Nesting = 0 \/ Nesting \in 1 .. Nesting
    BY NestingAssumption DEF NestingAssumption
  <2> QED BY <1>1, <2>1, FieldsAtLevels
<1>3. ASSUME NEW S, f \in FieldsOver(S) PROVE f.kind \in ListKinds \union {"Dictionary", "Struct"}
  BY <1>3 DEF FieldsOver
<1>4. f.kind \notin ListKinds \union {"Dictionary", "Struct"}
  BY DEF ListKinds, Ints, IntRange, Floats, Mantissa
<1>5. f \in PlainFields
  BY <1>2, <1>3, <1>4
<1>6. f.of = <<>> /\ f = [kind |-> f.kind, alias |-> f.alias, of |-> f.of]
  BY <1>5 DEF PlainFields
<1> QED BY <1>1, <1>6 DEF Plain, Field

LEMMA LiteralArrives ==
  ASSUME NEW hint, NEW inferred \in DataTypes, NEW v, NEW type, type = ParameterType(hint, inferred),
         WellFormed(type, v),
         NEW l, l = Deserialized(hint, inferred, v), l \notin {Refused, Panicked, Dropped}
  PROVE  Arrives(v, type, inferred, l)
<1>1. inferred.kind \in Ints \union Floats => inferred = Plain(inferred.kind)
  BY NumbersArePlain
<1>0. /\ type.name \in AsTheyAre => l = LiteralOf(OwnKind[type.name], v)
      /\ type.name = "TEXT" => l = LiteralOf(IF inferred = Plain("LargeUtf8") THEN "LargeUtf8" ELSE "Utf8", v)
      /\ type.name \in CoercedNames =>
           l = IF inferred = Untyped THEN Uncoerced(type.name, v) ELSE Coerced(type.name, v, inferred.kind)
      /\ type.name = "ARRAY" =>
           IF NumericArray(type) THEN l = NumericList(v, inferred)
           ELSE l \in {ArrayLiteral(Plain(ItemKind[type.of[1].name]), v), Guessed(v)}
      /\ type.name \notin AsTheyAre \union {"TEXT", "ARRAY"} \union CoercedNames => l \in {Refused, Guessed(v)}
  BY DeserializedAs
<1>2. type.name \in NumberNames \union {"NUMERIC"} =>
        v = NullValue \/ \E h \in Bounded : v = Number(h) /\ (type.name \in NumberNames => Representable(type.name, h))
  BY WellFormedValues DEF NumberNames
<1>3. type.name \notin NumberNames \union {"NUMERIC"} => v.is # "number"
  <2>1. v = NullValue => v.is # "number"
    BY PartsOfLiterals
  <2> QED BY <2>1, WellFormedValues
<1>4. ASSUME type.name \notin CoercedNames, ~NumericArray(type), l.value = v PROVE Arrives(v, type, inferred, l)
  <2>1. v.is # "number"
    BY <1>3, <1>4 DEF CoercedNames
  <2> QED BY <1>4, <2>1, NullArrives, OtherArrives
<1>5. CASE type.name \in AsTheyAre
  <2>1. l = LiteralOf(OwnKind[type.name], v) /\ type.name \notin CoercedNames /\ ~NumericArray(type)
    BY <1>5, <1>0, NamesOfTypes DEF CoercedNames, NumberNames, NumericArray
  <2> QED BY <1>4, <2>1, PartsOfLiterals
<1>6. CASE type.name = "TEXT"
  <2>1. l = LiteralOf(IF inferred = Plain("LargeUtf8") THEN "LargeUtf8" ELSE "Utf8", v)
        /\ type.name \notin CoercedNames /\ ~NumericArray(type)
    BY <1>6, <1>0 DEF CoercedNames, NumberNames, NumericArray
  <2> QED BY <1>4, <2>1, PartsOfLiterals
<1>7. ASSUME l = Guessed(v), type.name \notin CoercedNames, ~NumericArray(type)
      PROVE  Arrives(v, type, inferred, l)
  <2>1. l.value = v
    <3>0. v = NullValue => v.is # "braces"
      BY PartsOfLiterals
    <3>1. v # NullValue /\ l = IF v.is = "braces" THEN Literal(Field("List", <<Plain("Utf8")>>), v)
                               ELSE LiteralOf("Utf8", v)
      BY <1>7, <3>0 DEF Guessed
    <3> QED BY <3>1 DEF LiteralOf, Literal
  <2> QED BY <1>4, <1>7, <2>1
<1>8. CASE type.name = "ARRAY"
  <2>1. type.name \notin CoercedNames
    BY <1>8 DEF CoercedNames, NumberNames
  <2>2. CASE NumericArray(type)
    BY <1>8, <1>0, <2>2, ListsArrive
  <2>3. CASE ~NumericArray(type) /\ l = ArrayLiteral(Plain(ItemKind[type.of[1].name]), v)
    <3>1. l.value = v
      BY <2>3 DEF ArrayLiteral, Literal
    <3> QED BY <1>4, <2>1, <2>3, <3>1
  <2> QED BY <1>7, <1>8, <2>1, <2>2, <2>3, <1>0
<1>9. CASE type.name \in CoercedNames /\ inferred = Untyped
  <2>1. l = Uncoerced(type.name, v)
    BY <1>9, <1>0
  <2>2. CASE type.name # "INTERVAL"
    BY <1>9, <2>1, <2>2, UncoercedArrives
  <2>3. CASE type.name = "INTERVAL"
    <3>1. l = MonthDayNano(v)
      <4>1. "INTERVAL" \notin DOMAIN NumberKinds
        BY NamesOfTypes DEF NumberNames
      <4> QED BY <2>1, <2>3, <4>1 DEF Uncoerced
    <3>2. CASE v = NullValue
      <4>1. l.value = NullValue
        BY <3>1, <3>2, PartsOfLiterals DEF MonthDayNano
      <4> QED BY <3>2, <4>1, NullArrives
    <3>3. CASE v # NullValue
      BY <1>9, <2>3, <3>1, <3>3, WellFormedValues, SpansArrive
    <3> QED BY <3>2, <3>3
  <2> QED BY <2>2, <2>3
<1>10. CASE type.name \in CoercedNames /\ inferred # Untyped
  <2>1. l = Coerced(type.name, v, inferred.kind)
    BY <1>10, <1>0
  <2>2. CASE v = NullValue
    <3>1. l.value = NullValue
      BY <1>10, <2>1, <2>2, NullCoerced
    <3> QED BY <2>2, <3>1, NullArrives
  <2>3. CASE v # NullValue /\ type.name \in {"INT2", "INT4", "INT8"}
    <3>1. PICK h \in Bounded : v = Number(h) /\ Representable(type.name, h)
      BY <1>2, <2>3 DEF NumberNames
    <3>2. h % 64 = 0
      BY <2>3, <3>1, WholeNumbers DEF NumberNames
    <3>3. l = CoerceInt(v, inferred.kind)
      BY <2>1, <2>3 DEF Coerced
    <3> QED BY <1>1, <1>10, <2>3, <3>1, <3>2, <3>3, IntegersArrive
  <2>4. CASE v # NullValue /\ type.name \in {"FLOAT4", "FLOAT8"}
    <3>1. PICK h \in Bounded : v = Number(h) /\ Representable(type.name, h)
      BY <1>2, <2>4 DEF NumberNames
    <3>2. l = CoerceFloat(v, inferred.kind)
      BY <2>1, <2>4 DEF Coerced
    <3>3. RoundTo(64, h) = h \/ RoundTo(16, h) = h
      BY <2>4, <3>1, WholeNumbers DEF NumberNames
    <3> QED BY <1>1, <1>10, <2>4, <3>1, <3>2, <3>3, FloatsArrive
  <2>5. CASE v # NullValue /\ type.name = "NUMERIC"
    <3>1. PICK h \in Bounded : v = Number(h)
      BY <1>2, <2>5
    <3>2. l = CoerceNumeric(v, inferred.kind)
      BY <2>1, <2>5 DEF Coerced
    <3> QED BY <1>1, <1>10, <2>5, <3>1, <3>2, NumericsArrive
  <2>6. CASE v # NullValue /\ type.name \in {"TIMESTAMP", "TIMESTAMPTZ"}
    <3>1. PICK u \in Int : v = Value("instant", <<u>>)
      BY <2>6, WellFormedValues
    <3> QED BY <1>10, <2>1, <2>6, <3>1, TimesArrive
  <2>7. CASE v # NullValue /\ type.name = "INTERVAL"
    <3>1. l = CoerceInterval(v, inferred.kind)
      BY <2>1, <2>7 DEF Coerced
    <3> QED BY <1>10, <2>7, <3>1, WellFormedValues, SpansArrive
  <2> QED BY <1>10, <2>2, <2>3, <2>4, <2>5, <2>6, <2>7 DEF CoercedNames, NumberNames
<1>11. CASE type.name \notin AsTheyAre \union {"TEXT", "ARRAY"} \union CoercedNames
  <2>1. l = Guessed(v) /\ ~NumericArray(type)
    BY <1>11, <1>0 DEF NumericArray
  <2> QED BY <1>7, <1>11, <2>1
<1> QED BY <1>5, <1>6, <1>8, <1>9, <1>10, <1>11

-----------------------------------------------------------------------------
(* All values of a portal *)

\* Where nothing is left out a literal stays in its place.
LEMMA KeptInPlace ==
  ASSUME NEW lits, NEW len \in Nat, DOMAIN lits = 1 .. len,
         NEW k \in DOMAIN KeptLiterals(lits), \A j \in 1 .. k : lits[j] # Dropped
  PROVE  k \in 1 .. len /\ KeptLiterals(lits)[k] = lits[k]
<1> DEFINE kept == {i \in DOMAIN lits : lits[i] # Dropped}
           Before(i) == Cardinality({j \in kept : j < i})
<1>1. KeptLiterals(lits) =
        [n \in 1 .. Cardinality(kept) |-> lits[CHOOSE i \in kept : Before(i) = n - 1]]
  BY DEF KeptLiterals
<1>2. IsFiniteSet(kept) /\ Cardinality(kept) \in Nat /\ Cardinality(kept) <= len
  <2>1. IsFiniteSet(1 .. len) /\ Cardinality(1 .. len) = len
    BY FS_Interval
  <2>2. kept \in SUBSET (1 .. len)
    OBVIOUS
  <2> HIDE DEF kept
  <2>3. IsFiniteSet(kept) /\ Cardinality(kept) <= Cardinality(1 .. len)
    BY <2>1, <2>2, FS_Subset
  <2>4. Cardinality(kept) \in Nat
    BY <2>3, FS_CardinalityType
  <2> QED BY <2>1, <2>3, <2>4
<1>3. k \in 1 .. Cardinality(kept)
  BY <1>1
<1>4. k \in 1 .. len /\ 1 .. k \subseteq kept
  <2>1. k \in 1 .. len
    BY <1>2, <1>3
  <2> QED BY <2>1
<1>5. Before(k) = k - 1
  <2>1. {j \in kept : j < k} = {j \in 1 .. k : j < k}
    BY <1>4
  <2>2. k \in Nat /\ k \in 1 .. k
    BY <1>4
  <2>3. Cardinality({j \in 1 .. k : j < k}) = k - 1
    BY <2>2, BeforeNumber
  <2> QED BY <2>1, <2>3
<1>6. ASSUME NEW i \in kept, Before(i) = k - 1 PROVE i = k
  <2>1. i \in 1 .. len
    OBVIOUS
  <2>2. CASE i < k
    <3>1. {j \in kept : j < i} = {j \in 1 .. k : j < i} /\ i \in 1 .. k
      BY <1>4, <2>1, <2>2
    <3>2. {j \in 1 .. k : j < i} = {j \in 1 .. i : j < i}
      BY <1>4, <2>1, <2>2
    <3>3. Before(i) = i - 1
      <4>1. i \in Nat /\ i \in 1 .. i
        BY <2>1
      <4>2. Cardinality({j \in 1 .. i : j < i}) = i - 1
        BY <4>1, BeforeNumber
      <4> QED BY <3>1, <3>2, <4>2
    <3> HIDE DEF Before, kept
    <3> QED BY <1>4, <1>6, <2>1, <2>2, <3>3
  <2>3. CASE k < i
    <3>1. 1 .. k \in SUBSET {j \in kept : j < i}
      BY <1>4, <2>1, <2>3
    <3>2. IsFiniteSet({j \in kept : j < i})
      <4>1. {j \in kept : j < i} \in SUBSET kept
        OBVIOUS
      <4> HIDE DEF kept
      <4> QED BY <1>2, <4>1, FS_Subset
    <3>3. Cardinality(1 .. k) = k /\ Cardinality(1 .. k) <= Before(i)
      <4>1. Cardinality(1 .. k) = k
        BY <1>4, FS_Interval
      <4> QED BY <3>1, <3>2, <4>1, FS_Subset
    <3> HIDE DEF Before, kept
    <3> QED BY <1>4, <1>6, <3>3
  <2> HIDE DEF Before, kept
  <2> QED BY <1>4, <2>1, <2>2, <2>3
<1>7. (CHOOSE i \in kept : Before(i) = k - 1) = k
  <2>1. k \in kept
    BY <1>4
  <2> HIDE DEF Before, kept
  <2> QED BY <1>5, <1>6, <2>1
<1>8. KeptLiterals(lits)[k] = lits[CHOOSE i \in kept : Before(i) = k - 1]
  <2> HIDE DEF Before, kept
  <2> QED BY <1>1, <1>3
<1> QED BY <1>4, <1>7, <1>8

\* The type that is inferred for a placeholder is one DataFusion has.
LEMMA InferredTypesAre ==
  ASSUME NEW p, IsPlan(p), NEW k \in DOMAIN p.context
  PROVE  InferredTypes(p)[k] \in DataTypes
<1>1. p.context[k] \in DataTypes
  BY DEF IsPlan
<1>2. Untyped \in DataTypes
  <2>1. Untyped \in PlainFields /\ Untyped.alias = NoAlias
    BY DEF Untyped, Plain, Field, PlainFields, Unannounced
  <2>2. PlainFields \subseteq Fields
    <3>1. Nesting = 0 \/ Nesting \in 1 .. Nesting
      BY NestingAssumption DEF NestingAssumption
    <3> QED BY <3>1, FieldsAtLevels DEF Fields
  <2> QED BY <2>1, <2>2 DEF DataTypes
<1>3. CastType(p, k) \in DataTypes
  <2> DEFINE casts == {i \in DOMAIN p.casts : p.casts[i].param = k}
             C == [param : Nat, type : DataTypes]
  <2>1. CastType(p, k) = IF casts = {} THEN Untyped ELSE p.casts[CHOOSE i \in casts : \A j \in casts : j <= i].type
    BY DEF CastType
  <2>2. p.casts \in Seq(C)
    BY DEF IsPlan
  <2>3. \A c \in C : c.type \in DataTypes
    OBVIOUS
  <2>4. DOMAIN p.casts = 1 .. Len(p.casts) /\ Len(p.casts) \in Nat /\ \A i \in DOMAIN p.casts : p.casts[i] \in C
    <3> HIDE DEF C
    <3> QED BY <2>2
  <2>5. ASSUME casts # {} PROVE \E i \in casts : \A j \in casts : j <= i
    <3> DEFINE gaps == {Len(p.casts) - i : i \in casts}
    <3>1. gaps \subseteq Nat /\ gaps # {}
      <4>1. \A i \in 1 .. Len(p.casts) : Len(p.casts) - i \in Nat
        BY <2>4
      <4>2. casts \subseteq 1 .. Len(p.casts)
        BY <2>4
      <4> HIDE DEF casts
      <4> QED BY <2>5, <4>1, <4>2
    <3>2. PICK g \in gaps : \A h \in gaps : g <= h
      <4> HIDE DEF gaps
      <4> QED BY <3>1, LeastNumber
    <3>3. PICK i \in casts : g = Len(p.casts) - i
      OBVIOUS
    <3>4. \A j \in casts : g <= Len(p.casts) - j
      BY <3>2
    <3>5. casts \subseteq Int
      BY <2>4
    <3> HIDE DEF casts
    <3> QED BY <2>4, <3>3, <3>4, <3>5
  <2>6. casts # {} => (CHOOSE i \in casts : \A j \in casts : j <= i) \in DOMAIN p.casts
    <3>1. casts \subseteq DOMAIN p.casts
      OBVIOUS
    <3> HIDE DEF casts
    <3> QED BY <2>5, <3>1
  <2> HIDE DEF casts, C
  <2> QED BY <1>2, <2>1, <2>3, <2>4, <2>6 DEF C
<1>4. InferredTypes(p)[k] = IF p.context[k] # Untyped THEN p.context[k] ELSE CastType(p, k)
  BY DEF InferredTypes
<1> QED BY <1>1, <1>3, <1>4

\* The literals of a portal that was executed.
LiteralsInv ==
  phase \in {"executing", "done"} /\ plan.kind # "empty" =>
    /\ literals = KeptLiterals(Deserialize)
    /\ {Refused, Panicked} \intersect Range(Deserialize) = {}
    /\ Replaceable(literals)

LEMMA LiteralsInvInit == PortalInit => LiteralsInv
BY DEF PortalInit, LiteralsInv

LEMMA LiteralsInvNext == LiteralsInv /\ [PortalNext]_portalVars => LiteralsInv'
<1> SUFFICES ASSUME LiteralsInv, [PortalNext]_portalVars PROVE LiteralsInv'
  OBVIOUS
<1>1. CASE Execute
  <2>1. plan' = plan /\ hints' = hints /\ bound' = bound /\ literals' = KeptLiterals(Deserialize)
    BY <1>1 DEF Execute, PlanToExecute
  <2>2. Deserialize' = Deserialize
    BY <2>1 DEF Deserialize
  <2>3. {Refused, Panicked} \intersect Range(Deserialize) = {} /\ Replaceable(KeptLiterals(Deserialize))
    BY <1>1 DEF Execute, Substitutable
  <2>4. {Refused, Panicked} \intersect Range(Deserialize') = {} /\ literals' = KeptLiterals(Deserialize')
    BY <2>1, <2>2, <2>3
  <2>5. DOMAIN plan'.context \subseteq DOMAIN literals'
    BY <2>1, <2>3 DEF Replaceable
  <2> QED BY <2>4, <2>5 DEF LiteralsInv, Replaceable
<1>2. CASE phase' \notin {"executing", "done"}
  BY <1>2 DEF LiteralsInv
<1>3. CASE ExecuteEmpty
  BY <1>3 DEF ExecuteEmpty, LiteralsInv
<1>4. ASSUME UNCHANGED <<plan, hints, bound, literals>>, phase \in {"executing", "done"} PROVE LiteralsInv'
  <2>1. Deserialize' = Deserialize
    BY <1>4 DEF Deserialize
  <2>2. plan.kind # "empty" =>
          literals = KeptLiterals(Deserialize) /\ {Refused, Panicked} \intersect Range(Deserialize) = {} /\ Replaceable(literals)
    BY <1>4 DEF LiteralsInv
  <2>3. plan'.kind # "empty" =>
          literals' = KeptLiterals(Deserialize') /\ {Refused, Panicked} \intersect Range(Deserialize') = {}
    BY <1>4, <2>1, <2>2
  <2>4. plan'.kind # "empty" => DOMAIN plan'.context \subseteq DOMAIN literals'
    BY <1>4, <2>2 DEF Replaceable
  <2> QED BY <2>3, <2>4 DEF LiteralsInv, Replaceable
<1>5. CASE Run
  BY <1>4, <1>5 DEF Run, SendRow, RowFails, RowPanics, NextBatch, BatchFails, LastRow, Insert, Streaming
<1>6. CASE Redefine \/ UNCHANGED portalVars
  BY <1>2, <1>4, <1>6 DEF Redefine, portalVars
<1>7. Parse \/ Describe \/ DescribeFails \/ Bind \/ ExecuteFails \/ ExecutePanics
        => phase' \notin {"executing", "done"}
  BY DEF Parse, Prepare, PrepareEmpty, PrepareFails, Describe, DescribeFails, Bind, ExecuteFails, ExecutePanics
<1> QED BY <1>1, <1>2, <1>3, <1>5, <1>6, <1>7 DEF PortalNext, Client

LEMMA LiteralsAlways == PortalSpec => [](PlanInv /\ LiteralsInv)
<1>1. PortalInit => PlanInv /\ LiteralsInv
  BY PlanInvInit, LiteralsInvInit
<1>2. PlanInv /\ LiteralsInv /\ [PortalNext]_portalVars => (PlanInv /\ LiteralsInv)'
  BY PlanInvNext, LiteralsInvNext
<1> QED BY <1>1, <1>2, PTL DEF PortalSpec

\* Each placeholder gets the value bound at its position, as the type inferred for it
\* and changed no more than ValuesArrive says (deserialize_parameters).
THEOREM ValuesArriveHolds == PortalSpec => []ValuesArrive
<1>1. ASSUME PlanInv, LiteralsInv PROVE ValuesArrive
  <2> SUFFICES ASSUME phase \in {"executing", "done"}, plan.kind # "empty", Contiguous,
                      NEW k \in DOMAIN plan.context, \A j \in 1 .. k : Deserialize[j] # Dropped
               PROVE  Arrives(bound[k], TypeOfParameter(hints, plan, k), InferredTypes(plan)[k], literals[k])
    BY DEF ValuesArrive
  <2>1. PICK s \in Statements, v \in Versions : plan \in Plans(s, v)
    BY <1>1, EmptyKind DEF PlanInv
  <2>2. IsPlan(plan) /\ hints \in Hints(plan) /\ bound \in Values(plan, hints)
    <3>1. IsPlan(plan)
      BY <2>1, PlansAssumption DEF PlansAssumption
    <3> QED BY <1>1, <3>1, EmptyKind DEF PlanInv
  <2>3. /\ bound \in Seq([is : ValueKinds, n : Seq(Int)])
        /\ \A i \in DOMAIN bound : WellFormed(TypeOfParameter(hints, plan, i), bound[i])
    BY <2>1, <2>2, ClientAssumption DEF ClientAssumption
  <2>4. DOMAIN bound = 1 .. Len(bound) /\ Len(bound) \in Nat
    <3> DEFINE V == [is : ValueKinds, n : Seq(Int)]
    <3>1. bound \in Seq(V)
      BY <2>3
    <3> HIDE DEF V
    <3> QED BY <3>1
  <2>5. /\ DOMAIN Deserialize = 1 .. Len(bound)
        /\ \A i \in DOMAIN bound :
             Deserialize[i] = Deserialized(TypeAt(hints, i, NoHint), TypeAt(OrderedParamTypes(plan), i, Untyped), bound[i])
    BY <2>4 DEF Deserialize, DeserializeParameters
  <2>6. literals = KeptLiterals(Deserialize) /\ {Refused, Panicked} \intersect Range(Deserialize) = {} /\ k \in DOMAIN literals
    BY <1>1 DEF LiteralsInv, Replaceable
  <2>7. k \in 1 .. Len(bound) /\ literals[k] = Deserialize[k]
    BY <2>4, <2>5, <2>6, KeptInPlace
  <2>8. TypeAt(OrderedParamTypes(plan), k, Untyped) = InferredTypes(plan)[k]
    <3> DEFINE n == Cardinality(DOMAIN plan.context)
    <3>1. n \in Nat /\ DOMAIN plan.context = 1 .. n
      BY <1>1, PlanShaped, FS_CardinalityType DEF Shaped, Contiguous
    <3> HIDE DEF n
    <3>2. OrderedParamTypes(plan) = [i \in 1 .. n |-> InferredTypes(plan)[i]]
      BY <3>1, OrderedByNumber
    <3> QED BY <3>1, <3>2 DEF TypeAt
  <2>9. InferredTypes(plan)[k] \in DataTypes
    BY <2>2, InferredTypesAre
  <2> DEFINE hint == TypeAt(hints, k, NoHint)
             inferred == InferredTypes(plan)[k]
             type == TypeOfParameter(hints, plan, k)
  <2>10. type = ParameterType(hint, inferred) /\ WellFormed(type, bound[k])
    BY <2>3, <2>4, <2>7, <2>8 DEF TypeOfParameter
  <2>11. literals[k] = Deserialized(hint, inferred, bound[k])
    BY <2>4, <2>5, <2>7, <2>8
  <2>12. literals[k] \notin {Refused, Panicked, Dropped}
    <3>1. k \in 1 .. k /\ Deserialize[k] \in Range(Deserialize)
      BY <2>5, <2>7 DEF Range
    <3> QED BY <2>6, <2>7, <3>1
  <2> HIDE DEF hint, inferred, type
  <2>13. Arrives(bound[k], type, inferred, literals[k])
    BY <2>9, <2>10, <2>11, <2>12, LiteralArrives DEF inferred
  <2> QED BY <2>13 DEF inferred, type
<1> QED BY <1>1, LiteralsAlways, PTL
=============================================================================
