--------------------------- MODULE Encoding_proofs ---------------------------
(***************************************************************************)
(* Proofs about Encoding.  Fields, types, cells and what is written nest,  *)
(* and the functions on them are recursive.  That each of them exists, so  *)
(* that its defining equation holds, and what it returns are shown one     *)
(* level of nesting after the other (UpTo).                                *)
(***************************************************************************)
EXTENDS Encoding, NaturalsInduction, WellFoundedInduction, TLAPS

-----------------------------------------------------------------------------
(* Levels *)

LessThan == {p \in Nat \X Nat : p[1] < p[2]}

LEMMA LessThanWellFounded == IsWellFoundedOn(LessThan, Nat)
BY NatLessThanWellFounded DEF LessThan, OpToRel

\* A set of natural numbers has a least one.
LEMMA LeastNumber ==
  ASSUME NEW S, S \subseteq Nat, S # {}
  PROVE  \E n \in S : \A m \in S : n <= m
<1>1. \E n \in S : \A m \in S : ~(<<m, n>> \in LessThan)
  <2>1. IsWellFoundedOn(LessThan, Nat)
    BY LessThanWellFounded
  <2> HIDE DEF LessThan
  <2> QED BY <2>1, WFMin
<1>2. PICK n \in S : \A m \in S : ~(<<m, n>> \in LessThan)
  BY <1>1
<1>3. ASSUME NEW m \in S PROVE n <= m
  <2>1. m \in Nat /\ n \in Nat
    OBVIOUS
  <2>2. ~(m < n)
    <3>1. <<m, n>> \in Nat \X Nat
      BY <2>1
    <3> QED BY <3>1, <1>2 DEF LessThan
  <2> QED BY <2>1, <2>2
<1> QED BY <1>3

\* What holds of 0, and of each number that follows one it holds of.
LEMMA UpTo ==
  ASSUME NEW n \in Nat, NEW S, 0 \in S, \A d \in 1 .. n : d - 1 \in S => d \in S
  PROVE  0 .. n \subseteq S
<1> DEFINE Missing == (0 .. n) \ S
<1>1. SUFFICES ASSUME Missing # {} PROVE FALSE
  OBVIOUS
<1>2. PICK d \in Missing : \A m \in Missing : d <= m
  <2>1. Missing \subseteq Nat
    OBVIOUS
  <2> HIDE DEF Missing
  <2> QED BY <1>1, <2>1, LeastNumber
<1>3. d \in 1 .. n /\ d \notin S
  BY <1>2
<1>4. d - 1 \in 0 .. n /\ ~(d <= d - 1)
  BY <1>3
<1> QED BY <1>2, <1>3, <1>4

LEMMA NestingNat == Nesting \in Nat
BY NestingAssumption DEF NestingAssumption

USE NestingNat

-----------------------------------------------------------------------------
(* What nests *)

LEMMA FieldsAtExists ==
  \E g : g = [d \in 0 .. Nesting |-> PlainFields \union (IF d = 0 THEN {} ELSE FieldsOver(g[d - 1]))]
<1> DEFINE Level(g, d) == PlainFields \union (IF d = 0 THEN {} ELSE FieldsOver(g[d - 1]))
           S == {n \in Nat : \E g : g = [d \in 0 .. n |-> Level(g, d)]}
<1>1. 0 \in S
  <2> DEFINE g == [d \in 0 .. 0 |-> PlainFields]
  <2>1. g = [d \in 0 .. 0 |-> Level(g, d)]
    OBVIOUS
  <2> QED BY <2>1
<1>2. ASSUME NEW n \in 1 .. Nesting, n - 1 \in S PROVE n \in S
  <2>0. n \in Nat
    OBVIOUS
  <2>1. PICK h : h = [d \in 0 .. n - 1 |-> Level(h, d)]
    BY <1>2
  <2> DEFINE g == [d \in 0 .. n |-> Level(h, d)]
  <2>2. \A d \in 1 .. n : g[d - 1] = h[d - 1]
    <3> HIDE DEF Level
    <3>1. \A d \in 1 .. n : d - 1 \in 0 .. n /\ d - 1 \in 0 .. n - 1
      BY <2>0
    <3> QED BY <2>1, <3>1
  <2>3. \A d \in 0 .. n : Level(g, d) = Level(h, d)
    <3>1. \A d \in 0 .. n : d = 0 \/ d \in 1 .. n
      BY <2>0
    <3> HIDE DEF g
    <3> QED BY <2>2, <3>1
  <2> HIDE DEF Level
  <2>4. g = [d \in 0 .. n |-> Level(g, d)]
    BY <2>3
  <2> QED BY <2>0, <2>4
<1> HIDE DEF S
<1>3. Nesting \in S
  BY <1>1, <1>2, UpTo
<1> QED BY <1>3 DEF S

LEMMA FieldsAtLevels ==
  /\ FieldsAt[0] = PlainFields
  /\ \A d \in 1 .. Nesting : FieldsAt[d] = PlainFields \union FieldsOver(FieldsAt[d - 1])
<1>1. FieldsAt = [d \in 0 .. Nesting |-> PlainFields \union (IF d = 0 THEN {} ELSE FieldsOver(FieldsAt[d - 1]))]
  BY FieldsAtExists, Zenon DEF FieldsAt
<1>2. 0 \in 0 .. Nesting /\ \A d \in 1 .. Nesting : d \in 0 .. Nesting /\ d # 0
  OBVIOUS
<1>3. FieldsAt[0] = PlainFields \union {}
  BY <1>1, <1>2
<1>4. ASSUME NEW d \in 1 .. Nesting
      PROVE  FieldsAt[d] = PlainFields \union FieldsOver(FieldsAt[d - 1])
  BY <1>1, <1>2
<1> QED BY <1>3, <1>4

LEMMA FieldsAtGrow == \A d \in 1 .. Nesting : FieldsAt[d - 1] \subseteq FieldsAt[d]
<1> DEFINE S == {d \in Nat : d \in 1 .. Nesting => FieldsAt[d - 1] \subseteq FieldsAt[d]}
<1>1. 0 \in S
  OBVIOUS
<1>2. ASSUME NEW d \in 1 .. Nesting, d - 1 \in S PROVE FieldsAt[d - 1] \subseteq FieldsAt[d]
  <2>1. CASE d = 1
    <3>1. FieldsAt[1] = PlainFields \union FieldsOver(FieldsAt[0]) /\ FieldsAt[0] = PlainFields
      BY <2>1, FieldsAtLevels
    <3> QED BY <2>1, <3>1
  <2>2. CASE d # 1
    <3>1. d - 1 \in 1 .. Nesting
      BY <2>2
    <3>2. FieldsAt[d - 1 - 1] \subseteq FieldsAt[d - 1]
      BY <1>2, <3>1
    <3>3. FieldsOver(FieldsAt[d - 1 - 1]) \subseteq FieldsOver(FieldsAt[d - 1])
      BY <3>2 DEF FieldsOver
    <3>4. FieldsAt[d - 1] = PlainFields \union FieldsOver(FieldsAt[d - 1 - 1])
      BY <3>1, FieldsAtLevels
    <3>5. FieldsAt[d] = PlainFields \union FieldsOver(FieldsAt[d - 1])
      BY FieldsAtLevels
    <3> QED BY <3>3, <3>4, <3>5
  <2> QED BY <2>1, <2>2
<1>3. \A d \in 1 .. Nesting : d - 1 \in S => d \in S
  BY <1>2
<1> HIDE DEF S
<1>4. 0 .. Nesting \subseteq S
  BY <1>1, <1>3, UpTo
<1> QED BY <1>4 DEF S

LEMMA PgTypesAtExists ==
  \E g : g = [d \in 0 .. Nesting |-> PlainPgTypes \union (IF d = 0 THEN {} ELSE PgTypesOver(g[d - 1]))]
<1> DEFINE Level(g, d) == PlainPgTypes \union (IF d = 0 THEN {} ELSE PgTypesOver(g[d - 1]))
           S == {n \in Nat : \E g : g = [d \in 0 .. n |-> Level(g, d)]}
<1>1. 0 \in S
  <2> DEFINE g == [d \in 0 .. 0 |-> PlainPgTypes]
  <2>1. g = [d \in 0 .. 0 |-> Level(g, d)]
    OBVIOUS
  <2> QED BY <2>1
<1>2. ASSUME NEW n \in 1 .. Nesting, n - 1 \in S PROVE n \in S
  <2>0. n \in Nat
    OBVIOUS
  <2>1. PICK h : h = [d \in 0 .. n - 1 |-> Level(h, d)]
    BY <1>2
  <2> DEFINE g == [d \in 0 .. n |-> Level(h, d)]
  <2>2. \A d \in 1 .. n : g[d - 1] = h[d - 1]
    <3> HIDE DEF Level
    <3>1. \A d \in 1 .. n : d - 1 \in 0 .. n /\ d - 1 \in 0 .. n - 1
      BY <2>0
    <3> QED BY <2>1, <3>1
  <2>3. \A d \in 0 .. n : Level(g, d) = Level(h, d)
    <3>1. \A d \in 0 .. n : d = 0 \/ d \in 1 .. n
      BY <2>0
    <3> HIDE DEF g
    <3> QED BY <2>2, <3>1
  <2> HIDE DEF Level
  <2>4. g = [d \in 0 .. n |-> Level(g, d)]
    BY <2>3
  <2> QED BY <2>0, <2>4
<1> HIDE DEF S
<1>3. Nesting \in S
  BY <1>1, <1>2, UpTo
<1> QED BY <1>3 DEF S

LEMMA PgTypesAtLevels ==
  /\ PgTypesAt[0] = PlainPgTypes
  /\ \A d \in 1 .. Nesting : PgTypesAt[d] = PlainPgTypes \union PgTypesOver(PgTypesAt[d - 1])
<1>1. PgTypesAt = [d \in 0 .. Nesting |-> PlainPgTypes \union (IF d = 0 THEN {} ELSE PgTypesOver(PgTypesAt[d - 1]))]
  BY PgTypesAtExists, Zenon DEF PgTypesAt
<1>2. 0 \in 0 .. Nesting /\ \A d \in 1 .. Nesting : d \in 0 .. Nesting /\ d # 0
  OBVIOUS
<1>3. PgTypesAt[0] = PlainPgTypes \union {}
  BY <1>1, <1>2
<1>4. ASSUME NEW d \in 1 .. Nesting
      PROVE  PgTypesAt[d] = PlainPgTypes \union PgTypesOver(PgTypesAt[d - 1])
  BY <1>1, <1>2
<1> QED BY <1>3, <1>4

LEMMA PgTypesAtGrow == \A d \in 1 .. Nesting : PgTypesAt[d - 1] \subseteq PgTypesAt[d]
<1> DEFINE S == {d \in Nat : d \in 1 .. Nesting => PgTypesAt[d - 1] \subseteq PgTypesAt[d]}
<1>1. 0 \in S
  OBVIOUS
<1>2. ASSUME NEW d \in 1 .. Nesting, d - 1 \in S PROVE PgTypesAt[d - 1] \subseteq PgTypesAt[d]
  <2>1. CASE d = 1
    <3>1. PgTypesAt[1] = PlainPgTypes \union PgTypesOver(PgTypesAt[0]) /\ PgTypesAt[0] = PlainPgTypes
      BY <2>1, PgTypesAtLevels
    <3> QED BY <2>1, <3>1
  <2>2. CASE d # 1
    <3>1. d - 1 \in 1 .. Nesting
      BY <2>2
    <3>2. PgTypesAt[d - 1 - 1] \subseteq PgTypesAt[d - 1]
      BY <1>2, <3>1
    <3>3. PgTypesOver(PgTypesAt[d - 1 - 1]) \subseteq PgTypesOver(PgTypesAt[d - 1])
      BY <3>2 DEF PgTypesOver
    <3>4. PgTypesAt[d - 1] = PlainPgTypes \union PgTypesOver(PgTypesAt[d - 1 - 1])
      BY <3>1, PgTypesAtLevels
    <3>5. PgTypesAt[d] = PlainPgTypes \union PgTypesOver(PgTypesAt[d - 1])
      BY PgTypesAtLevels
    <3> QED BY <3>3, <3>4, <3>5
  <2> QED BY <2>1, <2>2
<1>3. \A d \in 1 .. Nesting : d - 1 \in S => d \in S
  BY <1>2
<1> HIDE DEF S
<1>4. 0 .. Nesting \subseteq S
  BY <1>1, <1>3, UpTo
<1> QED BY <1>4 DEF S

LEMMA CellsAtExists ==
  \E g : g = [d \in 0 .. Nesting |-> PlainCells \union (IF d = 0 THEN {} ELSE CellsOver(g[d - 1]))]
<1> DEFINE Level(g, d) == PlainCells \union (IF d = 0 THEN {} ELSE CellsOver(g[d - 1]))
           S == {n \in Nat : \E g : g = [d \in 0 .. n |-> Level(g, d)]}
<1>1. 0 \in S
  <2> DEFINE g == [d \in 0 .. 0 |-> PlainCells]
  <2>1. g = [d \in 0 .. 0 |-> Level(g, d)]
    OBVIOUS
  <2> QED BY <2>1
<1>2. ASSUME NEW n \in 1 .. Nesting, n - 1 \in S PROVE n \in S
  <2>0. n \in Nat
    OBVIOUS
  <2>1. PICK h : h = [d \in 0 .. n - 1 |-> Level(h, d)]
    BY <1>2
  <2> DEFINE g == [d \in 0 .. n |-> Level(h, d)]
  <2>2. \A d \in 1 .. n : g[d - 1] = h[d - 1]
    <3> HIDE DEF Level
    <3>1. \A d \in 1 .. n : d - 1 \in 0 .. n /\ d - 1 \in 0 .. n - 1
      BY <2>0
    <3> QED BY <2>1, <3>1
  <2>3. \A d \in 0 .. n : Level(g, d) = Level(h, d)
    <3>1. \A d \in 0 .. n : d = 0 \/ d \in 1 .. n
      BY <2>0
    <3> HIDE DEF g
    <3> QED BY <2>2, <3>1
  <2> HIDE DEF Level
  <2>4. g = [d \in 0 .. n |-> Level(g, d)]
    BY <2>3
  <2> QED BY <2>0, <2>4
<1> HIDE DEF S
<1>3. Nesting \in S
  BY <1>1, <1>2, UpTo
<1> QED BY <1>3 DEF S

LEMMA CellsAtLevels ==
  /\ CellsAt[0] = PlainCells
  /\ \A d \in 1 .. Nesting : CellsAt[d] = PlainCells \union CellsOver(CellsAt[d - 1])
<1>1. CellsAt = [d \in 0 .. Nesting |-> PlainCells \union (IF d = 0 THEN {} ELSE CellsOver(CellsAt[d - 1]))]
  BY CellsAtExists, Zenon DEF CellsAt
<1>2. 0 \in 0 .. Nesting /\ \A d \in 1 .. Nesting : d \in 0 .. Nesting /\ d # 0
  OBVIOUS
<1>3. CellsAt[0] = PlainCells \union {}
  BY <1>1, <1>2
<1>4. ASSUME NEW d \in 1 .. Nesting
      PROVE  CellsAt[d] = PlainCells \union CellsOver(CellsAt[d - 1])
  BY <1>1, <1>2
<1> QED BY <1>3, <1>4

LEMMA WrittenAtExists ==
  \E g : g = [d \in 0 .. Nesting |-> PlainWritten \union (IF d = 0 THEN {} ELSE WrittenOver(g[d - 1]))]
<1> DEFINE Level(g, d) == PlainWritten \union (IF d = 0 THEN {} ELSE WrittenOver(g[d - 1]))
           S == {n \in Nat : \E g : g = [d \in 0 .. n |-> Level(g, d)]}
<1>1. 0 \in S
  <2> DEFINE g == [d \in 0 .. 0 |-> PlainWritten]
  <2>1. g = [d \in 0 .. 0 |-> Level(g, d)]
    OBVIOUS
  <2> QED BY <2>1
<1>2. ASSUME NEW n \in 1 .. Nesting, n - 1 \in S PROVE n \in S
  <2>0. n \in Nat
    OBVIOUS
  <2>1. PICK h : h = [d \in 0 .. n - 1 |-> Level(h, d)]
    BY <1>2
  <2> DEFINE g == [d \in 0 .. n |-> Level(h, d)]
  <2>2. \A d \in 1 .. n : g[d - 1] = h[d - 1]
    <3> HIDE DEF Level
    <3>1. \A d \in 1 .. n : d - 1 \in 0 .. n /\ d - 1 \in 0 .. n - 1
      BY <2>0
    <3> QED BY <2>1, <3>1
  <2>3. \A d \in 0 .. n : Level(g, d) = Level(h, d)
    <3>1. \A d \in 0 .. n : d = 0 \/ d \in 1 .. n
      BY <2>0
    <3> HIDE DEF g
    <3> QED BY <2>2, <3>1
  <2> HIDE DEF Level
  <2>4. g = [d \in 0 .. n |-> Level(g, d)]
    BY <2>3
  <2> QED BY <2>0, <2>4
<1> HIDE DEF S
<1>3. Nesting \in S
  BY <1>1, <1>2, UpTo
<1> QED BY <1>3 DEF S

LEMMA WrittenAtLevels ==
  /\ WrittenAt[0] = PlainWritten
  /\ \A d \in 1 .. Nesting : WrittenAt[d] = PlainWritten \union WrittenOver(WrittenAt[d - 1])
<1>1. WrittenAt = [d \in 0 .. Nesting |-> PlainWritten \union (IF d = 0 THEN {} ELSE WrittenOver(WrittenAt[d - 1]))]
  BY WrittenAtExists, Zenon DEF WrittenAt
<1>2. 0 \in 0 .. Nesting /\ \A d \in 1 .. Nesting : d \in 0 .. Nesting /\ d # 0
  OBVIOUS
<1>3. WrittenAt[0] = PlainWritten \union {}
  BY <1>1, <1>2
<1>4. ASSUME NEW d \in 1 .. Nesting
      PROVE  WrittenAt[d] = PlainWritten \union WrittenOver(WrittenAt[d - 1])
  BY <1>1, <1>2
<1> QED BY <1>3, <1>4

LEMMA WrittenAtGrow == \A d \in 1 .. Nesting : WrittenAt[d - 1] \subseteq WrittenAt[d]
<1> DEFINE S == {d \in Nat : d \in 1 .. Nesting => WrittenAt[d - 1] \subseteq WrittenAt[d]}
<1>1. 0 \in S
  OBVIOUS
<1>2. ASSUME NEW d \in 1 .. Nesting, d - 1 \in S PROVE WrittenAt[d - 1] \subseteq WrittenAt[d]
  <2>1. CASE d = 1
    <3>1. WrittenAt[1] = PlainWritten \union WrittenOver(WrittenAt[0]) /\ WrittenAt[0] = PlainWritten
      BY <2>1, WrittenAtLevels
    <3> QED BY <2>1, <3>1
  <2>2. CASE d # 1
    <3>1. d - 1 \in 1 .. Nesting
      BY <2>2
    <3>2. WrittenAt[d - 1 - 1] \subseteq WrittenAt[d - 1]
      BY <1>2, <3>1
    <3>3. WrittenOver(WrittenAt[d - 1 - 1]) \subseteq WrittenOver(WrittenAt[d - 1])
      BY <3>2 DEF WrittenOver
    <3>4. WrittenAt[d - 1] = PlainWritten \union WrittenOver(WrittenAt[d - 1 - 1])
      BY <3>1, WrittenAtLevels
    <3>5. WrittenAt[d] = PlainWritten \union WrittenOver(WrittenAt[d - 1])
      BY WrittenAtLevels
    <3> QED BY <3>3, <3>4, <3>5
  <2> QED BY <2>1, <2>2
<1>3. \A d \in 1 .. Nesting : d - 1 \in S => d \in S
  BY <1>2
<1> HIDE DEF S
<1>4. 0 .. Nesting \subseteq S
  BY <1>1, <1>3, UpTo
<1> QED BY <1>4 DEF S

LEMMA CellsAtGrow == \A d \in 1 .. Nesting : CellsAt[d - 1] \subseteq CellsAt[d]
<1> DEFINE S == {d \in Nat : d \in 1 .. Nesting => CellsAt[d - 1] \subseteq CellsAt[d]}
<1>1. 0 \in S
  OBVIOUS
<1>2. ASSUME NEW d \in 1 .. Nesting, d - 1 \in S PROVE CellsAt[d - 1] \subseteq CellsAt[d]
  <2>1. CASE d = 1
    <3>1. CellsAt[1] = PlainCells \union CellsOver(CellsAt[0]) /\ CellsAt[0] = PlainCells
      BY <2>1, CellsAtLevels
    <3> QED BY <2>1, <3>1
  <2>2. CASE d # 1
    <3>1. d - 1 \in 1 .. Nesting
      BY <2>2
    <3>2. CellsAt[d - 1 - 1] \subseteq CellsAt[d - 1]
      BY <1>2, <3>1
    <3>3. CellsOver(CellsAt[d - 1 - 1]) \subseteq CellsOver(CellsAt[d - 1])
      <4>1. Seq(CellsAt[d - 1 - 1]) \subseteq Seq(CellsAt[d - 1])
        BY <3>2
      <4> QED BY <4>1, Zenon DEF CellsOver
    <3>4. CellsAt[d - 1] = PlainCells \union CellsOver(CellsAt[d - 1 - 1])
      BY <3>1, CellsAtLevels
    <3>5. CellsAt[d] = PlainCells \union CellsOver(CellsAt[d - 1])
      BY CellsAtLevels
    <3> QED BY <3>3, <3>4, <3>5
  <2> QED BY <2>1, <2>2
<1>3. \A d \in 1 .. Nesting : d - 1 \in S => d \in S
  BY <1>2
<1> HIDE DEF S
<1>4. 0 .. Nesting \subseteq S
  BY <1>1, <1>3, UpTo
<1> QED BY <1>4 DEF S

LEMMA FieldsAtTop == \A d \in 0 .. Nesting : FieldsAt[d] \subseteq Fields
<1> DEFINE S == {k \in Nat : k \in 0 .. Nesting => FieldsAt[Nesting - k] \subseteq Fields}
<1>1. 0 \in S
  BY DEF Fields
<1>2. ASSUME NEW k \in 1 .. Nesting, k - 1 \in S PROVE FieldsAt[Nesting - k] \subseteq Fields
  <2>1. Nesting - k + 1 \in 1 .. Nesting /\ Nesting - (k - 1) = Nesting - k + 1 /\ (Nesting - k + 1) - 1 = Nesting - k
    OBVIOUS
  <2>2. FieldsAt[Nesting - k] \subseteq FieldsAt[Nesting - k + 1]
    BY <2>1, FieldsAtGrow
  <2>3. FieldsAt[Nesting - (k - 1)] \subseteq Fields
    BY <1>2
  <2> QED BY <2>1, <2>2, <2>3
<1>3. \A k \in 1 .. Nesting : k - 1 \in S => k \in S
  BY <1>2
<1> HIDE DEF S
<1>4. 0 .. Nesting \subseteq S
  BY <1>1, <1>3, UpTo
<1>5. ASSUME NEW d \in 0 .. Nesting PROVE FieldsAt[d] \subseteq Fields
  <2>1. Nesting - d \in 0 .. Nesting /\ Nesting - (Nesting - d) = d
    OBVIOUS
  <2> QED BY <1>4, <2>1 DEF S
<1> QED BY <1>5

LEMMA PgTypesAtTop == \A d \in 0 .. Nesting : PgTypesAt[d] \subseteq PgTypes
<1> DEFINE S == {k \in Nat : k \in 0 .. Nesting => PgTypesAt[Nesting - k] \subseteq PgTypes}
<1>1. 0 \in S
  BY DEF PgTypes
<1>2. ASSUME NEW k \in 1 .. Nesting, k - 1 \in S PROVE PgTypesAt[Nesting - k] \subseteq PgTypes
  <2>1. Nesting - k + 1 \in 1 .. Nesting /\ Nesting - (k - 1) = Nesting - k + 1 /\ (Nesting - k + 1) - 1 = Nesting - k
    OBVIOUS
  <2>2. PgTypesAt[Nesting - k] \subseteq PgTypesAt[Nesting - k + 1]
    BY <2>1, PgTypesAtGrow
  <2>3. PgTypesAt[Nesting - (k - 1)] \subseteq PgTypes
    BY <1>2
  <2> QED BY <2>1, <2>2, <2>3
<1>3. \A k \in 1 .. Nesting : k - 1 \in S => k \in S
  BY <1>2
<1> HIDE DEF S
<1>4. 0 .. Nesting \subseteq S
  BY <1>1, <1>3, UpTo
<1>5. ASSUME NEW d \in 0 .. Nesting PROVE PgTypesAt[d] \subseteq PgTypes
  <2>1. Nesting - d \in 0 .. Nesting /\ Nesting - (Nesting - d) = d
    OBVIOUS
  <2> QED BY <1>4, <2>1 DEF S
<1> QED BY <1>5

LEMMA WrittenAtTop == \A d \in 0 .. Nesting : WrittenAt[d] \subseteq AllWritten
<1> DEFINE S == {k \in Nat : k \in 0 .. Nesting => WrittenAt[Nesting - k] \subseteq AllWritten}
<1>1. 0 \in S
  BY DEF AllWritten
<1>2. ASSUME NEW k \in 1 .. Nesting, k - 1 \in S PROVE WrittenAt[Nesting - k] \subseteq AllWritten
  <2>1. Nesting - k + 1 \in 1 .. Nesting /\ Nesting - (k - 1) = Nesting - k + 1 /\ (Nesting - k + 1) - 1 = Nesting - k
    OBVIOUS
  <2>2. WrittenAt[Nesting - k] \subseteq WrittenAt[Nesting - k + 1]
    BY <2>1, WrittenAtGrow
  <2>3. WrittenAt[Nesting - (k - 1)] \subseteq AllWritten
    BY <1>2
  <2> QED BY <2>1, <2>2, <2>3
<1>3. \A k \in 1 .. Nesting : k - 1 \in S => k \in S
  BY <1>2
<1> HIDE DEF S
<1>4. 0 .. Nesting \subseteq S
  BY <1>1, <1>3, UpTo
<1>5. ASSUME NEW d \in 0 .. Nesting PROVE WrittenAt[d] \subseteq AllWritten
  <2>1. Nesting - d \in 0 .. Nesting /\ Nesting - (Nesting - d) = d
    OBVIOUS
  <2> QED BY <1>4, <2>1 DEF S
<1> QED BY <1>5

-----------------------------------------------------------------------------
(* The recursive functions *)

LEMMA FieldBelow ==
  \A d \in 0 .. Nesting : \A x \in FieldsAt[d] : \A i \in DOMAIN x.of : d \in 1 .. Nesting /\ x.of[i] \in FieldsAt[d - 1]
<1> SUFFICES ASSUME NEW d \in 0 .. Nesting, NEW x \in FieldsAt[d], NEW i \in DOMAIN x.of
             PROVE  d \in 1 .. Nesting /\ x.of[i] \in FieldsAt[d - 1]
  OBVIOUS
<1>1. x \notin PlainFields
  BY DEF PlainFields
<1>2. d # 0
  BY <1>1, FieldsAtLevels
<1>3. d \in 1 .. Nesting
  BY <1>2
<1>4. x \in FieldsOver(FieldsAt[d - 1])
  BY <1>1, <1>3, FieldsAtLevels
<1>5. x.of[i] \in FieldsAt[d - 1]
  <2>1. x.of \in [{1} -> FieldsAt[d - 1]] \/ x.of \in Seq(FieldsAt[d - 1])
    BY <1>4 DEF FieldsOver
  <2> QED BY <2>1
<1> QED BY <1>3, <1>5

LEMMA PgTypeBelow ==
  \A d \in 0 .. Nesting : \A x \in PgTypesAt[d] : \A i \in DOMAIN x.of : d \in 1 .. Nesting /\ x.of[i] \in PgTypesAt[d - 1]
<1> SUFFICES ASSUME NEW d \in 0 .. Nesting, NEW x \in PgTypesAt[d], NEW i \in DOMAIN x.of
             PROVE  d \in 1 .. Nesting /\ x.of[i] \in PgTypesAt[d - 1]
  OBVIOUS
<1>1. x \notin PlainPgTypes
  BY DEF PlainPgTypes
<1>2. d # 0
  BY <1>1, PgTypesAtLevels
<1>3. d \in 1 .. Nesting
  BY <1>2
<1>4. x \in PgTypesOver(PgTypesAt[d - 1])
  BY <1>1, <1>3, PgTypesAtLevels
<1>5. x.of[i] \in PgTypesAt[d - 1]
  <2>1. x.of \in [{1} -> PgTypesAt[d - 1]] \/ x.of \in Seq(PgTypesAt[d - 1])
    BY <1>4 DEF PgTypesOver
  <2> QED BY <2>1
<1> QED BY <1>3, <1>5

LEMMA FieldIntoPgTypeExists ==
  \E g : g = [f \in Fields |-> FieldIntoPgTypeOf(f, [i \in DOMAIN f.of |-> g[f.of[i]]])]
<1> DEFINE Step(g, x) == FieldIntoPgTypeOf(x, [i \in DOMAIN x.of |-> g[x.of[i]]])
           S == {n \in Nat : n \in 0 .. Nesting => \E g : g = [x \in FieldsAt[n] |-> Step(g, x)]}
<1>1. 0 \in S
  <2> DEFINE g == [x \in FieldsAt[0] |-> Step(<<>>, x)]
  <2>1. \A x \in FieldsAt[0] : DOMAIN x.of = {}
    BY FieldBelow
  <2>2. ASSUME NEW x \in FieldsAt[0] PROVE Step(g, x) = Step(<<>>, x)
    <3> HIDE DEF g
    <3>1. [i \in DOMAIN x.of |-> g[x.of[i]]] = [i \in DOMAIN x.of |-> <<>>[x.of[i]]]
      BY <2>1
    <3> QED BY <3>1
  <2> HIDE DEF Step
  <2>3. g = [x \in FieldsAt[0] |-> Step(g, x)]
    BY <2>2
  <2> QED BY <2>3
<1>2. ASSUME NEW n \in 1 .. Nesting, n - 1 \in S PROVE n \in S
  <2>0. n \in Nat /\ n \in 0 .. Nesting /\ n - 1 \in 0 .. Nesting
    OBVIOUS
  <2>1. PICK h : h = [x \in FieldsAt[n - 1] |-> Step(h, x)]
    BY <1>2, <2>0
  <2> DEFINE g == [x \in FieldsAt[n] |-> Step(h, x)]
  <2>2. \A x \in FieldsAt[n - 1] : g[x] = h[x]
    <3> HIDE DEF Step
    <3>1. FieldsAt[n - 1] \subseteq FieldsAt[n]
      BY FieldsAtGrow
    <3>2. \A x \in FieldsAt[n - 1] : h[x] = Step(h, x)
      BY <2>1
    <3> QED BY <3>1, <3>2
  <2>3. ASSUME NEW x \in FieldsAt[n] PROVE Step(g, x) = Step(h, x)
    <3>1. \A i \in DOMAIN x.of : x.of[i] \in FieldsAt[n - 1]
      BY <2>0, FieldBelow
    <3> HIDE DEF g
    <3>2. [i \in DOMAIN x.of |-> g[x.of[i]]] = [i \in DOMAIN x.of |-> h[x.of[i]]]
      BY <2>2, <3>1
    <3> QED BY <3>2
  <2> HIDE DEF Step
  <2>4. g = [x \in FieldsAt[n] |-> Step(g, x)]
    BY <2>3
  <2> QED BY <2>0, <2>4
<1> HIDE DEF S
<1>3. Nesting \in S
  BY <1>1, <1>2, UpTo
<1> QED BY <1>3 DEF S, Fields

LEMMA FieldIntoPgTypeIs ==
  \A f \in Fields : FieldIntoPgType[f] = FieldIntoPgTypeOf(f, [i \in DOMAIN f.of |-> FieldIntoPgType[f.of[i]]])
<1>1. FieldIntoPgType = [f \in Fields |-> FieldIntoPgTypeOf(f, [i \in DOMAIN f.of |-> FieldIntoPgType[f.of[i]]])]
  BY FieldIntoPgTypeExists, Zenon DEF FieldIntoPgType
<1> QED BY <1>1

LEMMA CellsOfExists ==
  \E g : g = [f \in Fields |-> CellsOfOf(f, [i \in DOMAIN f.of |-> g[f.of[i]]])]
<1> DEFINE Step(g, x) == CellsOfOf(x, [i \in DOMAIN x.of |-> g[x.of[i]]])
           S == {n \in Nat : n \in 0 .. Nesting => \E g : g = [x \in FieldsAt[n] |-> Step(g, x)]}
<1>1. 0 \in S
  <2> DEFINE g == [x \in FieldsAt[0] |-> Step(<<>>, x)]
  <2>1. \A x \in FieldsAt[0] : DOMAIN x.of = {}
    BY FieldBelow
  <2>2. ASSUME NEW x \in FieldsAt[0] PROVE Step(g, x) = Step(<<>>, x)
    <3> HIDE DEF g
    <3>1. [i \in DOMAIN x.of |-> g[x.of[i]]] = [i \in DOMAIN x.of |-> <<>>[x.of[i]]]
      BY <2>1
    <3> QED BY <3>1
  <2> HIDE DEF Step
  <2>3. g = [x \in FieldsAt[0] |-> Step(g, x)]
    BY <2>2
  <2> QED BY <2>3
<1>2. ASSUME NEW n \in 1 .. Nesting, n - 1 \in S PROVE n \in S
  <2>0. n \in Nat /\ n \in 0 .. Nesting /\ n - 1 \in 0 .. Nesting
    OBVIOUS
  <2>1. PICK h : h = [x \in FieldsAt[n - 1] |-> Step(h, x)]
    BY <1>2, <2>0
  <2> DEFINE g == [x \in FieldsAt[n] |-> Step(h, x)]
  <2>2. \A x \in FieldsAt[n - 1] : g[x] = h[x]
    <3> HIDE DEF Step
    <3>1. FieldsAt[n - 1] \subseteq FieldsAt[n]
      BY FieldsAtGrow
    <3>2. \A x \in FieldsAt[n - 1] : h[x] = Step(h, x)
      BY <2>1
    <3> QED BY <3>1, <3>2
  <2>3. ASSUME NEW x \in FieldsAt[n] PROVE Step(g, x) = Step(h, x)
    <3>1. \A i \in DOMAIN x.of : x.of[i] \in FieldsAt[n - 1]
      BY <2>0, FieldBelow
    <3> HIDE DEF g
    <3>2. [i \in DOMAIN x.of |-> g[x.of[i]]] = [i \in DOMAIN x.of |-> h[x.of[i]]]
      BY <2>2, <3>1
    <3> QED BY <3>2
  <2> HIDE DEF Step
  <2>4. g = [x \in FieldsAt[n] |-> Step(g, x)]
    BY <2>3
  <2> QED BY <2>0, <2>4
<1> HIDE DEF S
<1>3. Nesting \in S
  BY <1>1, <1>2, UpTo
<1> QED BY <1>3 DEF S, Fields

LEMMA CellsOfIs ==
  \A f \in Fields : CellsOf[f] = CellsOfOf(f, [i \in DOMAIN f.of |-> CellsOf[f.of[i]]])
<1>1. CellsOf = [f \in Fields |-> CellsOfOf(f, [i \in DOMAIN f.of |-> CellsOf[f.of[i]]])]
  BY CellsOfExists, Zenon DEF CellsOf
<1> QED BY <1>1

LEMMA EncodeValueExists ==
  \E g : g = [f \in Fields |-> EncodeValueOf(f, [i \in DOMAIN f.of |-> g[f.of[i]]])]
<1> DEFINE Step(g, x) == EncodeValueOf(x, [i \in DOMAIN x.of |-> g[x.of[i]]])
           S == {n \in Nat : n \in 0 .. Nesting => \E g : g = [x \in FieldsAt[n] |-> Step(g, x)]}
<1>1. 0 \in S
  <2> DEFINE g == [x \in FieldsAt[0] |-> Step(<<>>, x)]
  <2>1. \A x \in FieldsAt[0] : DOMAIN x.of = {}
    BY FieldBelow
  <2>2. ASSUME NEW x \in FieldsAt[0] PROVE Step(g, x) = Step(<<>>, x)
    <3> HIDE DEF g
    <3>1. [i \in DOMAIN x.of |-> g[x.of[i]]] = [i \in DOMAIN x.of |-> <<>>[x.of[i]]]
      BY <2>1
    <3> QED BY <3>1
  <2> HIDE DEF Step
  <2>3. g = [x \in FieldsAt[0] |-> Step(g, x)]
    BY <2>2
  <2> QED BY <2>3
<1>2. ASSUME NEW n \in 1 .. Nesting, n - 1 \in S PROVE n \in S
  <2>0. n \in Nat /\ n \in 0 .. Nesting /\ n - 1 \in 0 .. Nesting
    OBVIOUS
  <2>1. PICK h : h = [x \in FieldsAt[n - 1] |-> Step(h, x)]
    BY <1>2, <2>0
  <2> DEFINE g == [x \in FieldsAt[n] |-> Step(h, x)]
  <2>2. \A x \in FieldsAt[n - 1] : g[x] = h[x]
    <3> HIDE DEF Step
    <3>1. FieldsAt[n - 1] \subseteq FieldsAt[n]
      BY FieldsAtGrow
    <3>2. \A x \in FieldsAt[n - 1] : h[x] = Step(h, x)
      BY <2>1
    <3> QED BY <3>1, <3>2
  <2>3. ASSUME NEW x \in FieldsAt[n] PROVE Step(g, x) = Step(h, x)
    <3>1. \A i \in DOMAIN x.of : x.of[i] \in FieldsAt[n - 1]
      BY <2>0, FieldBelow
    <3> HIDE DEF g
    <3>2. [i \in DOMAIN x.of |-> g[x.of[i]]] = [i \in DOMAIN x.of |-> h[x.of[i]]]
      BY <2>2, <3>1
    <3> QED BY <3>2
  <2> HIDE DEF Step
  <2>4. g = [x \in FieldsAt[n] |-> Step(g, x)]
    BY <2>3
  <2> QED BY <2>0, <2>4
<1> HIDE DEF S
<1>3. Nesting \in S
  BY <1>1, <1>2, UpTo
<1> QED BY <1>3 DEF S, Fields

LEMMA EncodeValueIs ==
  \A f \in Fields : EncodeValue[f] = EncodeValueOf(f, [i \in DOMAIN f.of |-> EncodeValue[f.of[i]]])
<1>1. EncodeValue = [f \in Fields |-> EncodeValueOf(f, [i \in DOMAIN f.of |-> EncodeValue[f.of[i]]])]
  BY EncodeValueExists, Zenon DEF EncodeValue
<1> QED BY <1>1

LEMMA NullsKeptExists ==
  \E g : g = [f \in Fields |-> NullsKeptOf(f, [i \in DOMAIN f.of |-> g[f.of[i]]])]
<1> DEFINE Step(g, x) == NullsKeptOf(x, [i \in DOMAIN x.of |-> g[x.of[i]]])
           S == {n \in Nat : n \in 0 .. Nesting => \E g : g = [x \in FieldsAt[n] |-> Step(g, x)]}
<1>1. 0 \in S
  <2> DEFINE g == [x \in FieldsAt[0] |-> Step(<<>>, x)]
  <2>1. \A x \in FieldsAt[0] : DOMAIN x.of = {}
    BY FieldBelow
  <2>2. ASSUME NEW x \in FieldsAt[0] PROVE Step(g, x) = Step(<<>>, x)
    <3> HIDE DEF g
    <3>1. [i \in DOMAIN x.of |-> g[x.of[i]]] = [i \in DOMAIN x.of |-> <<>>[x.of[i]]]
      BY <2>1
    <3> QED BY <3>1
  <2> HIDE DEF Step
  <2>3. g = [x \in FieldsAt[0] |-> Step(g, x)]
    BY <2>2
  <2> QED BY <2>3
<1>2. ASSUME NEW n \in 1 .. Nesting, n - 1 \in S PROVE n \in S
  <2>0. n \in Nat /\ n \in 0 .. Nesting /\ n - 1 \in 0 .. Nesting
    OBVIOUS
  <2>1. PICK h : h = [x \in FieldsAt[n - 1] |-> Step(h, x)]
    BY <1>2, <2>0
  <2> DEFINE g == [x \in FieldsAt[n] |-> Step(h, x)]
  <2>2. \A x \in FieldsAt[n - 1] : g[x] = h[x]
    <3> HIDE DEF Step
    <3>1. FieldsAt[n - 1] \subseteq FieldsAt[n]
      BY FieldsAtGrow
    <3>2. \A x \in FieldsAt[n - 1] : h[x] = Step(h, x)
      BY <2>1
    <3> QED BY <3>1, <3>2
  <2>3. ASSUME NEW x \in FieldsAt[n] PROVE Step(g, x) = Step(h, x)
    <3>1. \A i \in DOMAIN x.of : x.of[i] \in FieldsAt[n - 1]
      BY <2>0, FieldBelow
    <3> HIDE DEF g
    <3>2. [i \in DOMAIN x.of |-> g[x.of[i]]] = [i \in DOMAIN x.of |-> h[x.of[i]]]
      BY <2>2, <3>1
    <3> QED BY <3>2
  <2> HIDE DEF Step
  <2>4. g = [x \in FieldsAt[n] |-> Step(g, x)]
    BY <2>3
  <2> QED BY <2>0, <2>4
<1> HIDE DEF S
<1>3. Nesting \in S
  BY <1>1, <1>2, UpTo
<1> QED BY <1>3 DEF S, Fields

LEMMA NullsKeptIs ==
  \A f \in Fields : NullsKept[f] = NullsKeptOf(f, [i \in DOMAIN f.of |-> NullsKept[f.of[i]]])
<1>1. NullsKept = [f \in Fields |-> NullsKeptOf(f, [i \in DOMAIN f.of |-> NullsKept[f.of[i]]])]
  BY NullsKeptExists, Zenon DEF NullsKept
<1> QED BY <1>1

LEMMA ReadableAsExists ==
  \E g : g = [type \in PgTypes |-> ReadableAsOf(type, [i \in DOMAIN type.of |-> g[type.of[i]]])]
<1> DEFINE Step(g, x) == ReadableAsOf(x, [i \in DOMAIN x.of |-> g[x.of[i]]])
           S == {n \in Nat : n \in 0 .. Nesting => \E g : g = [x \in PgTypesAt[n] |-> Step(g, x)]}
<1>1. 0 \in S
  <2> DEFINE g == [x \in PgTypesAt[0] |-> Step(<<>>, x)]
  <2>1. \A x \in PgTypesAt[0] : DOMAIN x.of = {}
    BY PgTypeBelow
  <2>2. ASSUME NEW x \in PgTypesAt[0] PROVE Step(g, x) = Step(<<>>, x)
    <3> HIDE DEF g
    <3>1. [i \in DOMAIN x.of |-> g[x.of[i]]] = [i \in DOMAIN x.of |-> <<>>[x.of[i]]]
      BY <2>1
    <3> QED BY <3>1
  <2> HIDE DEF Step
  <2>3. g = [x \in PgTypesAt[0] |-> Step(g, x)]
    BY <2>2
  <2> QED BY <2>3
<1>2. ASSUME NEW n \in 1 .. Nesting, n - 1 \in S PROVE n \in S
  <2>0. n \in Nat /\ n \in 0 .. Nesting /\ n - 1 \in 0 .. Nesting
    OBVIOUS
  <2>1. PICK h : h = [x \in PgTypesAt[n - 1] |-> Step(h, x)]
    BY <1>2, <2>0
  <2> DEFINE g == [x \in PgTypesAt[n] |-> Step(h, x)]
  <2>2. \A x \in PgTypesAt[n - 1] : g[x] = h[x]
    <3> HIDE DEF Step
    <3>1. PgTypesAt[n - 1] \subseteq PgTypesAt[n]
      BY PgTypesAtGrow
    <3>2. \A x \in PgTypesAt[n - 1] : h[x] = Step(h, x)
      BY <2>1
    <3> QED BY <3>1, <3>2
  <2>3. ASSUME NEW x \in PgTypesAt[n] PROVE Step(g, x) = Step(h, x)
    <3>1. \A i \in DOMAIN x.of : x.of[i] \in PgTypesAt[n - 1]
      BY <2>0, PgTypeBelow
    <3> HIDE DEF g
    <3>2. [i \in DOMAIN x.of |-> g[x.of[i]]] = [i \in DOMAIN x.of |-> h[x.of[i]]]
      BY <2>2, <3>1
    <3> QED BY <3>2
  <2> HIDE DEF Step
  <2>4. g = [x \in PgTypesAt[n] |-> Step(g, x)]
    BY <2>3
  <2> QED BY <2>0, <2>4
<1> HIDE DEF S
<1>3. Nesting \in S
  BY <1>1, <1>2, UpTo
<1> QED BY <1>3 DEF S, PgTypes

LEMMA ReadableAsIs ==
  \A type \in PgTypes : ReadableAs[type] = ReadableAsOf(type, [i \in DOMAIN type.of |-> ReadableAs[type.of[i]]])
<1>1. ReadableAs = [type \in PgTypes |-> ReadableAsOf(type, [i \in DOMAIN type.of |-> ReadableAs[type.of[i]]])]
  BY ReadableAsExists, Zenon DEF ReadableAs
<1> QED BY <1>1

-----------------------------------------------------------------------------
(* Shapes *)

LEMMA FieldShape ==
  ASSUME NEW d \in 0 .. Nesting, NEW f \in FieldsAt[d]
  PROVE  /\ f \in Fields
         /\ \/ f \in PlainFields
            \/ /\ d \in 1 .. Nesting /\ f.kind \in ListKinds \union {"Dictionary"} /\ f.alias = NoAlias
               /\ DOMAIN f.of = {1} /\ f.of[1] \in FieldsAt[d - 1]
            \/ /\ d \in 1 .. Nesting /\ f.kind = "Struct" /\ f.alias = NoAlias
               /\ f.of \in Seq(FieldsAt[d - 1])
<1>1. f \in Fields
  BY FieldsAtTop
<1>2. CASE f \notin PlainFields
  <2>1. d \in 1 .. Nesting
    <3>1. d # 0
      BY <1>2, FieldsAtLevels
    <3> QED BY <3>1
  <2>2. f \in FieldsOver(FieldsAt[d - 1])
    BY <1>2, <2>1, FieldsAtLevels
  <2> QED BY <1>1, <2>1, <2>2 DEF FieldsOver
<1> QED BY <1>1, <1>2

Kinds ==
  {"Int8", "Int16", "UInt8", "Int32", "UInt16", "Int64", "UInt32", "UInt64", "Float16", "Float32",
   "Float64", "Decimal128", "Null", "Boolean", "Time64", "Date32", "Binary", "FixedSizeBinary",
   "Utf8", "LargeUtf8", "IntervalYearMonth", "IntervalDayTime", "IntervalMonthDayNano", "Duration",
   "TimestampSecond", "TimestampMillisecond", "TimestampMicrosecond", "TimestampNanosecond",
   "TimestampTzSecond", "TimestampTzMillisecond", "TimestampTzMicrosecond", "TimestampTzNanosecond"}

LEMMA TimestampKinds ==
  /\ Range(Timestamp) =
       {"TimestampSecond", "TimestampMillisecond", "TimestampMicrosecond", "TimestampNanosecond"}
  /\ Range(TimestampTz) =
       {"TimestampTzSecond", "TimestampTzMillisecond", "TimestampTzMicrosecond", "TimestampTzNanosecond"}
BY DEF Range, Timestamp, TimestampTz

LEMMA KnownKinds == Known = Kinds
BY TimestampKinds DEF Known, Kinds, PgNumbers, PgOthers, Spans, Intervals

LEMMA ContainersApart ==
  /\ Known \intersect Containers = {}
  /\ Unannounced \intersect Containers = {}
  /\ Known \intersect Unannounced = {}
<1>1. Known \intersect Containers = {}
  BY KnownKinds DEF Kinds, Containers, ListKinds
<1>2. Unannounced \intersect Containers = {}
  BY DEF Unannounced, Containers, ListKinds
<1>3. Known \intersect Unannounced = {}
  BY KnownKinds DEF Kinds, Unannounced
<1> QED BY <1>1, <1>2, <1>3

LEMMA PlainFieldShape ==
  ASSUME NEW f \in PlainFields
  PROVE  /\ f \in Fields
         /\ f.kind \in Known \union Unannounced /\ f.kind \notin Containers
         /\ f.of = <<>> /\ DOMAIN f.of = {}
         /\ f.alias = NoAlias \/ f.kind = "Int32"
<1>1. f \in Fields
  <2>1. f \in FieldsAt[0]
    BY FieldsAtLevels
  <2> QED BY <2>1, FieldsAtTop
<1>2. f.of = <<>> /\ (f.alias = NoAlias \/ f.kind = "Int32")
  BY DEF PlainFields
<1>3. f.kind \in Known \union Unannounced
  <2>1. "Int32" \in Known
    BY KnownKinds DEF Kinds
  <2>2. f.kind \in Known \union Unannounced \/ f.kind \in {"Int32"}
    BY Zenon DEF PlainFields
  <2> QED BY <2>1, <2>2
<1>4. f.kind \notin Containers
  BY <1>3, ContainersApart
<1>5. DOMAIN f.of = {}
  BY <1>2
<1> QED BY <1>1, <1>2, <1>3, <1>4, <1>5

\* A cell is NULL or not, and its items are a sequence of cells.
LEMMA CellShape ==
  ASSUME NEW v \in Cells
  PROVE  /\ v.null \in BOOLEAN /\ v.fits \in BOOLEAN
         /\ v.items \in Seq(Cells)
<1>1. CASE v \in PlainCells
  <2>1. v.null \in BOOLEAN /\ v.fits \in BOOLEAN /\ v.items = <<>>
    BY <1>1, Zenon DEF PlainCells
  <2>2. <<>> \in Seq(Cells)
    OBVIOUS
  <2> QED BY <2>1, <2>2, Zenon
<1>2. CASE v \notin PlainCells
  <2>1. Nesting # 0
    BY <1>2, CellsAtLevels DEF Cells
  <2>2. v \in CellsOver(CellsAt[Nesting - 1])
    BY <1>2, <2>1, CellsAtLevels DEF Cells
  <2>3. CellsAt[Nesting - 1] \subseteq Cells
    BY <2>1, CellsAtGrow DEF Cells
  <2>4. v.null = FALSE /\ v.fits = TRUE /\ v.items \in Seq(CellsAt[Nesting - 1])
    BY <2>2, Zenon DEF CellsOver
  <2>5. v.items \in Seq(Cells)
    BY <2>3, <2>4
  <2> QED BY <2>4, <2>5, Zenon
<1> QED BY <1>1, <1>2

LEMMA CellsOfShape ==
  ASSUME NEW d \in 0 .. Nesting, NEW f \in FieldsAt[d]
  PROVE  /\ f.kind = "Dictionary" => CellsOf[f] = CellsOf[f.of[1]]
         /\ f.kind # "Dictionary" => \A v \in CellsOf[f] :
              /\ v \in Cells
              /\ v.null \/ f.kind \notin Containers => v.items = <<>>
              /\ ~v.null /\ f.kind \in ListKinds =>
                   \A i \in DOMAIN v.items : v.items[i] \in CellsOf[f.of[1]]
              /\ ~v.null /\ f.kind = "Struct" =>
                   /\ DOMAIN v.items = DOMAIN f.of
                   /\ \A i \in DOMAIN f.of : v.items[i] \in CellsOf[f.of[i]]
<1> DEFINE below == [i \in DOMAIN f.of |-> CellsOf[f.of[i]]]
<1>1. CellsOf[f] = CellsOfOf(f, below)
  BY FieldShape, CellsOfIs
<1>2. f.kind \in ListKinds \union {"Dictionary"} => below[1] = CellsOf[f.of[1]]
  <2>1. f.kind \in ListKinds \union {"Dictionary"} => 1 \in DOMAIN f.of
    BY FieldShape, PlainFieldShape DEF Containers, ListKinds
  <2> QED BY <2>1
<1>3. f.kind = "Struct" => \A i \in DOMAIN f.of : below[i] = CellsOf[f.of[i]]
  OBVIOUS
<1> HIDE DEF below
<1>4. CASE f.kind = "Dictionary"
  BY <1>1, <1>2, <1>4 DEF CellsOfOf
<1>5. CASE f.kind # "Dictionary"
  BY <1>1, <1>2, <1>3, <1>5 DEF CellsOfOf
<1> QED BY <1>4, <1>5

\* Induction over the nesting of fields.
LEMMA CellsAreCells == \A d \in 0 .. Nesting : \A f \in FieldsAt[d] : CellsOf[f] \subseteq Cells
<1> DEFINE S == {d \in Nat : d \in 0 .. Nesting => \A f \in FieldsAt[d] : CellsOf[f] \subseteq Cells}
<1>1. ASSUME NEW d \in 0 .. Nesting, d \in 1 .. Nesting => d - 1 \in S, NEW f \in FieldsAt[d]
      PROVE  CellsOf[f] \subseteq Cells
  <2>1. CASE f.kind = "Dictionary"
    <3>1. d \in 1 .. Nesting /\ f.of[1] \in FieldsAt[d - 1]
      BY <2>1, FieldShape, PlainFieldShape DEF Containers, ListKinds
    <3>2. CellsOf[f.of[1]] \subseteq Cells
      BY <1>1, <3>1
    <3> QED BY <2>1, <3>2, CellsOfShape
  <2>2. CASE f.kind # "Dictionary"
    BY <2>2, CellsOfShape
  <2> QED BY <2>1, <2>2
<1>2. 0 \in S
  <2>1. 0 \in 0 .. Nesting /\ ~(0 \in 1 .. Nesting)
    OBVIOUS
  <2> QED BY <1>1, <2>1
<1>3. \A d \in 1 .. Nesting : d - 1 \in S => d \in S
  BY <1>1
<1> HIDE DEF S
<1>4. 0 .. Nesting \subseteq S
  BY <1>2, <1>3, UpTo
<1> QED BY <1>4 DEF S

-----------------------------------------------------------------------------
(* Types *)

Names ==
  {"INT2", "INT4", "INT8", "NUMERIC", "FLOAT4", "FLOAT8", "UNKNOWN", "BOOL", "TIME", "DATE", "BYTEA",
   "TEXT", "INTERVAL", "TIMESTAMP", "TIMESTAMPTZ"}

LEMMA KnownNames == \A kind \in Known : PgName(kind) \in Names
<1> SUFFICES ASSUME NEW kind \in Kinds PROVE PgName(kind) \in Names
  BY KnownKinds
<1>1. CASE kind \in DOMAIN PgNumbers
  <2>1. PgName(kind) = PgNumbers[kind]
    BY <1>1, TimestampKinds DEF PgName, PgNumbers, PgOthers, Spans, Intervals
  <2> QED BY <1>1, <2>1 DEF PgNumbers, Names
<1>2. CASE kind \in DOMAIN PgOthers
  <2>1. PgName(kind) = PgOthers[kind]
    BY <1>2, TimestampKinds DEF PgName, PgNumbers, PgOthers, Spans, Intervals
  <2> QED BY <1>2, <2>1 DEF PgOthers, Names
<1>3. CASE kind \notin DOMAIN PgNumbers \union DOMAIN PgOthers
  <2>1. kind \in Spans \union Range(Timestamp) \union Range(TimestampTz)
    BY <1>3, KnownKinds DEF Known
  <2>2. PgName(kind) \in {"INTERVAL", "TIMESTAMP", "TIMESTAMPTZ"}
    BY <1>3, <2>1, TimestampKinds DEF PgName, Spans, Intervals
  <2> QED BY <2>2 DEF Names
<1> QED BY <1>1, <1>2, <1>3

LEMMA PlainPgTypesAlways == \A d \in 0 .. Nesting : PlainPgTypes \subseteq PgTypesAt[d]
<1> SUFFICES ASSUME NEW d \in 0 .. Nesting PROVE PlainPgTypes \subseteq PgTypesAt[d]
  OBVIOUS
<1>1. d = 0 \/ d \in 1 .. Nesting
  OBVIOUS
<1> QED BY <1>1, PgTypesAtLevels

LEMMA NameIsPlain ==
  /\ \A name \in PgNames : PgType(name, <<>>) \in PlainPgTypes
  /\ \A kind \in Known : PgType(PgName(kind), <<>>) \in PlainPgTypes
  /\ \A alias \in OidAliases : PgType(alias, <<>>) \in PlainPgTypes
  /\ NoType \in PlainPgTypes /\ PgType("TEXT", <<>>) \in PlainPgTypes
<1>1. \A name \in PgNames : PgType(name, <<>>) \in PlainPgTypes
  BY DEF PgType, PlainPgTypes
<1>2. OidAliases \subseteq PgNames
  BY DEF PgNames
<1>3. \A kind \in Known : PgName(kind) \in PgNames
  BY DEF PgNames
<1>4. NoType \in PlainPgTypes
  <2>1. NoType.name \in PgNames
    BY DEF PgNames
  <2>2. NoType = PgType(NoType.name, <<>>)
    BY DEF NoType, PgType
  <2> QED BY <1>1, <2>1, <2>2
<1>5. "TEXT" \in PgNames
  <2>1. "Utf8" \in Known /\ PgName("Utf8") = "TEXT"
    BY KnownKinds, TimestampKinds DEF Kinds, PgName, PgNumbers, PgOthers, Spans, Intervals
  <2> QED BY <1>3, <2>1
<1> QED BY <1>1, <1>2, <1>3, <1>4, <1>5

LEMMA NamesApart ==
  /\ Names \intersect {"ARRAY", "RECORD", "CHAR", "NULL", "error", "panic", "overflow", "unsupported"} = {}
  /\ OidAliases \intersect Names = {}
  /\ PgNames \intersect {"ARRAY", "RECORD", "NULL", "error", "panic", "overflow"} = {}
<1>1. Names \intersect {"ARRAY", "RECORD", "CHAR", "NULL", "error", "panic", "overflow", "unsupported"} = {}
  BY DEF Names
<1>2. OidAliases \intersect Names = {}
  BY DEF OidAliases, Names
<1>3. ASSUME NEW name \in PgNames
      PROVE  name \notin {"ARRAY", "RECORD", "NULL", "error", "panic", "overflow"}
  <2>1. name \in Names \/ name \in OidAliases
        \/ name \in {"CHAR", "UUID", "JSON", "JSONB", "MONEY", "INET", "MACADDR", "none", NoType.name}
    BY KnownNames DEF PgNames
  <2>2. NoType.name = "unsupported"
    BY DEF NoType, PgType
  <2> QED BY <1>1, <2>1, <2>2 DEF OidAliases
<1> QED BY <1>1, <1>2, <1>3

\* What FieldIntoPgType is, kind by kind.
LEMMA TypeShape ==
  ASSUME NEW d \in 0 .. Nesting, NEW f \in FieldsAt[d]
  PROVE  LET type == FieldIntoPgType[f] IN
         /\ f \in PlainFields =>
              \/ f.alias \in OidAliases /\ f.kind = "Int32" /\ type = PgType(f.alias, <<>>)
              \/ f.kind \in Known /\ type = PgType(PgName(f.kind), <<>>)
              \/ f.kind \notin Known /\ type = NoType
         /\ f.kind \in ListKinds =>
              \/ f.of[1].kind = "Null" /\ type = PgType("ARRAY", <<PgType("TEXT", <<>>)>>)
              \/ /\ f.of[1].kind \in Known /\ f.of[1].kind # "Null"
                 /\ type = PgType("ARRAY", <<PgType(PgName(f.of[1].kind), <<>>)>>)
              \/ /\ f.of[1].kind = "Struct" /\ FieldIntoPgType[f.of[1]] # NoType
                 /\ type = PgType("ARRAY", <<FieldIntoPgType[f.of[1]]>>)
              \/ type = NoType
         /\ f.kind = "Dictionary" => type = FieldIntoPgType[f.of[1]]
         /\ f.kind = "Struct" =>
              \/ /\ \A i \in DOMAIN f.of : FieldIntoPgType[f.of[i]] # NoType
                 /\ type = PgType("RECORD", [i \in DOMAIN f.of |-> FieldIntoPgType[f.of[i]]])
              \/ type = NoType
<1> DEFINE types == [i \in DOMAIN f.of |-> FieldIntoPgType[f.of[i]]]
<1>1. FieldIntoPgType[f] = FieldIntoPgTypeOf(f, types)
  BY FieldShape, FieldIntoPgTypeIs
<1>2. CASE f \in PlainFields
  <2>1. f.kind \notin Containers /\ (f.alias = NoAlias \/ f.kind = "Int32")
    BY <1>2, PlainFieldShape
  <2>2. f.alias \in OidAliases => f.kind = "Int32" /\ FieldIntoPgType[f] = PgType(f.alias, <<>>)
    BY <1>1, <2>1 DEF FieldIntoPgTypeOf, OidAliases, NoAlias
  <2>3. f.alias \notin OidAliases => FieldIntoPgType[f] = IntoPgTypeOf(f, types)
    BY <1>1 DEF FieldIntoPgTypeOf
  <2>4. f.kind \in Known => IntoPgTypeOf(f, types) = PgType(PgName(f.kind), <<>>)
    BY <2>1 DEF IntoPgTypeOf, Containers
  <2>5. f.kind \notin Known => IntoPgTypeOf(f, types) = NoType
    BY <2>1 DEF IntoPgTypeOf, Containers
  <2>6. f.kind \notin ListKinds \union {"Dictionary", "Struct"}
    BY <2>1 DEF Containers
  <2> HIDE DEF types
  <2> QED BY <2>1, <2>2, <2>3, <2>4, <2>5, <2>6
<1>3. CASE f \notin PlainFields
  <2>1. f.kind \in Containers /\ f.alias = NoAlias
    BY <1>3, FieldShape DEF Containers
  <2>2. f.kind \notin Known
    BY <2>1, ContainersApart
  <2>3. FieldIntoPgType[f] = IntoPgTypeOf(f, types)
    BY <1>1, <2>1 DEF FieldIntoPgTypeOf, OidAliases, NoAlias
  <2>4. CASE f.kind \in ListKinds
    <3>1. types[1] = FieldIntoPgType[f.of[1]]
      BY <1>3, <2>4, FieldShape DEF ListKinds
    <3>2. f.kind # "Dictionary" /\ f.kind # "Struct"
      BY <2>4 DEF ListKinds
    <3> HIDE DEF types
    <3> QED BY <1>3, <2>2, <2>3, <2>4, <3>1, <3>2 DEF IntoPgTypeOf
  <2>5. CASE f.kind = "Dictionary"
    <3>1. types[1] = FieldIntoPgType[f.of[1]]
      BY <1>3, <2>5, FieldShape
    <3>2. f.kind \notin ListKinds
      BY <2>5 DEF ListKinds
    <3> HIDE DEF types
    <3> QED BY <1>3, <2>2, <2>3, <2>5, <3>1, <3>2 DEF IntoPgTypeOf
  <2>6. CASE f.kind = "Struct"
    <3>1. f.kind \notin ListKinds
      BY <2>6 DEF ListKinds
    <3>2. FieldIntoPgType[f] = IF NoType \in Range(types) THEN NoType ELSE PgType("RECORD", types)
      <4> HIDE DEF types
      <4> QED BY <2>2, <2>3, <2>6, <3>1 DEF IntoPgTypeOf
    <3>3. NoType \notin Range(types) => \A i \in DOMAIN f.of : FieldIntoPgType[f.of[i]] # NoType
      BY DEF Range
    <3> QED BY <1>3, <2>6, <3>1, <3>2, <3>3
  <2> QED BY <2>1, <2>4, <2>5, <2>6 DEF Containers
<1> QED BY <1>2, <1>3

\* A field is announced with a type that nests no deeper.
LEMMA TypesOfFields == \A d \in 0 .. Nesting : \A f \in FieldsAt[d] : FieldIntoPgType[f] \in PgTypesAt[d]
<1> DEFINE S == {d \in Nat : d \in 0 .. Nesting => \A f \in FieldsAt[d] : FieldIntoPgType[f] \in PgTypesAt[d]}
<1>1. ASSUME NEW d \in 0 .. Nesting, d \in 1 .. Nesting => d - 1 \in S, NEW f \in FieldsAt[d]
      PROVE  FieldIntoPgType[f] \in PgTypesAt[d]
  <2>1. NoType \in PgTypesAt[d]
    BY NameIsPlain, PlainPgTypesAlways
  <2>2. CASE f \in PlainFields
    <3>1. f.kind \in Known => PgType(PgName(f.kind), <<>>) \in PlainPgTypes
      BY NameIsPlain
    <3>2. f.alias \in OidAliases => PgType(f.alias, <<>>) \in PlainPgTypes
      BY NameIsPlain
    <3> QED BY <2>1, <2>2, <3>1, <3>2, TypeShape, PlainPgTypesAlways
  <2>3. CASE f \notin PlainFields
    <3>1. d \in 1 .. Nesting /\ d - 1 \in 0 .. Nesting /\ f.kind \in Containers
      BY <2>3, FieldShape DEF Containers
    <3>2. \A g \in FieldsAt[d - 1] : FieldIntoPgType[g] \in PgTypesAt[d - 1]
      BY <1>1, <3>1
    <3>3. PgTypesAt[d] = PlainPgTypes \union PgTypesOver(PgTypesAt[d - 1])
      BY <3>1, PgTypesAtLevels
    <3>4. CASE f.kind \in ListKinds
      <4>1. \A type \in PgTypesAt[d - 1] : PgType("ARRAY", <<type>>) \in PgTypesAt[d]
        BY <3>3 DEF PgTypesOver, PgType
      <4>2. PgType("TEXT", <<>>) \in PgTypesAt[d - 1]
        BY <3>1, NameIsPlain, PlainPgTypesAlways
      <4>3. \A kind \in Known : PgType(PgName(kind), <<>>) \in PgTypesAt[d - 1]
        BY <3>1, NameIsPlain, PlainPgTypesAlways
      <4>4. FieldIntoPgType[f.of[1]] \in PgTypesAt[d - 1]
        <5>1. f.of[1] \in FieldsAt[d - 1]
          BY <2>3, <3>4, FieldShape DEF ListKinds
        <5> QED BY <3>2, <5>1
      <4> QED BY <2>1, <3>4, <4>1, <4>2, <4>3, <4>4, TypeShape
    <3>5. CASE f.kind = "Dictionary"
      <4>1. f.of[1] \in FieldsAt[d - 1]
        BY <2>3, <3>5, FieldShape
      <4> QED BY <3>1, <3>2, <3>5, <4>1, TypeShape, PgTypesAtGrow
    <3>6. CASE f.kind = "Struct"
      <4>1. f.of \in Seq(FieldsAt[d - 1])
        BY <2>3, <3>6, FieldShape DEF ListKinds
      <4>2. [i \in DOMAIN f.of |-> FieldIntoPgType[f.of[i]]] \in Seq(PgTypesAt[d - 1])
        BY <3>2, <4>1
      <4>3. PgType("RECORD", [i \in DOMAIN f.of |-> FieldIntoPgType[f.of[i]]]) \in PgTypesAt[d]
        BY <3>3, <4>2 DEF PgTypesOver, PgType
      <4> QED BY <2>1, <3>6, <4>3, TypeShape
    <3> QED BY <3>1, <3>4, <3>5, <3>6 DEF Containers
  <2> QED BY <2>2, <2>3
<1>2. 0 \in S
  <2>1. 0 \in 0 .. Nesting /\ ~(0 \in 1 .. Nesting)
    OBVIOUS
  <2> QED BY <1>1, <2>1
<1>3. \A d \in 1 .. Nesting : d - 1 \in S => d \in S
  BY <1>1
<1> HIDE DEF S
<1>4. 0 .. Nesting \subseteq S
  BY <1>2, <1>3, UpTo
<1> QED BY <1>4 DEF S

-----------------------------------------------------------------------------
(* What is written for a cell of a type without parts *)

LEMMA NothingWritten ==
  /\ Nothing = [as |-> "NULL", parts |-> <<>>, over |-> FALSE]
  /\ Error = [as |-> "error", parts |-> <<>>, over |-> FALSE]
  /\ Panic = [as |-> "panic", parts |-> <<>>, over |-> FALSE]
  /\ Overflow = [as |-> "overflow", parts |-> <<>>, over |-> TRUE]
  /\ \A name : name # "overflow" => Wrote(name, <<>>) = [as |-> name, parts |-> <<>>, over |-> FALSE]
<1>1. \A i \in DOMAIN <<>> : FALSE
  OBVIOUS
<1>2. \A name : Wrote(name, <<>>) = [as |-> name, parts |-> <<>>, over |-> name = "overflow"]
  BY <1>1 DEF Wrote
<1>3. \A name : name # "overflow" => (name = "overflow") = FALSE
  OBVIOUS
<1>4. ("overflow" = "overflow") = TRUE
  OBVIOUS
<1>5. \A name : name # "overflow" => Wrote(name, <<>>) = [as |-> name, parts |-> <<>>, over |-> FALSE]
  BY <1>2, <1>3, Zenon
<1>6. "NULL" # "overflow" /\ "error" # "overflow" /\ "panic" # "overflow"
  OBVIOUS
<1>7. Overflow = [as |-> "overflow", parts |-> <<>>, over |-> TRUE]
  BY <1>2, <1>4, Zenon DEF Overflow
<1> QED BY <1>5, <1>6, <1>7 DEF Nothing, Error, Panic

Outcome(kind, v, w) ==
  \/ w = Nothing /\ (v.null \/ kind = "Null" \/ (kind \in Calendar /\ ~v.fits))
  \/ w = Overflow /\ kind = "Duration" /\ ~v.null
  \/ /\ kind \in Known \ {"Null"} /\ (v.null => kind \in Intervals)
     /\ w = Wrote(PgName(kind), <<>>) \/ (w = Wrote("CHAR", <<>>) /\ kind = "Int8")
  \/ w \in {Error, Panic}

LEMMA WrittenAsNamed ==
  /\ \A kind \in PlainKinds : Written(kind) = PgName(kind) \/ (Written(kind) = "CHAR" /\ kind = "Int8")
  /\ PgName("Decimal128") = "NUMERIC" /\ PgName("Int8") = "INT2" /\ PgName("Int32") = "INT4"
  /\ \A kind \in Spans : PgName(kind) = "INTERVAL"
<1>1. ASSUME NEW kind \in PlainKinds
      PROVE  Written(kind) = PgName(kind) \/ (Written(kind) = "CHAR" /\ kind = "Int8")
  <2>1. CASE kind \notin DOMAIN WrittenNumber
    BY <2>1 DEF Written
  <2>2. CASE kind \in DOMAIN WrittenNumber
    <3>1. kind \in DOMAIN PgNumbers
      BY <2>2 DEF WrittenNumber, PgNumbers
    <3>2. PgName(kind) = PgNumbers[kind]
      BY <3>1, TimestampKinds DEF PgName, PgNumbers, PgOthers, Spans, Intervals
    <3> QED BY <2>2, <3>2 DEF Written, WrittenNumber, PgNumbers
  <2> QED BY <2>1, <2>2
<1>2. PgName("Decimal128") = "NUMERIC" /\ PgName("Int8") = "INT2" /\ PgName("Int32") = "INT4"
  BY TimestampKinds DEF PgName, PgNumbers, PgOthers, Spans, Intervals
<1>3. ASSUME NEW kind \in Spans PROVE PgName(kind) = "INTERVAL"
  BY TimestampKinds DEF PgName, PgNumbers, PgOthers, Spans, Intervals
<1> QED BY <1>1, <1>2, <1>3

LEMMA SpansApart ==
  /\ PlainKinds \subseteq Known /\ Spans \subseteq Known /\ Intervals \subseteq Spans
  /\ PlainKinds \intersect (Spans \union {"Null", "Decimal128"}) = {}
  /\ Spans \intersect {"Null", "Decimal128"} = {}
  /\ {"Null", "Decimal128"} \subseteq Known /\ "Duration" \in Spans /\ "Duration" \notin Intervals
<1>1. Spans \subseteq Known /\ Intervals \subseteq Spans /\ "Duration" \in Spans
  BY DEF Known, Spans
<1>2. PlainKinds \subseteq Known /\ PlainKinds \intersect (Spans \union {"Null", "Decimal128"}) = {}
  BY DEF PlainKinds
<1>3. Spans \intersect {"Null", "Decimal128"} = {} /\ "Duration" \notin Intervals
  BY DEF Spans, Intervals
<1>4. {"Null", "Decimal128"} \subseteq Known
  BY KnownKinds DEF Kinds
<1> QED BY <1>1, <1>2, <1>3, <1>4

LEMMA GetterOutcome ==
  ASSUME NEW kind \in PlainKinds, NEW v \in Cells
  PROVE  Outcome(kind, v, Getter(kind, v))
<1>1. kind \in Known \ {"Null"}
  BY SpansApart
<1>2. CASE v.null \/ (kind \in Calendar /\ ~v.fits)
  BY <1>2 DEF Outcome, Getter
<1>3. CASE ~(v.null \/ (kind \in Calendar /\ ~v.fits))
  <2>1. Getter(kind, v) = Wrote(Written(kind), <<>>)
    BY <1>3 DEF Getter
  <2>2. Written(kind) = PgName(kind) \/ (Written(kind) = "CHAR" /\ kind = "Int8")
    BY WrittenAsNamed
  <2> QED BY <1>1, <1>3, <2>1, <2>2, Zenon DEF Outcome
<1> QED BY <1>2, <1>3

LEMMA NumericOutcome ==
  ASSUME NEW v \in Cells
  PROVE  Outcome("Decimal128", v, NumericGetter(v))
<1>1. "Decimal128" \in Known \ {"Null"} /\ PgName("Decimal128") = "NUMERIC"
  BY SpansApart, WrittenAsNamed
<1> QED BY <1>1 DEF Outcome, NumericGetter

LEMMA SpanOutcome ==
  ASSUME NEW v \in Cells
  PROVE  /\ Outcome("Duration", v, DurationGetter(v))
         /\ \A kind \in Intervals : Outcome(kind, v, IntervalGetter(v))
<1>1. \A kind \in Spans : kind \in Known \ {"Null"} /\ PgName(kind) = "INTERVAL"
  BY SpansApart, WrittenAsNamed
<1>2. Outcome("Duration", v, DurationGetter(v))
  BY <1>1, SpansApart DEF Outcome, DurationGetter
<1>3. \A kind \in Intervals : Outcome(kind, v, IntervalGetter(v))
  BY <1>1, SpansApart DEF Outcome, IntervalGetter
<1> QED BY <1>2, <1>3

LEMMA PlainOutcome ==
  ASSUME NEW kind, NEW v \in Cells
  PROVE  Outcome(kind, v, EncodePlain(kind, v))
<1>1. CASE kind \in PlainKinds
  <2>1. EncodePlain(kind, v) = Getter(kind, v)
    BY <1>1, SpansApart DEF EncodePlain
  <2> QED BY <1>1, <2>1, GetterOutcome
<1>2. CASE kind = "Null"
  <2>1. EncodePlain(kind, v) = Nothing
    BY <1>2, SpansApart DEF EncodePlain
  <2> QED BY <1>2, <2>1 DEF Outcome
<1>3. CASE kind = "Decimal128"
  <2>1. EncodePlain(kind, v) = NumericGetter(v)
    BY <1>3, SpansApart DEF EncodePlain
  <2> QED BY <1>3, <2>1, NumericOutcome
<1>4. CASE kind = "Duration"
  <2>1. EncodePlain(kind, v) = DurationGetter(v)
    BY <1>4, SpansApart DEF EncodePlain
  <2> QED BY <1>4, <2>1, SpanOutcome
<1>5. CASE kind \in Intervals
  <2>1. EncodePlain(kind, v) = IntervalGetter(v)
    BY <1>5, SpansApart DEF EncodePlain
  <2> QED BY <1>5, <2>1, SpanOutcome
<1>6. CASE kind \notin PlainKinds \union {"Null", "Decimal128", "Duration"} \union Intervals
  <2>1. EncodePlain(kind, v) = Error
    BY <1>6 DEF EncodePlain
  <2> QED BY <2>1 DEF Outcome
<1> QED BY <1>1, <1>2, <1>3, <1>4, <1>5, <1>6

\* In a list nothing is an error.
LEMMA ItemOutcome ==
  ASSUME NEW kind \in Known \ NotEncoded, NEW v \in Cells
  PROVE  Outcome(kind, v, EncodeItem(kind, v)) /\ EncodeItem(kind, v) # Error
<1>0. \A name : name # "error" /\ name # "overflow" => Wrote(name, <<>>) # Error
  BY NothingWritten
<1>1. CASE kind \in PlainKinds
  <2>1. EncodeItem(kind, v) = Getter(kind, v)
    BY <1>1, SpansApart DEF EncodeItem
  <2>2. Getter(kind, v) # Error
    <3>1. Written(kind) # "error" /\ Written(kind) # "overflow"
      BY <1>1, WrittenAsNamed, KnownNames, NamesApart, SpansApart
    <3> QED BY <1>0, <3>1, NothingWritten DEF Getter
  <2> QED BY <1>1, <2>1, <2>2, GetterOutcome
<1>2. CASE kind = "Null"
  <2>1. EncodeItem(kind, v) = Nothing
    BY <1>2, SpansApart DEF EncodeItem
  <2> QED BY <1>2, <2>1, NothingWritten DEF Outcome
<1>3. CASE kind = "Decimal128"
  <2>1. EncodeItem(kind, v) = IF v.null \/ v.fits THEN NumericGetter(v) ELSE Panic
    BY <1>3, SpansApart DEF EncodeItem
  <2>2. v.null \/ v.fits => NumericGetter(v) # Error
    BY <1>0, NothingWritten DEF NumericGetter
  <2>3. Outcome(kind, v, Panic) /\ Panic # Error
    BY NothingWritten DEF Outcome
  <2> QED BY <1>3, <2>1, <2>2, <2>3, NumericOutcome
<1>4. CASE kind \in Spans
  <2>1. EncodeItem(kind, v) = EncodeSpan(kind, v)
    BY <1>4, SpansApart DEF EncodeItem
  <2>2. Outcome(kind, v, Nothing) \/ ~v.null
    BY DEF Outcome
  <2>3. DurationGetter(v) # Error /\ IntervalGetter(v) # Error
    BY <1>0, NothingWritten DEF DurationGetter, IntervalGetter
  <2>4. Nothing # Error
    BY NothingWritten
  <2> QED BY <1>4, <2>1, <2>2, <2>3, <2>4, SpanOutcome DEF EncodeSpan, Spans
<1>5. kind \in PlainKinds \union {"Null", "Decimal128"} \union Spans
  BY DEF PlainKinds
<1> QED BY <1>1, <1>2, <1>3, <1>4, <1>5

LEMMA OutcomeWritten ==
  ASSUME NEW kind, NEW v \in Cells, NEW w, Outcome(kind, v, w)
  PROVE  w \in PlainWritten
<1>1. \A name \in PgNames \union {"NULL", "error", "panic"} : Wrote(name, <<>>) \in PlainWritten
  <2> SUFFICES ASSUME NEW name \in PgNames \union {"NULL", "error", "panic"}
               PROVE  Wrote(name, <<>>) \in PlainWritten
    OBVIOUS
  <2>1. name # "overflow"
    BY NamesApart
  <2>2. Wrote(name, <<>>) = [as |-> name, parts |-> <<>>, over |-> FALSE]
    BY <2>1, NothingWritten
  <2>3. name \in PgNames \union {"NULL", "error", "panic", "overflow"}
    OBVIOUS
  <2>4. [as |-> name, parts |-> <<>>, over |-> FALSE] \in PlainWritten
    BY <2>3, Zenon DEF PlainWritten
  <2> QED BY <2>2, <2>4
<1>2. Overflow \in PlainWritten
  BY NothingWritten DEF PlainWritten
<1>3. kind \in Known => PgName(kind) \in PgNames
  BY DEF PgNames
<1>4. "CHAR" \in PgNames
  BY DEF PgNames
<1> QED BY <1>1, <1>2, <1>3, <1>4 DEF Outcome, Nothing, Error, Panic

LEMMA PlainWrittenAlways ==
  /\ \A d \in 0 .. Nesting : PlainWritten \subseteq WrittenAt[d]
  /\ PlainWritten \subseteq AllWritten
  /\ {Nothing, Error, Panic, Overflow} \subseteq PlainWritten
<1>1. ASSUME NEW d \in 0 .. Nesting PROVE PlainWritten \subseteq WrittenAt[d]
  <2>1. d = 0 \/ d \in 1 .. Nesting
    OBVIOUS
  <2> QED BY <2>1, WrittenAtLevels
<1>2. PlainWritten \subseteq AllWritten
  BY <1>1 DEF AllWritten
<1>3. {Nothing, Error, Panic, Overflow} \subseteq PlainWritten
  BY NothingWritten DEF PlainWritten
<1> QED BY <1>1, <1>2, <1>3

\* NULL can be read as every type.
LEMMA ReadableShape ==
  ASSUME NEW type \in PgTypes
  PROVE  /\ Nothing \in ReadableAs[type]
         /\ \A w \in AllWritten :
              \/ w = Overflow /\ type.name = "INTERVAL"
              \/ w.as = type.name /\ type.of = <<>>
              \/ w.as = "INT4" /\ type.name \in OidAliases
              \/ w.as = "CHAR" /\ type.name = "INT2"
              => w \in ReadableAs[type]
         /\ \A w \in AllWritten :
              /\ w.as = type.name /\ w.as = "ARRAY" /\ 1 \in DOMAIN type.of
              /\ \A i \in DOMAIN w.parts : w.parts[i] \in ReadableAs[type.of[1]]
              => w \in ReadableAs[type]
         /\ \A w \in AllWritten :
              /\ w.as = type.name /\ w.as = "RECORD"
              /\ \A i \in DOMAIN w.parts : i \in DOMAIN type.of /\ w.parts[i] \in ReadableAs[type.of[i]]
              => w \in ReadableAs[type]
<1> DEFINE below == [i \in DOMAIN type.of |-> ReadableAs[type.of[i]]]
<1>1. ReadableAs[type] = ReadableAsOf(type, below)
  BY ReadableAsIs
<1>2. \A i \in DOMAIN type.of : below[i] = ReadableAs[type.of[i]]
  OBVIOUS
<1> HIDE DEF below
<1>3. Nothing \in ReadableAs[type]
  BY <1>1, PlainWrittenAlways DEF ReadableAsOf
<1>4. ASSUME NEW w \in AllWritten,
             \/ w = Overflow /\ type.name = "INTERVAL"
             \/ w.as = type.name /\ type.of = <<>>
             \/ w.as = "INT4" /\ type.name \in OidAliases
             \/ w.as = "CHAR" /\ type.name = "INT2"
      PROVE  w \in ReadableAs[type]
  BY <1>1, <1>4, Zenon DEF ReadableAsOf
<1>5. ASSUME NEW w \in AllWritten, w.as = type.name, w.as = "ARRAY", 1 \in DOMAIN type.of,
             \A i \in DOMAIN w.parts : w.parts[i] \in ReadableAs[type.of[1]]
      PROVE  w \in ReadableAs[type]
  BY <1>1, <1>2, <1>5 DEF ReadableAsOf
<1>6. ASSUME NEW w \in AllWritten, w.as = type.name, w.as = "RECORD",
             \A i \in DOMAIN w.parts : i \in DOMAIN type.of /\ w.parts[i] \in ReadableAs[type.of[i]]
      PROVE  w \in ReadableAs[type]
  BY <1>1, <1>2, <1>6 DEF ReadableAsOf
<1> QED BY <1>3, <1>4, <1>5, <1>6

LEMMA OutcomeReadable ==
  ASSUME NEW kind \in Known, NEW v \in Cells, NEW w, Outcome(kind, v, w), w \notin {Error, Panic}
  PROVE  /\ PgType(PgName(kind), <<>>) \in PgTypes => w \in ReadableAs[PgType(PgName(kind), <<>>)]
         /\ \A alias \in OidAliases : kind = "Int32" /\ PgType(alias, <<>>) \in PgTypes
                                        => w \in ReadableAs[PgType(alias, <<>>)]
         /\ kind = "Null" => w = Nothing
<1>1. w \in AllWritten
  BY OutcomeWritten, PlainWrittenAlways
<1>2. \/ w = Nothing
      \/ w = Overflow /\ kind = "Duration"
      \/ kind # "Null" /\ w.as = PgName(kind) 
      \/ w.as = "CHAR" /\ kind = "Int8"
  <2>1. PgName(kind) # "overflow" /\ "CHAR" # "overflow"
    BY KnownNames, NamesApart
  <2> QED BY <2>1, NothingWritten DEF Outcome
<1>3. "Int8" # "Null" /\ "Int8" # "Int32" /\ "Duration" # "Int32" /\ "Duration" # "Null"
  OBVIOUS
<1>4. PgName("Duration") = "INTERVAL"
  BY WrittenAsNamed, SpansApart
<1>5. \A name : PgType(name, <<>>).name = name /\ PgType(name, <<>>).of = <<>>
  BY DEF PgType
<1>6. ASSUME PgType(PgName(kind), <<>>) \in PgTypes PROVE w \in ReadableAs[PgType(PgName(kind), <<>>)]
  BY <1>1, <1>2, <1>4, <1>5, <1>6, ReadableShape, WrittenAsNamed, Zenon
<1>7. ASSUME NEW alias \in OidAliases, kind = "Int32", PgType(alias, <<>>) \in PgTypes
      PROVE  w \in ReadableAs[PgType(alias, <<>>)]
  BY <1>1, <1>2, <1>3, <1>5, <1>7, ReadableShape, WrittenAsNamed, Zenon
<1>8. kind = "Null" => w = Nothing
  BY <1>2, <1>3
<1> QED BY <1>6, <1>7, <1>8

\* What NullsKept is, kind by kind.
LEMMA KeptShape ==
  ASSUME NEW f \in Fields, NEW v \in CellsOf[f]
  PROVE  /\ f.kind = "Dictionary" /\ 1 \in DOMAIN f.of => NullsKept[f][v] = NullsKept[f.of[1]][v]
         /\ f.kind # "Dictionary" /\ v.null => Nothing \in NullsKept[f][v]
         /\ f.kind # "Dictionary" => \A w \in AllWritten :
              /\ \/ (v.null \/ f.kind = "Null") <=> w = Nothing
                 \/ f.kind \in Calendar /\ ~v.fits /\ w = Nothing
                 \/ f.kind \in Intervals /\ v.null
              /\ \/ w.as \notin {"ARRAY", "RECORD"}
                 \/ /\ w.as = "ARRAY" /\ 1 \in DOMAIN f.of /\ DOMAIN w.parts = DOMAIN v.items
                    /\ \A i \in DOMAIN w.parts : w.parts[i] \in NullsKept[f.of[1]][v.items[i]]
                 \/ /\ w.as = "RECORD" /\ DOMAIN w.parts = DOMAIN v.items
                    /\ \A i \in DOMAIN w.parts :
                         i \in DOMAIN f.of /\ w.parts[i] \in NullsKept[f.of[i]][v.items[i]]
              => w \in NullsKept[f][v]
<1> DEFINE below == [i \in DOMAIN f.of |-> NullsKept[f.of[i]]]
<1>1. NullsKept[f] = NullsKeptOf(f, below)
  BY NullsKeptIs
<1>2. \A i \in DOMAIN f.of : below[i] = NullsKept[f.of[i]]
  OBVIOUS
<1> HIDE DEF below
<1>3. NullsKept[f][v] = IF f.kind = "Dictionary" THEN below[1][v] ELSE {w \in AllWritten : Keeps(f, below, v, w)}
  BY <1>1 DEF NullsKeptOf
<1>4. f.kind # "Dictionary" => \A w \in AllWritten : Keeps(f, below, v, w) => w \in NullsKept[f][v]
  BY <1>3
<1>5. ASSUME f.kind # "Dictionary", v.null PROVE Nothing \in NullsKept[f][v]
  <2>1. Nothing.as \notin {"ARRAY", "RECORD"}
    BY NothingWritten
  <2>2. Keeps(f, below, v, Nothing)
    BY <1>5, <2>1, Zenon DEF Keeps
  <2> QED BY <1>4, <1>5, <2>2, PlainWrittenAlways
<1>6. ASSUME f.kind # "Dictionary", NEW w \in AllWritten,
             \/ (v.null \/ f.kind = "Null") <=> w = Nothing
             \/ f.kind \in Calendar /\ ~v.fits /\ w = Nothing
             \/ f.kind \in Intervals /\ v.null,
             \/ w.as \notin {"ARRAY", "RECORD"}
             \/ /\ w.as = "ARRAY" /\ 1 \in DOMAIN f.of /\ DOMAIN w.parts = DOMAIN v.items
                /\ \A i \in DOMAIN w.parts : w.parts[i] \in NullsKept[f.of[1]][v.items[i]]
             \/ /\ w.as = "RECORD" /\ DOMAIN w.parts = DOMAIN v.items
                /\ \A i \in DOMAIN w.parts :
                     i \in DOMAIN f.of /\ w.parts[i] \in NullsKept[f.of[i]][v.items[i]]
      PROVE  w \in NullsKept[f][v]
  <2>1. w.as \in {"ARRAY", "RECORD"} =>
          /\ DOMAIN w.parts = DOMAIN v.items
          /\ \A i \in DOMAIN w.parts : w.parts[i] \in below[IF w.as = "ARRAY" THEN 1 ELSE i][v.items[i]]
    BY <1>2, <1>6
  <2>2. Keeps(f, below, v, w)
    BY <1>6, <2>1, Zenon DEF Keeps
  <2> QED BY <1>4, <1>6, <2>2
<1> QED BY <1>2, <1>3, <1>5, <1>6, Zenon

LEMMA OutcomeKept ==
  ASSUME NEW f \in Fields, f.kind \notin Containers, NEW v \in CellsOf[f], v \in Cells,
         NEW w, Outcome(f.kind, v, w), w \notin {Error, Panic}
  PROVE  w \in NullsKept[f][v]
<1>1. w \in PlainWritten /\ w \in AllWritten
  BY OutcomeWritten, PlainWrittenAlways
<1>2. w.as \notin {"ARRAY", "RECORD"}
  BY <1>1, NamesApart DEF PlainWritten
<1>3. f.kind # "Dictionary"
  BY DEF Containers
<1>4. v.null \in BOOLEAN
  BY CellShape
<1>5. PgName(f.kind) \in Names => Wrote(PgName(f.kind), <<>>) # Nothing
  BY NothingWritten, NamesApart
<1>6. Wrote("CHAR", <<>>) # Nothing /\ Overflow # Nothing
  BY NothingWritten
<1>7. \/ (v.null \/ f.kind = "Null") <=> w = Nothing
      \/ f.kind \in Calendar /\ ~v.fits /\ w = Nothing
      \/ f.kind \in Intervals /\ v.null
  BY <1>5, <1>6, KnownNames DEF Outcome
<1> QED BY <1>1, <1>2, <1>3, <1>7, KeptShape

-----------------------------------------------------------------------------
(* What is written for a cell of any field *)

LEMMA EncodeShape ==
  ASSUME NEW d \in 0 .. Nesting, NEW f \in FieldsAt[d], NEW v \in CellsOf[f]
  PROVE  LET w == EncodeValue[f][v] IN
         /\ f.kind \notin Containers => w = EncodePlain(f.kind, v)
         /\ f.kind \in {"ListView", "LargeListView"} => w = Error
         /\ f.kind \in Containers /\ v.null => w \in {Nothing, Error}
         /\ f.kind = "List" /\ ~v.null =>
              \/ /\ f.of[1].kind \in Known \ NotEncoded
                 /\ w = Whole("ARRAY", [i \in DOMAIN v.items |-> EncodeItem(f.of[1].kind, v.items[i])])
              \/ /\ f.of[1].kind = "Struct"
                 /\ w = Whole("ARRAY", [i \in DOMAIN v.items |-> EncodeValue[f.of[1]][v.items[i]]])
              \/ w = Error
         /\ f.kind \in {"FixedSizeList", "LargeList"} /\ ~v.null => w = Panic
         /\ f.kind = "Struct" /\ ~v.null =>
              w = LET parts == [i \in DOMAIN f.of |-> EncodeValue[f.of[i]][v.items[i]]] IN
                  IF Error \in Range(parts) THEN Panic ELSE Whole("RECORD", parts)
         /\ f.kind = "Dictionary" /\ ~v.null => w = EncodeValue[f.of[1]][v]
         /\ f.kind = "Struct" /\ v.null => w = Nothing
         /\ f.kind = "Dictionary" /\ v.null => w = Nothing
<1> DEFINE below == [i \in DOMAIN f.of |-> EncodeValue[f.of[i]]]
<1>1. EncodeValue[f] = EncodeValueOf(f, below)
  BY FieldShape, EncodeValueIs
<1>2. EncodeValue[f][v] = EncodeCell(f, below, v)
  BY <1>1 DEF EncodeValueOf
<1>3. DOMAIN below = DOMAIN f.of /\ \A i \in DOMAIN f.of : below[i] = EncodeValue[f.of[i]]
  OBVIOUS
<1> HIDE DEF below
<1>4. f.kind \in ListKinds \union {"Dictionary"} => below[1] = EncodeValue[f.of[1]]
  <2>1. f.kind \in ListKinds \union {"Dictionary"} => 1 \in DOMAIN f.of
    BY FieldShape, PlainFieldShape DEF Containers, ListKinds
  <2> QED BY <1>3, <2>1
<1>5. CASE f.kind \notin Containers
  BY <1>2, <1>5 DEF EncodeCell, Containers, ListKinds
<1>6. CASE f.kind \in {"ListView", "LargeListView"}
  BY <1>2, <1>6 DEF EncodeCell, Containers, ListKinds
<1>7. CASE f.kind \in Containers \ {"ListView", "LargeListView"} /\ v.null
  BY <1>2, <1>7 DEF EncodeCell, Containers, ListKinds
<1>8. CASE f.kind = "List" /\ ~v.null
  <2>1. EncodeValue[f][v] = EncodeList(f.of[1], below, v.items)
    BY <1>2, <1>8 DEF EncodeCell, Containers, ListKinds
  <2>2. below[1] = EncodeValue[f.of[1]]
    BY <1>4, <1>8 DEF ListKinds
  <2> QED BY <1>8, <2>1, <2>2 DEF EncodeList, Containers, ListKinds
<1>9. CASE f.kind \in {"FixedSizeList", "LargeList"} /\ ~v.null
  BY <1>2, <1>9 DEF EncodeCell, Containers, ListKinds
<1>10. CASE f.kind = "Struct" /\ ~v.null
  <2>1. EncodeValue[f][v] = EncodeStruct(below, v.items)
    BY <1>2, <1>10 DEF EncodeCell, Containers, ListKinds
  <2>2. [i \in DOMAIN below |-> below[i][v.items[i]]] = [i \in DOMAIN f.of |-> EncodeValue[f.of[i]][v.items[i]]]
    BY <1>3
  <2>3. EncodeValue[f][v] = LET parts == [i \in DOMAIN f.of |-> EncodeValue[f.of[i]][v.items[i]]] IN
                            IF Error \in Range(parts) THEN Panic ELSE Whole("RECORD", parts)
    BY <2>1, <2>2 DEF EncodeStruct
  <2> QED BY <1>10, <2>3 DEF Containers, ListKinds
<1>11. CASE f.kind = "Dictionary" /\ ~v.null
  BY <1>2, <1>4, <1>11 DEF EncodeCell, Containers, ListKinds
<1> QED BY <1>5, <1>6, <1>7, <1>8, <1>9, <1>10, <1>11 DEF Containers, ListKinds

LEMMA WholeShape ==
  ASSUME NEW name \in {"ARRAY", "RECORD"}, NEW parts
  PROVE  /\ Panic \in Range(parts) => Whole(name, parts) = Panic
         /\ Panic \notin Range(parts) => Whole(name, parts) = Wrote(name, parts)
         /\ Wrote(name, parts).as = name /\ Wrote(name, parts).parts = parts
         /\ Wrote(name, parts).over \in BOOLEAN
         /\ Wrote(name, parts) \notin {Nothing, Error, Panic, Overflow}
<1>1. Wrote(name, parts).as = name /\ Wrote(name, parts).parts = parts
  BY DEF Wrote
<1>2. Wrote(name, parts).over \in BOOLEAN
  <2>1. (name = "overflow" \/ \E i \in DOMAIN parts : parts[i].over) \in BOOLEAN
    BY Zenon
  <2> QED BY <2>1 DEF Wrote
<1>3. Wrote(name, parts) \notin {Nothing, Error, Panic, Overflow}
  BY <1>1, NothingWritten
<1> QED BY <1>1, <1>2, <1>3 DEF Whole

\* Several parts that are written a level below.
LEMMA WholeWritten ==
  ASSUME NEW d \in 1 .. Nesting, NEW name \in {"ARRAY", "RECORD"}, NEW parts \in Seq(WrittenAt[d - 1])
  PROVE  Wrote(name, parts) \in WrittenAt[d] /\ Whole(name, parts) \in WrittenAt[d]
<1>1. WrittenAt[d] = PlainWritten \union WrittenOver(WrittenAt[d - 1])
  BY WrittenAtLevels
<1>2. Wrote(name, parts) \in WrittenOver(WrittenAt[d - 1])
  <2>1. (name = "overflow" \/ \E i \in DOMAIN parts : parts[i].over) \in BOOLEAN
    BY Zenon
  <2>2. name \in {"ARRAY", "RECORD"}
    OBVIOUS
  <2> QED BY <2>1, <2>2, Zenon DEF Wrote, WrittenOver
<1> QED BY <1>1, <1>2, PlainWrittenAlways DEF Whole

\* What is shown of a field, one level after the other.
Faithful(d, f) ==
  \A v \in CellsOf[f] :
    /\ EncodeValue[f][v] \in WrittenAt[d]
    /\ FieldIntoPgType[f] # NoType /\ EncodeValue[f][v] \notin {Error, Panic} =>
         /\ EncodeValue[f][v] \in ReadableAs[FieldIntoPgType[f]]
         /\ EncodeValue[f][v] \in NullsKept[f][v]
    /\ v.null => Nothing \in NullsKept[f][v]

LEMMA FaithfulPlain ==
  ASSUME NEW d \in 0 .. Nesting, NEW f \in FieldsAt[d], f \in PlainFields
  PROVE  Faithful(d, f)
<1> SUFFICES ASSUME NEW v \in CellsOf[f]
             PROVE  /\ EncodeValue[f][v] \in WrittenAt[d]
                    /\ FieldIntoPgType[f] # NoType /\ EncodeValue[f][v] \notin {Error, Panic} =>
                         /\ EncodeValue[f][v] \in ReadableAs[FieldIntoPgType[f]]
                         /\ EncodeValue[f][v] \in NullsKept[f][v]
                    /\ v.null => Nothing \in NullsKept[f][v]
  BY DEF Faithful
<1>1. f \in Fields /\ f.kind \notin Containers /\ f.kind # "Dictionary"
  BY PlainFieldShape DEF Containers
<1>2. v \in Cells
  BY CellsAreCells
<1>3. Outcome(f.kind, v, EncodeValue[f][v])
  <2>1. EncodeValue[f][v] = EncodePlain(f.kind, v)
    BY <1>1, EncodeShape
  <2> QED BY <1>2, <2>1, PlainOutcome
<1>4. EncodeValue[f][v] \in WrittenAt[d]
  BY <1>2, <1>3, OutcomeWritten, PlainWrittenAlways
<1>5. v.null => Nothing \in NullsKept[f][v]
  BY <1>1, KeptShape
<1>6. ASSUME FieldIntoPgType[f] # NoType, EncodeValue[f][v] \notin {Error, Panic}
      PROVE  EncodeValue[f][v] \in ReadableAs[FieldIntoPgType[f]]
  <2>1. FieldIntoPgType[f] \in PgTypes
    BY TypesOfFields, PgTypesAtTop
  <2>2. CASE f.alias \in OidAliases /\ f.kind = "Int32" /\ FieldIntoPgType[f] = PgType(f.alias, <<>>)
    <3>1. f.kind \in Known
      BY <2>2, KnownKinds DEF Kinds
    <3> QED BY <1>2, <1>3, <1>6, <2>1, <2>2, <3>1, OutcomeReadable
  <2>3. CASE f.kind \in Known /\ FieldIntoPgType[f] = PgType(PgName(f.kind), <<>>)
    BY <1>2, <1>3, <1>6, <2>1, <2>3, OutcomeReadable
  <2> QED BY <1>6, <2>2, <2>3, TypeShape
<1>7. EncodeValue[f][v] \notin {Error, Panic} => EncodeValue[f][v] \in NullsKept[f][v]
  BY <1>1, <1>2, <1>3, OutcomeKept
<1> QED BY <1>4, <1>5, <1>6, <1>7

LEMMA FaithfulDictionary ==
  ASSUME NEW d \in 1 .. Nesting, NEW f \in FieldsAt[d], f.kind = "Dictionary",
         \A g \in FieldsAt[d - 1] : Faithful(d - 1, g)
  PROVE  Faithful(d, f)
<1> SUFFICES ASSUME NEW v \in CellsOf[f]
             PROVE  /\ EncodeValue[f][v] \in WrittenAt[d]
                    /\ FieldIntoPgType[f] # NoType /\ EncodeValue[f][v] \notin {Error, Panic} =>
                         /\ EncodeValue[f][v] \in ReadableAs[FieldIntoPgType[f]]
                         /\ EncodeValue[f][v] \in NullsKept[f][v]
                    /\ v.null => Nothing \in NullsKept[f][v]
  BY DEF Faithful
<1>0. d \in 0 .. Nesting /\ f \in Fields
  BY FieldsAtTop
<1>1. f.kind \in Containers /\ f \notin PlainFields
  BY PlainFieldShape DEF Containers
<1>2. f.of[1] \in FieldsAt[d - 1] /\ 1 \in DOMAIN f.of
  BY <1>0, <1>1, FieldShape
<1>3. CellsOf[f] = CellsOf[f.of[1]] /\ FieldIntoPgType[f] = FieldIntoPgType[f.of[1]]
  BY <1>0, CellsOfShape, TypeShape
<1>4. NullsKept[f][v] = NullsKept[f.of[1]][v]
  BY <1>0, <1>2, KeptShape
<1>5. Faithful(d - 1, f.of[1])
  BY <1>2
<1>6. v.null \in BOOLEAN
  BY <1>0, CellsAreCells, CellShape
<1>7. CASE v.null
  <2>1. EncodeValue[f][v] = Nothing
    BY <1>0, <1>7, EncodeShape
  <2>2. Nothing \in NullsKept[f][v]
    BY <1>3, <1>4, <1>5, <1>7 DEF Faithful
  <2>3. FieldIntoPgType[f] \in PgTypes
    BY <1>0, TypesOfFields, PgTypesAtTop
  <2> QED BY <1>0, <2>1, <2>2, <2>3, ReadableShape, PlainWrittenAlways
<1>8. CASE ~v.null
  <2>1. EncodeValue[f][v] = EncodeValue[f.of[1]][v]
    BY <1>0, <1>8, EncodeShape
  <2>2. WrittenAt[d - 1] \subseteq WrittenAt[d]
    BY WrittenAtGrow
  <2> QED BY <1>3, <1>4, <1>5, <1>8, <2>1, <2>2 DEF Faithful
<1> QED BY <1>7, <1>8

\* An array whose items are not Panic.
LEMMA FaithfulArray ==
  ASSUME NEW d \in 1 .. Nesting, NEW f \in FieldsAt[d], f.kind = "List",
         NEW v \in CellsOf[f], ~v.null, NEW type,
         NEW parts \in Seq(WrittenAt[d - 1]), DOMAIN parts = DOMAIN v.items,
         \A i \in DOMAIN parts :
           /\ parts[i] # Panic => parts[i] \in NullsKept[f.of[1]][v.items[i]]
           /\ PgType("ARRAY", <<type>>) \in PgTypes /\ parts[i] # Panic => parts[i] \in ReadableAs[type]
  PROVE  LET w == Whole("ARRAY", parts) IN
         /\ w \in WrittenAt[d]
         /\ w # Panic => w \in NullsKept[f][v]
         /\ w # Panic /\ PgType("ARRAY", <<type>>) \in PgTypes => w \in ReadableAs[PgType("ARRAY", <<type>>)]
<1> DEFINE w == Whole("ARRAY", parts)
<1>0. d \in 0 .. Nesting /\ f \in Fields
  BY FieldsAtTop
<1>1. 1 \in DOMAIN f.of /\ f.kind # "Dictionary" /\ f.kind # "Null" /\ f.kind \notin Calendar /\ f.kind \notin Intervals
  <2>1. f \notin PlainFields
    BY PlainFieldShape DEF Containers, ListKinds
  <2>2. 1 \in DOMAIN f.of
    BY <1>0, <2>1, FieldShape
  <2>3. f.kind \notin Calendar /\ f.kind \notin Intervals /\ f.kind # "Null" /\ f.kind # "Dictionary"
    BY TimestampKinds DEF Calendar, Instants, Units, Timestamp, TimestampTz, Intervals
  <2> QED BY <2>2, <2>3
<1>3. w \in WrittenAt[d]
  BY WholeWritten
<1>4. CASE Panic \in Range(parts)
  BY <1>3, <1>4, WholeShape
<1>5. CASE Panic \notin Range(parts)
  <2>1. w = Wrote("ARRAY", parts) /\ w.as = "ARRAY" /\ w.parts = parts /\ w # Nothing
    BY <1>5, WholeShape
  <2>2. w \in AllWritten
    BY <1>0, <1>3, WrittenAtTop
  <2>3. \A i \in DOMAIN parts : parts[i] # Panic
    BY <1>5 DEF Range
  <2> HIDE DEF w
  <2>4. w \in NullsKept[f][v]
    BY <1>0, <1>1, <2>1, <2>2, <2>3, KeptShape
  <2>5. ASSUME PgType("ARRAY", <<type>>) \in PgTypes PROVE w \in ReadableAs[PgType("ARRAY", <<type>>)]
    <3>1. PgType("ARRAY", <<type>>).name = "ARRAY" /\ PgType("ARRAY", <<type>>).of = <<type>>
      BY DEF PgType
    <3>2. 1 \in DOMAIN <<type>> /\ <<type>>[1] = type
      OBVIOUS
    <3> QED BY <2>1, <2>2, <2>3, <2>5, <3>1, <3>2, ReadableShape
  <2> QED BY <1>3, <2>4, <2>5 DEF w
<1> QED BY <1>4, <1>5

LEMMA ListFields ==
  ASSUME NEW d \in 1 .. Nesting, NEW f \in FieldsAt[d], f.kind = "List", NEW v \in CellsOf[f], ~v.null
  PROVE  /\ f.of[1] \in FieldsAt[d - 1]
         /\ v.items \in Seq(Cells)
         /\ \A i \in DOMAIN v.items : v.items[i] \in CellsOf[f.of[1]] /\ v.items[i] \in Cells
<1>0. d \in 0 .. Nesting /\ d - 1 \in 0 .. Nesting
  OBVIOUS
<1>1. f.kind \in ListKinds /\ f.kind # "Dictionary" /\ f \notin PlainFields
  BY PlainFieldShape DEF Containers, ListKinds
<1>2. f.of[1] \in FieldsAt[d - 1]
  BY <1>0, <1>1, FieldShape
<1>3. v.items \in Seq(Cells)
  BY <1>0, CellsAreCells, CellShape
<1>4. \A i \in DOMAIN v.items : v.items[i] \in CellsOf[f.of[1]]
  BY <1>0, <1>1, CellsOfShape
<1> QED BY <1>0, <1>2, <1>3, <1>4, CellsAreCells

\* A list of a type without parts.
LEMMA FaithfulItems ==
  ASSUME NEW d \in 1 .. Nesting, NEW f \in FieldsAt[d], f.kind = "List",
         NEW v \in CellsOf[f], ~v.null, f.of[1].kind \in Known \ NotEncoded
  PROVE  LET w == Whole("ARRAY", [i \in DOMAIN v.items |-> EncodeItem(f.of[1].kind, v.items[i])]) IN
         /\ w \in WrittenAt[d]
         /\ w \notin {Error, Panic} => w \in NullsKept[f][v]
         /\ w \notin {Error, Panic} /\ FieldIntoPgType[f] # NoType => w \in ReadableAs[FieldIntoPgType[f]]
<1> DEFINE kind == f.of[1].kind
           parts == [i \in DOMAIN v.items |-> EncodeItem(kind, v.items[i])]
           type == IF kind = "Null" THEN PgType("TEXT", <<>>) ELSE PgType(PgName(kind), <<>>)
<1>0. d \in 0 .. Nesting /\ d - 1 \in 0 .. Nesting /\ f \in Fields
  BY FieldsAtTop
<1>1. /\ f.of[1] \in FieldsAt[d - 1] /\ f.of[1] \in Fields
      /\ v.items \in Seq(Cells)
      /\ \A i \in DOMAIN v.items : v.items[i] \in CellsOf[f.of[1]] /\ v.items[i] \in Cells
  BY <1>0, ListFields, FieldsAtTop
<1>2. DOMAIN parts = DOMAIN v.items /\ \A i \in DOMAIN v.items : parts[i] = EncodeItem(kind, v.items[i])
  OBVIOUS
<1>3. kind \in Known \ NotEncoded /\ kind \notin Containers
  BY ContainersApart
<1>4. \A i \in DOMAIN v.items : Outcome(kind, v.items[i], parts[i]) /\ parts[i] # Error
  <2> HIDE DEF parts, kind
  <2> QED BY <1>1, <1>2, <1>3, ItemOutcome
<1>5. \A i \in DOMAIN v.items : parts[i] \in WrittenAt[d - 1]
  <2> HIDE DEF parts, kind
  <2> QED BY <1>0, <1>1, <1>4, OutcomeWritten, PlainWrittenAlways
<1>6. parts \in Seq(WrittenAt[d - 1])
  <2>1. DOMAIN v.items = 1 .. Len(v.items) /\ Len(v.items) \in Nat
    BY <1>1
  <2>2. parts \in [1 .. Len(v.items) -> WrittenAt[d - 1]]
    BY <1>5, <2>1
  <2> HIDE DEF parts
  <2> QED BY <2>1, <2>2
<1>7. ASSUME NEW i \in DOMAIN parts, parts[i] # Panic
      PROVE  /\ parts[i] \in NullsKept[f.of[1]][v.items[i]]
             /\ PgType("ARRAY", <<type>>) \in PgTypes => parts[i] \in ReadableAs[type]
  <2>1. i \in DOMAIN v.items /\ Outcome(kind, v.items[i], parts[i]) /\ parts[i] \notin {Error, Panic}
    BY <1>2, <1>4, <1>7
  <2> HIDE DEF parts
  <2>2. parts[i] \in NullsKept[f.of[1]][v.items[i]]
    BY <1>1, <1>3, <2>1, OutcomeKept
  <2>3. type \in PgTypes
    <3>1. type \in PlainPgTypes
      BY <1>3, NameIsPlain
    <3> QED BY <1>0, <3>1, PlainPgTypesAlways DEF PgTypes
  <2>4. parts[i] \in ReadableAs[type]
    <3>1. CASE kind = "Null"
      <4>1. parts[i] = Nothing
        BY <1>1, <1>3, <2>1, <3>1, OutcomeReadable
      <4> HIDE DEF type
      <4> QED BY <2>3, <4>1, ReadableShape
    <3>2. CASE kind # "Null"
      <4>1. type = PgType(PgName(kind), <<>>)
        BY <3>2
      <4> HIDE DEF type, kind
      <4> QED BY <1>1, <1>3, <2>1, <2>3, <4>1, OutcomeReadable
    <3> QED BY <3>1, <3>2
  <2> QED BY <2>2, <2>4
<1>8. FieldIntoPgType[f] = PgType("ARRAY", <<type>>) \/ FieldIntoPgType[f] = NoType
  <2>1. f.kind \in ListKinds
    BY DEF ListKinds
  <2>2. kind # "Struct"
    BY <1>3 DEF Containers
  <2> QED BY <1>0, <2>1, <2>2, TypeShape
<1>9. FieldIntoPgType[f] \in PgTypes
  BY <1>0, TypesOfFields, PgTypesAtTop
<1> HIDE DEF type, parts
<1>10. LET w == Whole("ARRAY", parts) IN
       /\ w \in WrittenAt[d]
       /\ w # Panic => w \in NullsKept[f][v]
       /\ w # Panic /\ PgType("ARRAY", <<type>>) \in PgTypes => w \in ReadableAs[PgType("ARRAY", <<type>>)]
  BY <1>2, <1>6, <1>7, FaithfulArray
<1> QED BY <1>8, <1>9, <1>10 DEF parts

\* A record is written whole or not at all.
LEMMA StructNoError ==
  ASSUME NEW d \in 0 .. Nesting, NEW f \in FieldsAt[d], f.kind = "Struct", NEW v \in CellsOf[f], v.null \in BOOLEAN
  PROVE  EncodeValue[f][v] # Error
<1>1. CASE v.null
  <2>1. EncodeValue[f][v] = Nothing
    BY <1>1, EncodeShape, Zenon
  <2> QED BY <2>1, NothingWritten
<1>2. CASE ~v.null
  <2> DEFINE parts == [i \in DOMAIN f.of |-> EncodeValue[f.of[i]][v.items[i]]]
  <2>1. EncodeValue[f][v] = IF Error \in Range(parts) THEN Panic ELSE Whole("RECORD", parts)
    BY <1>2, EncodeShape
  <2> HIDE DEF parts
  <2> QED BY <2>1, NothingWritten, WholeShape
<1> QED BY <1>1, <1>2

\* A list of records.
LEMMA FaithfulRecords ==
  ASSUME NEW d \in 1 .. Nesting, NEW f \in FieldsAt[d], f.kind = "List",
         NEW v \in CellsOf[f], ~v.null, f.of[1].kind = "Struct",
         \A g \in FieldsAt[d - 1] : Faithful(d - 1, g)
  PROVE  LET w == Whole("ARRAY", [i \in DOMAIN v.items |-> EncodeValue[f.of[1]][v.items[i]]]) IN
         /\ w \in WrittenAt[d]
         /\ FieldIntoPgType[f] # NoType /\ w \notin {Error, Panic} =>
              w \in NullsKept[f][v] /\ w \in ReadableAs[FieldIntoPgType[f]]
<1> DEFINE g == f.of[1]
           parts == [i \in DOMAIN v.items |-> EncodeValue[g][v.items[i]]]
           type == FieldIntoPgType[g]
<1>0. d \in 0 .. Nesting /\ d - 1 \in 0 .. Nesting /\ f \in Fields
  BY FieldsAtTop
<1>1. /\ g \in FieldsAt[d - 1]
      /\ v.items \in Seq(Cells)
      /\ \A i \in DOMAIN v.items : v.items[i] \in CellsOf[g] /\ v.items[i] \in Cells
  BY <1>0, ListFields, FieldsAtTop
<1>2. DOMAIN parts = DOMAIN v.items /\ \A i \in DOMAIN v.items : parts[i] = EncodeValue[g][v.items[i]]
  OBVIOUS
<1>3. Faithful(d - 1, g)
  BY <1>1
<1>4. \A i \in DOMAIN v.items : parts[i] \in WrittenAt[d - 1]
  <2> HIDE DEF parts, g
  <2> QED BY <1>1, <1>2, <1>3 DEF Faithful
<1>5. parts \in Seq(WrittenAt[d - 1])
  <2>1. DOMAIN v.items = 1 .. Len(v.items) /\ Len(v.items) \in Nat
    BY <1>1
  <2>2. parts \in [1 .. Len(v.items) -> WrittenAt[d - 1]]
    BY <1>4, <2>1
  <2> HIDE DEF parts
  <2> QED BY <2>1, <2>2
<1>6. Whole("ARRAY", parts) \in WrittenAt[d]
  <2> HIDE DEF parts
  <2> QED BY <1>5, WholeWritten
<1>7. ASSUME FieldIntoPgType[f] # NoType, Whole("ARRAY", parts) \notin {Error, Panic}
      PROVE  Whole("ARRAY", parts) \in NullsKept[f][v] /\ Whole("ARRAY", parts) \in ReadableAs[FieldIntoPgType[f]]
  <2>1. type # NoType /\ FieldIntoPgType[f] = PgType("ARRAY", <<type>>)
    <3>1. f.kind \in ListKinds /\ "Struct" \notin Known /\ "Null" \in Known
      BY ContainersApart, SpansApart DEF ListKinds, Containers
    <3>2. g.kind = "Struct" /\ g.kind # "Null" /\ g.kind \notin Known
      BY <3>1
    <3> HIDE DEF g
    <3> QED BY <1>0, <1>7, <3>1, <3>2, TypeShape DEF g
  <2>2. FieldIntoPgType[f] \in PgTypes
    BY <1>0, TypesOfFields, PgTypesAtTop
  <2>3. ASSUME NEW i \in DOMAIN parts, parts[i] # Panic
        PROVE  parts[i] \in NullsKept[g][v.items[i]] /\ parts[i] \in ReadableAs[type]
    <3>1. i \in DOMAIN v.items /\ v.items[i] \in CellsOf[g] /\ v.items[i].null \in BOOLEAN
          /\ parts[i] = EncodeValue[g][v.items[i]]
      BY <1>1, <1>2, CellShape
    <3> HIDE DEF parts
    <3>2. parts[i] # Error
      BY <1>0, <1>1, <3>1, StructNoError
    <3> HIDE DEF g
    <3> QED BY <1>3, <2>1, <2>3, <3>1, <3>2 DEF Faithful
  <2> HIDE DEF type, parts
  <2>4. LET w == Whole("ARRAY", parts) IN
        /\ w # Panic => w \in NullsKept[f][v]
        /\ w # Panic /\ PgType("ARRAY", <<type>>) \in PgTypes => w \in ReadableAs[PgType("ARRAY", <<type>>)]
    BY <1>2, <1>5, <2>3, FaithfulArray
  <2> QED BY <1>7, <2>1, <2>2, <2>4
<1> QED BY <1>6, <1>7

LEMMA FaithfulList ==
  ASSUME NEW d \in 1 .. Nesting, NEW f \in FieldsAt[d], f.kind \in ListKinds,
         \A g \in FieldsAt[d - 1] : Faithful(d - 1, g)
  PROVE  Faithful(d, f)
<1> SUFFICES ASSUME NEW v \in CellsOf[f]
             PROVE  /\ EncodeValue[f][v] \in WrittenAt[d]
                    /\ FieldIntoPgType[f] # NoType /\ EncodeValue[f][v] \notin {Error, Panic} =>
                         /\ EncodeValue[f][v] \in ReadableAs[FieldIntoPgType[f]]
                         /\ EncodeValue[f][v] \in NullsKept[f][v]
                    /\ v.null => Nothing \in NullsKept[f][v]
  BY DEF Faithful
<1>0. d \in 0 .. Nesting /\ f \in Fields /\ f.kind \in Containers /\ f.kind # "Dictionary"
  BY FieldsAtTop DEF ListKinds, Containers
<1>1. v.null \in BOOLEAN
  BY <1>0, CellsAreCells, CellShape
<1>2. v.null => Nothing \in NullsKept[f][v]
  BY <1>0, KeptShape
<1>3. FieldIntoPgType[f] \in PgTypes
  BY <1>0, TypesOfFields, PgTypesAtTop
<1>4. Nothing \in ReadableAs[FieldIntoPgType[f]]
  BY <1>3, ReadableShape
<1>5. {Nothing, Error, Panic} \subseteq WrittenAt[d]
  BY <1>0, PlainWrittenAlways
<1>6. CASE v.null
  <2>1. EncodeValue[f][v] \in {Nothing, Error}
    BY <1>0, <1>6, EncodeShape, Zenon
  <2> QED BY <1>2, <1>4, <1>5, <1>6, <2>1
<1>7. CASE ~v.null /\ f.kind # "List"
  <2>1. EncodeValue[f][v] \in {Error, Panic}
    BY <1>0, <1>7, EncodeShape DEF ListKinds
  <2> QED BY <1>5, <1>7, <2>1
<1>8. CASE ~v.null /\ f.kind = "List"
  <2>1. CASE EncodeValue[f][v] = Error
    BY <1>5, <1>8, <2>1
  <2>2. CASE /\ f.of[1].kind \in Known \ NotEncoded
             /\ EncodeValue[f][v] = Whole("ARRAY", [i \in DOMAIN v.items |-> EncodeItem(f.of[1].kind, v.items[i])])
    BY <1>8, <2>2, FaithfulItems
  <2>3. CASE /\ f.of[1].kind = "Struct"
             /\ EncodeValue[f][v] = Whole("ARRAY", [i \in DOMAIN v.items |-> EncodeValue[f.of[1]][v.items[i]]])
    BY <1>8, <2>3, FaithfulRecords
  <2> QED BY <1>0, <1>8, <2>1, <2>2, <2>3, EncodeShape
<1> QED BY <1>1, <1>6, <1>7, <1>8

LEMMA FaithfulStruct ==
  ASSUME NEW d \in 1 .. Nesting, NEW f \in FieldsAt[d], f.kind = "Struct",
         \A g \in FieldsAt[d - 1] : Faithful(d - 1, g)
  PROVE  Faithful(d, f)
<1> SUFFICES ASSUME NEW v \in CellsOf[f]
             PROVE  /\ EncodeValue[f][v] \in WrittenAt[d]
                    /\ FieldIntoPgType[f] # NoType /\ EncodeValue[f][v] \notin {Error, Panic} =>
                         /\ EncodeValue[f][v] \in ReadableAs[FieldIntoPgType[f]]
                         /\ EncodeValue[f][v] \in NullsKept[f][v]
                    /\ v.null => Nothing \in NullsKept[f][v]
  BY DEF Faithful
<1>0. d \in 0 .. Nesting /\ f \in Fields /\ f.kind \in Containers /\ f.kind # "Dictionary"
  BY FieldsAtTop DEF ListKinds, Containers
<1>1. v.null \in BOOLEAN
  BY <1>0, CellsAreCells, CellShape
<1>2. v.null => Nothing \in NullsKept[f][v]
  BY <1>0, KeptShape
<1>3. FieldIntoPgType[f] \in PgTypes
  BY <1>0, TypesOfFields, PgTypesAtTop
<1>4. Nothing \in ReadableAs[FieldIntoPgType[f]]
  BY <1>3, ReadableShape
<1>5. {Nothing, Error, Panic} \subseteq WrittenAt[d]
  BY <1>0, PlainWrittenAlways
<1>6. CASE v.null
  <2>1. EncodeValue[f][v] = Nothing
    BY <1>0, <1>6, EncodeShape, Zenon
  <2> QED BY <1>2, <1>4, <1>5, <1>6, <2>1
<1>7. CASE ~v.null
  <2> DEFINE parts == [i \in DOMAIN f.of |-> EncodeValue[f.of[i]][v.items[i]]]
             types == [i \in DOMAIN f.of |-> FieldIntoPgType[f.of[i]]]
  <2>1. f.of \in Seq(FieldsAt[d - 1])
    <3>1. f \notin PlainFields /\ f.kind \notin ListKinds \union {"Dictionary"}
      BY <1>0, PlainFieldShape DEF ListKinds
    <3> QED BY <1>0, <3>1, FieldShape
  <2>2. DOMAIN v.items = DOMAIN f.of /\ \A i \in DOMAIN f.of : v.items[i] \in CellsOf[f.of[i]]
    BY <1>0, <1>7, CellsOfShape
  <2>3. \A i \in DOMAIN f.of : f.of[i] \in FieldsAt[d - 1] /\ Faithful(d - 1, f.of[i])
    BY <2>1
  <2>4. DOMAIN f.of = 1 .. Len(f.of) /\ Len(f.of) \in Nat
    BY <2>1
  <2>5. DOMAIN parts = DOMAIN f.of /\ \A i \in DOMAIN f.of : parts[i] = EncodeValue[f.of[i]][v.items[i]]
    OBVIOUS
  <2>6. \A i \in DOMAIN f.of : parts[i] \in WrittenAt[d - 1]
    <3> HIDE DEF parts
    <3> QED BY <2>2, <2>3, <2>5 DEF Faithful
  <2>7. parts \in Seq(WrittenAt[d - 1])
    <3>1. parts \in [1 .. Len(f.of) -> WrittenAt[d - 1]]
      BY <2>4, <2>6
    <3> HIDE DEF parts
    <3> QED BY <2>4, <3>1
  <2>8. EncodeValue[f][v] = IF Error \in Range(parts) THEN Panic ELSE Whole("RECORD", parts)
    BY <1>0, <1>7, EncodeShape
  <2>9. FieldIntoPgType[f] # NoType =>
          /\ \A i \in DOMAIN f.of : FieldIntoPgType[f.of[i]] # NoType
          /\ FieldIntoPgType[f] = PgType("RECORD", types)
    BY <1>0, TypeShape
  <2>10. DOMAIN types = DOMAIN f.of /\ \A i \in DOMAIN f.of : types[i] = FieldIntoPgType[f.of[i]]
    OBVIOUS
  <2>11. PgType("RECORD", types).name = "RECORD" /\ PgType("RECORD", types).of = types
    BY DEF PgType
  <2> HIDE DEF parts, types
  <2>12. EncodeValue[f][v] \in WrittenAt[d]
    BY <1>5, <2>7, <2>8, WholeWritten
  <2>13. ASSUME FieldIntoPgType[f] # NoType, EncodeValue[f][v] \notin {Error, Panic}
         PROVE  EncodeValue[f][v] \in ReadableAs[FieldIntoPgType[f]] /\ EncodeValue[f][v] \in NullsKept[f][v]
    <3> DEFINE w == EncodeValue[f][v]
    <3>1. Error \notin Range(parts) /\ Panic \notin Range(parts) /\ w = Wrote("RECORD", parts)
      BY <2>8, <2>13, WholeShape
    <3>2. w.as = "RECORD" /\ w.parts = parts /\ w # Nothing
      BY <3>1, WholeShape
    <3>3. w \in AllWritten
      BY <1>0, <2>12, WrittenAtTop
    <3>4. \A i \in DOMAIN f.of : parts[i] \notin {Error, Panic}
      BY <2>5, <3>1 DEF Range
    <3>5. \A i \in DOMAIN f.of :
            parts[i] \in ReadableAs[types[i]] /\ parts[i] \in NullsKept[f.of[i]][v.items[i]]
      BY <2>2, <2>3, <2>5, <2>9, <2>10, <2>13, <3>4 DEF Faithful
    <3> HIDE DEF w
    <3>6. w \in ReadableAs[FieldIntoPgType[f]]
      BY <1>3, <2>5, <2>9, <2>10, <2>11, <2>13, <3>2, <3>3, <3>5, ReadableShape
    <3>7. w \in NullsKept[f][v]
      <4>1. ~(v.null \/ f.kind = "Null")
        BY <1>7
      <4> QED BY <1>0, <2>2, <2>5, <3>2, <3>3, <3>5, <4>1, KeptShape
    <3> QED BY <3>6, <3>7 DEF w
  <2> QED BY <1>7, <2>12, <2>13
<1> QED BY <1>1, <1>6, <1>7

LEMMA FaithfulFields == \A d \in 0 .. Nesting : \A f \in FieldsAt[d] : Faithful(d, f)
<1> DEFINE S == {d \in Nat : d \in 0 .. Nesting => \A f \in FieldsAt[d] : Faithful(d, f)}
<1>1. ASSUME NEW d \in 0 .. Nesting, d \in 1 .. Nesting => d - 1 \in S, NEW f \in FieldsAt[d]
      PROVE  Faithful(d, f)
  <2>1. CASE f \in PlainFields
    BY <2>1, FaithfulPlain
  <2>2. CASE f \notin PlainFields
    <3>1. d \in 1 .. Nesting /\ d - 1 \in 0 .. Nesting /\ f.kind \in ListKinds \union {"Dictionary", "Struct"}
      BY <2>2, FieldShape
    <3>2. \A g \in FieldsAt[d - 1] : Faithful(d - 1, g)
      BY <1>1, <3>1
    <3> QED BY <3>1, <3>2, FaithfulList, FaithfulDictionary, FaithfulStruct
  <2> QED BY <2>1, <2>2
<1>2. 0 \in S
  <2>1. 0 \in 0 .. Nesting /\ ~(0 \in 1 .. Nesting)
    OBVIOUS
  <2> QED BY <1>1, <2>1
<1>3. \A d \in 1 .. Nesting : d - 1 \in S => d \in S
  BY <1>1
<1> HIDE DEF S
<1>4. 0 .. Nesting \subseteq S
  BY <1>2, <1>3, UpTo
<1> QED BY <1>4 DEF S

\* Whatever a field is made of, and however deep: a cell that is written can be
\* read as the type the field was announced with (encode_value, into_pg_type).
THEOREM WrittenReadable ==
  \A f \in Fields : \A v \in CellsOf[f] :
    FieldIntoPgType[f] # NoType /\ EncodeValue[f][v] \notin {Error, Panic} =>
      EncodeValue[f][v] \in ReadableAs[FieldIntoPgType[f]]
BY FaithfulFields DEF Fields, Faithful

\* It is NULL where the cell is, and has every part of it.
THEOREM WrittenKeepsNulls ==
  \A f \in Fields : \A v \in CellsOf[f] :
    FieldIntoPgType[f] # NoType /\ EncodeValue[f][v] \notin {Error, Panic} =>
      EncodeValue[f][v] \in NullsKept[f][v]
BY FaithfulFields DEF Fields, Faithful

=============================================================================
