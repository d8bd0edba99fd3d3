-------------------------- MODULE SqlRewrite_proofs ---------------------------
(***************************************************************************)
(* What the rules make of a statement, for all statements.  Trees are      *)
(* counted by levels, and what is recursive over them is shown to exist    *)
(* one level after the other (UpTo); then each rule is shown to keep trees *)
(* trees, and what it does to the nodes of a tree is carried along the     *)
(* order of the rules.                                                     *)
(***************************************************************************)
EXTENDS SqlRewrite, TokenRewrite_proofs, FiniteSetTheorems

-----------------------------------------------------------------------------
(* Levels *)

\* What holds of 0, and of each number that follows one it holds of.
LEMMA UpTo ==
  ASSUME NEW n \in Nat, NEW S, 0 \in S, \A d \in 1 .. n : d - 1 \in S => d \in S
  PROVE  0 .. n \subseteq S
<1> DEFINE Missing == (0 .. n) \ S
<1>1. SUFFICES ASSUME Missing # {} PROVE FALSE
  OBVIOUS
<1>2. PICK d \in Missing : \A m \in Missing : d <= m
  <2>1. Missing \subseteq Nat
    OBVIOUS
  <2> HIDE DEF Missing
  <2> QED BY <1>1, <2>1, LeastNumber
<1>3. d \in 1 .. n /\ d \notin S
  BY <1>2
<1>4. d - 1 \in 0 .. n /\ ~(d <= d - 1)
  BY <1>3
<1> QED BY <1>2, <1>3, <1>4

LEMMA DepthNat == MaxDepth \in Nat
BY DepthAssumption DEF DepthAssumption

USE DepthNat

\* The trees of a level over those of the levels below it.
LevelOver(g, d) ==
  IF d = 0 THEN {}
  ELSE {n \in NodesOver(g[d - 1]) :
          Grows(n) => \A i \in DOMAIN n.args : n.args[i] \in g[Below(d, Growth)]}

LEMMA BelowLess ==
  ASSUME NEW d \in Nat, d # 0
  PROVE  Below(d, Growth) \in 0 .. d - 1
BY DEF Below, Growth

LEMMA TreesAtExists == \E g : g = [d \in 0 .. MaxDepth |-> LevelOver(g, d)]
<1> DEFINE S == {n \in Nat : \E g : g = [d \in 0 .. n |-> LevelOver(g, d)]}
<1>1. 0 \in S
  <2> DEFINE g == [d \in 0 .. 0 |-> {}]
  <2>1. g = [d \in 0 .. 0 |-> LevelOver(g, d)]
    BY DEF LevelOver
  <2> QED BY <2>1
<1>2. ASSUME NEW n \in 1 .. MaxDepth, n - 1 \in S PROVE n \in S
  <2>0. n \in Nat
    OBVIOUS
  <2>1. PICK h : h = [d \in 0 .. n - 1 |-> LevelOver(h, d)]
    BY <1>2
  <2> DEFINE g == [d \in 0 .. n |-> LevelOver(h, d)]
  <2>2. \A e \in 0 .. n - 1 : g[e] = h[e]
    <3>1. \A e \in 0 .. n - 1 : e \in 0 .. n
      OBVIOUS
    <3> QED BY <2>1, <3>1
  <2>3. ASSUME NEW d \in 0 .. n PROVE LevelOver(g, d) = LevelOver(h, d)
    <3>1. CASE d = 0
      BY <3>1 DEF LevelOver
    <3>2. CASE d # 0
      <4>1. d - 1 \in 0 .. n - 1 /\ Below(d, Growth) \in 0 .. n - 1
        BY <3>2, BelowLess
      <4> HIDE DEF g
      <4>2. g[d - 1] = h[d - 1] /\ g[Below(d, Growth)] = h[Below(d, Growth)]
        BY <2>2, <4>1
      <4> QED BY <4>2 DEF LevelOver
    <3> QED BY <3>1, <3>2
  <2>4. g = [d \in 0 .. n |-> LevelOver(g, d)]
    BY <2>3
  <2> QED BY <2>0, <2>4
<1> HIDE DEF S
<1>3. MaxDepth \in S
  BY <1>1, <1>2, UpTo
<1> QED BY <1>3 DEF S

LEMMA TreesAtLevels ==
  /\ TreesAt[0] = {}
  /\ \A d \in 1 .. MaxDepth : TreesAt[d] =
       {n \in NodesOver(TreesAt[d - 1]) :
          Grows(n) => \A i \in DOMAIN n.args : n.args[i] \in TreesAt[Below(d, Growth)]}
<1>1. TreesAt = CHOOSE g : g = [d \in 0 .. MaxDepth |-> LevelOver(g, d)]
  BY Zenon DEF TreesAt, LevelOver
<1>2. TreesAt = [d \in 0 .. MaxDepth |-> LevelOver(TreesAt, d)]
  BY TreesAtExists, <1>1, Zenon
<1>3. \A d \in 0 .. MaxDepth : TreesAt[d] = LevelOver(TreesAt, d)
  BY <1>2, Zenon
<1>4. 0 \in 0 .. MaxDepth /\ \A d \in 1 .. MaxDepth : d \in 0 .. MaxDepth /\ d # 0
  OBVIOUS
<1> QED BY <1>3, <1>4 DEF LevelOver

\* The record a node of these arguments is.
Record(args) == [kind : Kinds, qual : Names, name : Names, alias : Names, args : Seq(args)]

\* The levels grow.
LEMMA TreesAtGrow ==
  ASSUME NEW a \in 0 .. MaxDepth, NEW b \in a .. MaxDepth
  PROVE  TreesAt[a] \subseteq TreesAt[b]
<1> DEFINE Grow(d) == \A e \in 0 .. d : \A c \in 0 .. e : TreesAt[c] \subseteq TreesAt[e]
           S == {d \in Nat : Grow(d)}
<1>1. 0 \in S
  OBVIOUS
<1>2. ASSUME NEW d \in 1 .. MaxDepth, d - 1 \in S PROVE d \in S
  <2>1. Grow(d - 1)
    BY <1>2
  <2>2. TreesAt[d - 1] \subseteq TreesAt[d]
    <3>1. CASE d = 1
      BY <3>1, TreesAtLevels
    <3>2. CASE d # 1
      <4>1. d - 1 \in 1 .. MaxDepth /\ d - 2 \in 0 .. d - 1
        BY <3>2
      <4>2. TreesAt[d - 2] \subseteq TreesAt[d - 1]
        BY <2>1, <4>1
      <4>3. /\ Below(d - 1, Growth) \in 0 .. d - 1 /\ Below(d, Growth) \in 0 .. d - 1
            /\ Below(d - 1, Growth) \in 0 .. Below(d, Growth)
        BY <4>1 DEF Below, Growth
      <4>4. TreesAt[Below(d - 1, Growth)] \subseteq TreesAt[Below(d, Growth)]
        BY <2>1, <4>3
      <4>5. TreesAt[d - 1] =
              {n \in NodesOver(TreesAt[d - 2]) :
                 Grows(n) => \A i \in DOMAIN n.args : n.args[i] \in TreesAt[Below(d - 1, Growth)]}
        BY <4>1, TreesAtLevels
      <4>6. NodesOver(TreesAt[d - 2]) \subseteq NodesOver(TreesAt[d - 1])
        <5>1. Seq(TreesAt[d - 2]) \subseteq Seq(TreesAt[d - 1])
          BY <4>2
        <5>2. Record(TreesAt[d - 2]) \subseteq Record(TreesAt[d - 1])
          BY <5>1 DEF Record
        <5> QED BY <5>2 DEF NodesOver, Record
      <4>7. TreesAt[d] =
              {n \in NodesOver(TreesAt[d - 1]) :
                 Grows(n) => \A i \in DOMAIN n.args : n.args[i] \in TreesAt[Below(d, Growth)]}
        BY TreesAtLevels
      <4> QED BY <4>4, <4>5, <4>6, <4>7
    <3> QED BY <3>1, <3>2
  <2>3. ASSUME NEW e \in 0 .. d, NEW c \in 0 .. e PROVE TreesAt[c] \subseteq TreesAt[e]
    <3>1. CASE e < d
      <4>1. e \in 0 .. d - 1
        BY <3>1
      <4> QED BY <2>1, <4>1
    <3>2. CASE e = d /\ c < d
      <4>1. d - 1 \in 0 .. d - 1 /\ c \in 0 .. d - 1
        BY <3>2
      <4>2. TreesAt[c] \subseteq TreesAt[d - 1]
        BY <2>1, <4>1
      <4> QED BY <2>2, <3>2, <4>2
    <3> QED BY <3>1, <3>2
  <2> QED BY <2>3
<1> HIDE DEF S
<1>3. 0 .. MaxDepth \subseteq S
  BY <1>1, <1>2, UpTo
<1>4. MaxDepth \in S
  BY <1>3
<1> QED BY <1>4 DEF S

LEMMA LevelsAreTrees ==
  ASSUME NEW d \in 0 .. MaxDepth
  PROVE  TreesAt[d] \subseteq Trees
BY TreesAtGrow DEF Trees

\* A tree of a level and what lies below it.
LEMMA TreeParts ==
  ASSUME NEW d \in 1 .. MaxDepth, NEW n \in TreesAt[d]
  PROVE  /\ n \in Record(TreesAt[d - 1]) /\ Shape(n)
         /\ \A i \in DOMAIN n.args : n.args[i] \in TreesAt[d - 1]
         /\ Grows(n) => \A i \in DOMAIN n.args : n.args[i] \in TreesAt[Below(d, Growth)]
<1>1. n \in NodesOver(TreesAt[d - 1])
  BY TreesAtLevels
<1>2. n \in Record(TreesAt[d - 1]) /\ Shape(n)
  BY <1>1 DEF NodesOver, Record
<1>3. n.args \in Seq(TreesAt[d - 1])
  BY <1>2 DEF Record
<1>4. \A i \in DOMAIN n.args : n.args[i] \in TreesAt[d - 1]
  BY <1>3
<1> QED BY <1>2, <1>4, TreesAtLevels

LEMMA MakeTree ==
  ASSUME NEW d \in 1 .. MaxDepth, NEW n \in Record(TreesAt[d - 1]), Shape(n),
         Grows(n) => \A i \in DOMAIN n.args : n.args[i] \in TreesAt[Below(d, Growth)]
  PROVE  n \in TreesAt[d]
<1>1. n \in NodesOver(TreesAt[d - 1])
  BY DEF NodesOver, Record
<1> QED BY <1>1, TreesAtLevels

\* What holds of the trees of a level if it holds of those below holds of all.
LEMMA LevelInduction ==
  ASSUME NEW S, \A d \in 1 .. MaxDepth : TreesAt[d - 1] \subseteq S => TreesAt[d] \subseteq S
  PROVE  Trees \subseteq S
<1> DEFINE L == {d \in Nat : TreesAt[d] \subseteq S}
<1>1. 0 \in L
  BY TreesAtLevels
<1>2. \A d \in 1 .. MaxDepth : d - 1 \in L => d \in L
  OBVIOUS
<1> HIDE DEF L
<1>3. 0 .. MaxDepth \subseteq L
  BY <1>1, <1>2, UpTo
<1>4. MaxDepth \in L
  BY <1>3
<1> QED BY <1>4 DEF L, Trees

\* A tree lies on a level.
LEMMA SomeLevel ==
  ASSUME NEW n \in Trees
  PROVE  MaxDepth \in 1 .. MaxDepth /\ n \in TreesAt[MaxDepth]
<1>1. MaxDepth # 0
  BY TreesAtLevels DEF Trees
<1> QED BY <1>1 DEF Trees

LEMMA TreeNode ==
  ASSUME NEW n \in Trees
  PROVE  n \in Record(Trees) /\ Shape(n) /\ \A i \in DOMAIN n.args : n.args[i] \in Trees
<1> DEFINE d == MaxDepth
<1>1. d \in 1 .. MaxDepth /\ n \in TreesAt[d]
  BY SomeLevel
<1>2. TreesAt[d - 1] \subseteq Trees
  BY <1>1, LevelsAreTrees
<1>3. /\ n \in Record(TreesAt[d - 1]) /\ Shape(n)
      /\ \A i \in DOMAIN n.args : n.args[i] \in TreesAt[d - 1]
  BY <1>1, TreeParts
<1>4. Seq(TreesAt[d - 1]) \subseteq Seq(Trees)
  BY <1>2
<1>5. n \in Record(Trees)
  BY <1>3, <1>4 DEF Record
<1> QED BY <1>2, <1>3, <1>5

\* What holds of a tree if it holds of its children holds of all.
LEMMA TreeInduction ==
  ASSUME NEW S, \A n \in Trees : (\A i \in DOMAIN n.args : n.args[i] \in S) => n \in S
  PROVE  Trees \subseteq S
<1>1. ASSUME NEW d \in 1 .. MaxDepth, TreesAt[d - 1] \subseteq S PROVE TreesAt[d] \subseteq S
  <2>1. TreesAt[d] \subseteq Trees
    BY LevelsAreTrees
  <2>2. ASSUME NEW n \in TreesAt[d] PROVE n \in S
    <3>1. \A i \in DOMAIN n.args : n.args[i] \in S
      BY <1>1, TreeParts
    <3> QED BY <2>1, <3>1
  <2> QED BY <2>2
<1> QED BY <1>1, LevelInduction

-----------------------------------------------------------------------------
(* Walks *)

ReachedStep(walk, h, n) ==
  {n} \union IF Stops(walk, n) THEN {} ELSE UNION {h[n.args[i]] : i \in DOMAIN n.args}

LEMMA ReachedExists ==
  ASSUME NEW walk
  PROVE  \E h : h = [n \in Trees |-> ReachedStep(walk, h, n)]
<1> DEFINE S == {d \in Nat : \E h : h = [n \in TreesAt[d] |-> ReachedStep(walk, h, n)]}
<1>1. 0 \in S
  <2> DEFINE h == [n \in TreesAt[0] |-> {}]
  <2>1. h = [n \in TreesAt[0] |-> ReachedStep(walk, h, n)]
    BY TreesAtLevels
  <2> QED BY <2>1
<1>2. ASSUME NEW d \in 1 .. MaxDepth, d - 1 \in S PROVE d \in S
  <2>1. PICK h : h = [n \in TreesAt[d - 1] |-> ReachedStep(walk, h, n)]
    BY <1>2
  <2> DEFINE g == [n \in TreesAt[d] |-> ReachedStep(walk, h, n)]
  <2>2. ASSUME NEW c \in TreesAt[d - 1] PROVE g[c] = h[c]
    <3>1. c \in TreesAt[d]
      BY TreesAtGrow
    <3> QED BY <2>1, <3>1
  <2>3. ASSUME NEW n \in TreesAt[d] PROVE ReachedStep(walk, g, n) = ReachedStep(walk, h, n)
    <3>1. \A i \in DOMAIN n.args : g[n.args[i]] = h[n.args[i]]
      <4> HIDE DEF g
      <4> QED BY <2>2, TreeParts
    <3> HIDE DEF g
    <3> QED BY <3>1 DEF ReachedStep
  <2>4. g = [n \in TreesAt[d] |-> ReachedStep(walk, g, n)]
    BY <2>3
  <2>5. d \in Nat
    OBVIOUS
  <2> QED BY <2>4, <2>5
<1> HIDE DEF S
<1>3. 0 .. MaxDepth \subseteq S
  BY <1>1, <1>2, UpTo
<1>4. MaxDepth \in S
  BY <1>3
<1> QED BY <1>4 DEF S, Trees

\* The nodes a walk comes to are the root and those it comes to below.
LEMMA ReachedNodes ==
  ASSUME NEW walk, NEW n \in Trees
  PROVE  Reached(walk)[n] =
           {n} \union IF Stops(walk, n) THEN {}
                      ELSE UNION {Reached(walk)[n.args[i]] : i \in DOMAIN n.args}
<1>1. Reached(walk) = CHOOSE h : h = [t \in Trees |-> ReachedStep(walk, h, t)]
  BY Zenon DEF Reached, ReachedStep
<1>2. Reached(walk) = [t \in Trees |-> ReachedStep(walk, Reached(walk), t)]
  BY ReachedExists, <1>1, Zenon
<1>3. Reached(walk)[n] = ReachedStep(walk, Reached(walk), n)
  BY <1>2, Zenon
<1> QED BY <1>3 DEF ReachedStep

LEMMA ReachedTrees ==
  ASSUME NEW walk, NEW t \in Trees
  PROVE  Reached(walk)[t] \subseteq Trees
<1> DEFINE S == {n \in Trees : Reached(walk)[n] \subseteq Trees}
<1>1. ASSUME NEW n \in Trees, \A i \in DOMAIN n.args : n.args[i] \in S PROVE n \in S
  <2>1. \A i \in DOMAIN n.args : Reached(walk)[n.args[i]] \subseteq Trees
    BY <1>1
  <2> QED BY <2>1, ReachedNodes
<1> HIDE DEF S
<1>2. Trees \subseteq S
  BY <1>1, TreeInduction
<1> QED BY <1>2 DEF S

\* All nodes are the root and those below its children.
LEMMA NodesOf ==
  ASSUME NEW n \in Trees
  PROVE  /\ Nodes(n) = {n} \union UNION {Nodes(n.args[i]) : i \in DOMAIN n.args}
         /\ Nodes(n) \subseteq Trees
<1>1. ~Stops("all", n)
  BY DEF Stops
<1> QED BY <1>1, ReachedNodes, ReachedTrees DEF Nodes

\* The trees all nodes of which are in a set.
All(S) == {t \in Trees : Nodes(t) \subseteq S}

LEMMA AllOver ==
  ASSUME NEW S, NEW n \in Trees
  PROVE  n \in All(S) <=> n \in S /\ \A i \in DOMAIN n.args : n.args[i] \in All(S)
<1>1. \A i \in DOMAIN n.args : n.args[i] \in Trees
  BY TreeNode
<1>2. Nodes(n) = {n} \union UNION {Nodes(n.args[i]) : i \in DOMAIN n.args}
  BY NodesOf
<1>3. Nodes(n) \subseteq S <=> n \in S /\ \A i \in DOMAIN n.args : Nodes(n.args[i]) \subseteq S
  BY <1>2
<1> QED BY <1>1, <1>3 DEF All

-----------------------------------------------------------------------------
(* Making trees *)

Cautious == {"all", "cast", "castas"}

LEMMA NotGrowing == ASSUME NEW n, n.kind \notin Cautious PROVE ~Grows(n)
BY DEF Grows, Cautious

LEMMA RecordFields ==
  ASSUME NEW S, NEW n \in Record(S)
  PROVE  /\ n.kind \in Kinds /\ n.qual \in Names /\ n.name \in Names /\ n.alias \in Names
         /\ n.args \in Seq(S) /\ DOMAIN n.args = 1 .. Len(n.args) /\ Len(n.args) \in Nat
         /\ \A i \in DOMAIN n.args : n.args[i] \in S
<1>1. n.args \in Seq(S)
  BY DEF Record
<1> QED BY <1>1 DEF Record

LEMMA NodeFields ==
  ASSUME NEW S, NEW k \in Kinds, NEW q \in Names, NEW m \in Names, NEW a \in Names, NEW s \in Seq(S)
  PROVE  /\ Node(k, q, m, a, s) \in Record(S)
         /\ Node(k, q, m, a, s).kind = k /\ Node(k, q, m, a, s).qual = q
         /\ Node(k, q, m, a, s).name = m /\ Node(k, q, m, a, s).alias = a
         /\ Node(k, q, m, a, s).args = s
BY DEF Node, Record

LEMMA NodeTree ==
  ASSUME NEW d \in 1 .. MaxDepth, NEW k \in Kinds \ Cautious,
         NEW q \in Names, NEW m \in Names, NEW a \in Names, NEW s \in Seq(TreesAt[d - 1]),
         Shape(Node(k, q, m, a, s))
  PROVE  Node(k, q, m, a, s) \in TreesAt[d]
<1>1. /\ Node(k, q, m, a, s) \in Record(TreesAt[d - 1])
      /\ Node(k, q, m, a, s).kind = k
  BY NodeFields
<1> QED BY <1>1, NotGrowing, MakeTree

\* A node with other arguments.
LEMMA WithArgsFields ==
  ASSUME NEW S, NEW T, NEW n \in Record(S), NEW s \in Seq(T)
  PROVE  /\ WithArgs(n, s) \in Record(T) /\ WithArgs(n, s).args = s
         /\ WithArgs(n, s).kind = n.kind /\ WithArgs(n, s).qual = n.qual
         /\ WithArgs(n, s).name = n.name /\ WithArgs(n, s).alias = n.alias
BY DEF WithArgs, Record

LEMMA WithArgFields ==
  ASSUME NEW S, NEW n \in Record(S), NEW i \in DOMAIN n.args, NEW a \in S
  PROVE  /\ WithArg(n, i, a) \in Record(S)
         /\ WithArg(n, i, a).kind = n.kind /\ WithArg(n, i, a).qual = n.qual
         /\ WithArg(n, i, a).name = n.name /\ WithArg(n, i, a).alias = n.alias
         /\ Len(WithArg(n, i, a).args) = Len(n.args)
         /\ DOMAIN WithArg(n, i, a).args = DOMAIN n.args
         /\ WithArg(n, i, a).args[i] = a
         /\ \A j \in DOMAIN n.args : j # i => WithArg(n, i, a).args[j] = n.args[j]
<1> DEFINE s == [n.args EXCEPT ![i] = a]
<1>1. n.args \in Seq(S) /\ DOMAIN n.args = 1 .. Len(n.args)
  BY RecordFields
<1>2. s \in Seq(S) /\ Len(s) = Len(n.args) /\ DOMAIN s = DOMAIN n.args
  BY <1>1
<1>3. s[i] = a /\ \A j \in DOMAIN n.args : j # i => s[j] = n.args[j]
  BY <1>1
<1>4. WithArg(n, i, a) = WithArgs(n, s)
  BY DEF WithArg
<1> HIDE DEF s
<1> QED BY <1>2, <1>3, <1>4, WithArgsFields

LEMMA MapSeq ==
  ASSUME NEW A, NEW B, NEW s \in Seq(A), NEW g, g = [i \in DOMAIN s |-> g[i]],
         \A i \in DOMAIN s : g[i] \in B
  PROVE  g \in Seq(B) /\ Len(g) = Len(s) /\ DOMAIN g = DOMAIN s
<1>1. DOMAIN s = 1 .. Len(s) /\ Len(s) \in Nat
  OBVIOUS
<1>2. g \in [1 .. Len(s) -> B]
  BY <1>1
<1>3. g \in Seq(B)
  BY <1>1, <1>2
<1>4. DOMAIN g = 1 .. Len(s)
  BY <1>2
<1> QED BY <1>1, <1>3, <1>4

\* The kinds of children that any node but a few may have.
Free == Kinds \ {"braces", "items", "sources", "select", "query", "subquery", "derived"}

LEMMA FreeChildren ==
  ASSUME NEW k \in Free, NEW i
  PROVE  ChildKinds(k, i) = Kinds \ Lists
BY DEF Free, ChildKinds

\* A node of the same kind over children of the same kinds.
LEMMA SameShape ==
  ASSUME NEW S, NEW n \in Record(S), NEW T, NEW m \in Record(T), Shape(n), m.kind = n.kind,
         Len(m.args) = Len(n.args),
         \A i \in DOMAIN n.args : m.args[i].kind \in ChildKinds(n.kind, i),
         m.kind = "register" => m.name \in Registers
  PROVE  Shape(m)
<1>1. DOMAIN m.args = DOMAIN n.args
  BY RecordFields
<1>2. n.args = <<>> => m.args = <<>>
  <2>1. n.args \in Seq(S) /\ m.args \in Seq(T)
    BY RecordFields
  <2> QED BY <2>1
<1> QED BY <1>1, <1>2 DEF Shape

LEMMA WithArgTree ==
  ASSUME NEW d \in 1 .. MaxDepth, NEW n \in TreesAt[d], n.kind \notin Cautious,
         NEW i \in DOMAIN n.args, NEW a \in TreesAt[d - 1], a.kind \in ChildKinds(n.kind, i)
  PROVE  WithArg(n, i, a) \in TreesAt[d]
<1>1. n \in Record(TreesAt[d - 1]) /\ Shape(n)
  BY TreeParts
<1>2. /\ WithArg(n, i, a) \in Record(TreesAt[d - 1])
      /\ WithArg(n, i, a).kind = n.kind /\ WithArg(n, i, a).name = n.name
      /\ Len(WithArg(n, i, a).args) = Len(n.args)
      /\ WithArg(n, i, a).args[i] = a
      /\ \A j \in DOMAIN n.args : j # i => WithArg(n, i, a).args[j] = n.args[j]
  BY <1>1, WithArgFields
<1>3. \A j \in DOMAIN n.args : WithArg(n, i, a).args[j].kind \in ChildKinds(n.kind, j)
  BY <1>1, <1>2 DEF Shape
<1>4. n.kind = "register" => n.name \in Registers
  BY <1>1 DEF Shape
<1>5. Shape(WithArg(n, i, a))
  BY <1>1, <1>2, <1>3, <1>4, SameShape
<1> QED BY <1>2, <1>5, NotGrowing, MakeTree

LEMMA Positive ==
  ASSUME NEW d \in 0 .. MaxDepth, NEW n \in TreesAt[d]
  PROVE  d \in 1 .. MaxDepth /\ d - 1 \in 0 .. MaxDepth
<1>1. d # 0
  BY TreesAtLevels
<1> QED BY <1>1

LEMMA ChildParts ==
  ASSUME NEW d \in 1 .. MaxDepth, NEW n \in TreesAt[d], NEW i \in DOMAIN n.args
  PROVE  /\ d - 1 \in 1 .. MaxDepth /\ n.args[i] \in TreesAt[d - 1]
         /\ n.args[i].kind \in ChildKinds(n.kind, i)
<1>1. n.args[i] \in TreesAt[d - 1] /\ Shape(n)
  BY TreeParts
<1>2. d - 1 \in 1 .. MaxDepth
  BY <1>1, Positive
<1> QED BY <1>1, <1>2 DEF Shape

\* The levels of a query over a select.
LEMMA QueryParts ==
  ASSUME NEW d \in 1 .. MaxDepth, NEW q \in TreesAt[d], TopSelect(q)
  PROVE  /\ d - 1 \in 1 .. MaxDepth /\ d - 2 \in 1 .. MaxDepth /\ d - 3 \in 0 .. MaxDepth
         /\ DOMAIN q.args = 1 .. 2 /\ DOMAIN q.args[1].args = 1 .. 3
         /\ q.args[1] \in TreesAt[d - 1] /\ q.args[1].kind = "select"
         /\ q.args[1].args[1] \in TreesAt[d - 2] /\ q.args[1].args[1].kind = "items"
         /\ q.args[1].args[2] \in TreesAt[d - 2] /\ q.args[1].args[2].kind = "sources"
         /\ Where(q) \in TreesAt[d - 2] /\ Where(q).kind = "list"
         /\ Order(q) \in TreesAt[d - 1] /\ Order(q).kind = "list"
<1>1. q \in Record(TreesAt[d - 1]) /\ Shape(q) /\ q.kind = "query" /\ q.args[1].kind = "select"
  BY TreeParts DEF TopSelect, IsSelect
<1>2. DOMAIN q.args = 1 .. 2
  <2>1. Len(q.args) = 2
    BY <1>1 DEF Shape
  <2> QED BY <1>1, <2>1, RecordFields
<1>3. 1 \in DOMAIN q.args /\ 2 \in DOMAIN q.args
  BY <1>2
<1>4. /\ d - 1 \in 1 .. MaxDepth
      /\ q.args[1] \in TreesAt[d - 1] /\ q.args[2] \in TreesAt[d - 1] /\ q.args[2].kind = "list"
  <2>1. ChildKinds("query", 2) = {"list"}
    BY DEF ChildKinds
  <2> QED BY <1>1, <1>3, <2>1, ChildParts
<1> DEFINE s == q.args[1]
           e == d - 1
<1>5. s \in Record(TreesAt[e - 1]) /\ Shape(s)
  BY <1>4, TreeParts
<1>6. DOMAIN s.args = 1 .. 3
  <2>1. Len(s.args) = 3
    BY <1>1, <1>5 DEF Shape
  <2> QED BY <1>5, <2>1, RecordFields
<1>7. 1 \in DOMAIN s.args /\ 2 \in DOMAIN s.args /\ 3 \in DOMAIN s.args
  BY <1>6
<1>8. \A i \in {1, 2, 3} : /\ e - 1 \in 1 .. MaxDepth /\ s.args[i] \in TreesAt[e - 1]
                           /\ s.args[i].kind \in ChildKinds("select", i)
  BY <1>1, <1>4, <1>7, ChildParts
<1>9. /\ ChildKinds("select", 1) = {"items"} /\ ChildKinds("select", 2) = {"sources"}
      /\ ChildKinds("select", 3) = {"list"}
  BY DEF ChildKinds
<1>10. e - 1 = d - 2 /\ d - 2 \in 1 .. MaxDepth /\ d - 3 \in 0 .. MaxDepth
  BY <1>8
<1> QED BY <1>1, <1>2, <1>4, <1>6, <1>8, <1>9, <1>10 DEF Where, Order

\* The items of a select.
LEMMA ItemsParts ==
  ASSUME NEW d \in 1 .. MaxDepth, NEW q \in TreesAt[d], TopSelect(q)
  PROVE  /\ d - 3 \in 0 .. MaxDepth
         /\ Items(q) \in Seq(TreesAt[d - 3]) /\ DOMAIN Items(q) = 1 .. Len(Items(q))
         /\ \A k \in DOMAIN Items(q) :
              /\ Items(q)[k] \in TreesAt[d - 3] /\ Items(q)[k].kind \in ItemKinds
              /\ d - 3 \in 1 .. MaxDepth /\ d - 4 \in 0 .. MaxDepth
<1> DEFINE e == d - 2
           l == q.args[1].args[1]
<1>1. e \in 1 .. MaxDepth /\ d - 3 \in 0 .. MaxDepth /\ l \in TreesAt[e] /\ l.kind = "items"
  BY QueryParts
<1>2. l \in Record(TreesAt[e - 1])
  BY <1>1, TreeParts
<1>3. Items(q) = l.args /\ e - 1 = d - 3 /\ d - 3 - 1 = d - 4
  BY DEF Items
<1>4. Items(q) \in Seq(TreesAt[d - 3]) /\ DOMAIN Items(q) = 1 .. Len(Items(q))
  BY <1>2, <1>3, RecordFields
<1>5. ASSUME NEW k \in DOMAIN Items(q)
      PROVE  /\ d - 3 \in 1 .. MaxDepth /\ d - 4 \in 0 .. MaxDepth
             /\ Items(q)[k] \in TreesAt[d - 3] /\ Items(q)[k].kind \in ItemKinds
  <2>1. /\ e - 1 \in 1 .. MaxDepth /\ l.args[k] \in TreesAt[e - 1]
        /\ l.args[k].kind \in ChildKinds("items", k)
    BY <1>1, <1>3, ChildParts
  <2>2. d - 3 - 1 \in 0 .. MaxDepth
    BY <2>1, <1>3
  <2> HIDE DEF e, l
  <2> QED BY <1>3, <2>1, <2>2 DEF ChildKinds
<1> QED BY <1>1, <1>4, <1>5

LEMMA ItemParts ==
  ASSUME NEW d \in 1 .. MaxDepth, NEW i \in TreesAt[d], i.kind \in {"unnamed", "aliased"}
  PROVE  /\ DOMAIN i.args = {1} /\ ItemExpr(i) \in TreesAt[d - 1] /\ d - 1 \in 1 .. MaxDepth
         /\ ItemExpr(i).kind \in Kinds \ Lists
<1>1. i \in Record(TreesAt[d - 1]) /\ Shape(i)
  BY TreeParts
<1>2. Len(i.args) = 1
  BY <1>1 DEF Shape, UnaryKinds
<1>3. DOMAIN i.args = {1}
  BY <1>1, <1>2, RecordFields
<1>4. ItemExpr(i) = i.args[1] /\ 1 \in DOMAIN i.args
  BY <1>3 DEF ItemExpr
<1>5. ChildKinds(i.kind, 1) = Kinds \ Lists
  BY DEF ChildKinds
<1> QED BY <1>3, <1>4, <1>5, ChildParts

\* A query with other items in the place of its items.
LEMMA WithItemsFields ==
  ASSUME NEW d \in 1 .. MaxDepth, NEW q \in TreesAt[d], TopSelect(q),
         NEW s \in Seq(TreesAt[d - 3]), \A k \in DOMAIN s : s[k].kind \in ItemKinds
  PROVE  /\ WithItems(q, s) \in TreesAt[d]
         /\ TopSelect(WithItems(q, s))
         /\ WithItems(q, s).kind = q.kind /\ WithItems(q, s).name = q.name
         /\ WithItems(q, s).qual = q.qual /\ WithItems(q, s).alias = q.alias
         /\ Items(WithItems(q, s)) = s /\ From(WithItems(q, s)) = From(q)
         /\ Where(WithItems(q, s)) = Where(q) /\ Order(WithItems(q, s)) = Order(q)
         /\ WithItems(q, s).args[1].args[2] = q.args[1].args[2]
<1> DEFINE b == q.args[1]
           l == b.args[1]
           l1 == WithArgs(l, s)
           b1 == WithArg(b, 1, l1)
           q1 == WithArg(q, 1, b1)
<1>1. /\ d - 1 \in 1 .. MaxDepth /\ d - 2 \in 1 .. MaxDepth
      /\ DOMAIN q.args = 1 .. 2 /\ DOMAIN b.args = 1 .. 3
      /\ b \in TreesAt[d - 1] /\ b.kind = "select"
      /\ l \in TreesAt[d - 2] /\ l.kind = "items"
  BY QueryParts
<1>2. d - 1 - 1 = d - 2 /\ d - 2 - 1 = d - 3 /\ 1 \in 1 .. 2 /\ 1 \in 1 .. 3 /\ 2 \in 1 .. 2 /\ 2 \in 1 .. 3 /\ 3 \in 1 .. 3
  BY <1>1
<1>3. /\ q \in Record(TreesAt[d - 1]) /\ b \in Record(TreesAt[d - 2]) /\ l \in Record(TreesAt[d - 3])
  BY <1>1, <1>2, TreeParts
<1> HIDE DEF b, l
<1>4. /\ l1 \in Record(TreesAt[d - 3]) /\ l1.args = s /\ l1.kind = "items" /\ l1.name = l.name
  BY <1>1, <1>3, WithArgsFields
<1>5. Shape(l1)
  <2>1. \A k \in DOMAIN s : s[k].kind \in ChildKinds("items", k)
    BY DEF ChildKinds
  <2> HIDE DEF l1
  <2> QED BY <1>4, <2>1 DEF Shape, LeafKinds, UnaryKinds, BinaryKinds
<1>6. l1 \in TreesAt[d - 2]
  <2> HIDE DEF l1
  <2>1. ~Grows(l1)
    BY <1>4, NotGrowing DEF Cautious
  <2> QED BY <1>1, <1>2, <1>4, <1>5, <2>1, MakeTree
<1>7. b1 \in TreesAt[d - 1]
  <2> HIDE DEF l1
  <2>1. l1.kind \in ChildKinds(b.kind, 1)
    BY <1>1, <1>4 DEF ChildKinds
  <2> QED BY <1>1, <1>2, <1>6, <2>1, WithArgTree DEF Cautious
<1>8. /\ b1.kind = "select" /\ b1.args[1] = l1 /\ b1.args[2] = b.args[2] /\ b1.args[3] = b.args[3]
  <2> HIDE DEF l1
  <2>1. 1 \in DOMAIN b.args /\ 2 \in DOMAIN b.args /\ 3 \in DOMAIN b.args /\ 2 # 1 /\ 3 # 1
    BY <1>1
  <2>2. /\ b1.kind = b.kind /\ b1.args[1] = l1
        /\ \A j \in DOMAIN b.args : j # 1 => b1.args[j] = b.args[j]
    BY <1>3, <1>6, <2>1, WithArgFields
  <2> HIDE DEF b1
  <2> QED BY <1>1, <2>1, <2>2
<1>9. q.kind = "query"
  BY DEF TopSelect
<1>10. q1 \in TreesAt[d]
  <2> HIDE DEF b1
  <2>1. b1.kind \in ChildKinds(q.kind, 1)
    BY <1>8, <1>9 DEF ChildKinds, BodyKinds
  <2> QED BY <1>1, <1>2, <1>7, <1>9, <2>1, WithArgTree DEF Cautious
<1>11. /\ q1.kind = q.kind /\ q1.name = q.name /\ q1.qual = q.qual /\ q1.alias = q.alias
       /\ q1.args[1] = b1 /\ q1.args[2] = q.args[2]
  <2> HIDE DEF b1
  <2>1. 1 \in DOMAIN q.args /\ 2 \in DOMAIN q.args /\ 2 # 1
    BY <1>1
  <2>2. /\ q1.kind = q.kind /\ q1.name = q.name /\ q1.qual = q.qual /\ q1.alias = q.alias
        /\ q1.args[1] = b1 /\ \A j \in DOMAIN q.args : j # 1 => q1.args[j] = q.args[j]
    BY <1>3, <1>7, <2>1, WithArgFields
  <2> HIDE DEF q1
  <2> QED BY <2>1, <2>2
<1>12. q1 = WithItems(q, s)
  BY DEF WithItems, b, l
<1> HIDE DEF q1, b1, l1
<1> QED BY <1>4, <1>8, <1>9, <1>10, <1>11, <1>12 DEF TopSelect, IsSelect, Items, From, Where, Order, b

-----------------------------------------------------------------------------
(* Each rule makes trees of trees.                                         *)

LEMMA RelabelTree ==
  ASSUME NEW d \in 1 .. MaxDepth, NEW n \in TreesAt[d], n.kind \notin Cautious,
         NEW m \in Record(TreesAt[d - 1]), m.kind = n.kind, m.args = n.args,
         m.kind = "register" => m.name \in Registers
  PROVE  m \in TreesAt[d]
<1>1. n \in Record(TreesAt[d - 1]) /\ Shape(n)
  BY TreeParts
<1>2. \A i \in DOMAIN n.args : m.args[i].kind \in ChildKinds(n.kind, i)
  BY <1>1 DEF Shape
<1>3. Shape(m)
  BY <1>1, <1>2, SameShape
<1> QED BY <1>3, NotGrowing, MakeTree

\* The names the rules write are names.
LEMMA Written == RuleNames \subseteq Names
BY NamesAssumption DEF NamesAssumption

LEMMA CatalogTree ==
  ASSUME NEW d \in 1 .. MaxDepth, NEW n \in TreesAt[d]
  PROVE  /\ PrependCatalog(n) \in TreesAt[d] /\ PrependCatalog(n).args = n.args
         /\ PrependCatalog(n).kind = n.kind /\ PrependCatalog(n).name = n.name
         /\ PrependCatalog(n).alias = n.alias
<1> DEFINE m == [n EXCEPT !.qual = "pg_catalog"]
<1>1. n \in Record(TreesAt[d - 1])
  BY TreeParts
<1>2. CASE n.kind = "table" /\ PrependCatalog(n) = m
  <2>0. "pg_catalog" \in Names
    BY Written DEF RuleNames
  <2>1. /\ m \in Record(TreesAt[d - 1]) /\ m.kind = n.kind /\ m.args = n.args /\ m.name = n.name
        /\ m.alias = n.alias
    BY <1>1, <2>0 DEF Record
  <2> HIDE DEF m
  <2>2. n.kind \notin Cautious
    BY <1>2 DEF Cautious
  <2>3. m \in TreesAt[d]
    BY <1>2, <2>1, <2>2, RelabelTree
  <2> QED BY <1>2, <2>1, <2>3
<1>3. CASE PrependCatalog(n) = n
  BY <1>3
<1> QED BY <1>2, <1>3 DEF PrependCatalog

LEMMA CallableTree ==
  ASSUME NEW d \in 1 .. MaxDepth, NEW n \in TreesAt[d]
  PROVE  /\ StripCallable(n) \in TreesAt[d] /\ StripCallable(n).args = n.args
         /\ StripCallable(n).kind = n.kind /\ StripCallable(n).name = n.name
         /\ StripCallable(n).alias = n.alias
<1> DEFINE m == [n EXCEPT !.qual = None]
<1>1. n \in Record(TreesAt[d - 1])
  BY TreeParts
<1>2. CASE n.kind \in {"call", "tablefunction"} /\ StripCallable(n) = m
  <2>0. None \in Names
    BY Written DEF RuleNames, None
  <2>1. /\ m \in Record(TreesAt[d - 1]) /\ m.kind = n.kind /\ m.args = n.args /\ m.name = n.name
        /\ m.alias = n.alias
    BY <1>1, <2>0 DEF Record
  <2> HIDE DEF m
  <2>2. n.kind \notin Cautious
    BY <1>2 DEF Cautious
  <2>3. m \in TreesAt[d]
    BY <1>2, <2>1, <2>2, RelabelTree
  <2> QED BY <1>2, <2>1, <2>3
<1>3. CASE StripCallable(n) = n
  BY <1>3
<1> QED BY <1>2, <1>3 DEF StripCallable

LEMMA OperatorTree ==
  ASSUME NEW d \in 1 .. MaxDepth, NEW n \in TreesAt[d]
  PROVE  /\ BareOperator(n) \in TreesAt[d] /\ BareOperator(n).args = n.args
         /\ BareOperator(n).kind = n.kind /\ BareOperator(n).name = n.name
         /\ BareOperator(n).alias = n.alias
<1> DEFINE m == [n EXCEPT !.qual = None]
<1>1. n \in Record(TreesAt[d - 1])
  BY TreeParts
<1>2. CASE n.kind = "binary" /\ BareOperator(n) = m
  <2>0. None \in Names
    BY Written DEF RuleNames, None
  <2>1. /\ m \in Record(TreesAt[d - 1]) /\ m.kind = n.kind /\ m.args = n.args /\ m.name = n.name
        /\ m.alias = n.alias
    BY <1>1, <2>0 DEF Record
  <2> HIDE DEF m
  <2>2. n.kind \notin Cautious
    BY <1>2 DEF Cautious
  <2>3. m \in TreesAt[d]
    BY <1>2, <2>1, <2>2, RelabelTree
  <2> QED BY <1>2, <2>1, <2>3
<1>3. CASE BareOperator(n) = n
  BY <1>3
<1> QED BY <1>2, <1>3 DEF BareOperator

LEMMA CollateTree ==
  ASSUME NEW d \in 1 .. MaxDepth, NEW n \in TreesAt[d]
  PROVE  /\ StripCollate(n) \in TreesAt[d]
         /\ n.kind # "collate" => StripCollate(n) = n
         /\ n.kind = "collate" =>
              1 \in DOMAIN n.args /\ StripCollate(n) = n.args[1] /\ n.args[1].kind \in Kinds \ Lists
<1>1. CASE n.kind = "collate"
  <2>1. Len(n.args) = 1 /\ n \in Record(TreesAt[d - 1])
    BY <1>1, TreeParts DEF Shape, UnaryKinds
  <2>2. 1 \in DOMAIN n.args
    BY <2>1, RecordFields
  <2>3. /\ n.args[1] \in TreesAt[d - 1] /\ d - 1 \in 1 .. MaxDepth
        /\ n.args[1].kind \in ChildKinds("collate", 1)
    BY <1>1, <2>2, ChildParts
  <2>4. n.args[1] \in TreesAt[d]
    BY <2>3, TreesAtGrow
  <2>5. ChildKinds("collate", 1) = Kinds \ Lists
    BY DEF ChildKinds
  <2> QED BY <1>1, <2>2, <2>3, <2>4, <2>5 DEF StripCollate
<1>2. CASE n.kind # "collate"
  BY <1>2 DEF StripCollate
<1> QED BY <1>1, <1>2

\* Calls of functions take any expressions.
LEMMA CallTree ==
  ASSUME NEW d \in 1 .. MaxDepth, NEW name \in Names, NEW s \in Seq(TreesAt[d - 1]),
         \A i \in DOMAIN s : s[i].kind \in Kinds \ Lists
  PROVE  /\ Call(name, s) \in TreesAt[d] /\ Call(name, s).kind = "call"
         /\ Call(name, s).name = name /\ Call(name, s).args = s
         /\ Call(name, s).qual = None /\ Call(name, s).alias = None
<1> DEFINE m == Node("call", None, name, None, s)
<1>0. None \in Names
  BY Written DEF RuleNames, None
<1>1. "call" \in Kinds \ Cautious /\ "call" \in Free
  BY DEF Kinds, Cautious, Free
<1>2. /\ m \in Record(TreesAt[d - 1]) /\ m.kind = "call" /\ m.name = name /\ m.args = s
      /\ m.qual = None /\ m.alias = None
  BY <1>0, <1>1, NodeFields
<1>3. Shape(m)
  <2> HIDE DEF m
  <2>1. "call" \notin LeafKinds \union UnaryKinds \union BinaryKinds \union {"query", "select", "register"}
    BY DEF LeafKinds, UnaryKinds, BinaryKinds
  <2>2. \A i \in DOMAIN s : s[i].kind \in ChildKinds("call", i)
    BY <1>1, FreeChildren
  <2> QED BY <1>2, <2>1, <2>2 DEF Shape
<1>4. m \in TreesAt[d]
  BY <1>0, <1>1, <1>3, NodeTree
<1> HIDE DEF m
<1> QED BY <1>2, <1>4 DEF Call, m

LEMMA UserTree ==
  ASSUME NEW d \in 1 .. MaxDepth, NEW n \in TreesAt[d]
  PROVE  /\ CurrentUser(n) \in TreesAt[d]
         /\ CurrentUser(n).args = n.args
         /\ n.kind \notin {"ident", "register"} => CurrentUser(n).kind = n.kind
         /\ CurrentUser(n).kind \in {n.kind, "call"}
<1>1. n \in Record(TreesAt[d - 1]) /\ Shape(n)
  BY TreeParts
<1>2. n.kind \in {"ident", "register"} => n.args = <<>>
  BY <1>1 DEF Shape, LeafKinds
<1>3. CASE n.kind = "ident" /\ n.name = "current_schema"
  <2> DEFINE e == <<>>
  <2>1. e \in Seq(TreesAt[d - 1]) /\ \A i \in DOMAIN e : e[i].kind \in Kinds \ Lists
    OBVIOUS
  <2>2. "current_schema" \in Names
    BY Written DEF RuleNames
  <2> HIDE DEF e
  <2>4. Call("current_schema", e) \in TreesAt[d] /\ Call("current_schema", e).kind = "call"
        /\ Call("current_schema", e).args = e
    BY <2>1, <2>2, CallTree
  <2>5. CurrentUser(n) = Call("current_schema", e) /\ n.args = e
    BY <1>2, <1>3 DEF CurrentUser, e
  <2> QED BY <1>3, <2>4, <2>5
<1>4. CASE n.kind \in {"register", "call"} /\ n.name = "current_user"
  <2>0. None \in Names /\ "session_user" \in Names
    BY Written DEF RuleNames, None
  <2> DEFINE m == [n EXCEPT !.name = "session_user", !.qual = None]
  <2>1. /\ m \in Record(TreesAt[d - 1]) /\ m.kind = n.kind /\ m.args = n.args
        /\ m.name = "session_user"
    BY <1>1, <2>0 DEF Record
  <2>2. CurrentUser(n) = m
    BY <1>4 DEF CurrentUser
  <2> HIDE DEF m
  <2>3. n.kind \notin Cautious /\ "session_user" \in Registers
    BY <1>4 DEF Cautious, Registers
  <2>4. m \in TreesAt[d]
    BY <2>1, <2>3, RelabelTree
  <2> QED BY <2>1, <2>2, <2>4
<1>5. CASE n.kind \in {"register", "call"} /\ n.name = "current_catalog"
  <2>1. n.args \in Seq(TreesAt[d - 1]) /\ \A i \in DOMAIN n.args : n.args[i].kind \in Kinds \ Lists
    <3>1. n.kind \in Free
      BY <1>5 DEF Free, Kinds, LeafKinds
    <3> QED BY <1>1, <3>1, FreeChildren, RecordFields DEF Shape
  <2>2. Call("current_database", n.args) \in TreesAt[d] /\ Call("current_database", n.args).kind = "call"
        /\ Call("current_database", n.args).args = n.args
    <3>1. "current_database" \in Names
      BY Written DEF RuleNames
    <3> QED BY <2>1, <3>1, CallTree
  <2>3. CurrentUser(n) = Call("current_database", n.args)
    BY <1>5 DEF CurrentUser
  <2> QED BY <1>5, <2>2, <2>3
<1>6. CASE CurrentUser(n) = n
  BY <1>6
<1> QED BY <1>3, <1>4, <1>5, <1>6 DEF CurrentUser

-----------------------------------------------------------------------------
(* Trees of a level all nodes of which are in a set.                       *)

Over(S, d) == {t \in TreesAt[d] : Nodes(t) \subseteq S}

LEMMA OverParts ==
  ASSUME NEW S, NEW d \in 1 .. MaxDepth, NEW n \in Over(S, d)
  PROVE  /\ n \in TreesAt[d] /\ n \in Trees /\ n \in S
         /\ n \in Record(Over(S, d - 1)) /\ Shape(n)
         /\ \A i \in DOMAIN n.args : n.args[i] \in Over(S, d - 1)
         /\ Grows(n) => \A i \in DOMAIN n.args : n.args[i] \in Over(S, Below(d, Growth))
<1>1. n \in TreesAt[d] /\ n \in Trees /\ Nodes(n) \subseteq S
  BY LevelsAreTrees DEF Over
<1>2. /\ n \in Record(TreesAt[d - 1]) /\ Shape(n)
      /\ \A i \in DOMAIN n.args : n.args[i] \in TreesAt[d - 1]
      /\ Grows(n) => \A i \in DOMAIN n.args : n.args[i] \in TreesAt[Below(d, Growth)]
  BY <1>1, TreeParts
<1>3. n \in S /\ \A i \in DOMAIN n.args : Nodes(n.args[i]) \subseteq S
  BY <1>1, NodesOf
<1>4. \A i \in DOMAIN n.args : n.args[i] \in Over(S, d - 1)
  BY <1>2, <1>3 DEF Over
<1>5. n.args \in Seq(TreesAt[d - 1]) /\ DOMAIN n.args = 1 .. Len(n.args) /\ Len(n.args) \in Nat
  BY <1>2, RecordFields
<1>6. n.args \in Seq(Over(S, d - 1))
  BY <1>4, <1>5
<1>7. n \in Record(Over(S, d - 1))
  BY <1>2, <1>6 DEF Record
<1> QED BY <1>1, <1>2, <1>3, <1>4, <1>7 DEF Over

LEMMA OverFields ==
  ASSUME NEW S, NEW d \in 1 .. MaxDepth, NEW n \in Over(S, d)
  PROVE  n.kind \in Kinds /\ n.qual \in Names /\ n.name \in Names /\ n.alias \in Names
<1>1. n \in Record(Over(S, d - 1))
  BY OverParts
<1> QED BY <1>1, RecordFields

LEMMA OverTrees ==
  ASSUME NEW S, NEW d \in 0 .. MaxDepth
  PROVE  Over(S, d) \subseteq TreesAt[d] /\ Over(S, d) \subseteq Trees /\ Over(Trees, d) = TreesAt[d]
<1>1. TreesAt[d] \subseteq Trees
  BY LevelsAreTrees
<1> QED BY <1>1, NodesOf DEF Over

LEMMA OverGrow ==
  ASSUME NEW S, NEW a \in 0 .. MaxDepth, NEW b \in a .. MaxDepth
  PROVE  Over(S, a) \subseteq Over(S, b)
BY TreesAtGrow DEF Over

LEMMA MakeOver ==
  ASSUME NEW S, NEW d \in 1 .. MaxDepth, NEW n \in Record(Over(S, d - 1)), Shape(n),
         Grows(n) => \A i \in DOMAIN n.args : n.args[i] \in TreesAt[Below(d, Growth)]
  PROVE  /\ n \in TreesAt[d] /\ n \in Trees
         /\ n \in S => n \in Over(S, d)
<1>1. Seq(Over(S, d - 1)) \subseteq Seq(TreesAt[d - 1])
  BY DEF Over
<1>2. n \in Record(TreesAt[d - 1])
  BY <1>1 DEF Record
<1>3. n \in TreesAt[d] /\ n \in Trees
  BY <1>2, MakeTree, LevelsAreTrees
<1>4. \A i \in DOMAIN n.args : n.args[i] \in Over(S, d - 1)
  BY RecordFields
<1>5. \A i \in DOMAIN n.args : Nodes(n.args[i]) \subseteq S
  BY <1>4 DEF Over
<1>6. n \in S => Nodes(n) \subseteq S
  BY <1>3, <1>5, NodesOf
<1> QED BY <1>3, <1>6 DEF Over

\* The level under a level.
Under(b, d) == b \in 0 .. MaxDepth /\ d \in 1 .. MaxDepth /\ b = d - 1

LEMMA NodeOver ==
  ASSUME NEW S, NEW b, NEW d, Under(b, d), NEW k \in Kinds \ Cautious,
         NEW q \in Names, NEW m \in Names, NEW a \in Names, NEW s \in Seq(Over(S, b)),
         Shape(Node(k, q, m, a, s))
  PROVE  /\ Node(k, q, m, a, s) \in TreesAt[d] /\ Node(k, q, m, a, s) \in Trees
         /\ Node(k, q, m, a, s) \in S => Node(k, q, m, a, s) \in Over(S, d)
<1> DEFINE n == Node(k, q, m, a, s)
<1>1. n \in Record(Over(S, b)) /\ n.kind = k
  BY NodeFields
<1> HIDE DEF n
<1>2. d \in 1 .. MaxDepth /\ n \in Record(Over(S, d - 1)) /\ ~Grows(n)
  BY <1>1, NotGrowing DEF Under
<1>3. Shape(n)
  BY DEF n
<1>4. n \in TreesAt[d] /\ n \in Trees /\ (n \in S => n \in Over(S, d))
  BY <1>2, <1>3, MakeOver
<1> QED BY <1>4 DEF n

\* Nodes of kinds that take any expressions, any number of them.
LEMMA OpenNode ==
  ASSUME NEW S, NEW b, NEW d, Under(b, d), NEW k \in {"call", "array", "not"}, NEW m \in Names,
         NEW s \in Seq(Over(S, b)), \A i \in DOMAIN s : s[i].kind \in Kinds \ Lists
  PROVE  /\ Node(k, None, m, None, s) \in TreesAt[d] /\ Node(k, None, m, None, s) \in Trees
         /\ Node(k, None, m, None, s) \in S => Node(k, None, m, None, s) \in Over(S, d)
         /\ Node(k, None, m, None, s).kind = k /\ Node(k, None, m, None, s).args = s
         /\ Node(k, None, m, None, s).name = m /\ Node(k, None, m, None, s).qual = None
         /\ Node(k, None, m, None, s).alias = None
<1> DEFINE n == Node(k, None, m, None, s)
<1>0. None \in Names
  BY Written DEF RuleNames, None
<1>1. k \in Kinds \ Cautious /\ k \in Free
  BY DEF Kinds, Cautious, Free
<1>2. n.kind = k /\ n.name = m /\ n.args = s /\ n.qual = None /\ n.alias = None
  BY DEF Node
<1>3. Shape(n)
  <2> HIDE DEF n
  <2>1. k \notin LeafKinds \union UnaryKinds \union BinaryKinds \union {"query", "select", "register"}
    BY DEF LeafKinds, UnaryKinds, BinaryKinds
  <2>2. \A i \in DOMAIN s : s[i].kind \in ChildKinds(k, i)
    BY <1>1, FreeChildren
  <2> QED BY <1>2, <2>1, <2>2 DEF Shape
<1>4. n \in TreesAt[d] /\ n \in Trees /\ (n \in S => n \in Over(S, d))
  BY <1>0, <1>1, <1>3, NodeOver
<1> HIDE DEF n
<1> QED BY <1>2, <1>4 DEF n

\* The elements of a string are strings of the same level.
LEMMA ElementsOver ==
  ASSUME NEW S, NEW d \in 1 .. MaxDepth, NEW e \in Over(S, d), IsString(e)
  PROVE  /\ Elements(e) \in Seq(Over(S, d))
         /\ \A i \in DOMAIN Elements(e) : Elements(e)[i].kind \in StringKinds
<1>1. CASE e.kind = "braces"
  <2>1. Elements(e) = e.args
    BY <1>1 DEF Elements
  <2>2. e \in Record(Over(S, d - 1)) /\ Shape(e)
    BY OverParts
  <2>3. \A i \in DOMAIN e.args : e.args[i].kind \in StringKinds
    BY <1>1, <2>2 DEF Shape, ChildKinds, StringKinds
  <2>4. e.args \in Seq(Over(S, d - 1)) /\ Over(S, d - 1) \subseteq Over(S, d)
    <3>1. d - 1 \in 0 .. MaxDepth /\ d \in d - 1 .. MaxDepth
      OBVIOUS
    <3> QED BY <2>2, <3>1, OverGrow, RecordFields
  <2> QED BY <2>1, <2>3, <2>4
<1>2. CASE e.kind # "braces"
  BY <1>2 DEF Elements, IsString
<1> QED BY <1>1, <1>2

-----------------------------------------------------------------------------
(* What a rule puts below the node it looks at. *)

Made(rl, n) ==
  CASE rl = "anyall" -> \/ n.kind = "array"
                        \/ n.kind = "call" /\ n.name = "array_contains" /\ n.qual = None
    [] rl = "array" -> n.kind \in {"array", "number"}
    [] rl = "regcast" -> FALSE
    [] rl = "subquery" -> n.kind \in {"select", "items", "unnamed", "aliased", "subquery", "query", "null"}
    [] rl = "version" -> n.kind \in {"select", "items", "aliased"}
    [] OTHER -> FALSE

LEMMA BinaryArgs ==
  ASSUME NEW S, NEW n \in Record(S), Shape(n), n.kind \in BinaryKinds
  PROVE  DOMAIN n.args = {1, 2} /\ n.args = <<n.args[1], n.args[2]>>
<1>1. n.args \in Seq(S) /\ Len(n.args) = 2
  BY RecordFields DEF Shape
<1> QED BY <1>1

LEMMA ArrayContainsOver ==
  ASSUME NEW S, NEW b, NEW c, Under(b, c), NEW e,
         e.args[1] \in Over(S, b),
         e.args[2] \in Over(S, b), e.args[1].kind \notin Lists, e.args[2].kind \notin Lists,
         \A n \in Trees : Made("anyall", n) => n \in S
  PROVE  /\ ArrayContains(e) \in Over(S, c)
         /\ ArrayContains(e).kind = "call" /\ ArrayContains(e).name = "array_contains"
         /\ ArrayContains(e).qual = None
<1> DEFINE r == e.args[2]
           array == IF r.kind = "braces" THEN ArrayOf(Elements(r)) ELSE r
           s == <<array, e.args[1]>>
<1>0. b \in 1 .. MaxDepth
  <2>1. e.args[1] \in TreesAt[b] /\ b \in 0 .. MaxDepth
    BY DEF Over, Under
  <2> QED BY <2>1, Positive
<1>1. array \in Over(S, b) /\ array.kind \in Kinds \ Lists
  <2>1. CASE r.kind = "braces"
    <3> DEFINE a0 == b - 1
    <3>0. Under(a0, b)
      BY <1>0 DEF Under
    <3>1. r \in Record(Over(S, a0)) /\ Shape(r) /\ Elements(r) = r.args
      BY <1>0, <2>1, OverParts DEF Elements
    <3> HIDE DEF a0
    <3>2. r.args \in Seq(Over(S, a0)) /\ \A i \in DOMAIN r.args : r.args[i].kind \in Kinds \ Lists
      <4>1. \A i \in DOMAIN r.args : r.args[i].kind = "string"
        BY <2>1, <3>1 DEF Shape, ChildKinds
      <4> QED BY <3>1, <4>1, RecordFields DEF Kinds, LeafKinds, Lists
    <3> HIDE DEF r
    <3>3. None \in Names
      BY Written DEF RuleNames, None
    <3> DEFINE a == Node("array", None, None, None, r.args)
    <3>4. a \in Trees /\ (a \in S => a \in Over(S, b)) /\ a.kind = "array"
      BY <3>0, <3>2, <3>3, OpenNode
    <3>5. array = a
      BY <2>1, <3>1 DEF ArrayOf
    <3> HIDE DEF a, array
    <3>6. a \in S
      BY <3>4 DEF Made
    <3> QED BY <3>4, <3>5, <3>6 DEF Kinds, Lists
  <2>2. CASE r.kind # "braces"
    <3>1. r \in Over(S, b) /\ r.kind \notin Lists
      OBVIOUS
    <3> HIDE DEF r
    <3>2. r.kind \in Kinds
      BY <1>0, <3>1, OverFields
    <3> QED BY <2>2, <3>1, <3>2
  <2> QED BY <2>1, <2>2
<1>2. e.args[1].kind \in Kinds \ Lists
  <2>1. e.args[1].kind \in Kinds
    BY <1>0, OverFields
  <2> QED BY <2>1
<1>3. s \in Seq(Over(S, b)) /\ \A i \in DOMAIN s : s[i].kind \in Kinds \ Lists
  <2> HIDE DEF array
  <2> QED BY <1>1, <1>2
<1>4. "array_contains" \in Names
  BY Written DEF RuleNames
<1> DEFINE m == Node("call", None, "array_contains", None, s)
<1> HIDE DEF s
<1>6. /\ m \in Trees /\ (m \in S => m \in Over(S, c))
      /\ m.kind = "call" /\ m.name = "array_contains" /\ m.qual = None
  BY <1>3, <1>4, OpenNode
<1>7. m = ArrayContains(e)
  BY DEF ArrayContains, Call, s
<1> HIDE DEF m
<1>8. m \in S
  BY <1>6 DEF Made
<1> QED BY <1>6, <1>7, <1>8

LEMMA AnyAllOver ==
  ASSUME NEW S, NEW d \in 1 .. MaxDepth, NEW n \in Over(S, d),
         \A x \in Trees : Made("anyall", x) => x \in S
  PROVE  LET m == ArrayAnyAll(n) IN
         /\ m \in TreesAt[d]
         /\ \A i \in DOMAIN m.args : m.args[i] \in Over(S, d - 1)
         /\ \/ m = n /\ (n.kind = "any" => n.name # "=") /\ (n.kind = "all" => n.name # "<>")
            \/ n.kind = "any" /\ m.kind = "call" /\ m.name = "array_contains" /\ m.qual = None
            \/ n.kind = "all" /\ m.kind = "not"
<1> DEFINE m == ArrayAnyAll(n)
<1>1. /\ n \in TreesAt[d] /\ n \in Record(Over(S, d - 1)) /\ Shape(n)
      /\ \A i \in DOMAIN n.args : n.args[i] \in Over(S, d - 1)
      /\ Grows(n) => \A i \in DOMAIN n.args : n.args[i] \in Over(S, Below(d, Growth))
  BY OverParts
<1>2. ASSUME n.kind \in {"any", "all"}
      PROVE  1 \in DOMAIN n.args /\ 2 \in DOMAIN n.args
             /\ n.args[1].kind \notin Lists /\ n.args[2].kind \notin Lists
  <2>1. n.kind \in Free /\ n.kind \in BinaryKinds
    BY <1>2 DEF Free, BinaryKinds, Kinds
  <2>2. 1 \in DOMAIN n.args /\ 2 \in DOMAIN n.args
    BY <1>1, <2>1, BinaryArgs
  <2>3. ChildKinds(n.kind, 1) = Kinds \ Lists /\ ChildKinds(n.kind, 2) = Kinds \ Lists
    BY <2>1, FreeChildren
  <2> QED BY <1>1, <2>2, <2>3 DEF Shape
<1>3. CASE n.kind = "any" /\ n.name = "="
  <2>1. m = ArrayContains(n)
    BY <1>3 DEF ArrayAnyAll
  <2>2. n.args[1] \in Over(S, d - 1) /\ n.args[2] \in Over(S, d - 1)
    BY <1>1, <1>2, <1>3
  <2>3. d - 1 \in 1 .. MaxDepth /\ d - 1 + 1 = d
    <3>1. n.args[1] \in TreesAt[d - 1] /\ d - 1 \in 0 .. MaxDepth
      BY <2>2 DEF Over
    <3> QED BY <3>1, Positive
  <2> DEFINE b == d - 1
  <2>a. Under(b, d) /\ n.args[1] \in Over(S, b) /\ n.args[2] \in Over(S, b)
    BY <2>2, <2>3 DEF Under
  <2> HIDE DEF b
  <2>4. /\ m \in Over(S, d) /\ m.kind = "call" /\ m.name = "array_contains" /\ m.qual = None
    BY <1>2, <1>3, <2>1, <2>a, ArrayContainsOver
  <2> HIDE DEF m
  <2>5. \A i \in DOMAIN m.args : m.args[i] \in Over(S, d - 1)
    BY <2>4, OverParts
  <2> QED BY <1>3, <2>4, <2>5 DEF Over, m
<1>4. CASE n.kind = "all" /\ n.name = "<>"
  <2> DEFINE b == Below(d, Growth)
             c == ArrayContains(n)
             s == <<c>>
  <2>1. m = Node("not", None, None, None, s)
    BY <1>4 DEF ArrayAnyAll
  <2>2. n.args[1] \in Over(S, b) /\ n.args[2] \in Over(S, b)
    BY <1>1, <1>2, <1>4 DEF Grows
  <2>3. b \in 1 .. MaxDepth /\ b + 1 <= MaxDepth /\ d - 1 \in b + 1 .. MaxDepth /\ b + 1 \in 0 .. MaxDepth
    <3>1. n.args[1] \in TreesAt[b] /\ b \in 0 .. MaxDepth
      BY <2>2, BelowLess DEF Over
    <3>2. b \in 1 .. MaxDepth
      BY <3>1, Positive
    <3> QED BY <3>2 DEF Below, Growth
  <2> HIDE DEF b
  <2>4. c \in Over(S, b + 1) /\ c.kind = "call"
    <3> DEFINE f == b + 1
    <3>1. Under(b, f)
      BY <2>3 DEF Under
    <3> HIDE DEF f
    <3>2. c \in Over(S, f) /\ c.kind = "call"
      BY <1>2, <1>4, <2>2, <3>1, ArrayContainsOver
    <3> QED BY <3>2 DEF f
  <2>5. c \in Over(S, d - 1)
    BY <2>3, <2>4, OverGrow
  <2>6. s \in Seq(Over(S, d - 1)) /\ \A i \in DOMAIN s : s[i].kind \in Kinds \ Lists
    <3> HIDE DEF c
    <3> QED BY <2>4, <2>5 DEF Kinds, Lists
  <2>7. \A i \in DOMAIN s : s[i] \in Over(S, d - 1)
    <3> HIDE DEF c
    <3> QED BY <2>5
  <2>8. None \in Names
    BY Written DEF RuleNames, None
  <2> DEFINE f == d - 1
  <2>a. Under(f, d) /\ s \in Seq(Over(S, f))
    BY <2>3, <2>6 DEF Under
  <2> HIDE DEF m, s, f
  <2>9. m \in TreesAt[d] /\ m.kind = "not" /\ m.args = s
    BY <2>1, <2>6, <2>8, <2>a, OpenNode
  <2> QED BY <1>4, <2>7, <2>9 DEF m
<1>5. CASE m = n /\ (n.kind = "any" => n.name # "=") /\ (n.kind = "all" => n.name # "<>")
  <2> HIDE DEF m
  <2> QED BY <1>1, <1>5 DEF m
<1> QED BY <1>3, <1>4, <1>5 DEF ArrayAnyAll

LEMMA ArrayTree ==
  ASSUME NEW S, NEW d \in 1 .. MaxDepth, NEW n \in Over(S, d),
         \A x \in Trees : Made("array", x) => x \in S
  PROVE  LET m == FixArray(n) IN
         /\ m \in TreesAt[d]
         /\ \A i \in DOMAIN m.args : m.args[i] \in Over(S, d - 1)
         /\ m.kind = n.kind /\ m.qual = n.qual /\ m.name = n.name /\ m.alias = n.alias
         /\ \/ m = n /\ ~ArrayString(n)
            \/ n.kind = "cast" /\ n.alias = "array" /\ 1 \in DOMAIN m.args /\ m.args[1].kind = "array"
<1> DEFINE m == FixArray(n)
<1>1. /\ n \in TreesAt[d] /\ n \in Record(Over(S, d - 1)) /\ Shape(n)
      /\ \A i \in DOMAIN n.args : n.args[i] \in Over(S, d - 1)
      /\ Grows(n) => \A i \in DOMAIN n.args : n.args[i] \in Over(S, Below(d, Growth))
  BY OverParts
<1>2. CASE ~ArrayString(n)
  BY <1>1, <1>2 DEF FixArray
<1>3. CASE ArrayString(n)
  <2> DEFINE b == Below(d, Growth)
             e == n.args[1]
             elements == Elements(e)
             g == [i \in DOMAIN elements |->
                     IF n.qual = None /\ n.name \in TextTypes THEN elements[i]
                     ELSE Leaf("number", elements[i].name)]
             a == Node("array", None, None, None, g)
  <2>1. m = WithArg(n, 1, a)
    BY <1>3 DEF FixArray, ArrayOf
  <2>2. n.kind = "cast" /\ n.alias = "array" /\ IsString(e)
    BY <1>3 DEF ArrayString
  <2>3. 1 \in DOMAIN n.args /\ DOMAIN n.args = {1}
    <3>1. Len(n.args) = 1
      BY <1>1, <2>2 DEF Shape, UnaryKinds
    <3> QED BY <1>1, <3>1, RecordFields
  <2>4. Grows(n)
    BY <2>2 DEF Grows, IsString, StringKinds
  <2>5. e \in Over(S, b)
    BY <1>1, <2>3, <2>4
  <2>6. b \in 1 .. MaxDepth /\ b + 1 \in 1 .. MaxDepth /\ d - 1 \in b + 1 .. MaxDepth
        /\ b = b + 1 - 1
    <3>1. e \in TreesAt[b] /\ b \in 0 .. MaxDepth
      BY <2>5, BelowLess DEF Over
    <3>2. b \in 1 .. MaxDepth
      BY <3>1, Positive
    <3> QED BY <3>2 DEF Below, Growth
  <2> HIDE DEF b, e
  <2>7. /\ elements \in Seq(Over(S, b))
        /\ \A i \in DOMAIN elements : elements[i].kind \in StringKinds
    BY <2>2, <2>5, <2>6, ElementsOver
  <2> HIDE DEF elements
  <2>8. ASSUME NEW i \in DOMAIN elements
        PROVE  g[i] \in Over(S, b) /\ g[i].kind \in Kinds \ Lists
    <3>1. elements[i] \in Over(S, b)
      BY <2>7
    <3>2. CASE g[i] = elements[i]
      <4>1. g[i].kind \in StringKinds
        BY <2>7, <3>2
      <4> QED BY <3>1, <3>2, <4>1 DEF Kinds, Lists, StringKinds
    <3>3. CASE g[i] = Leaf("number", elements[i].name)
      <4> DEFINE l == Node("number", None, elements[i].name, None, <<>>)
                 nothing == <<>>
                 b0 == b - 1
      <4>1. elements[i].name \in Names /\ None \in Names
        <5>1. elements[i] \in Record(Over(S, b - 1))
          BY <2>6, <3>1, OverParts
        <5>2. elements[i].name \in Names
          BY <5>1, RecordFields
        <5> QED BY <5>2, Written DEF RuleNames, None
      <4>2. "number" \in Kinds \ Cautious /\ nothing \in Seq(Over(S, b0)) /\ Under(b0, b)
        BY <2>6 DEF Kinds, Cautious, LeafKinds, Under
      <4>3. Shape(l)
        BY DEF Shape, Node, LeafKinds, UnaryKinds, BinaryKinds
      <4>4. l = Node("number", None, elements[i].name, None, nothing) /\ l.kind = "number"
        BY DEF Node
      <4> HIDE DEF l, nothing, b0
      <4>5. l \in Trees /\ (l \in S => l \in Over(S, b))
        BY <4>1, <4>2, <4>3, <4>4, NodeOver
      <4>6. l \in S
        BY <4>4, <4>5 DEF Made
      <4>7. g[i] = l
        BY <3>3 DEF Leaf, l
      <4> HIDE DEF g
      <4> QED BY <4>4, <4>5, <4>6, <4>7 DEF Kinds, Lists, LeafKinds
    <3> QED BY <3>2, <3>3
  <2>9. g \in Seq(Over(S, b)) /\ DOMAIN g = DOMAIN elements
    <3>1. g = [i \in DOMAIN elements |-> g[i]]
      OBVIOUS
    <3> HIDE DEF g
    <3> QED BY <2>7, <2>8, <3>1, MapSeq
  <2> HIDE DEF g
  <2>10. None \in Names
    BY Written DEF RuleNames, None
  <2>11. a \in Trees /\ (a \in S => a \in Over(S, b + 1)) /\ a.kind = "array"
    <3> DEFINE c == b + 1
    <3>1. Under(b, c)
      BY <2>6 DEF Under
    <3> HIDE DEF c
    <3>2. a \in Trees /\ (a \in S => a \in Over(S, c)) /\ a.kind = "array"
      BY <2>8, <2>9, <2>10, <3>1, OpenNode
    <3> QED BY <3>2 DEF c
  <2> HIDE DEF a
  <2>12. a \in Over(S, d - 1)
    <3>1. a \in S
      BY <2>11 DEF Made
    <3>2. a \in Over(S, b + 1) /\ b + 1 \in 0 .. MaxDepth
      BY <2>6, <2>11, <3>1
    <3> QED BY <2>6, <3>2, OverGrow
  <2>13. /\ m \in Record(Over(S, d - 1)) /\ m.kind = n.kind /\ m.qual = n.qual /\ m.name = n.name
         /\ m.alias = n.alias /\ DOMAIN m.args = DOMAIN n.args /\ Len(m.args) = Len(n.args)
         /\ m.args[1] = a
    BY <1>1, <2>1, <2>3, <2>12, WithArgFields
  <2> HIDE DEF m
  <2>14. Shape(m)
    <3>1. "cast" \in Free /\ "array" \in Kinds \ Lists
      BY DEF Free, Kinds, Lists, UnaryKinds
    <3>2. \A i \in DOMAIN n.args : m.args[i].kind \in ChildKinds(n.kind, i)
      BY <2>2, <2>3, <2>11, <2>13, <3>1, FreeChildren
    <3> QED BY <1>1, <2>2, <2>13, <3>2, SameShape
  <2>15. ~Grows(m)
    BY <2>2, <2>11, <2>13 DEF Grows
  <2>16. m \in TreesAt[d]
    BY <2>13, <2>14, <2>15, MakeOver
  <2>17. \A i \in DOMAIN m.args : m.args[i] \in Over(S, d - 1)
    BY <2>3, <2>12, <2>13
  <2> QED BY <2>2, <2>3, <2>11, <2>13, <2>16, <2>17 DEF m
<1> QED BY <1>2, <1>3

-----------------------------------------------------------------------------
(* The subqueries that casts become *)

LEMMA LeafOver ==
  ASSUME NEW S, NEW d \in 1 .. MaxDepth, NEW k \in LeafKinds \ {"register"},
         NEW q \in Names, NEW m \in Names, NEW a \in Names
  PROVE  /\ Node(k, q, m, a, <<>>) \in TreesAt[d] /\ Node(k, q, m, a, <<>>) \in Trees
         /\ Node(k, q, m, a, <<>>) \in S => Node(k, q, m, a, <<>>) \in Over(S, d)
         /\ Node(k, q, m, a, <<>>).kind = k /\ Node(k, q, m, a, <<>>).name = m
         /\ Node(k, q, m, a, <<>>).qual = q /\ Node(k, q, m, a, <<>>).alias = a
         /\ Node(k, q, m, a, <<>>).args = <<>>
<1> DEFINE e == <<>>
           n == Node(k, q, m, a, e)
           b == d - 1
<1>1. Under(b, d) /\ e \in Seq(Over(S, b))
  BY DEF Under
<1>2. k \in Kinds \ Cautious
  BY DEF Kinds, Cautious, LeafKinds
<1>3. n.kind = k /\ n.name = m /\ n.qual = q /\ n.alias = a /\ n.args = e
  BY DEF Node
<1>4. Shape(n)
  <2>1. k \notin UnaryKinds \union BinaryKinds \union {"query", "select", "register"}
    BY DEF LeafKinds, UnaryKinds, BinaryKinds
  <2>2. DOMAIN n.args = {}
    BY <1>3
  <2> HIDE DEF n
  <2> QED BY <1>3, <2>1, <2>2 DEF Shape
<1> HIDE DEF e, b
<1>5. n \in TreesAt[d] /\ n \in Trees /\ (n \in S => n \in Over(S, d))
  BY <1>1, <1>2, <1>4, NodeOver
<1> QED BY <1>3, <1>5 DEF e

\* A node over one tree.
LEMMA UnaryOver ==
  ASSUME NEW S, NEW b, NEW d, Under(b, d), NEW x \in Over(S, b),
         NEW k \in {"unnamed", "aliased", "subquery", "derived"},
         NEW a \in Names, x.kind \in ChildKinds(k, 1)
  PROVE  /\ Node(k, None, None, a, <<x>>) \in TreesAt[d] /\ Node(k, None, None, a, <<x>>) \in Trees
         /\ Node(k, None, None, a, <<x>>) \in S => Node(k, None, None, a, <<x>>) \in Over(S, d)
         /\ Node(k, None, None, a, <<x>>).kind = k
         /\ Node(k, None, None, a, <<x>>).args = <<x>>
<1> DEFINE s == <<x>>
           n == Node(k, None, None, a, s)
<1>1. s \in Seq(Over(S, b)) /\ Len(s) = 1 /\ DOMAIN s = {1} /\ s[1] = x
  OBVIOUS
<1>2. k \in Kinds \ Cautious
  BY DEF Kinds, Cautious, UnaryKinds
<1>3. n.kind = k /\ n.args = s
  BY DEF Node
<1> HIDE DEF s
<1>4. Shape(n)
  <2>1. k \notin LeafKinds \union BinaryKinds \union {"query", "select", "register"}
    BY DEF LeafKinds, UnaryKinds, BinaryKinds
  <2> HIDE DEF n
  <2> QED BY <1>1, <1>3, <2>1 DEF Shape
<1>5. None \in Names
  BY Written DEF RuleNames, None
<1>6. n \in TreesAt[d] /\ n \in Trees /\ (n \in S => n \in Over(S, d))
  BY <1>1, <1>2, <1>4, <1>5, NodeOver
<1> QED BY <1>3, <1>6 DEF s

LEMMA TextCastOver ==
  ASSUME NEW S, NEW b, NEW d, Under(b, d), NEW x \in Over(S, b), x.kind \notin Lists
  PROVE  LET n == Node("cast", None, "text", None, <<x>>) IN
         /\ n \in TreesAt[d] /\ n \in Trees /\ (n \in S => n \in Over(S, d))
         /\ n.kind = "cast" /\ n.qual = None /\ n.name = "text" /\ n.alias = None
<1> DEFINE s == <<x>>
           n == Node("cast", None, "text", None, s)
<1>1. s \in Seq(Over(S, b)) /\ Len(s) = 1 /\ DOMAIN s = {1} /\ s[1] = x
  OBVIOUS
<1>2. n.kind = "cast" /\ n.args = s /\ n.qual = None /\ n.name = "text" /\ n.alias = None
  BY DEF Node
<1>3. None \in Names /\ "text" \in Names
  BY Written DEF RuleNames, None
<1>4. "cast" \in Kinds /\ "cast" \in Free
  BY DEF Kinds, UnaryKinds, Free
<1>5. d \in 1 .. MaxDepth /\ b = d - 1 /\ x.kind \in Kinds
  <2>1. x \in TreesAt[b] /\ b \in 0 .. MaxDepth
    BY DEF Under, Over
  <2>2. b \in 1 .. MaxDepth
    BY <2>1, Positive
  <2> QED BY <2>2, OverFields DEF Under
<1> HIDE DEF s
<1>6. n \in Record(Over(S, b))
  BY <1>1, <1>3, <1>4, NodeFields
<1> HIDE DEF n
<1>7. Shape(n)
  <2>1. x.kind \in ChildKinds("cast", 1)
    BY <1>4, <1>5, FreeChildren
  <2> QED BY <1>1, <1>2, <2>1 DEF Shape, LeafKinds, BinaryKinds
<1>8. ~Grows(n)
  BY <1>2 DEF Grows, RegTypes, None
<1>9. n \in TreesAt[d] /\ n \in Trees /\ (n \in S => n \in Over(S, d))
  BY <1>5, <1>6, <1>7, <1>8, MakeOver
<1> QED BY <1>2, <1>9 DEF n, s

LEMMA BinaryOver ==
  ASSUME NEW S, NEW b, NEW d, Under(b, d), NEW x \in Over(S, b), NEW y \in Over(S, b),
         x.kind \in Kinds \ Lists, y.kind \in Kinds \ Lists, NEW op \in Names
  PROVE  /\ Binary(op, x, y) \in TreesAt[d] /\ Binary(op, x, y) \in Trees
         /\ Binary(op, x, y) \in S => Binary(op, x, y) \in Over(S, d)
         /\ Binary(op, x, y).kind = "binary" /\ Binary(op, x, y).qual = None
         /\ Binary(op, x, y).args = <<x, y>>
<1> DEFINE s == <<x, y>>
           n == Node("binary", None, op, None, s)
<1>1. s \in Seq(Over(S, b)) /\ Len(s) = 2 /\ DOMAIN s = {1, 2} /\ s[1] = x /\ s[2] = y
  OBVIOUS
<1>2. n.kind = "binary" /\ n.args = s /\ n.qual = None
  BY DEF Node
<1>3. "binary" \in Kinds \ Cautious /\ "binary" \in Free
  BY DEF Kinds, BinaryKinds, Free, Cautious
<1> HIDE DEF s
<1>4. Shape(n)
  <2>1. \A i \in {1, 2} : ChildKinds("binary", i) = Kinds \ Lists
    BY <1>3, FreeChildren
  <2> HIDE DEF n
  <2> QED BY <1>1, <1>2, <2>1 DEF Shape, LeafKinds, UnaryKinds, BinaryKinds
<1>5. None \in Names
  BY Written DEF RuleNames, None
<1>6. n \in TreesAt[d] /\ n \in Trees /\ (n \in S => n \in Over(S, d))
  BY <1>1, <1>3, <1>4, <1>5, NodeOver
<1> QED BY <1>2, <1>6 DEF s, Binary

LEMMA ListOver ==
  ASSUME NEW S, NEW b, NEW d, Under(b, d), NEW k \in Lists, NEW s \in Seq(Over(S, b)),
         \A i \in DOMAIN s : s[i].kind \in ChildKinds(k, i)
  PROVE  /\ ListOf(k, s) \in TreesAt[d] /\ ListOf(k, s) \in Trees
         /\ ListOf(k, s) \in S => ListOf(k, s) \in Over(S, d)
         /\ ListOf(k, s).kind = k /\ ListOf(k, s).args = s
<1> DEFINE n == Node(k, None, None, None, s)
<1>1. k \in Kinds \ Cautious
  BY DEF Kinds, Lists, Cautious
<1>2. n.kind = k /\ n.args = s
  BY DEF Node
<1>3. Shape(n)
  <2> HIDE DEF n
  <2> QED BY <1>2 DEF Shape, LeafKinds, UnaryKinds, BinaryKinds, Lists
<1>4. None \in Names
  BY Written DEF RuleNames, None
<1>5. n \in TreesAt[d] /\ n \in Trees /\ (n \in S => n \in Over(S, d))
  BY <1>1, <1>3, <1>4, NodeOver
<1> QED BY <1>2, <1>5 DEF ListOf

FrameKinds == {"items", "sources", "list", "select", "query"}

LEMMA SelectOver ==
  ASSUME NEW S, NEW b, NEW c, NEW d, NEW e, Under(b, c), Under(c, d), Under(d, e),
         \A n \in Trees : n.kind \in FrameKinds => n \in S,
         NEW items \in Seq(Over(S, b)), NEW from \in Seq(Over(S, b)), NEW where \in Seq(Over(S, b)),
         \A i \in DOMAIN items : items[i].kind \in ItemKinds,
         \A i \in DOMAIN from : from[i].kind \in SourceKinds,
         \A i \in DOMAIN where : where[i].kind \in Kinds \ Lists
  PROVE  /\ Query(Select(items, from, where), <<>>) \in Over(S, e)
         /\ Query(Select(items, from, where), <<>>).kind = "query"
<1> DEFINE i1 == ListOf("items", items)
           i2 == ListOf("sources", from)
           i3 == ListOf("list", where)
           s == <<i1, i2, i3>>
           m == Node("select", None, None, None, s)
           nothing == <<>>
           o == ListOf("list", nothing)
           t == <<m, o>>
           q == Node("query", None, None, None, t)
<1>0. None \in Names
  BY Written DEF RuleNames, None
<1>1. i1 \in Over(S, c) /\ i1.kind = "items"
  <2>1. "items" \in Lists /\ \A i \in DOMAIN items : items[i].kind \in ChildKinds("items", i)
    BY DEF Lists, ChildKinds
  <2>2. i1 \in Trees /\ (i1 \in S => i1 \in Over(S, c)) /\ i1.kind = "items"
    BY <2>1, ListOver
  <2> QED BY <2>2 DEF FrameKinds
<1>2. i2 \in Over(S, c) /\ i2.kind = "sources"
  <2>1. "sources" \in Lists /\ \A i \in DOMAIN from : from[i].kind \in ChildKinds("sources", i)
    BY DEF Lists, ChildKinds
  <2>2. i2 \in Trees /\ (i2 \in S => i2 \in Over(S, c)) /\ i2.kind = "sources"
    BY <2>1, ListOver
  <2> QED BY <2>2 DEF FrameKinds
<1>3. i3 \in Over(S, c) /\ i3.kind = "list"
  <2>1. "list" \in Lists /\ "list" \in Free
    BY DEF Lists, Free, Kinds
  <2>2. \A i \in DOMAIN where : where[i].kind \in ChildKinds("list", i)
    BY <2>1, FreeChildren
  <2>3. i3 \in Trees /\ (i3 \in S => i3 \in Over(S, c)) /\ i3.kind = "list"
    BY <2>1, <2>2, ListOver
  <2> QED BY <2>3 DEF FrameKinds
<1> HIDE DEF i1, i2, i3
<1>4. /\ s \in Seq(Over(S, c)) /\ Len(s) = 3 /\ DOMAIN s = 1 .. 3
      /\ s[1].kind = "items" /\ s[2].kind = "sources" /\ s[3].kind = "list"
  BY <1>1, <1>2, <1>3
<1> HIDE DEF s
<1>5. m.kind = "select" /\ m.args = s
  BY DEF Node
<1>6. Shape(m)
  <2>1. /\ ChildKinds("select", 1) = {"items"} /\ ChildKinds("select", 2) = {"sources"}
        /\ ChildKinds("select", 3) = {"list"}
    BY DEF ChildKinds
  <2>2. \A i \in DOMAIN s : s[i].kind \in ChildKinds("select", i)
    BY <1>4, <2>1
  <2> HIDE DEF m
  <2> QED BY <1>4, <1>5, <2>2 DEF Shape, LeafKinds, UnaryKinds, BinaryKinds
<1>7. m \in Over(S, d)
  <2>1. "select" \in Kinds \ Cautious
    BY DEF Kinds, BodyKinds, Cautious
  <2>2. m \in Trees /\ (m \in S => m \in Over(S, d))
    BY <1>0, <1>4, <1>6, <2>1, NodeOver
  <2> QED BY <1>5, <2>2 DEF FrameKinds
<1>8. o \in Over(S, d) /\ o.kind = "list"
  <2>1. /\ "list" \in Lists /\ nothing \in Seq(Over(S, c))
        /\ \A i \in DOMAIN nothing : nothing[i].kind \in ChildKinds("list", i)
    BY DEF Lists
  <2> HIDE DEF nothing
  <2>2. o \in Trees /\ (o \in S => o \in Over(S, d)) /\ o.kind = "list"
    BY <2>1, ListOver
  <2> QED BY <2>2 DEF FrameKinds
<1> HIDE DEF m, o
<1>9. /\ t \in Seq(Over(S, d)) /\ Len(t) = 2 /\ DOMAIN t = 1 .. 2
      /\ t[1].kind = "select" /\ t[2].kind = "list"
  BY <1>5, <1>7, <1>8
<1> HIDE DEF t
<1>10. q.kind = "query" /\ q.args = t
  BY DEF Node
<1>11. Shape(q)
  <2>1. "select" \in ChildKinds("query", 1) /\ "list" \in ChildKinds("query", 2)
    BY DEF ChildKinds, BodyKinds
  <2>2. \A i \in DOMAIN t : t[i].kind \in ChildKinds("query", i)
    BY <1>9, <2>1
  <2> HIDE DEF q
  <2> QED BY <1>9, <1>10, <2>2 DEF Shape, LeafKinds, UnaryKinds, BinaryKinds
<1>12. q \in Over(S, e)
  <2>1. "query" \in Kinds \ Cautious
    BY DEF Kinds, BodyKinds, Cautious
  <2>2. q \in Trees /\ (q \in S => q \in Over(S, e))
    BY <1>0, <1>9, <1>11, <2>1, NodeOver
  <2> QED BY <1>10, <2>2 DEF FrameKinds
<1>13. q = Query(Select(items, from, where), <<>>)
  BY DEF Query, Select, t, m, o, s, i1, i2, i3
<1> QED BY <1>10, <1>12, <1>13

\* A node that stands in a template.
InTemplate(n) ==
  \/ n.kind \in FrameKinds \union {"unnamed", "aliased", "derived", "subquery"}
  \/ n.kind = "table" /\ n.qual = "pg_catalog"
  \/ n.kind = "column" /\ n.qual \in {"c", "n"}
  \/ n.kind = "call" /\ n.qual = None /\ n.name \in {"parse_ident", "current_schema"}
  \/ n.kind = "cast" /\ n.qual = None /\ n.name = "text" /\ n.alias = None
  \/ n.kind = "binary" /\ n.qual = None
  \/ n.kind = "ident" /\ n.name \in {"oid", "parts", "nspname", "typname", "proname"}

LEMMA SingleSeq == ASSUME NEW A, NEW x \in A PROVE <<x>> \in Seq(A) /\ DOMAIN <<x>> = {1} /\ <<x>>[1] = x
OBVIOUS

\* The leaves of a template; only that of pg_class has columns.
LEMMA TemplateLeaves ==
  ASSUME NEW S, \A n \in Trees : InTemplate(n) /\ n.kind # "column" => n \in S, NEW d \in 1 .. MaxDepth
  PROVE  /\ \A x \in {"oid", "parts", "nspname", "typname", "proname"} :
              Leaf("ident", x) \in Over(S, d) /\ Leaf("ident", x).kind = "ident"
         /\ \A x \in Names, a \in Names :
              TableAs("pg_catalog", x, a) \in Over(S, d) /\ TableAs("pg_catalog", x, a).kind = "table"
<1>0. None \in Names /\ {"oid", "parts", "nspname", "typname", "proname", "pg_catalog"} \subseteq Names
  BY Written DEF RuleNames, None
<1>1. "ident" \in LeafKinds \ {"register"} /\ "table" \in LeafKinds \ {"register"}
  BY DEF LeafKinds
<1>2. ASSUME NEW x \in {"oid", "parts", "nspname", "typname", "proname"}
      PROVE  Leaf("ident", x) \in Over(S, d) /\ Leaf("ident", x).kind = "ident"
  <2> DEFINE n == Node("ident", None, x, None, <<>>)
  <2>0. x \in Names /\ None \in Names
    BY <1>0
  <2>1. n \in Trees /\ (n \in S => n \in Over(S, d)) /\ n.kind = "ident" /\ n.name = x
    <3>1. "ident" \in LeafKinds \ {"register"}
      BY <1>1
    <3>2. n \in Trees /\ (n \in S => n \in Over(S, d)) /\ n.kind = "ident" /\ n.name = x
      BY <3>1, <2>0, LeafOver
    <3> QED BY <3>2
  <2>2. n = Leaf("ident", x)
    BY DEF Leaf
  <2> HIDE DEF n
  <2>3. n \in S
    BY <2>1 DEF InTemplate
  <2> QED BY <2>1, <2>2, <2>3
<1>3. ASSUME NEW x \in Names, NEW a \in Names
      PROVE  /\ TableAs("pg_catalog", x, a) \in Over(S, d)
             /\ TableAs("pg_catalog", x, a).kind = "table"
  <2> DEFINE q == "pg_catalog"
             n == Node("table", q, x, a, <<>>)
  <2>0. q \in Names
    BY <1>0
  <2> HIDE DEF q
  <2>1. n \in Trees /\ (n \in S => n \in Over(S, d)) /\ n.kind = "table" /\ n.qual = q
    BY <1>1, <2>0, LeafOver
  <2>2. n = TableAs("pg_catalog", x, a)
    BY DEF TableAs, q
  <2> HIDE DEF n
  <2>3. n \in S
    BY <2>1 DEF InTemplate, q
  <2> QED BY <2>1, <2>2, <2>3
<1> QED BY <1>2, <1>3

LEMMA TemplateColumns ==
  ASSUME NEW S, \A n \in Trees : InTemplate(n) => n \in S, NEW d \in 1 .. MaxDepth
  PROVE  \A q \in {"c", "n"}, x \in Names :
           Column(q, x) \in Over(S, d) /\ Column(q, x).kind = "column"
<1>0. None \in Names /\ {"c", "n"} \subseteq Names
  BY Written DEF RuleNames, None
<1>1. "column" \in LeafKinds \ {"register"}
  BY DEF LeafKinds
<1>2. ASSUME NEW q \in {"c", "n"}, NEW x \in Names
      PROVE  Column(q, x) \in Over(S, d) /\ Column(q, x).kind = "column"
  <2> DEFINE n == Node("column", q, x, None, <<>>)
  <2>0. q \in Names /\ None \in Names
    BY <1>0
  <2>1. n \in Trees /\ (n \in S => n \in Over(S, d)) /\ n.kind = "column" /\ n.qual = q
    <3>1. "column" \in LeafKinds \ {"register"}
      BY <1>1
    <3>2. n \in Trees /\ (n \in S => n \in Over(S, d)) /\ n.kind = "column" /\ n.qual = q
      BY <3>1, <2>0, LeafOver
    <3> QED BY <3>2
  <2>2. n = Column(q, x)
    BY DEF Column
  <2> HIDE DEF n
  <2>3. n \in S
    BY <2>1 DEF InTemplate
  <2> QED BY <2>1, <2>2, <2>3
<1> QED BY <1>2

LEMMA NameTemplateOver ==
  ASSUME NEW S, NEW b, NEW c, NEW d, NEW e, NEW f, Under(b, c), Under(c, d), Under(d, e), Under(e, f),
         \A n \in Trees : InTemplate(n) /\ n.kind # "column" => n \in S,
         NEW o \in Over(S, b), o.kind \in Kinds \ Lists,
         NEW table \in Names, NEW column \in {"nspname", "typname", "proname"}
  PROVE  /\ NameTemplate(table, column, o) \in Over(S, f)
         /\ NameTemplate(table, column, o).kind = "query"
<1> DEFINE oid == Leaf("ident", "oid")
           col == Leaf("ident", column)
           item == Item(oid)
           tab == TableAs("pg_catalog", table, None)
           cond == Binary("=", col, o)
           items == <<item>>
           from == <<tab>>
           where == <<cond>>
<1>0. None \in Names /\ "oid" \in Names /\ column \in Names /\ "pg_catalog" \in Names /\ "=" \in Names
  BY Written DEF RuleNames, None
<1>1. b \in 1 .. MaxDepth /\ c \in 1 .. MaxDepth
  <2>1. o \in TreesAt[b] /\ b \in 0 .. MaxDepth /\ c \in 1 .. MaxDepth
    BY DEF Over, Under
  <2> QED BY <2>1, Positive
<1>3. /\ oid \in Over(S, b) /\ oid.kind = "ident" /\ col \in Over(S, b) /\ col.kind = "ident"
      /\ tab \in Over(S, c) /\ tab.kind = "table"
  <2>1. /\ \A x \in {"oid", "parts", "nspname", "typname", "proname"} :
             Leaf("ident", x) \in Over(S, b) /\ Leaf("ident", x).kind = "ident"
        /\ \A x \in Names, a \in Names :
             TableAs("pg_catalog", x, a) \in Over(S, c) /\ TableAs("pg_catalog", x, a).kind = "table"
    BY <1>1, TemplateLeaves
  <2> QED BY <1>0, <2>1
<1> HIDE DEF oid, col, tab
<1>6. item \in Over(S, c) /\ item.kind = "unnamed"
  <2> DEFINE n == Node("unnamed", None, None, None, <<oid>>)
  <2>1. oid.kind \in ChildKinds("unnamed", 1)
    BY <1>3 DEF ChildKinds, Kinds, LeafKinds, Lists
  <2>2. n \in Trees /\ (n \in S => n \in Over(S, c)) /\ n.kind = "unnamed"
    BY <1>0, <1>3, <2>1, UnaryOver
  <2>3. n = item
    BY DEF Item
  <2> HIDE DEF n, item
  <2>4. n \in S
    BY <2>2 DEF InTemplate
  <2> QED BY <2>2, <2>3, <2>4
<1>7. cond \in Over(S, c) /\ cond.kind = "binary"
  <2>1. col.kind \in Kinds \ Lists
    BY <1>3 DEF Kinds, LeafKinds, Lists
  <2> DEFINE op == "="
             n == Binary(op, col, o)
  <2>2. op \in Names
    BY <1>0
  <2> HIDE DEF op
  <2>3. n \in Trees /\ (n \in S => n \in Over(S, c)) /\ n.kind = "binary" /\ n.qual = None
    BY <1>3, <2>1, <2>2, BinaryOver
  <2>4. n = cond
    BY DEF op
  <2> HIDE DEF n, cond
  <2>5. n \in S
    BY <2>3 DEF InTemplate
  <2> QED BY <2>3, <2>4, <2>5
<1> HIDE DEF item, cond
<1>8. /\ items \in Seq(Over(S, c)) /\ \A i \in DOMAIN items : items[i].kind \in ItemKinds
      /\ from \in Seq(Over(S, c)) /\ \A i \in DOMAIN from : from[i].kind \in SourceKinds
      /\ where \in Seq(Over(S, c)) /\ \A i \in DOMAIN where : where[i].kind \in Kinds \ Lists
  <2>1. /\ items \in Seq(Over(S, c)) /\ DOMAIN items = {1} /\ items[1] = item
        /\ from \in Seq(Over(S, c)) /\ DOMAIN from = {1} /\ from[1] = tab
        /\ where \in Seq(Over(S, c)) /\ DOMAIN where = {1} /\ where[1] = cond
    BY <1>3, <1>6, <1>7
  <2>2. "unnamed" \in ItemKinds /\ "table" \in SourceKinds /\ "binary" \in Kinds \ Lists
    BY DEF ItemKinds, SourceKinds, Kinds, BinaryKinds, Lists
  <2> HIDE DEF items, from, where
  <2> QED BY <1>3, <1>6, <1>7, <2>1, <2>2
<1> HIDE DEF items, from, where
<1>9. \A n \in Trees : n.kind \in FrameKinds => n \in S
  BY DEF InTemplate, FrameKinds
<1>10. /\ Query(Select(items, from, where), <<>>) \in Over(S, f)
       /\ Query(Select(items, from, where), <<>>).kind = "query"
  BY <1>8, <1>9, SelectOver
<1> QED BY <1>10 DEF NameTemplate, items, from, where, item, tab, cond, oid, col

LEMMA ItemOver ==
  ASSUME NEW S, NEW b, NEW d, Under(b, d), NEW x \in Over(S, b), x.kind \in Kinds \ Lists,
         \A n \in Trees : n.kind \in {"unnamed", "aliased"} => n \in S
  PROVE  /\ Item(x) \in Over(S, d) /\ Item(x).kind = "unnamed"
         /\ \A a \in Names : ItemAs(x, a) \in Over(S, d) /\ ItemAs(x, a).kind = "aliased"
<1>0. None \in Names
  BY Written DEF RuleNames, None
<1>1. x.kind \in ChildKinds("unnamed", 1) /\ x.kind \in ChildKinds("aliased", 1)
  BY DEF ChildKinds
<1>2. ASSUME NEW k \in {"unnamed", "aliased"}, NEW a \in Names
      PROVE  Node(k, None, None, a, <<x>>) \in Over(S, d) /\ Node(k, None, None, a, <<x>>).kind = k
  <2> DEFINE n == Node(k, None, None, a, <<x>>)
  <2>1. n \in Trees /\ (n \in S => n \in Over(S, d)) /\ n.kind = k
    BY <1>1, UnaryOver
  <2> HIDE DEF n
  <2>2. n \in S
    BY <2>1
  <2> QED BY <2>1, <2>2 DEF n
<1> QED BY <1>0, <1>2 DEF Item, ItemAs

\* What the template of a class finds the name with.
LEMMA PartsOver ==
  ASSUME NEW S, NEW b, NEW c1, NEW c2, NEW c3, NEW c4, NEW c5, NEW c6, NEW c7,
         Under(b, c1), Under(c1, c2), Under(c2, c3), Under(c3, c4), Under(c4, c5), Under(c5, c6),
         Under(c6, c7),
         \A n \in Trees : InTemplate(n) => n \in S,
         NEW o \in Over(S, b), o.kind \in Kinds \ Lists
  PROVE  LET q == Query(Select(<<ItemAs(Call("parse_ident",
                    <<Node("cast", None, "text", None, <<o>>)>>), "parts")>>, <<>>, <<>>), <<>>)
             n == Node("derived", None, None, None, <<q>>)
         IN n \in Over(S, c7) /\ n.kind = "derived"
<1> DEFINE cast == Node("cast", None, "text", None, <<o>>)
           s == <<cast>>
           call == Call("parse_ident", s)
           item == ItemAs(call, "parts")
           items == <<item>>
           nothing == <<>>
           q == Query(Select(items, nothing, nothing), <<>>)
           n == Node("derived", None, None, None, <<q>>)
<1>0. None \in Names /\ "parse_ident" \in Names /\ "parts" \in Names
  BY Written DEF RuleNames, None
<1>1. cast \in Over(S, c1) /\ cast.kind = "cast"
  <2>1. /\ cast \in Trees /\ (cast \in S => cast \in Over(S, c1)) /\ cast.kind = "cast"
        /\ cast.qual = None /\ cast.name = "text" /\ cast.alias = None
    BY TextCastOver
  <2> HIDE DEF cast
  <2>2. cast \in S
    BY <2>1 DEF InTemplate
  <2> QED BY <2>1, <2>2
<1> HIDE DEF cast
<1>2. call \in Over(S, c2) /\ call.kind = "call"
  <2> DEFINE word == "parse_ident"
             m == Node("call", None, word, None, s)
  <2>1. word \in Names
    BY <1>0
  <2>2. s \in Seq(Over(S, c1)) /\ DOMAIN s = {1} /\ s[1] = cast
    BY <1>1
  <2>3. \A i \in DOMAIN s : s[i].kind \in Kinds \ Lists
    BY <1>1, <2>2 DEF Kinds, UnaryKinds, Lists
  <2> HIDE DEF s, word
  <2>4. m \in Trees /\ (m \in S => m \in Over(S, c2)) /\ m.kind = "call" /\ m.name = word /\ m.qual = None
    BY <2>1, <2>2, <2>3, OpenNode
  <2>5. m = call
    BY DEF Call, word
  <2> HIDE DEF m
  <2>6. m \in S
    BY <2>4 DEF InTemplate, word
  <2> HIDE DEF call
  <2> QED BY <2>4, <2>5, <2>6
<1> HIDE DEF call
<1>3. item \in Over(S, c3) /\ item.kind = "aliased"
  <2>1. \A m \in Trees : m.kind \in {"unnamed", "aliased"} => m \in S
    BY DEF InTemplate
  <2>2. call.kind \in Kinds \ Lists
    BY <1>2 DEF Kinds, Lists
  <2>3. \A a \in Names : ItemAs(call, a) \in Over(S, c3) /\ ItemAs(call, a).kind = "aliased"
    BY <1>2, <2>1, <2>2, ItemOver
  <2> QED BY <1>0, <2>3
<1> HIDE DEF item
<1>4. /\ items \in Seq(Over(S, c3)) /\ \A i \in DOMAIN items : items[i].kind \in ItemKinds
      /\ nothing \in Seq(Over(S, c3)) /\ \A i \in DOMAIN nothing : nothing[i].kind \in SourceKinds
      /\ \A i \in DOMAIN nothing : nothing[i].kind \in Kinds \ Lists
  <2>1. items \in Seq(Over(S, c3)) /\ DOMAIN items = {1} /\ items[1] = item
    BY <1>3
  <2>2. "aliased" \in ItemKinds
    BY DEF ItemKinds
  <2> HIDE DEF items
  <2> QED BY <1>3, <2>1, <2>2
<1> HIDE DEF items, nothing
<1>5. \A m \in Trees : m.kind \in FrameKinds => m \in S
  BY DEF InTemplate
<1>6. q \in Over(S, c6) /\ q.kind = "query"
  BY <1>4, <1>5, SelectOver
<1> HIDE DEF q
<1>7. n \in Over(S, c7) /\ n.kind = "derived"
  <2>1. q.kind \in ChildKinds("derived", 1)
    BY <1>6 DEF ChildKinds
  <2>2. n \in Trees /\ (n \in S => n \in Over(S, c7)) /\ n.kind = "derived"
    BY <1>0, <1>6, <2>1, UnaryOver
  <2> HIDE DEF n
  <2>3. n \in S
    BY <2>2 DEF InTemplate
  <2> QED BY <2>2, <2>3
<1> QED BY <1>7 DEF q, items, item, call, s, cast, nothing

LEMMA ConditionOver ==
  ASSUME NEW S, NEW b, NEW c, NEW d, Under(b, c), Under(c, d), b # 0,
         \A n \in Trees : InTemplate(n) => n \in S
  PROVE  LET n == Binary("and", Binary("=", Column("n", "nspname"), Call("current_schema", <<>>)),
                          Binary("=", Column("c", "relname"), Leaf("ident", "parts")))
         IN n \in Over(S, d) /\ n.kind = "binary"
<1> DEFINE e1 == Column("n", "nspname")
           e2 == Call("current_schema", <<>>)
           e3 == Column("c", "relname")
           e4 == Leaf("ident", "parts")
           eq == "="
           conj == "and"
           l == Binary(eq, e1, e2)
           r == Binary(eq, e3, e4)
           n == Binary(conj, l, r)
<1>0. /\ None \in Names /\ "nspname" \in Names /\ "relname" \in Names /\ "current_schema" \in Names
      /\ eq \in Names /\ conj \in Names
  BY Written DEF RuleNames, None
<1>1. b \in 1 .. MaxDepth
  BY DEF Under
<1>2. /\ e1 \in Over(S, b) /\ e1.kind = "column" /\ e3 \in Over(S, b) /\ e3.kind = "column"
      /\ e4 \in Over(S, b) /\ e4.kind = "ident"
  <2>1. /\ \A x \in {"oid", "parts", "nspname", "typname", "proname"} :
             Leaf("ident", x) \in Over(S, b) /\ Leaf("ident", x).kind = "ident"
        /\ \A q \in {"c", "n"}, x \in Names :
             Column(q, x) \in Over(S, b) /\ Column(q, x).kind = "column"
    BY <1>1, TemplateLeaves, TemplateColumns
  <2> QED BY <1>0, <2>1
<1>3. e2 \in Over(S, b) /\ e2.kind = "call"
  <2> DEFINE word == "current_schema"
             s == <<>>
             a == b - 1
             m == Node("call", None, word, None, s)
  <2>1. /\ word \in Names /\ Under(a, b) /\ s \in Seq(Over(S, a))
        /\ \A i \in DOMAIN s : s[i].kind \in Kinds \ Lists
    BY <1>0, <1>1 DEF Under
  <2> HIDE DEF word, s, a
  <2>2. m \in Trees /\ (m \in S => m \in Over(S, b)) /\ m.kind = "call" /\ m.name = word /\ m.qual = None
    BY <2>1, OpenNode
  <2>3. m = e2
    BY DEF Call, word, s
  <2> HIDE DEF m, e2
  <2>4. m \in S
    BY <2>2 DEF InTemplate, word
  <2> QED BY <2>2, <2>3, <2>4
<1>4. {"column", "call", "ident", "binary"} \subseteq Kinds \ Lists
  BY DEF Kinds, LeafKinds, BinaryKinds, Lists
<1> HIDE DEF e1, e2, e3, e4, eq, conj
<1>5. l \in Over(S, c) /\ l.kind = "binary"
  <2>1. e1.kind \in Kinds \ Lists /\ e2.kind \in Kinds \ Lists
    BY <1>2, <1>3, <1>4
  <2>2. l \in Trees /\ (l \in S => l \in Over(S, c)) /\ l.kind = "binary" /\ l.qual = None
    BY <1>0, <1>2, <1>3, <2>1, BinaryOver
  <2> HIDE DEF l
  <2>3. l \in S
    BY <2>2 DEF InTemplate
  <2> QED BY <2>2, <2>3
<1>6. r \in Over(S, c) /\ r.kind = "binary"
  <2>1. e3.kind \in Kinds \ Lists /\ e4.kind \in Kinds \ Lists
    BY <1>2, <1>4
  <2>2. r \in Trees /\ (r \in S => r \in Over(S, c)) /\ r.kind = "binary" /\ r.qual = None
    BY <1>0, <1>2, <2>1, BinaryOver
  <2> HIDE DEF r
  <2>3. r \in S
    BY <2>2 DEF InTemplate
  <2> QED BY <2>2, <2>3
<1> HIDE DEF l, r
<1>7. n \in Over(S, d) /\ n.kind = "binary"
  <2>1. l.kind \in Kinds \ Lists /\ r.kind \in Kinds \ Lists
    BY <1>4, <1>5, <1>6
  <2>2. n \in Trees /\ (n \in S => n \in Over(S, d)) /\ n.kind = "binary" /\ n.qual = None
    BY <1>0, <1>5, <1>6, <2>1, BinaryOver
  <2> HIDE DEF n
  <2>3. n \in S
    BY <2>2 DEF InTemplate
  <2> QED BY <2>2, <2>3
<1> QED BY <1>7 DEF l, r, e1, e2, e3, e4, eq, conj

LEMMA ClassTemplateOver ==
  ASSUME NEW S, NEW b, NEW c1, NEW c2, NEW c3, NEW c4, NEW c5, NEW c6, NEW c7, NEW c8, NEW c9, NEW c10,
         Under(b, c1), Under(c1, c2), Under(c2, c3), Under(c3, c4), Under(c4, c5), Under(c5, c6),
         Under(c6, c7), Under(c7, c8), Under(c8, c9), Under(c9, c10),
         \A n \in Trees : InTemplate(n) => n \in S,
         NEW o \in Over(S, b), o.kind \in Kinds \ Lists
  PROVE  ClassTemplate(o) \in Over(S, c10) /\ ClassTemplate(o).kind = "query"
<1> DEFINE col == Column("c", "oid")
           item == Item(col)
           t1 == TableAs("pg_catalog", "pg_class", "c")
           t2 == TableAs("pg_catalog", "pg_namespace", "n")
           dq == Query(Select(<<ItemAs(Call("parse_ident",
                   <<Node("cast", None, "text", None, <<o>>)>>), "parts")>>, <<>>, <<>>), <<>>)
           t3 == Node("derived", None, None, None, <<dq>>)
           cond == Binary("and", Binary("=", Column("n", "nspname"), Call("current_schema", <<>>)),
                          Binary("=", Column("c", "relname"), Leaf("ident", "parts")))
           items == <<item>>
           from == <<t1, t2, t3>>
           where == <<cond>>
<1>0. {"oid", "pg_class", "c", "pg_namespace", "n"} \subseteq Names
  BY Written DEF RuleNames
<1>1. c7 \in 1 .. MaxDepth /\ c6 \in 1 .. MaxDepth /\ c5 # 0
  BY DEF Under
<1>2. /\ \A q \in {"c", "n"}, x \in Names : Column(q, x) \in Over(S, c6) /\ Column(q, x).kind = "column"
      /\ \A x \in Names, a \in Names :
           TableAs("pg_catalog", x, a) \in Over(S, c7) /\ TableAs("pg_catalog", x, a).kind = "table"
  BY <1>1, TemplateLeaves, TemplateColumns
<1>3. /\ col \in Over(S, c6) /\ col.kind = "column"
      /\ t1 \in Over(S, c7) /\ t1.kind = "table" /\ t2 \in Over(S, c7) /\ t2.kind = "table"
  BY <1>0, <1>2
<1>4. t3 \in Over(S, c7) /\ t3.kind = "derived"
  BY PartsOver
<1>5. cond \in Over(S, c7) /\ cond.kind = "binary"
  BY <1>1, ConditionOver
<1> HIDE DEF col, t1, t2, t3, cond
<1>6. item \in Over(S, c7) /\ item.kind = "unnamed"
  <2>1. \A m \in Trees : m.kind \in {"unnamed", "aliased"} => m \in S
    BY DEF InTemplate
  <2>2. col.kind \in Kinds \ Lists
    BY <1>3 DEF Kinds, LeafKinds, Lists
  <2> QED BY <1>3, <2>1, <2>2, ItemOver
<1> HIDE DEF item
<1>7. /\ items \in Seq(Over(S, c7)) /\ \A i \in DOMAIN items : items[i].kind \in ItemKinds
      /\ from \in Seq(Over(S, c7)) /\ \A i \in DOMAIN from : from[i].kind \in SourceKinds
      /\ where \in Seq(Over(S, c7)) /\ \A i \in DOMAIN where : where[i].kind \in Kinds \ Lists
  <2>1. /\ items \in Seq(Over(S, c7)) /\ DOMAIN items = {1} /\ items[1] = item
        /\ where \in Seq(Over(S, c7)) /\ DOMAIN where = {1} /\ where[1] = cond
    BY <1>5, <1>6
  <2>2. /\ from \in Seq(Over(S, c7)) /\ DOMAIN from = {1, 2, 3}
        /\ from[1] = t1 /\ from[2] = t2 /\ from[3] = t3
    BY <1>3, <1>4
  <2>3. /\ "unnamed" \in ItemKinds /\ "table" \in SourceKinds /\ "derived" \in SourceKinds
        /\ "binary" \in Kinds \ Lists
    BY DEF ItemKinds, SourceKinds, Kinds, BinaryKinds, Lists
  <2> HIDE DEF items, from, where
  <2>4. \A i \in DOMAIN from : from[i].kind \in SourceKinds
    BY <1>3, <1>4, <2>2, <2>3
  <2> QED BY <1>5, <1>6, <2>1, <2>2, <2>3, <2>4
<1> HIDE DEF items, from, where
<1>8. \A n \in Trees : n.kind \in FrameKinds => n \in S
  BY DEF InTemplate
<1>9. /\ Query(Select(items, from, where), <<>>) \in Over(S, c10)
      /\ Query(Select(items, from, where), <<>>).kind = "query"
  BY <1>7, <1>8, SelectOver
<1> QED BY <1>9 DEF ClassTemplate, items, from, where, item, col, t1, t2, t3, cond

\* A template fits into the levels that a cast counts.
LEMMA TemplateOver ==
  ASSUME NEW S, NEW b \in 1 .. MaxDepth, b + Growth <= MaxDepth,
         \A n \in Trees : InTemplate(n) => n \in S,
         NEW o \in Over(S, b), o.kind \in Kinds \ Lists, NEW t
  PROVE  /\ Template(t, o) \in Over(S, b + Growth - 1) /\ Template(t, o).kind = "query"
<1> DEFINE c1 == b + 1
           c2 == b + 2
           c3 == b + 3
           c4 == b + 4
           c5 == b + 5
           c6 == b + 6
           c7 == b + 7
           c8 == b + 8
           c9 == b + 9
           c10 == b + 10
<1>1. /\ Under(b, c1) /\ Under(c1, c2) /\ Under(c2, c3) /\ Under(c3, c4) /\ Under(c4, c5)
      /\ Under(c5, c6) /\ Under(c6, c7) /\ Under(c7, c8) /\ Under(c8, c9) /\ Under(c9, c10)
  BY DEF Under, Growth
<1>2. c4 \in 0 .. MaxDepth /\ c10 \in c4 .. MaxDepth /\ c10 = b + Growth - 1
  BY DEF Growth
<1> HIDE DEF c1, c2, c3, c4, c5, c6, c7, c8, c9, c10
<1>3. ClassTemplate(o) \in Over(S, c10) /\ ClassTemplate(o).kind = "query"
  BY <1>1, ClassTemplateOver
<1>4. ASSUME NEW table \in Names, NEW column \in {"nspname", "typname", "proname"}
      PROVE  /\ NameTemplate(table, column, o) \in Over(S, c10)
             /\ NameTemplate(table, column, o).kind = "query"
  <2>1. /\ NameTemplate(table, column, o) \in Over(S, c4)
        /\ NameTemplate(table, column, o).kind = "query"
    BY <1>1, NameTemplateOver
  <2>2. Over(S, c4) \subseteq Over(S, c10)
    BY <1>2, OverGrow
  <2> QED BY <2>1, <2>2
<1>5. {"pg_namespace", "pg_type", "pg_proc"} \subseteq Names
  BY Written DEF RuleNames
<1>6. /\ NameTemplate("pg_namespace", "nspname", o) \in Over(S, c10)
      /\ NameTemplate("pg_namespace", "nspname", o).kind = "query"
      /\ NameTemplate("pg_type", "typname", o) \in Over(S, c10)
      /\ NameTemplate("pg_type", "typname", o).kind = "query"
      /\ NameTemplate("pg_proc", "proname", o) \in Over(S, c10)
      /\ NameTemplate("pg_proc", "proname", o).kind = "query"
  BY <1>4, <1>5
<1>7. \/ Template(t, o) = ClassTemplate(o)
      \/ Template(t, o) = NameTemplate("pg_namespace", "nspname", o)
      \/ Template(t, o) = NameTemplate("pg_type", "typname", o)
      \/ Template(t, o) = NameTemplate("pg_proc", "proname", o)
  BY DEF Template
<1> QED BY <1>2, <1>3, <1>6, <1>7

LEMMA RegCastOver ==
  ASSUME NEW S, NEW d \in 1 .. MaxDepth, NEW n \in Over(S, d),
         \A x \in Trees : InTemplate(x) => x \in S
  PROVE  LET m == RegCastToSubquery(n) IN
         /\ m \in TreesAt[d]
         /\ \A i \in DOMAIN m.args : m.args[i] \in Over(S, d - 1)
         /\ \/ m = n /\ ~RegCast(n)
            \/ RegCast(n) /\ m.kind = "number" /\ m.args = <<>> /\ n.args[1].kind = "digits"
            \/ /\ RegCast(n) /\ m.kind = "subquery" /\ m.args = <<Template(n.name, n.args[1])>>
               /\ n.args[1].kind # "digits" /\ m = Subquery(Template(n.name, n.args[1]))
<1> DEFINE m == RegCastToSubquery(n)
<1>1. /\ n \in TreesAt[d] /\ n \in Record(Over(S, d - 1)) /\ Shape(n)
      /\ \A i \in DOMAIN n.args : n.args[i] \in Over(S, d - 1)
      /\ Grows(n) => \A i \in DOMAIN n.args : n.args[i] \in Over(S, Below(d, Growth))
  BY OverParts
<1>2. CASE ~RegCast(n)
  BY <1>1, <1>2 DEF RegCastToSubquery
<1>3. CASE RegCast(n)
  <2> DEFINE b == Below(d, Growth)
             o == n.args[1]
             q == Template(n.name, o)
             e == <<>>
             c == b + Growth - 1
  <2>1. /\ n.kind \in {"cast", "castas"} /\ n.alias = None /\ n.name \in RegTypes
        /\ o.kind \in StringKinds \union {"param"}
    BY <1>3 DEF RegCast, IsString
  <2>2. 1 \in DOMAIN n.args
    <3>1. Len(n.args) = 1
      BY <1>1, <2>1 DEF Shape, UnaryKinds
    <3> QED BY <1>1, <3>1, RecordFields
  <2>3. Grows(n)
    BY <2>1 DEF Grows, None
  <2>4. o \in Over(S, b)
    BY <1>1, <2>2, <2>3
  <2>5. b \in 1 .. MaxDepth /\ b + Growth <= MaxDepth /\ b + Growth = d /\ Under(c, d)
    <3>1. o \in TreesAt[b] /\ b \in 0 .. MaxDepth
      BY <2>4, BelowLess DEF Over
    <3>2. b \in 1 .. MaxDepth
      BY <3>1, Positive
    <3> QED BY <3>2 DEF Below, Growth, Under
  <2> HIDE DEF b, o
  <2>6. o.kind \in Kinds \ Lists
    BY <2>1 DEF StringKinds, Kinds, Lists, LeafKinds
  <2>7. q \in Over(S, c) /\ q.kind = "query"
    BY <2>4, <2>5, <2>6, TemplateOver
  <2> HIDE DEF q, c
  <2>8. None \in Names /\ o.name \in Names
    <3>1. o.name \in Names
      BY <2>4, <2>5, OverFields
    <3> QED BY <3>1, Written DEF RuleNames, None
  <2>9. CASE o.kind = "digits"
    <3> DEFINE l == Node("number", None, o.name, None, <<>>)
    <3>1. "number" \in LeafKinds \ {"register"}
      BY DEF LeafKinds
    <3>2. l \in TreesAt[d] /\ l.kind = "number" /\ l.args = <<>>
      BY <2>8, <3>1, LeafOver
    <3>3. m = l
      BY <1>3, <2>9 DEF RegCastToSubquery, LookUp, Leaf, o
    <3> HIDE DEF m, l
    <3>4. DOMAIN m.args = {}
      BY <3>2, <3>3
    <3> QED BY <1>3, <2>9, <3>2, <3>3, <3>4 DEF m, o
  <2>10. CASE o.kind # "digits"
    <3> DEFINE l == Node("subquery", None, None, None, <<q>>)
    <3>1. q.kind \in ChildKinds("subquery", 1)
      BY <2>7 DEF ChildKinds
    <3>2. l \in TreesAt[d] /\ l.kind = "subquery" /\ l.args = <<q>>
      <4>1. Under(c, d) /\ q \in Over(S, c) /\ None \in Names
        BY <2>5, <2>7, <2>8
      <4> DEFINE k == "subquery"
      <4>2. k \in {"unnamed", "aliased", "subquery", "derived"} /\ q.kind \in ChildKinds(k, 1)
        BY <3>1
      <4> HIDE DEF k
      <4>3. Node(k, None, None, None, <<q>>) \in TreesAt[d]
        BY <4>1, <4>2, UnaryOver
      <4> QED BY <4>3 DEF k, Node
    <3>3. m = l
      BY <1>3, <2>10 DEF RegCastToSubquery, LookUp, Subquery, o, q
    <3>4. m = Subquery(Template(n.name, n.args[1]))
      BY <3>3 DEF Subquery, q, o
    <3>5. q \in Over(S, d - 1)
      <4>1. c = d - 1
        BY <2>5 DEF Under
      <4> QED BY <2>7, <4>1
    <3> HIDE DEF m, l
    <3>6. \A i \in DOMAIN m.args : m.args[i] \in Over(S, d - 1)
      BY <3>2, <3>3, <3>5
    <3> QED BY <1>3, <2>10, <3>2, <3>3, <3>4, <3>6 DEF m, o, q
  <2> QED BY <2>9, <2>10
<1> QED BY <1>2, <1>3

-----------------------------------------------------------------------------
(* Queries with other items *)

LEMMA OverAll ==
  ASSUME NEW S, NEW d \in 0 .. MaxDepth, NEW n
  PROVE  n \in Over(S, d) <=> n \in TreesAt[d] /\ n \in All(S)
<1>1. TreesAt[d] \subseteq Trees
  BY LevelsAreTrees
<1> QED BY <1>1 DEF Over, All

LEMMA WithArgOver ==
  ASSUME NEW S, NEW b, NEW d, Under(b, d), NEW n \in Over(S, d), n.kind \notin Cautious,
         NEW i \in DOMAIN n.args, NEW a \in Over(S, b), a.kind \in ChildKinds(n.kind, i)
  PROVE  LET m == WithArg(n, i, a) IN
         /\ m \in TreesAt[d] /\ m \in Trees /\ (m \in S => m \in Over(S, d))
         /\ m.kind = n.kind /\ m.qual = n.qual /\ m.name = n.name /\ m.alias = n.alias
         /\ Len(m.args) = Len(n.args) /\ DOMAIN m.args = DOMAIN n.args
         /\ m.args[i] = a
         /\ \A j \in DOMAIN n.args : j # i => m.args[j] = n.args[j]
<1> DEFINE m == WithArg(n, i, a)
<1>1. d \in 1 .. MaxDepth /\ b = d - 1
  BY DEF Under
<1>2. /\ n \in TreesAt[d] /\ n \in Record(Over(S, d - 1))
      /\ \A j \in DOMAIN n.args : n.args[j] \in Over(S, d - 1)
  BY <1>1, OverParts
<1>3. a \in TreesAt[d - 1] /\ a \in Over(S, d - 1)
  BY <1>1 DEF Over
<1>4. m \in TreesAt[d] /\ m \in Trees
  BY <1>1, <1>2, <1>3, WithArgTree, LevelsAreTrees
<1>5. /\ m.kind = n.kind /\ m.qual = n.qual /\ m.name = n.name /\ m.alias = n.alias
      /\ Len(m.args) = Len(n.args) /\ DOMAIN m.args = DOMAIN n.args
      /\ m.args[i] = a
      /\ \A j \in DOMAIN n.args : j # i => m.args[j] = n.args[j]
  BY <1>2, <1>3, WithArgFields
<1> HIDE DEF m
<1>6. \A j \in DOMAIN m.args : Nodes(m.args[j]) \subseteq S
  BY <1>2, <1>3, <1>5 DEF Over
<1>7. m \in S => m \in Over(S, d)
  BY <1>4, <1>6, NodesOf DEF Over
<1> QED BY <1>4, <1>5, <1>7 DEF m

LEMMA QueryOver ==
  ASSUME NEW S, NEW d \in 1 .. MaxDepth, NEW q \in Over(S, d), TopSelect(q)
  PROVE  /\ d - 1 \in 1 .. MaxDepth /\ d - 2 \in 1 .. MaxDepth /\ d - 3 \in 0 .. MaxDepth
         /\ q.args[1] \in Over(S, d - 1) /\ Order(q) \in Over(S, d - 1)
         /\ q.args[1].args[1] \in Over(S, d - 2) /\ q.args[1].args[2] \in Over(S, d - 2)
         /\ Where(q) \in Over(S, d - 2)
         /\ \A k \in DOMAIN Items(q) : Items(q)[k] \in Over(S, d - 3)
         /\ \A k \in DOMAIN From(q) : From(q)[k] \in Over(S, d - 3)
<1>1. q \in TreesAt[d] /\ \A i \in DOMAIN q.args : q.args[i] \in Over(S, d - 1)
  BY OverParts
<1>2. /\ d - 1 \in 1 .. MaxDepth /\ d - 2 \in 1 .. MaxDepth /\ d - 3 \in 0 .. MaxDepth
      /\ DOMAIN q.args = 1 .. 2 /\ DOMAIN q.args[1].args = 1 .. 3
  BY <1>1, QueryParts
<1>3. q.args[1] \in Over(S, d - 1) /\ Order(q) \in Over(S, d - 1)
  BY <1>1, <1>2 DEF Order
<1> DEFINE e == d - 1
           s == q.args[1]
<1>4. \A i \in DOMAIN s.args : s.args[i] \in Over(S, e - 1)
  BY <1>2, <1>3, OverParts
<1>5. e - 1 = d - 2 /\ 1 \in DOMAIN s.args /\ 2 \in DOMAIN s.args /\ 3 \in DOMAIN s.args
  BY <1>2
<1>6. s.args[1] \in Over(S, d - 2) /\ s.args[2] \in Over(S, d - 2) /\ s.args[3] \in Over(S, d - 2)
  BY <1>4, <1>5
<1> DEFINE f == d - 2
<1>7. /\ \A k \in DOMAIN s.args[1].args : s.args[1].args[k] \in Over(S, f - 1)
      /\ \A k \in DOMAIN s.args[2].args : s.args[2].args[k] \in Over(S, f - 1)
  BY <1>2, <1>6, OverParts
<1>8. f - 1 = d - 3
  OBVIOUS
<1> QED BY <1>2, <1>3, <1>6, <1>7, <1>8 DEF Items, From, Where

\* Other items in the place of the items.
LEMMA WithItemsOver ==
  ASSUME NEW S, NEW d \in 1 .. MaxDepth, NEW q \in Over(S, d), TopSelect(q),
         \A x \in Trees : x.kind \in {"select", "items"} => x \in S,
         NEW s \in Seq(Over(S, d - 3)), \A k \in DOMAIN s : s[k].kind \in ItemKinds
  PROVE  /\ WithItems(q, s) \in TreesAt[d]
         /\ \A i \in DOMAIN WithItems(q, s).args : WithItems(q, s).args[i] \in Over(S, d - 1)
<1> DEFINE m == WithItems(q, s)
<1>0. q \in TreesAt[d] /\ s \in Seq(TreesAt[d - 3])
  <2>1. Seq(Over(S, d - 3)) \subseteq Seq(TreesAt[d - 3])
    BY DEF Over
  <2> QED BY <2>1, OverParts
<1>1. /\ m \in TreesAt[d] /\ TopSelect(m) /\ Items(m) = s
      /\ Where(m) = Where(q) /\ Order(m) = Order(q) /\ m.args[1].args[2] = q.args[1].args[2]
  BY <1>0, WithItemsFields
<1> HIDE DEF m
<1>2. /\ d - 1 \in 0 .. MaxDepth /\ DOMAIN m.args = 1 .. 2 /\ DOMAIN m.args[1].args = 1 .. 3
      /\ m.args[1] \in TreesAt[d - 1] /\ m.args[1].kind = "select"
      /\ m.args[1].args[1] \in TreesAt[d - 2] /\ m.args[1].args[1].kind = "items"
      /\ d - 2 \in 0 .. MaxDepth
  <2>1. /\ d - 1 \in 1 .. MaxDepth /\ DOMAIN m.args = 1 .. 2 /\ DOMAIN m.args[1].args = 1 .. 3
        /\ m.args[1] \in TreesAt[d - 1] /\ m.args[1].kind = "select"
        /\ m.args[1].args[1] \in TreesAt[d - 2] /\ m.args[1].args[1].kind = "items"
        /\ d - 2 \in 1 .. MaxDepth
    BY <1>1, QueryParts
  <2> QED BY <2>1
<1>3. /\ Order(q) \in Over(S, d - 1) /\ q.args[1].args[2] \in Over(S, d - 2)
      /\ Where(q) \in Over(S, d - 2) /\ d - 3 \in 0 .. MaxDepth
  BY QueryOver
<1>4. m.args[1].args[1] \in All(S)
  <2> DEFINE l == m.args[1].args[1]
  <2>1. l \in Trees /\ l.args = s
    BY <1>1, <1>2, LevelsAreTrees DEF Items
  <2>2. \A k \in DOMAIN s : s[k] \in All(S)
    <3>1. \A k \in DOMAIN s : s[k] \in Over(S, d - 3)
      OBVIOUS
    <3> QED BY <1>3, <3>1, OverAll
  <2>3. l \in S
    BY <1>2, <2>1
  <2> HIDE DEF l
  <2>4. l \in All(S)
    BY <2>1, <2>2, <2>3, AllOver
  <2> QED BY <2>4 DEF l
<1>5. m.args[1] \in All(S)
  <2> DEFINE b == m.args[1]
  <2>1. b \in Trees /\ b.kind = "select" /\ DOMAIN b.args = 1 .. 3
    BY <1>2, LevelsAreTrees
  <2>2. b.args[1] \in All(S) /\ b.args[2] \in All(S) /\ b.args[3] \in All(S)
    <3>1. q.args[1].args[2] \in All(S) /\ Where(q) \in All(S)
      BY <1>2, <1>3, OverAll
    <3> QED BY <1>1, <1>4, <3>1 DEF Where
  <2>3. b \in S
    BY <2>1
  <2> HIDE DEF b
  <2>4. \A i \in DOMAIN b.args : b.args[i] \in All(S)
    <3>1. DOMAIN b.args = {1, 2, 3}
      BY <2>1
    <3> QED BY <2>2, <3>1
  <2>5. b \in All(S)
    BY <2>1, <2>3, <2>4, AllOver
  <2> QED BY <2>5 DEF b
<1>6. m.args[1] \in Over(S, d - 1)
  BY <1>2, <1>5, OverAll
<1>7. m.args[2] \in Over(S, d - 1)
  BY <1>1, <1>3 DEF Order
<1>8. DOMAIN m.args = {1, 2}
  BY <1>2
<1>9. \A i \in DOMAIN m.args : m.args[i] \in Over(S, d - 1)
  BY <1>6, <1>7, <1>8
<1> QED BY <1>1, <1>9 DEF m

LEMMA NullOver ==
  ASSUME NEW S, NEW d \in 1 .. MaxDepth, \A x \in Trees : x.kind = "null" => x \in S
  PROVE  Null \in Over(S, d) /\ Null.kind = "null" /\ Null.args = <<>>
<1> DEFINE kind == "null"
           n == Node(kind, None, None, None, <<>>)
<1>0. None \in Names
  BY Written DEF RuleNames, None
<1>1. kind \in LeafKinds \ {"register"}
  BY DEF LeafKinds
<1> HIDE DEF kind
<1>2. n \in Trees /\ (n \in S => n \in Over(S, d)) /\ n.kind = kind /\ n.args = <<>>
  BY <1>0, <1>1, LeafOver
<1>3. n = Null
  BY DEF Null, Leaf, kind
<1> HIDE DEF n
<1>4. n \in S
  BY <1>2 DEF kind
<1> QED BY <1>2, <1>3, <1>4 DEF kind

\* A subquery over its query.
LEMMA SubqueryParts ==
  ASSUME NEW S, NEW d \in 1 .. MaxDepth, NEW e \in Over(S, d), e.kind = "subquery"
  PROVE  /\ DOMAIN e.args = {1} /\ e.args[1] \in Over(S, d - 1) /\ d - 1 \in 1 .. MaxDepth
         /\ e.args[1].kind = "query"
<1>1. e \in TreesAt[d] /\ e \in Record(Over(S, d - 1)) /\ Shape(e)
  BY OverParts
<1>2. Len(e.args) = 1
  BY <1>1 DEF Shape, UnaryKinds
<1>3. DOMAIN e.args = {1} /\ 1 \in DOMAIN e.args
  BY <1>1, <1>2, RecordFields
<1>4. d - 1 \in 1 .. MaxDepth /\ e.args[1].kind \in ChildKinds(e.kind, 1)
  BY <1>1, <1>3, ChildParts
<1>5. e.args[1] \in Over(S, d - 1)
  BY <1>3, OverParts
<1> QED BY <1>3, <1>4, <1>5 DEF ChildKinds

\* The limit of a query as a column.
LimitOf(query) == IF HasLimit(query) THEN query.name ELSE "limit"

LEMMA ScalarOver ==
  ASSUME NEW S, NEW d \in 1 .. MaxDepth, NEW e \in Over(S, d), e.kind \in Kinds \ Lists,
         \A x \in Trees : Made("subquery", x) => x \in S
  PROVE  /\ Scalar(e) \in Over(S, d)
         /\ \/ Scalar(e) = e /\ e.kind # "subquery"
            \/ e.kind = "subquery" /\ Scalar(e) = Null /\ Scalar(e).kind = "null"
            \/ /\ e.kind = "subquery" /\ Scalar(e).kind = "subquery" /\ ~Correlated(e.args[1])
               /\ DOMAIN Scalar(e).args = {1}
               /\ Scalar(e).args[1] = Limited(e.args[1])
               /\ Limited(e.args[1]).name = LimitOf(e.args[1])
               /\ Limited(e.args[1]).kind = "query"
               /\ Limited(e.args[1]).args = e.args[1].args
<1>1. CASE e.kind # "subquery"
  BY <1>1 DEF Scalar
<1>2. CASE e.kind = "subquery" /\ Correlated(e.args[1])
  <2>1. Null \in Over(S, d) /\ Null.kind = "null"
    BY NullOver DEF Made
  <2>2. Scalar(e) = Null
    BY <1>2 DEF Scalar
  <2> QED BY <1>2, <2>1, <2>2
<1>3. CASE e.kind = "subquery" /\ ~Correlated(e.args[1])
  <2> DEFINE q == e.args[1]
             l == Limited(q)
             b == d - 1
  <2>1. DOMAIN e.args = {1} /\ q \in Over(S, b) /\ b \in 1 .. MaxDepth /\ q.kind = "query"
    BY <1>3, SubqueryParts
  <2>2. Under(b, d)
    BY <2>1 DEF Under
  <2> HIDE DEF q, b
  <2>3. q \in TreesAt[b] /\ q \in Record(TreesAt[b - 1]) /\ \A i \in DOMAIN q.args : q.args[i] \in Over(S, b - 1)
    BY <2>1, OverParts, TreeParts
  <2>4. "limit" \in Names
    BY Written DEF RuleNames
  <2>5. l \in Record(TreesAt[b - 1]) /\ l.kind = q.kind /\ l.args = q.args /\ l.name = LimitOf(q)
    <3>1. CASE HasLimit(q)
      BY <2>3, <3>1 DEF Limited, LimitOf
    <3>2. CASE ~HasLimit(q)
      BY <2>3, <2>4, <3>2 DEF Limited, LimitOf, Record
    <3> QED BY <3>1, <3>2
  <2> HIDE DEF l
  <2>6. l \in TreesAt[b] /\ l \in Trees
    BY <2>1, <2>3, <2>5, RelabelTree, LevelsAreTrees DEF Cautious
  <2>7. l \in Over(S, b)
    <3>1. l \in S
      BY <2>1, <2>5, <2>6 DEF Made
    <3>2. \A i \in DOMAIN l.args : Nodes(l.args[i]) \subseteq S
      BY <2>3, <2>5 DEF Over
    <3> QED BY <2>6, <3>1, <3>2, NodesOf DEF Over
  <2> DEFINE m == WithArg(e, 1, l)
  <2>8. l.kind \in ChildKinds(e.kind, 1)
    BY <1>3, <2>1, <2>5 DEF ChildKinds
  <2>9. /\ m \in Trees /\ (m \in S => m \in Over(S, d)) /\ m.kind = e.kind
        /\ m.args[1] = l /\ DOMAIN m.args = DOMAIN e.args
    <3>1. e.kind \notin Cautious /\ 1 \in DOMAIN e.args
      BY <1>3, <2>1 DEF Cautious
    <3> QED BY <2>2, <2>7, <2>8, <3>1, WithArgOver
  <2>10. Scalar(e) = m
    BY <1>3 DEF Scalar, l, q
  <2>11. Limited(e.args[1]) = l
    BY DEF l, q
  <2> HIDE DEF m
  <2>12. m \in S
    BY <1>3, <2>9 DEF Made
  <2> QED BY <1>3, <2>1, <2>5, <2>9, <2>10, <2>11, <2>12 DEF q
<1> QED BY <1>1, <1>2, <1>3

LEMMA ItemsRule ==
  ASSUME NEW S, NEW d \in 1 .. MaxDepth, NEW q \in Over(S, d), TopSelect(q),
         \A x \in Trees : x.kind \in {"select", "items"} => x \in S,
         NEW g, g = [k \in DOMAIN Items(q) |-> g[k]],
         \A k \in DOMAIN Items(q) : g[k] \in Over(S, d - 3) /\ g[k].kind \in ItemKinds
  PROVE  LET m == WithItems(q, g) IN
         /\ m \in TreesAt[d] /\ \A i \in DOMAIN m.args : m.args[i] \in Over(S, d - 1)
         /\ TopSelect(m) /\ m.kind = q.kind /\ m.name = q.name /\ m.qual = q.qual /\ m.alias = q.alias
         /\ Items(m) = g /\ From(m) = From(q) /\ Where(m) = Where(q) /\ Order(m) = Order(q)
<1>1. q \in TreesAt[d]
  BY OverParts
<1>2. Items(q) \in Seq(TreesAt[d - 3])
  BY <1>1, ItemsParts
<1>3. g \in Seq(Over(S, d - 3)) /\ DOMAIN g = DOMAIN Items(q)
  BY <1>2, MapSeq
<1>4. \A k \in DOMAIN g : g[k].kind \in ItemKinds
  BY <1>3
<1>5. g \in Seq(TreesAt[d - 3])
  <2>1. Seq(Over(S, d - 3)) \subseteq Seq(TreesAt[d - 3])
    BY DEF Over
  <2> QED BY <1>3, <2>1
<1>6. /\ WithItems(q, g) \in TreesAt[d]
      /\ \A i \in DOMAIN WithItems(q, g).args : WithItems(q, g).args[i] \in Over(S, d - 1)
  BY <1>3, <1>4, WithItemsOver
<1>7. /\ TopSelect(WithItems(q, g))
      /\ WithItems(q, g).kind = q.kind /\ WithItems(q, g).name = q.name
      /\ WithItems(q, g).qual = q.qual /\ WithItems(q, g).alias = q.alias
      /\ Items(WithItems(q, g)) = g /\ From(WithItems(q, g)) = From(q)
      /\ Where(WithItems(q, g)) = Where(q) /\ Order(WithItems(q, g)) = Order(q)
  BY <1>1, <1>4, <1>5, WithItemsFields
<1> QED BY <1>6, <1>7

\* The items of a query, with their expressions, on their levels.
LEMMA QueryItems ==
  ASSUME NEW S, NEW d \in 1 .. MaxDepth, NEW q \in Over(S, d), TopSelect(q),
         NEW k \in DOMAIN Items(q)
  PROVE  /\ d - 3 \in 1 .. MaxDepth /\ Items(q)[k] \in Over(S, d - 3) /\ Items(q)[k].kind \in ItemKinds
         /\ Items(q)[k].kind \in {"unnamed", "aliased"} =>
              /\ DOMAIN Items(q)[k].args = {1} /\ Under(d - 4, d - 3) /\ d - 4 \in 1 .. MaxDepth
              /\ ItemExpr(Items(q)[k]) \in Over(S, d - 4)
              /\ ItemExpr(Items(q)[k]).kind \in Kinds \ Lists
<1> DEFINE i == Items(q)[k]
           c == d - 3
<1>0. q \in TreesAt[d]
  BY OverParts
<1>1. i.kind \in ItemKinds /\ c \in 1 .. MaxDepth
  BY <1>0, ItemsParts
<1>2. i \in Over(S, c)
  BY QueryOver
<1>3. i \in TreesAt[c] /\ \A j \in DOMAIN i.args : i.args[j] \in Over(S, c - 1)
  BY <1>1, <1>2, OverParts
<1>4. ASSUME i.kind \in {"unnamed", "aliased"}
      PROVE  /\ DOMAIN i.args = {1} /\ c - 1 \in 1 .. MaxDepth
             /\ ItemExpr(i) \in Over(S, c - 1) /\ ItemExpr(i).kind \in Kinds \ Lists
  <2> HIDE DEF i, c
  <2>1. DOMAIN i.args = {1} /\ c - 1 \in 1 .. MaxDepth /\ ItemExpr(i).kind \in Kinds \ Lists
    BY <1>1, <1>3, <1>4, ItemParts
  <2>2. 1 \in DOMAIN i.args
    BY <2>1
  <2> QED BY <1>3, <2>1, <2>2 DEF ItemExpr
<1>5. c - 1 = d - 4 /\ (d - 4 \in 1 .. MaxDepth => Under(d - 4, d - 3))
  BY <1>1 DEF Under
<1> HIDE DEF i
<1> QED BY <1>1, <1>2, <1>4, <1>5 DEF i

ScalarItem(i) == IF i.kind \in {"unnamed", "aliased"} THEN WithArg(i, 1, Scalar(ItemExpr(i))) ELSE i

LEMMA ScalarItemOver ==
  ASSUME NEW S, NEW d \in 1 .. MaxDepth, NEW q \in Over(S, d), TopSelect(q),
         NEW k \in DOMAIN Items(q), \A x \in Trees : Made("subquery", x) => x \in S
  PROVE  LET i == Items(q)[k] j == ScalarItem(i) IN
         /\ j \in Over(S, d - 3) /\ j.kind = i.kind /\ j.kind \in ItemKinds
         /\ j.qual = i.qual /\ j.name = i.name /\ j.alias = i.alias
         /\ i.kind \notin {"unnamed", "aliased"} => j = i
         /\ i.kind \in {"unnamed", "aliased"} => DOMAIN j.args = {1} /\ ItemExpr(j) = Scalar(ItemExpr(i))
<1> DEFINE i == Items(q)[k]
           c == d - 3
           b == d - 4
<1>1. /\ c \in 1 .. MaxDepth /\ i \in Over(S, c) /\ i.kind \in ItemKinds
      /\ i.kind \in {"unnamed", "aliased"} =>
           /\ DOMAIN i.args = {1} /\ Under(b, c) /\ b \in 1 .. MaxDepth
           /\ ItemExpr(i) \in Over(S, b) /\ ItemExpr(i).kind \in Kinds \ Lists
  BY QueryItems
<1> HIDE DEF i, c, b
<1>2. CASE i.kind \notin {"unnamed", "aliased"}
  BY <1>1, <1>2 DEF ScalarItem, i, c
<1>3. CASE i.kind \in {"unnamed", "aliased"}
  <2> DEFINE a == Scalar(ItemExpr(i))
             j == WithArg(i, 1, a)
  <2>1. a \in Over(S, b)
    BY <1>1, <1>3, ScalarOver
  <2>2. a.kind \in ChildKinds(i.kind, 1)
    <3>1. a.kind = ItemExpr(i).kind \/ a.kind \in {"null", "subquery"}
      BY <1>1, <1>3, ScalarOver
    <3>2. a.kind \in Kinds \ Lists
      BY <1>1, <1>3, <3>1 DEF Kinds, LeafKinds, UnaryKinds, Lists
    <3> HIDE DEF a
    <3> QED BY <1>3, <3>2 DEF ChildKinds
  <2> HIDE DEF a
  <2>3. 1 \in DOMAIN i.args /\ i.kind \notin Cautious
    BY <1>1, <1>3 DEF Cautious
  <2>4. /\ j \in Trees /\ (j \in S => j \in Over(S, c))
        /\ j.kind = i.kind /\ j.qual = i.qual /\ j.name = i.name /\ j.alias = i.alias
        /\ DOMAIN j.args = DOMAIN i.args /\ j.args[1] = a
    BY <1>1, <1>3, <2>1, <2>2, <2>3, WithArgOver
  <2>5. j = ScalarItem(i)
    BY <1>3 DEF ScalarItem, a
  <2> HIDE DEF j
  <2>6. j \in S
    BY <1>3, <2>4 DEF Made
  <2> QED BY <1>1, <1>3, <2>4, <2>5, <2>6 DEF ItemExpr, i, c, a
<1> QED BY <1>2, <1>3

LEMMA RemoveSubqueryOver ==
  ASSUME NEW S, NEW d \in 1 .. MaxDepth, NEW n \in Over(S, d),
         \A x \in Trees : Made("subquery", x) => x \in S
  PROVE  LET m == RemoveSubquery(n) IN
         /\ m \in TreesAt[d] /\ \A i \in DOMAIN m.args : m.args[i] \in Over(S, d - 1)
         /\ m.kind = n.kind /\ m.name = n.name /\ m.qual = n.qual /\ m.alias = n.alias
         /\ ~TopSelect(n) => m = n
         /\ TopSelect(n) =>
              /\ TopSelect(m) /\ From(m) = From(n) /\ Where(m) = Where(n) /\ Order(m) = Order(n)
              /\ Items(m) = [k \in DOMAIN Items(n) |-> ScalarItem(Items(n)[k])]
<1>1. CASE ~TopSelect(n)
  <2>1. n \in TreesAt[d] /\ \A i \in DOMAIN n.args : n.args[i] \in Over(S, d - 1)
    BY OverParts
  <2> QED BY <1>1, <2>1 DEF RemoveSubquery
<1>2. CASE TopSelect(n)
  <2> DEFINE g == [k \in DOMAIN Items(n) |-> ScalarItem(Items(n)[k])]
             m == WithItems(n, g)
  <2>1. RemoveSubquery(n) = m
    BY <1>2, Zenon DEF RemoveSubquery, ScalarItem
  <2>2. g = [k \in DOMAIN Items(n) |-> g[k]]
    OBVIOUS
  <2>3. \A k \in DOMAIN Items(n) : g[k] \in Over(S, d - 3) /\ g[k].kind \in ItemKinds
    BY <1>2, ScalarItemOver
  <2>4. \A x \in Trees : x.kind \in {"select", "items"} => x \in S
    BY DEF Made
  <2> HIDE DEF g
  <2>5. /\ m \in TreesAt[d] /\ \A i \in DOMAIN m.args : m.args[i] \in Over(S, d - 1)
        /\ TopSelect(m) /\ m.kind = n.kind /\ m.name = n.name /\ m.qual = n.qual /\ m.alias = n.alias
        /\ Items(m) = g /\ From(m) = From(n) /\ Where(m) = Where(n) /\ Order(m) = Order(n)
    BY <1>2, <2>2, <2>3, <2>4, ItemsRule
  <2> HIDE DEF m
  <2> QED BY <1>2, <2>1, <2>5 DEF g
<1> QED BY <1>1, <1>2

\* Another alias for an item.
LEMMA RenamedOver ==
  ASSUME NEW S, NEW d \in 1 .. MaxDepth, NEW q \in Over(S, d), TopSelect(q),
         NEW k \in DOMAIN Items(q), Items(q)[k].kind = "unnamed", NEW a \in Names,
         \A x \in Trees : x.kind = "aliased" => x \in S
  PROVE  LET j == ItemAs(ItemExpr(Items(q)[k]), a) IN
         /\ j \in Over(S, d - 3) /\ j.kind = "aliased" /\ j.kind \in ItemKinds
         /\ j.qual = None /\ j.name = None /\ j.alias = a
         /\ DOMAIN j.args = {1} /\ ItemExpr(j) = ItemExpr(Items(q)[k])
<1> DEFINE i == Items(q)[k]
           c == d - 3
           b == d - 4
           x == ItemExpr(i)
           kind == "aliased"
           j == Node(kind, None, None, a, <<x>>)
<1>1. Under(b, c) /\ x \in Over(S, b) /\ x.kind \in Kinds \ Lists
  BY QueryItems
<1>2. x.kind \in ChildKinds(kind, 1) /\ kind \in {"unnamed", "aliased", "subquery", "derived"}
  BY <1>1 DEF ChildKinds
<1> HIDE DEF i, x, b, c, kind
<1>3. j \in Trees /\ (j \in S => j \in Over(S, c)) /\ j.kind = kind /\ j.args = <<x>>
  <2>1. Under(b, c) /\ x \in Over(S, b)
    BY <1>1
  <2>2. x.kind \in ChildKinds(kind, 1)
    BY <1>2
  <2>3. kind \in {"unnamed", "aliased", "subquery", "derived"}
    BY <1>2
  <2>4. j \in Trees
    BY <2>1, <2>2, <2>3, UnaryOver
  <2>5. j \in S => j \in Over(S, c)
    BY <2>1, <2>2, <2>3, UnaryOver
  <2> QED BY <2>4, <2>5 DEF Node
<1>4. j.qual = None /\ j.name = None /\ j.alias = a
  BY DEF Node
<1>5. j = ItemAs(x, a)
  BY DEF ItemAs, kind
<1> HIDE DEF j
<1>6. j \in S
  BY <1>3 DEF kind
<1>7. DOMAIN j.args = {1} /\ ItemExpr(j) = x
  BY <1>3 DEF ItemExpr
<1> QED BY <1>3, <1>4, <1>5, <1>6, <1>7 DEF ItemKinds, kind, x, c, i

VersionItem(i) == IF i = Item(Call("version", <<>>)) THEN ItemAs(ItemExpr(i), "version") ELSE i

LEMMA VersionItemOver ==
  ASSUME NEW S, NEW d \in 1 .. MaxDepth, NEW q \in Over(S, d), TopSelect(q),
         NEW k \in DOMAIN Items(q), \A x \in Trees : x.kind = "aliased" => x \in S
  PROVE  LET i == Items(q)[k] j == VersionItem(i) IN
         /\ j \in Over(S, d - 3) /\ j.kind \in ItemKinds
         /\ \/ j = i /\ i # Item(Call("version", <<>>))
            \/ /\ i.kind = "unnamed" /\ j.kind = "aliased" /\ i = Item(Call("version", <<>>))
               /\ j.qual = None /\ j.name = None
               /\ DOMAIN j.args = {1} /\ ItemExpr(j) = ItemExpr(i)
<1> DEFINE i == Items(q)[k]
<1>1. i \in Over(S, d - 3) /\ i.kind \in ItemKinds
  BY QueryItems
<1>2. CASE i # Item(Call("version", <<>>))
  BY <1>1, <1>2 DEF VersionItem
<1>3. CASE i = Item(Call("version", <<>>))
  <2>1. i.kind = "unnamed"
    BY <1>3 DEF Item, Node
  <2> DEFINE a == "version"
             j == ItemAs(ItemExpr(i), a)
  <2>2. a \in Names
    BY Written DEF RuleNames
  <2> HIDE DEF a
  <2>3. /\ j \in Over(S, d - 3) /\ j.kind = "aliased" /\ j.kind \in ItemKinds
        /\ j.qual = None /\ j.name = None
        /\ DOMAIN j.args = {1} /\ ItemExpr(j) = ItemExpr(i)
    BY <2>1, <2>2, RenamedOver
  <2>4. VersionItem(i) = j
    BY <1>3 DEF VersionItem, a
  <2> HIDE DEF j, i
  <2> QED BY <1>3, <2>1, <2>3, <2>4 DEF i
<1> QED BY <1>2, <1>3

LEMMA FixVersionOver ==
  ASSUME NEW S, NEW d \in 1 .. MaxDepth, NEW n \in Over(S, d),
         \A x \in Trees : Made("version", x) => x \in S
  PROVE  LET m == FixVersion(n) IN
         /\ m \in TreesAt[d] /\ \A i \in DOMAIN m.args : m.args[i] \in Over(S, d - 1)
         /\ m.kind = n.kind /\ m.name = n.name /\ m.qual = n.qual /\ m.alias = n.alias
         /\ ~TopSelect(n) => m = n
         /\ TopSelect(n) =>
              /\ TopSelect(m) /\ From(m) = From(n) /\ Where(m) = Where(n) /\ Order(m) = Order(n)
              /\ Items(m) = [k \in DOMAIN Items(n) |-> VersionItem(Items(n)[k])]
<1>1. CASE ~TopSelect(n)
  <2>1. n \in TreesAt[d] /\ \A i \in DOMAIN n.args : n.args[i] \in Over(S, d - 1)
    BY OverParts
  <2> QED BY <1>1, <2>1 DEF FixVersion
<1>2. CASE TopSelect(n)
  <2> DEFINE g == [k \in DOMAIN Items(n) |-> VersionItem(Items(n)[k])]
             m == WithItems(n, g)
  <2>1. FixVersion(n) = m
    BY <1>2, Zenon DEF FixVersion, VersionItem
  <2>2. g = [k \in DOMAIN Items(n) |-> g[k]]
    OBVIOUS
  <2>3. \A x \in Trees : x.kind \in {"select", "items"} => x \in S
    BY DEF Made
  <2>4. \A k \in DOMAIN Items(n) : g[k] \in Over(S, d - 3) /\ g[k].kind \in ItemKinds
    <3>1. \A x \in Trees : x.kind = "aliased" => x \in S
      BY DEF Made
    <3> QED BY <1>2, <3>1, VersionItemOver
  <2> HIDE DEF g
  <2>5. /\ m \in TreesAt[d] /\ \A i \in DOMAIN m.args : m.args[i] \in Over(S, d - 1)
        /\ TopSelect(m) /\ m.kind = n.kind /\ m.name = n.name /\ m.qual = n.qual /\ m.alias = n.alias
        /\ Items(m) = g /\ From(m) = From(n) /\ Where(m) = Where(n) /\ Order(m) = Order(n)
    BY <1>2, <2>2, <2>3, <2>4, ItemsRule
  <2> HIDE DEF m
  <2> QED BY <1>2, <2>1, <2>5 DEF g
<1> QED BY <1>1, <1>2

-----------------------------------------------------------------------------
(* The two rules that look at a statement *)

QualifiedStep(table, known, h, e) ==
  WithTable(table, known, e, [i \in DOMAIN e.args |-> h[e.args[i]]])

LEMMA QualifiedExists ==
  ASSUME NEW table, NEW known
  PROVE  \E h : h = [e \in Trees |-> QualifiedStep(table, known, h, e)]
<1> DEFINE S == {d \in Nat : \E h : h = [e \in TreesAt[d] |-> QualifiedStep(table, known, h, e)]}
<1>1. 0 \in S
  <2> DEFINE h == [e \in TreesAt[0] |-> e]
  <2>1. h = [e \in TreesAt[0] |-> QualifiedStep(table, known, h, e)]
    BY TreesAtLevels
  <2> QED BY <2>1
<1>2. ASSUME NEW d \in 1 .. MaxDepth, d - 1 \in S PROVE d \in S
  <2>1. PICK h : h = [e \in TreesAt[d - 1] |-> QualifiedStep(table, known, h, e)]
    BY <1>2
  <2> DEFINE g == [e \in TreesAt[d] |-> QualifiedStep(table, known, h, e)]
  <2>2. ASSUME NEW c \in TreesAt[d - 1] PROVE g[c] = h[c]
    <3>1. c \in TreesAt[d]
      BY TreesAtGrow
    <3> QED BY <2>1, <3>1
  <2>3. ASSUME NEW e \in TreesAt[d]
        PROVE  QualifiedStep(table, known, g, e) = QualifiedStep(table, known, h, e)
    <3>1. \A i \in DOMAIN e.args : g[e.args[i]] = h[e.args[i]]
      <4> HIDE DEF g
      <4> QED BY <2>2, TreeParts
    <3> HIDE DEF g
    <3>2. [i \in DOMAIN e.args |-> g[e.args[i]]] = [i \in DOMAIN e.args |-> h[e.args[i]]]
      BY <3>1
    <3> QED BY <3>2 DEF QualifiedStep
  <2>4. g = [e \in TreesAt[d] |-> QualifiedStep(table, known, g, e)]
    BY <2>3
  <2>5. d \in Nat
    OBVIOUS
  <2> QED BY <2>4, <2>5
<1> HIDE DEF S
<1>3. 0 .. MaxDepth \subseteq S
  BY <1>1, <1>2, UpTo
<1>4. MaxDepth \in S
  BY <1>3
<1> QED BY <1>4 DEF S, Trees

LEMMA QualifiedNode ==
  ASSUME NEW table, NEW known, NEW e \in Trees
  PROVE  Qualified(table, known)[e] =
           CASE e.kind = "ident" /\ e.name \notin known -> Column(table, e.name)
             [] e.kind = "binary" ->
                  WithArgs(e, [i \in DOMAIN e.args |-> Qualified(table, known)[e.args[i]]])
             [] OTHER -> e
<1>1. Qualified(table, known) = CHOOSE h : h = [t \in Trees |-> QualifiedStep(table, known, h, t)]
  BY Zenon DEF Qualified, QualifiedStep
<1>2. Qualified(table, known) = [t \in Trees |-> QualifiedStep(table, known, Qualified(table, known), t)]
  BY QualifiedExists, <1>1, Zenon
<1>3. Qualified(table, known)[e] = QualifiedStep(table, known, Qualified(table, known), e)
  BY <1>2, Zenon
<1> QED BY <1>3, Zenon DEF QualifiedStep, WithTable

\* A part of a comparison after names in it were qualified.
Requalified(table, e, f) ==
  \/ f = e
  \/ e.kind = "ident" /\ f.kind = "column" /\ f.qual = table /\ f.args = <<>>
  \/ /\ e.kind \in {"binary", "list"} /\ f.kind = e.kind
     /\ f.qual = e.qual /\ f.name = e.name /\ f.alias = e.alias

\* A set that keeps the nodes over such parts.
Requalifies(S, table) ==
  /\ \A n \in Trees : n.kind = "column" /\ n.qual = table => n \in S
  /\ \A e, f \in Trees :
       /\ e \in S /\ e.kind \in {"binary", "list"} /\ f.kind = e.kind
       /\ f.qual = e.qual /\ f.name = e.name /\ f.alias = e.alias
       /\ DOMAIN f.args = DOMAIN e.args
       /\ \A i \in DOMAIN e.args : Requalified(table, e.args[i], f.args[i])
       => f \in S

\* A binary or a list over requalified parts.
LEMMA PartsRequalified ==
  ASSUME NEW S, NEW table, Requalifies(S, table),
         NEW b, NEW d, Under(b, d), NEW e \in Over(S, d), e.kind \in {"binary", "list"},
         NEW g, g = [i \in DOMAIN e.args |-> g[i]],
         \A i \in DOMAIN e.args :
           /\ g[i] \in Over(S, b) /\ g[i].kind \in Kinds \ Lists
           /\ Requalified(table, e.args[i], g[i])
  PROVE  LET m == WithArgs(e, g) IN
         /\ m \in Over(S, d) /\ m.args = g /\ m.kind = e.kind
         /\ m.qual = e.qual /\ m.name = e.name /\ m.alias = e.alias
<1> DEFINE m == WithArgs(e, g)
<1>0. d \in 1 .. MaxDepth /\ b = d - 1
  BY DEF Under
<1>1. e \in Record(Over(S, b)) /\ Shape(e) /\ e \in S /\ e \in Trees
  BY <1>0, OverParts
<1>2. g \in Seq(Over(S, b)) /\ Len(g) = Len(e.args) /\ DOMAIN g = DOMAIN e.args
  <2>1. e.args \in Seq(Over(S, b))
    BY <1>1, RecordFields
  <2> QED BY <2>1, MapSeq
<1>3. /\ m \in Record(Over(S, b)) /\ m.args = g /\ m.kind = e.kind
      /\ m.qual = e.qual /\ m.name = e.name /\ m.alias = e.alias
  BY <1>1, <1>2, WithArgsFields
<1> HIDE DEF m
<1>4. Shape(m)
  <2>1. e.kind \in Free
    BY DEF Free, Kinds, BinaryKinds, Lists
  <2>2. \A i \in DOMAIN e.args : m.args[i].kind \in ChildKinds(e.kind, i)
    BY <1>3, <2>1, FreeChildren
  <2> QED BY <1>1, <1>2, <1>3, <2>2, SameShape
<1>5. m \in Trees /\ (m \in S => m \in Over(S, d))
  <2>1. ~Grows(m)
    BY <1>3 DEF Grows
  <2>2. m \in Record(Over(S, d - 1))
    BY <1>0, <1>3
  <2> QED BY <1>0, <1>4, <2>1, <2>2, MakeOver
<1>6. m \in S
  <2>1. \A i \in DOMAIN e.args : Requalified(table, e.args[i], m.args[i])
    BY <1>3
  <2> QED BY <1>1, <1>2, <1>3, <1>5, <2>1 DEF Requalifies
<1> QED BY <1>3, <1>5, <1>6 DEF m

LEMMA QualifiedOver ==
  ASSUME NEW S, NEW table \in Names, NEW known, Requalifies(S, table),
         NEW d \in 0 .. MaxDepth, NEW t \in Over(S, d)
  PROVE  /\ Qualified(table, known)[t] \in Over(S, d)
         /\ Requalified(table, t, Qualified(table, known)[t])
<1> DEFINE Q == Qualified(table, known)
           L == {c \in 0 .. MaxDepth : \A e \in Over(S, c) : Q[e] \in Over(S, c) /\ Requalified(table, e, Q[e])}
<1> HIDE DEF Q
<1>1. 0 \in L
  BY TreesAtLevels DEF Over
<1>2. ASSUME NEW c \in 1 .. MaxDepth, c - 1 \in L PROVE c \in L
  <2> SUFFICES ASSUME NEW e \in Over(S, c) PROVE Q[e] \in Over(S, c) /\ Requalified(table, e, Q[e])
    OBVIOUS
  <2>1. e \in Trees /\ e \in Record(Over(S, c - 1)) /\ Shape(e) /\ \A i \in DOMAIN e.args : e.args[i] \in Over(S, c - 1)
    BY OverParts
  <2>2. Q[e] = CASE e.kind = "ident" /\ e.name \notin known -> Column(table, e.name)
                 [] e.kind = "binary" -> WithArgs(e, [i \in DOMAIN e.args |-> Q[e.args[i]]])
                 [] OTHER -> e
    BY <2>1, QualifiedNode DEF Q
  <2>3. CASE e.kind = "ident" /\ e.name \notin known
    <3> DEFINE kind == "column"
               name == e.name
               n == Node(kind, table, name, None, <<>>)
    <3>1. name \in Names /\ None \in Names
      BY OverFields, Written DEF RuleNames, None
    <3>2. kind \in LeafKinds \ {"register"}
      BY DEF LeafKinds
    <3> HIDE DEF kind, name
    <3>3. n \in Trees /\ (n \in S => n \in Over(S, c)) /\ n.kind = kind /\ n.qual = table /\ n.args = <<>>
      BY <3>1, <3>2, LeafOver
    <3>4. Q[e] = n
      BY <2>2, <2>3 DEF Column, kind, name
    <3> HIDE DEF n
    <3>5. n \in S
      BY <3>3 DEF Requalifies, kind
    <3> QED BY <2>3, <3>3, <3>4, <3>5 DEF Requalified, kind
  <2>4. CASE e.kind = "binary"
    <3> DEFINE g == [i \in DOMAIN e.args |-> Q[e.args[i]]]
               b == c - 1
    <3>1. \A i \in DOMAIN e.args : Q[e.args[i]] \in Over(S, b) /\ Requalified(table, e.args[i], Q[e.args[i]])
      BY <1>2, <2>1
    <3>2. ASSUME NEW i \in DOMAIN e.args PROVE Q[e.args[i]].kind \in Kinds \ Lists
      <4>1. "binary" \in Free
        BY DEF Free, Kinds, BinaryKinds
      <4>2. e.args[i].kind \in Kinds \ Lists
        BY <2>1, <2>4, <4>1, FreeChildren DEF Shape
      <4>3. Requalified(table, e.args[i], Q[e.args[i]])
        BY <3>1
      <4> QED BY <4>2, <4>3 DEF Requalified, Kinds, LeafKinds, Lists
    <3>3. Under(b, c) /\ g = [i \in DOMAIN e.args |-> g[i]]
      BY DEF Under
    <3>4. \A i \in DOMAIN e.args : /\ g[i] \in Over(S, b) /\ g[i].kind \in Kinds \ Lists
                                    /\ Requalified(table, e.args[i], g[i])
      BY <3>1, <3>2
    <3>5. Q[e] = WithArgs(e, g)
      BY <2>2, <2>4
    <3> HIDE DEF g, b
    <3>6. /\ WithArgs(e, g) \in Over(S, c) /\ WithArgs(e, g).kind = e.kind
          /\ WithArgs(e, g).qual = e.qual /\ WithArgs(e, g).name = e.name /\ WithArgs(e, g).alias = e.alias
      BY <2>4, <3>3, <3>4, PartsRequalified
    <3> QED BY <2>4, <3>5, <3>6 DEF Requalified
  <2>5. CASE Q[e] = e
    BY <2>5 DEF Requalified
  <2> QED BY <2>2, <2>3, <2>4, <2>5
<1> HIDE DEF L
<1>3. 0 .. MaxDepth \subseteq L
  BY <1>1, <1>2, UpTo
<1>4. d \in L
  BY <1>3
<1> QED BY <1>4 DEF L, Q

LEMMA QualifyAllOver ==
  ASSUME NEW S, NEW table \in Names, NEW known, Requalifies(S, table),
         NEW d \in 1 .. MaxDepth, NEW l \in Over(S, d), l.kind = "list"
  PROVE  /\ QualifyAll(l, table, known) \in Over(S, d)
         /\ QualifyAll(l, table, known).kind = "list"
         /\ LET m == QualifyAll(l, table, known) IN
            /\ DOMAIN m.args = DOMAIN l.args
            /\ m.qual = l.qual /\ m.name = l.name /\ m.alias = l.alias
            /\ \A i \in DOMAIN l.args : m.args[i] = Qualified(table, known)[l.args[i]]
<1> DEFINE Q == Qualified(table, known)
           g == [i \in DOMAIN l.args |-> Q[l.args[i]]]
           b == d - 1
<1> HIDE DEF Q
<1>1. l \in Trees /\ Shape(l) /\ \A i \in DOMAIN l.args : l.args[i] \in Over(S, b)
  BY OverParts
<1>2. b \in 0 .. MaxDepth
  OBVIOUS
<1>3. \A i \in DOMAIN l.args : Q[l.args[i]] \in Over(S, b) /\ Requalified(table, l.args[i], Q[l.args[i]])
  BY <1>1, <1>2, QualifiedOver DEF Q
<1>4. ASSUME NEW i \in DOMAIN l.args PROVE Q[l.args[i]].kind \in Kinds \ Lists
  <2>1. "list" \in Free
    BY DEF Free, Kinds, Lists
  <2>2. l.args[i].kind \in Kinds \ Lists
    BY <1>1, <2>1, FreeChildren DEF Shape
  <2>3. Requalified(table, l.args[i], Q[l.args[i]])
    BY <1>3
  <2> QED BY <2>2, <2>3 DEF Requalified, Kinds, LeafKinds, Lists
<1>5. Under(b, d) /\ g = [i \in DOMAIN l.args |-> g[i]]
  BY DEF Under
<1>6. \A i \in DOMAIN l.args : /\ g[i] \in Over(S, b) /\ g[i].kind \in Kinds \ Lists
                                /\ Requalified(table, l.args[i], g[i])
  BY <1>3, <1>4
<1>7. QualifyAll(l, table, known) = WithArgs(l, g)
  BY DEF QualifyAll, Q
<1>8. DOMAIN g = DOMAIN l.args /\ \A i \in DOMAIN l.args : g[i] = Q[l.args[i]]
  OBVIOUS
<1> HIDE DEF g, b
<1>9. /\ WithArgs(l, g) \in Over(S, d) /\ WithArgs(l, g).kind = l.kind /\ WithArgs(l, g).args = g
      /\ WithArgs(l, g).qual = l.qual /\ WithArgs(l, g).name = l.name /\ WithArgs(l, g).alias = l.alias
  BY <1>5, <1>6, PartsRequalified
<1> QED BY <1>7, <1>8, <1>9 DEF Q

AliasItem(q, i) ==
  IF i.kind = "unnamed" /\ Duplicated(q, ItemExpr(i)) THEN ItemAs(ItemExpr(i), DuplicateAlias) ELSE i

LEMMA AliasOver ==
  ASSUME NEW S, NEW d \in 1 .. MaxDepth, NEW q \in Over(S, d), TopSelect(q),
         \A x \in Trees : x.kind \in {"query", "select", "items", "aliased"} => x \in S
  PROVE  LET m == AliasDuplicated(q) IN
         /\ m \in Over(S, d)
         /\ TopSelect(m) /\ From(m) = From(q) /\ Where(m) = Where(q) /\ Order(m) = Order(q)
         /\ Items(m) = [k \in DOMAIN Items(q) |-> AliasItem(q, Items(q)[k])]
         /\ \A k \in DOMAIN Items(q) :
              \/ /\ Items(m)[k] = Items(q)[k]
                 /\ ~(Items(q)[k].kind = "unnamed" /\ Duplicated(q, ItemExpr(Items(q)[k])))
              \/ /\ Items(q)[k].kind = "unnamed" /\ Duplicated(q, ItemExpr(Items(q)[k]))
                 /\ Items(m)[k].kind = "aliased" /\ DOMAIN Items(m)[k].args = {1}
                 /\ ItemExpr(Items(m)[k]) = ItemExpr(Items(q)[k])
                 /\ Items(m)[k].alias = DuplicateAlias
<1> DEFINE g == [k \in DOMAIN Items(q) |-> AliasItem(q, Items(q)[k])]
           m == WithItems(q, g)
<1>1. AliasDuplicated(q) = m
  BY Zenon DEF AliasDuplicated, AliasItem
<1>2. g = [k \in DOMAIN Items(q) |-> g[k]]
  OBVIOUS
<1>3. \A x \in Trees : x.kind \in {"select", "items"} => x \in S
  OBVIOUS
<1>4. ASSUME NEW k \in DOMAIN Items(q)
      PROVE  /\ g[k] \in Over(S, d - 3) /\ g[k].kind \in ItemKinds
             /\ \/ /\ g[k] = Items(q)[k]
                   /\ ~(Items(q)[k].kind = "unnamed" /\ Duplicated(q, ItemExpr(Items(q)[k])))
                \/ /\ Items(q)[k].kind = "unnamed" /\ Duplicated(q, ItemExpr(Items(q)[k]))
                   /\ g[k].kind = "aliased" /\ DOMAIN g[k].args = {1}
                   /\ ItemExpr(g[k]) = ItemExpr(Items(q)[k])
                   /\ g[k].alias = DuplicateAlias
  <2> DEFINE i == Items(q)[k]
  <2>0. g[k] = AliasItem(q, i)
    OBVIOUS
  <2>1. i \in Over(S, d - 3) /\ i.kind \in ItemKinds
    BY QueryItems
  <2> HIDE DEF g
  <2>2. CASE i.kind = "unnamed" /\ Duplicated(q, ItemExpr(i))
    <3>1. DuplicateAlias \in Names
      BY Written DEF RuleNames, DuplicateAlias
    <3>2. \A x \in Trees : x.kind = "aliased" => x \in S
      OBVIOUS
    <3> DEFINE j == ItemAs(ItemExpr(i), DuplicateAlias)
    <3>3. /\ j \in Over(S, d - 3) /\ j.kind = "aliased" /\ j.kind \in ItemKinds
          /\ j.alias = DuplicateAlias /\ DOMAIN j.args = {1} /\ ItemExpr(j) = ItemExpr(i)
      BY <2>2, <3>1, <3>2, RenamedOver
    <3>4. g[k] = j
      BY <2>0, <2>2 DEF AliasItem
    <3> HIDE DEF j, i
    <3> QED BY <2>2, <3>3, <3>4 DEF i
  <2>3. CASE ~(i.kind = "unnamed" /\ Duplicated(q, ItemExpr(i)))
    <3>1. g[k] = i
      BY <2>0, <2>3 DEF AliasItem
    <3> QED BY <2>1, <2>3, <3>1
  <2> QED BY <2>2, <2>3
<1> HIDE DEF g
<1>4a. \A k \in DOMAIN Items(q) : g[k] \in Over(S, d - 3) /\ g[k].kind \in ItemKinds
  BY <1>4
<1>5. /\ m \in TreesAt[d] /\ \A i \in DOMAIN m.args : m.args[i] \in Over(S, d - 1)
      /\ TopSelect(m) /\ m.kind = q.kind
      /\ Items(m) = g /\ From(m) = From(q) /\ Where(m) = Where(q) /\ Order(m) = Order(q)
  BY <1>2, <1>3, <1>4a, ItemsRule
<1> HIDE DEF m
<1>6. m \in Over(S, d)
  <2>1. m \in Trees /\ m.kind = "query"
    BY <1>5, LevelsAreTrees DEF TopSelect
  <2>2. m \in S
    BY <2>1
  <2>3. \A i \in DOMAIN m.args : Nodes(m.args[i]) \subseteq S
    BY <1>5 DEF Over
  <2> QED BY <1>5, <2>1, <2>2, <2>3, NodesOf DEF Over
<1> QED BY <1>1, <1>4, <1>5, <1>6 DEF g

Known(q) == TableAliases(q) \union ProjectionAliases(q)

LEMMA ResolveOver ==
  ASSUME NEW S, NEW d \in 1 .. MaxDepth, NEW q \in Over(S, d), TopSelect(q), OneTable(q),
         \A table \in Names : Requalifies(S, table),
         \A x \in Trees : x.kind \in {"query", "select"} => x \in S
  PROVE  LET m == ResolveUnqualified(q) IN
         \E table \in Names :
           /\ m \in Over(S, d)
           /\ TopSelect(m) /\ Items(m) = Items(q) /\ From(m) = From(q)
           /\ Where(m) = QualifyAll(Where(q), table, Known(q))
           /\ Order(m) = QualifyAll(Order(q), table, Known(q))
           /\ Where(m).kind = "list" /\ Order(m).kind = "list"
<1> DEFINE table == Items(q)[CHOOSE k \in Wildcards(q) : TRUE].qual
           known == Known(q)
           b == q.args[1]
           w == QualifyAll(Where(q), table, known)
           o == QualifyAll(Order(q), table, known)
           b1 == WithArg(b, 3, w)
           q1 == WithArg(q, 1, b1)
           m == WithArg(q1, 2, o)
           c == d - 1
           a == d - 2
<1>0. q \in TreesAt[d]
  BY OverParts
<1>1. table \in Names
  <2>1. Wildcards(q) # {}
    BY DEF OneTable
  <2>2. \A k \in Wildcards(q) : Items(q)[k].qual \in Names
    <3> SUFFICES ASSUME NEW k \in Wildcards(q) PROVE Items(q)[k].qual \in Names
      OBVIOUS
    <3>1. k \in DOMAIN Items(q)
      BY DEF Wildcards
    <3> DEFINE e == d - 3
    <3>2. e \in 1 .. MaxDepth /\ Items(q)[k] \in Over(S, e)
      BY <3>1, QueryItems
    <3> HIDE DEF e
    <3> QED BY <3>2, OverFields
  <2>3. (CHOOSE k \in Wildcards(q) : TRUE) \in Wildcards(q)
    BY <2>1
  <2> QED BY <2>2, <2>3
<1>2. ResolveUnqualified(q) = m
  BY DEF ResolveUnqualified, Known
<1>3. /\ Under(c, d) /\ Under(a, c) /\ c \in 1 .. MaxDepth /\ a \in 1 .. MaxDepth
      /\ b \in Over(S, c) /\ Order(q) \in Over(S, c) /\ Where(q) \in Over(S, a)
  BY QueryOver DEF Under
<1>4. /\ DOMAIN q.args = 1 .. 2 /\ DOMAIN b.args = 1 .. 3 /\ b.kind = "select"
      /\ b.args[1].kind = "items" /\ b.args[2].kind = "sources"
      /\ Where(q).kind = "list" /\ Order(q).kind = "list" /\ q.kind = "query"
  BY <1>0, QueryParts DEF TopSelect
<1> HIDE DEF table, known, b, c, a
<1>5. w \in Over(S, a) /\ w.kind = "list" /\ o \in Over(S, c) /\ o.kind = "list"
  <2>1. Requalifies(S, table)
    BY <1>1
  <2> HIDE DEF w, o, b1, q1, m
  <2>2. ASSUME NEW e \in 1 .. MaxDepth, NEW l \in Over(S, e), l.kind = "list"
        PROVE  QualifyAll(l, table, known) \in Over(S, e) /\ QualifyAll(l, table, known).kind = "list"
    <3>1. QualifyAll(l, table, known) \in Over(S, e)
      BY <1>1, <2>1, <2>2, QualifyAllOver
    <3>2. QualifyAll(l, table, known).kind = "list"
      BY <1>1, <2>1, <2>2, QualifyAllOver
    <3> QED BY <3>1, <3>2
  <2>3. w \in Over(S, a) /\ w.kind = "list"
    BY <1>3, <1>4, <2>2 DEF w
  <2>4. o \in Over(S, c) /\ o.kind = "list"
    BY <1>3, <1>4, <2>2 DEF o
  <2> QED BY <2>3, <2>4
<1> HIDE DEF w, o
<1>6. /\ b1 \in Over(S, c) /\ b1.kind = "select" /\ b1.args[3] = w
      /\ b1.args[1] = b.args[1] /\ b1.args[2] = b.args[2] /\ DOMAIN b1.args = DOMAIN b.args
  <2>1. 3 \in DOMAIN b.args /\ 1 \in DOMAIN b.args /\ 2 \in DOMAIN b.args /\ 1 # 3 /\ 2 # 3
    BY <1>4
  <2>2. w.kind \in ChildKinds(b.kind, 3) /\ b.kind \notin Cautious
    BY <1>4, <1>5 DEF ChildKinds, Cautious
  <2>3. /\ b1 \in Trees /\ (b1 \in S => b1 \in Over(S, c)) /\ b1.kind = b.kind
        /\ b1.args[3] = w /\ \A j \in DOMAIN b.args : j # 3 => b1.args[j] = b.args[j]
        /\ DOMAIN b1.args = DOMAIN b.args
    BY <1>3, <1>5, <2>1, <2>2, WithArgOver
  <2> HIDE DEF b1
  <2>4. b1 \in S
    BY <1>4, <2>3
  <2> QED BY <1>4, <2>1, <2>3, <2>4
<1> HIDE DEF b1
<1>7. /\ q1 \in Over(S, d) /\ q1.kind = "query" /\ q1.args[1] = b1 /\ q1.args[2] = q.args[2]
      /\ DOMAIN q1.args = DOMAIN q.args
  <2>1. 1 \in DOMAIN q.args /\ 2 \in DOMAIN q.args /\ 2 # 1
    BY <1>4
  <2>2. b1.kind \in ChildKinds(q.kind, 1) /\ q.kind \notin Cautious
    BY <1>4, <1>6 DEF ChildKinds, Cautious, BodyKinds
  <2>3. /\ q1 \in Trees /\ (q1 \in S => q1 \in Over(S, d)) /\ q1.kind = q.kind
        /\ q1.args[1] = b1 /\ \A j \in DOMAIN q.args : j # 1 => q1.args[j] = q.args[j]
        /\ DOMAIN q1.args = DOMAIN q.args
    BY <1>3, <1>6, <2>1, <2>2, WithArgOver
  <2> HIDE DEF q1
  <2>4. q1 \in S
    BY <1>4, <2>3
  <2> QED BY <1>4, <2>1, <2>3, <2>4
<1> HIDE DEF q1
<1>8. m \in Over(S, d) /\ m.kind = "query" /\ m.args[2] = o /\ m.args[1] = b1
  <2>1. 1 \in DOMAIN q1.args /\ 2 \in DOMAIN q1.args /\ 1 # 2
    BY <1>4, <1>7
  <2>2. o.kind \in ChildKinds(q1.kind, 2) /\ q1.kind \notin Cautious
    BY <1>5, <1>7 DEF ChildKinds, Cautious
  <2>3. /\ m \in Trees /\ (m \in S => m \in Over(S, d)) /\ m.kind = q1.kind
        /\ m.args[2] = o /\ \A j \in DOMAIN q1.args : j # 2 => m.args[j] = q1.args[j]
    BY <1>3, <1>5, <1>7, <2>1, <2>2, WithArgOver
  <2> HIDE DEF m
  <2>4. m \in S
    BY <1>7, <2>3
  <2> QED BY <1>7, <2>1, <2>3, <2>4
<1> HIDE DEF m
<1>9. /\ TopSelect(m) /\ Items(m) = Items(q) /\ From(m) = From(q) /\ Where(m) = w /\ Order(m) = o
  BY <1>6, <1>8 DEF TopSelect, IsSelect, Items, From, Where, Order, b
<1> QED BY <1>1, <1>2, <1>5, <1>8, <1>9 DEF w, o, known

-----------------------------------------------------------------------------
(* Visitors: what a rule does to a node, and then to those below it.        *)

Visitors ==
  {"anyall", "catalog", "callable", "array", "user", "collate", "operator", "regcast",
   "subquery", "version"}

\* A set that the nodes a rule makes are in.
Puts(rl, S) == \A x \in Trees : Made(rl, x) \/ (rl = "regcast" /\ InTemplate(x)) => x \in S

\* A node that is kept, or takes other names.
Same(m, n) == m.kind = n.kind /\ m.args = n.args

LEMMA PreVisitKept ==
  ASSUME NEW S, NEW d \in 1 .. MaxDepth, NEW n \in Over(S, d),
         NEW m \in TreesAt[d], m.args = n.args
  PROVE  \A i \in DOMAIN m.args : m.args[i] \in Over(S, d - 1)
BY OverParts

\* A kind that no rule changes, or one that is an expression before and after.
KindKept(m, n) ==
  \/ m.kind = n.kind
  \/ /\ n.kind \in {"any", "all", "ident", "register", "collate", "cast", "castas"}
     /\ m.kind \notin Lists

LEMMA PreVisitOver ==
  ASSUME NEW rl \in Visitors, NEW S, Puts(rl, S), NEW d \in 1 .. MaxDepth, NEW n \in Over(S, d)
  PROVE  LET m == PreVisit(rl, n) IN
         /\ m \in TreesAt[d] /\ \A i \in DOMAIN m.args : m.args[i] \in Over(S, d - 1)
         /\ KindKept(m, n)
<1>0. n \in TreesAt[d]
  BY OverParts
<1>1. CASE rl = "anyall"
  <2>1. PreVisit(rl, n) = ArrayAnyAll(n)
    BY <1>1 DEF PreVisit
  <2>2. \A x \in Trees : Made("anyall", x) => x \in S
    BY <1>1 DEF Puts
  <2>3. LET m == ArrayAnyAll(n) IN
        /\ m \in TreesAt[d]
        /\ \A i \in DOMAIN m.args : m.args[i] \in Over(S, d - 1)
        /\ \/ m = n /\ (n.kind = "any" => n.name # "=") /\ (n.kind = "all" => n.name # "<>")
           \/ n.kind = "any" /\ m.kind = "call" /\ m.name = "array_contains" /\ m.qual = None
           \/ n.kind = "all" /\ m.kind = "not"
    BY <2>2, AnyAllOver
  <2>4. KindKept(ArrayAnyAll(n), n)
    BY <2>3 DEF KindKept, Lists
  <2> QED BY <2>1, <2>3, <2>4
<1>2. CASE rl = "catalog"
  <2>1. PreVisit(rl, n) = PrependCatalog(n)
    BY <1>2 DEF PreVisit
  <2>2. PrependCatalog(n) \in TreesAt[d] /\ PrependCatalog(n).args = n.args /\ PrependCatalog(n).kind = n.kind
    BY <1>0, CatalogTree
  <2> QED BY <2>1, <2>2, PreVisitKept DEF KindKept
<1>3. CASE rl = "callable"
  <2>1. PreVisit(rl, n) = StripCallable(n)
    BY <1>3 DEF PreVisit
  <2>2. StripCallable(n) \in TreesAt[d] /\ StripCallable(n).args = n.args /\ StripCallable(n).kind = n.kind
    BY <1>0, CallableTree
  <2> QED BY <2>1, <2>2, PreVisitKept DEF KindKept
<1>4. CASE rl = "array"
  <2>1. PreVisit(rl, n) = FixArray(n)
    BY <1>4 DEF PreVisit
  <2>2. \A x \in Trees : Made("array", x) => x \in S
    BY <1>4 DEF Puts
  <2>3. LET m == FixArray(n) IN
        /\ m \in TreesAt[d] /\ \A i \in DOMAIN m.args : m.args[i] \in Over(S, d - 1)
        /\ m.kind = n.kind
    BY <2>2, ArrayTree
  <2> QED BY <2>1, <2>3 DEF KindKept
<1>5. CASE rl = "user"
  <2>1. PreVisit(rl, n) = CurrentUser(n)
    BY <1>5 DEF PreVisit
  <2>2. /\ CurrentUser(n) \in TreesAt[d] /\ CurrentUser(n).args = n.args
        /\ n.kind \notin {"ident", "register"} => CurrentUser(n).kind = n.kind
        /\ CurrentUser(n).kind \in {n.kind, "call"}
    BY <1>0, UserTree
  <2>3. KindKept(CurrentUser(n), n)
    BY <2>2 DEF KindKept, Lists
  <2> QED BY <2>1, <2>2, <2>3, PreVisitKept
<1>6. CASE rl = "collate"
  <2>1. PreVisit(rl, n) = StripCollate(n)
    BY <1>6 DEF PreVisit
  <2>2. /\ StripCollate(n) \in TreesAt[d]
        /\ n.kind # "collate" => StripCollate(n) = n
        /\ n.kind = "collate" =>
             1 \in DOMAIN n.args /\ StripCollate(n) = n.args[1] /\ n.args[1].kind \in Kinds \ Lists
    BY <1>0, CollateTree
  <2>3. CASE n.kind # "collate"
    <3>1. StripCollate(n) = n
      BY <2>2, <2>3
    <3>2. \A i \in DOMAIN n.args : n.args[i] \in Over(S, d - 1)
      BY OverParts
    <3>3. PreVisit(rl, n) = n
      BY <2>1, <3>1
    <3> QED BY <1>0, <3>2, <3>3 DEF KindKept
  <2>4. CASE n.kind = "collate"
    <3> DEFINE c == d - 1
               e == n.args[1]
    <3>1. 1 \in DOMAIN n.args /\ StripCollate(n) = e /\ e.kind \notin Lists
      BY <2>2, <2>4
    <3>2. c \in 1 .. MaxDepth /\ e \in Over(S, c) /\ c - 1 \in 0 .. MaxDepth /\ c \in c - 1 .. MaxDepth
      BY <1>0, <3>1, ChildParts, OverParts
    <3> HIDE DEF c, e
    <3>3. \A i \in DOMAIN e.args : e.args[i] \in Over(S, c - 1)
      BY <3>2, OverParts
    <3>4. Over(S, c - 1) \subseteq Over(S, c)
      BY <3>2, OverGrow
    <3>5. \A i \in DOMAIN e.args : e.args[i] \in Over(S, d - 1)
      BY <3>3, <3>4 DEF c
    <3>6. KindKept(e, n)
      BY <2>4, <3>1 DEF KindKept
    <3>7. PreVisit(rl, n) = e /\ e \in TreesAt[d]
      BY <2>1, <2>2, <3>1
    <3> QED BY <3>5, <3>6, <3>7
  <2> QED BY <2>3, <2>4
<1>7. CASE rl = "operator"
  <2>1. PreVisit(rl, n) = BareOperator(n)
    BY <1>7 DEF PreVisit
  <2>2. BareOperator(n) \in TreesAt[d] /\ BareOperator(n).args = n.args /\ BareOperator(n).kind = n.kind
    BY <1>0, OperatorTree
  <2> QED BY <2>1, <2>2, PreVisitKept DEF KindKept
<1>8. CASE rl = "regcast"
  <2>1. PreVisit(rl, n) = RegCastToSubquery(n)
    BY <1>8 DEF PreVisit
  <2>2. \A x \in Trees : InTemplate(x) => x \in S
    BY <1>8 DEF Puts
  <2>3. LET m == RegCastToSubquery(n) IN
        /\ m \in TreesAt[d] /\ \A i \in DOMAIN m.args : m.args[i] \in Over(S, d - 1)
        /\ \/ m = n /\ ~RegCast(n)
           \/ RegCast(n) /\ m.kind = "number" /\ m.args = <<>> /\ n.args[1].kind = "digits"
           \/ /\ RegCast(n) /\ m.kind = "subquery" /\ m.args = <<Template(n.name, n.args[1])>>
              /\ n.args[1].kind # "digits" /\ m = Subquery(Template(n.name, n.args[1]))
    BY <2>2, RegCastOver
  <2>4. RegCast(n) => n.kind \in {"cast", "castas"}
    BY DEF RegCast
  <2>5. KindKept(RegCastToSubquery(n), n)
    BY <2>3, <2>4 DEF KindKept, Lists
  <2> QED BY <2>1, <2>3, <2>5
<1>9. CASE rl = "subquery"
  <2>1. PreVisit(rl, n) = RemoveSubquery(n)
    BY <1>9 DEF PreVisit
  <2>2. \A x \in Trees : Made("subquery", x) => x \in S
    BY <1>9 DEF Puts
  <2>3. LET m == RemoveSubquery(n) IN
        /\ m \in TreesAt[d] /\ \A i \in DOMAIN m.args : m.args[i] \in Over(S, d - 1)
        /\ m.kind = n.kind
    BY <2>2, RemoveSubqueryOver
  <2> QED BY <2>1, <2>3 DEF KindKept
<1>10. CASE rl = "version"
  <2>1. PreVisit(rl, n) = FixVersion(n)
    BY <1>10 DEF PreVisit
  <2>2. \A x \in Trees : Made("version", x) => x \in S
    BY <1>10 DEF Puts
  <2>3. LET m == FixVersion(n) IN
        /\ m \in TreesAt[d] /\ \A i \in DOMAIN m.args : m.args[i] \in Over(S, d - 1)
        /\ m.kind = n.kind
    BY <2>2, FixVersionOver
  <2> QED BY <2>1, <2>3 DEF KindKept
<1> QED BY <1>1, <1>2, <1>3, <1>4, <1>5, <1>6, <1>7, <1>8, <1>9, <1>10 DEF Visitors

LEMMA PreVisitTree ==
  ASSUME NEW rl \in Visitors, NEW d \in 1 .. MaxDepth, NEW n \in TreesAt[d]
  PROVE  LET m == PreVisit(rl, n) IN
         /\ m \in TreesAt[d] /\ \A i \in DOMAIN m.args : m.args[i] \in TreesAt[d - 1]
         /\ KindKept(m, n)
<1>1. Puts(rl, Trees)
  BY DEF Puts
<1>2. d - 1 \in 0 .. MaxDepth /\ d \in 0 .. MaxDepth
  OBVIOUS
<1>3. n \in Over(Trees, d) /\ Over(Trees, d - 1) = TreesAt[d - 1]
  BY <1>2, OverTrees
<1> QED BY <1>1, <1>3, PreVisitOver

VisitedStep(rl, h, n) ==
  LET m == PreVisit(rl, n) IN WithArgs(m, [i \in DOMAIN m.args |-> h[m.args[i]]])

LEMMA VisitedExists ==
  ASSUME NEW rl \in Visitors
  PROVE  \E h : h = [n \in Trees |-> VisitedStep(rl, h, n)]
<1> DEFINE S == {d \in Nat : \E h : h = [n \in TreesAt[d] |-> VisitedStep(rl, h, n)]}
<1>1. 0 \in S
  <2> DEFINE h == [n \in TreesAt[0] |-> {}]
  <2>1. h = [n \in TreesAt[0] |-> VisitedStep(rl, h, n)]
    BY TreesAtLevels
  <2> QED BY <2>1
<1>2. ASSUME NEW d \in 1 .. MaxDepth, d - 1 \in S PROVE d \in S
  <2>1. PICK h : h = [n \in TreesAt[d - 1] |-> VisitedStep(rl, h, n)]
    BY <1>2
  <2> DEFINE g == [n \in TreesAt[d] |-> VisitedStep(rl, h, n)]
  <2>2. ASSUME NEW c \in TreesAt[d - 1] PROVE g[c] = h[c]
    <3>1. c \in TreesAt[d]
      BY TreesAtGrow
    <3> QED BY <2>1, <3>1
  <2>3. ASSUME NEW n \in TreesAt[d] PROVE VisitedStep(rl, g, n) = VisitedStep(rl, h, n)
    <3> DEFINE m == PreVisit(rl, n)
    <3>0. \A i \in DOMAIN m.args : m.args[i] \in TreesAt[d - 1]
      BY PreVisitTree
    <3> HIDE DEF g, m
    <3>1. \A i \in DOMAIN m.args : g[m.args[i]] = h[m.args[i]]
      BY <2>2, <3>0
    <3>2. [i \in DOMAIN m.args |-> g[m.args[i]]] = [i \in DOMAIN m.args |-> h[m.args[i]]]
      BY <3>1
    <3> QED BY <3>2 DEF VisitedStep, m
  <2>4. g = [n \in TreesAt[d] |-> VisitedStep(rl, g, n)]
    BY <2>3
  <2>5. d \in Nat
    OBVIOUS
  <2> QED BY <2>4, <2>5
<1> HIDE DEF S
<1>3. 0 .. MaxDepth \subseteq S
  BY <1>1, <1>2, UpTo
<1>4. MaxDepth \in S
  BY <1>3
<1> QED BY <1>4 DEF S, Trees

\* What a visitor makes of a tree.
LEMMA VisitedNode ==
  ASSUME NEW rl \in Visitors, NEW n \in Trees
  PROVE  Visited(rl)[n] =
           WithArgs(PreVisit(rl, n),
             [i \in DOMAIN PreVisit(rl, n).args |-> Visited(rl)[PreVisit(rl, n).args[i]]])
<1>1. Visited(rl) = CHOOSE h : h = [t \in Trees |-> VisitedStep(rl, h, t)]
  BY Zenon DEF Visited, VisitedStep
<1>2. Visited(rl) = [t \in Trees |-> VisitedStep(rl, Visited(rl), t)]
  BY VisitedExists, <1>1, Zenon
<1>3. Visited(rl)[n] = VisitedStep(rl, Visited(rl), n)
  BY <1>2, Zenon
<1> QED BY <1>3, Zenon DEF VisitedStep

LEMMA VisitedFields ==
  ASSUME NEW rl \in Visitors, NEW n \in Trees
  PROVE  LET m == PreVisit(rl, n) v == Visited(rl)[n] IN
         /\ m \in Trees /\ \A i \in DOMAIN m.args : m.args[i] \in Trees
         /\ v.kind = m.kind /\ v.qual = m.qual /\ v.name = m.name /\ v.alias = m.alias
         /\ Len(v.args) = Len(m.args) /\ DOMAIN v.args = DOMAIN m.args
         /\ \A i \in DOMAIN m.args : v.args[i] = Visited(rl)[m.args[i]]
         /\ KindKept(m, n)
         /\ v = WithArgs(m, v.args)
         /\ v.args = [i \in DOMAIN m.args |-> v.args[i]]
<1> DEFINE m == PreVisit(rl, n)
           V == Visited(rl)
           T == {V[t] : t \in Trees}
           g == [i \in DOMAIN m.args |-> V[m.args[i]]]
<1>1. MaxDepth \in 1 .. MaxDepth /\ n \in TreesAt[MaxDepth] /\ TreesAt[MaxDepth] = Trees
  BY SomeLevel DEF Trees
<1>2. m \in Trees /\ KindKept(m, n)
  BY <1>1, PreVisitTree
<1>3. V[n] = WithArgs(m, g)
  BY VisitedNode
<1> HIDE DEF m, V
<1>4. m \in Record(Trees) /\ \A i \in DOMAIN m.args : m.args[i] \in Trees
  BY <1>2, TreeNode
<1>5. m.args \in Seq(Trees)
  BY <1>4, RecordFields
<1>6. g = [i \in DOMAIN m.args |-> g[i]]
  OBVIOUS
<1>7. \A i \in DOMAIN m.args : g[i] \in T /\ g[i] = V[m.args[i]]
  BY <1>4
<1> HIDE DEF g, T
<1>8. g \in Seq(T) /\ Len(g) = Len(m.args) /\ DOMAIN g = DOMAIN m.args
  BY <1>5, <1>6, <1>7, MapSeq
<1>9. /\ V[n].kind = m.kind /\ V[n].qual = m.qual /\ V[n].name = m.name /\ V[n].alias = m.alias
      /\ V[n].args = g
  BY <1>3, <1>4, <1>8, WithArgsFields
<1>10. V[n] = WithArgs(m, V[n].args) /\ V[n].args = [i \in DOMAIN m.args |-> V[n].args[i]]
  BY <1>3, <1>6, <1>9
<1> QED BY <1>2, <1>4, <1>7, <1>8, <1>9, <1>10 DEF m, V

\* A kind of expression that a rule may change stands where any expression may.
LEMMA ChildKept ==
  ASSUME NEW k, NEW i, k = "select" => i \in 1 .. 3,
         NEW n, NEW m, KindKept(m, n), m.kind \in Kinds, n.kind \in ChildKinds(k, i)
  PROVE  m.kind \in ChildKinds(k, i)
<1> DEFINE X == {"any", "all", "ident", "register", "collate", "cast", "castas"}
<1>1. CASE m.kind = n.kind
  BY <1>1
<1>2. CASE n.kind \in X /\ m.kind \notin Lists
  <2>1. k # "braces" /\ k # "items" /\ k # "sources"
    BY <1>2 DEF ChildKinds, ItemKinds, SourceKinds
  <2>2. k # "query" /\ k \notin {"subquery", "derived"}
    BY <1>2 DEF ChildKinds, BodyKinds
  <2>3. k # "select"
    <3>1. ASSUME k = "select" PROVE FALSE
      <4>1. n.kind = <<"items", "sources", "list">>[i] /\ i \in {1, 2, 3}
        BY <3>1 DEF ChildKinds
      <4>2. n.kind \in {"items", "sources", "list"}
        BY <4>1
      <4> QED BY <1>2, <4>2
    <3> QED BY <3>1
  <2>4. ChildKinds(k, i) = Kinds \ Lists
    BY <2>1, <2>2, <2>3 DEF ChildKinds
  <2> QED BY <1>2, <2>4
<1> QED BY <1>1, <1>2 DEF KindKept

\* One level more.
LEMMA VisitedStepTree ==
  ASSUME NEW rl \in Visitors, NEW d \in 1 .. MaxDepth, NEW n \in TreesAt[d],
         \A e \in 0 .. d - 1 : \A t \in TreesAt[e] : Visited(rl)[t] \in TreesAt[e]
  PROVE  Visited(rl)[n] \in TreesAt[d]
<1> DEFINE m == PreVisit(rl, n)
           V == Visited(rl)
           v == V[n]
<1>1. n \in Trees
  BY LevelsAreTrees
<1>2. m \in TreesAt[d] /\ \A i \in DOMAIN m.args : m.args[i] \in TreesAt[d - 1] /\ m.args[i] \in Trees
  <2>1. TreesAt[d - 1] \subseteq Trees
    BY LevelsAreTrees
  <2> QED BY <2>1, PreVisitTree
<1>3. /\ v.kind = m.kind /\ v.qual = m.qual /\ v.name = m.name /\ v.alias = m.alias
      /\ Len(v.args) = Len(m.args) /\ DOMAIN v.args = DOMAIN m.args
      /\ \A i \in DOMAIN m.args : v.args[i] = V[m.args[i]]
      /\ v = WithArgs(m, v.args) /\ v.args = [i \in DOMAIN m.args |-> v.args[i]]
  BY <1>1, VisitedFields
<1>4. \A i \in DOMAIN m.args : V[m.args[i]] \in TreesAt[d - 1]
  <2>1. d - 1 \in 0 .. d - 1
    OBVIOUS
  <2> QED BY <1>2, <2>1
<1>5. \A i \in DOMAIN m.args :
        /\ KindKept(PreVisit(rl, m.args[i]), m.args[i])
        /\ V[m.args[i]].kind = PreVisit(rl, m.args[i]).kind
  BY <1>2, VisitedFields
<1> HIDE DEF m, V
<1> DEFINE s == v.args
<1> HIDE DEF v
<1>6. m \in Record(TreesAt[d - 1]) /\ Shape(m)
  BY <1>2, TreeParts
<1>7. s \in Seq(TreesAt[d - 1])
  <2> DEFINE B == TreesAt[d - 1]
  <2>1. m.args \in Seq(B)
    BY <1>6, RecordFields
  <2>2. \A i \in DOMAIN m.args : s[i] \in B
    BY <1>3, <1>4
  <2>3. s = [i \in DOMAIN m.args |-> s[i]]
    BY <1>3
  <2> HIDE DEF s, B
  <2>4. s \in Seq(B)
    BY <2>1, <2>2, <2>3, MapSeq
  <2> QED BY <2>4 DEF B
<1>8. v \in Record(TreesAt[d - 1])
  <2>1. WithArgs(m, s) \in Record(TreesAt[d - 1])
    BY <1>6, <1>7, WithArgsFields
  <2> QED BY <1>3, <2>1
<1>9. \A i \in DOMAIN m.args : v.args[i].kind \in ChildKinds(m.kind, i)
  <2> SUFFICES ASSUME NEW i \in DOMAIN m.args PROVE v.args[i].kind \in ChildKinds(m.kind, i)
    OBVIOUS
  <2> DEFINE c == m.args[i]
             p == PreVisit(rl, c)
  <2>1. v.args[i].kind = p.kind /\ KindKept(p, c)
    BY <1>3, <1>5
  <2>2. c.kind \in ChildKinds(m.kind, i)
    BY <1>6 DEF Shape
  <2>3. m.kind = "select" => i \in 1 .. 3
    BY <1>6, RecordFields DEF Shape
  <2>4. p.kind \in Kinds
    <3>0. d - 1 \in 0 .. MaxDepth
      OBVIOUS
    <3>1. v.args[i] \in TreesAt[d - 1]
      BY <1>3, <1>4
    <3>2. v.args[i] \in Trees
      BY <3>0, <3>1, LevelsAreTrees
    <3>3. v.args[i] \in Record(Trees)
      BY <3>2, TreeNode
    <3>4. v.args[i].kind \in Kinds
      BY <3>3, RecordFields
    <3> QED BY <2>1, <3>4
  <2> HIDE DEF p, c
  <2>5. p.kind \in ChildKinds(m.kind, i)
    BY <2>1, <2>2, <2>3, <2>4, ChildKept
  <2> QED BY <2>1, <2>5
<1>10. v.kind = "register" => v.name \in Registers
  BY <1>3, <1>6 DEF Shape
<1>11. Shape(v)
  BY <1>3, <1>6, <1>8, <1>9, <1>10, SameShape
<1>12. ASSUME Grows(v) PROVE Grows(m)
  <2>1. CASE v.kind = "all"
    BY <1>3, <2>1 DEF Grows
  <2>2. CASE v.kind \in {"cast", "castas"}
    <3>1. m.kind \in {"cast", "castas"} /\ m.name = v.name /\ m.alias = v.alias
      BY <1>3, <2>2
    <3>2. v.alias # "array" => v.name \in RegTypes
      BY <1>12, <2>2 DEF Grows
    <3>3. v.alias = "array" => m.args[1].kind # "array"
      <4>1. SUFFICES ASSUME v.alias = "array", m.args[1].kind = "array" PROVE FALSE
        OBVIOUS
      <4>2. v.args[1].kind # "array"
        BY <1>12, <2>2, <4>1 DEF Grows
      <4>3. 1 \in DOMAIN m.args
        <5>1. Len(m.args) = 1
          BY <1>6, <3>1 DEF Shape, UnaryKinds
        <5> QED BY <1>6, <5>1, RecordFields
      <4>4. v.args[1].kind = PreVisit(rl, m.args[1]).kind /\ KindKept(PreVisit(rl, m.args[1]), m.args[1])
        BY <1>3, <1>5, <4>3
      <4>5. v.args[1].kind = "array"
        BY <4>1, <4>4 DEF KindKept
      <4> QED BY <4>2, <4>5
    <3> QED BY <3>1, <3>2, <3>3 DEF Grows
  <2> QED BY <1>12, <2>1, <2>2 DEF Grows
<1>13. ASSUME Grows(v) PROVE \A i \in DOMAIN v.args : v.args[i] \in TreesAt[Below(d, Growth)]
  <2>1. Grows(m)
    BY <1>12, <1>13
  <2>2. \A i \in DOMAIN m.args : m.args[i] \in TreesAt[Below(d, Growth)]
    BY <1>2, <2>1, TreeParts
  <2>3. Below(d, Growth) \in 0 .. d - 1
    BY BelowLess
  <2>4. \A i \in DOMAIN m.args : V[m.args[i]] \in TreesAt[Below(d, Growth)]
    BY <2>2, <2>3 DEF V
  <2> QED BY <1>3, <2>4
<1> QED BY <1>8, <1>11, <1>13, MakeTree DEF v, V

\* A visitor makes trees of trees, of the same level.
LEMMA VisitedTree ==
  ASSUME NEW rl \in Visitors, NEW d \in 0 .. MaxDepth, NEW t \in TreesAt[d]
  PROVE  Visited(rl)[t] \in TreesAt[d]
<1> DEFINE V == Visited(rl)
           Stays(e) == \A x \in TreesAt[e] : V[x] \in TreesAt[e]
           S == {e \in Nat : \A c \in 0 .. e : Stays(c)}
<1>1. 0 \in S
  BY TreesAtLevels
<1>2. ASSUME NEW e \in 1 .. MaxDepth, e - 1 \in S PROVE e \in S
  <2>1. \A c \in 0 .. e - 1 : Stays(c)
    BY <1>2
  <2>2. Stays(e)
    <3>1. \A c \in 0 .. e - 1 : \A x \in TreesAt[c] : Visited(rl)[x] \in TreesAt[c]
      BY <2>1
    <3>2. \A x \in TreesAt[e] : Visited(rl)[x] \in TreesAt[e]
      BY <3>1, VisitedStepTree
    <3> QED BY <3>2
  <2> HIDE DEF Stays
  <2>3. \A c \in 0 .. e : c \in 0 .. e - 1 \/ c = e
    OBVIOUS
  <2> QED BY <2>1, <2>2, <2>3
<1> HIDE DEF S
<1>3. 0 .. MaxDepth \subseteq S
  BY <1>1, <1>2, UpTo
<1>4. d \in S
  BY <1>3
<1>5. Stays(d)
  BY <1>4 DEF S
<1> QED BY <1>5

\* What holds of a node once it was visited holds of all nodes of the result.
LEMMA VisitAll ==
  ASSUME NEW rl \in Visitors, NEW A, NEW B,
         \A n \in All(A) : \A i \in DOMAIN PreVisit(rl, n).args : PreVisit(rl, n).args[i] \in All(A),
         \A n \in All(A) : Visited(rl)[n] \in B,
         NEW t \in All(A)
  PROVE  Visited(rl)[t] \in All(B)
<1> DEFINE V == Visited(rl)
           S == {x \in Trees : x \in All(A) => V[x] \in All(B)}
<1>1. ASSUME NEW d \in 1 .. MaxDepth, TreesAt[d - 1] \subseteq S PROVE TreesAt[d] \subseteq S
  <2>0. TreesAt[d] \subseteq Trees
    BY LevelsAreTrees
  <2>1. ASSUME NEW n \in TreesAt[d], n \in All(A) PROVE V[n] \in All(B)
    <3> DEFINE m == PreVisit(rl, n)
    <3>1. \A i \in DOMAIN m.args : m.args[i] \in TreesAt[d - 1] /\ m.args[i] \in All(A)
      BY <2>1, PreVisitTree
    <3>2. V[n] \in Trees
      <4>1. V[n] \in TreesAt[d] /\ d \in 0 .. MaxDepth
        BY VisitedTree
      <4> QED BY <4>1, <2>0
    <3>3. DOMAIN V[n].args = DOMAIN m.args /\ \A i \in DOMAIN m.args : V[n].args[i] = V[m.args[i]]
      BY <2>0, VisitedFields
    <3>4. V[n] \in B
      BY <2>1
    <3> HIDE DEF m
    <3>5. \A i \in DOMAIN m.args : V[m.args[i]] \in All(B)
      BY <1>1, <3>1
    <3> HIDE DEF V
    <3> QED BY <3>2, <3>3, <3>4, <3>5, AllOver
  <2> QED BY <2>0, <2>1
<1> HIDE DEF S
<1>2. Trees \subseteq S
  BY <1>1, LevelInduction
<1>3. t \in Trees
  BY DEF All
<1> QED BY <1>2, <1>3 DEF S

LEMMA VisitNodes ==
  ASSUME NEW rl \in Visitors, NEW A, NEW B, Puts(rl, A),
         \A n \in All(A) : Visited(rl)[n] \in B,
         NEW t \in All(A)
  PROVE  Visited(rl)[t] \in All(B)
<1>1. ASSUME NEW n \in All(A), NEW i \in DOMAIN PreVisit(rl, n).args
      PROVE  PreVisit(rl, n).args[i] \in All(A)
  <2> DEFINE d == MaxDepth
  <2>1. n \in Trees
    BY DEF All
  <2>2. d \in 1 .. MaxDepth /\ n \in TreesAt[d]
    BY <2>1, SomeLevel
  <2>3. n \in Over(A, d) /\ d - 1 \in 0 .. MaxDepth
    BY <1>1, <2>2, OverAll
  <2>4. PreVisit(rl, n).args[i] \in Over(A, d - 1)
    BY <2>2, <2>3, PreVisitOver
  <2> QED BY <2>3, <2>4, OverAll
<1> QED BY <1>1, VisitAll

\* A visitor that has nothing to do in any node changes nothing.
LEMMA VisitIdentity ==
  ASSUME NEW rl \in Visitors, NEW A, \A n \in All(A) : PreVisit(rl, n) = n, NEW t \in All(A)
  PROVE  Visited(rl)[t] = t
<1> DEFINE V == Visited(rl)
           S == {x \in Trees : x \in All(A) => V[x] = x}
<1>1. ASSUME NEW n \in Trees, \A i \in DOMAIN n.args : n.args[i] \in S PROVE n \in S
  <2> SUFFICES ASSUME n \in All(A) PROVE V[n] = n
    OBVIOUS
  <2>1. \A i \in DOMAIN n.args : n.args[i] \in All(A)
    BY AllOver
  <2>2. \A i \in DOMAIN n.args : V[n.args[i]] = n.args[i]
    BY <1>1, <2>1
  <2>3. PreVisit(rl, n) = n
    OBVIOUS
  <2> HIDE DEF V, S
  <2>4. V[n] = WithArgs(n, [i \in DOMAIN n.args |-> V[n.args[i]]])
    BY <2>3, VisitedNode DEF V
  <2>5. [i \in DOMAIN n.args |-> V[n.args[i]]] = [i \in DOMAIN n.args |-> n.args[i]]
    BY <2>2
  <2>6. n \in Record(Trees) /\ n.args \in Seq(Trees)
    BY TreeNode, RecordFields
  <2>7. [i \in DOMAIN n.args |-> n.args[i]] = n.args
    BY <2>6
  <2>8. WithArgs(n, n.args) = n
    BY <2>6 DEF WithArgs, Record
  <2> QED BY <2>4, <2>5, <2>7, <2>8
<1> HIDE DEF S
<1>2. Trees \subseteq S
  BY <1>1, TreeInduction
<1>3. t \in Trees
  BY DEF All
<1> QED BY <1>2, <1>3 DEF S

\* The two rules that look at the statement only.
LEMMA AliasStep ==
  ASSUME NEW S, \A x \in Trees : x.kind \in {"query", "select", "items", "aliased"} => x \in S,
         NEW t \in All(S)
  PROVE  Apply("alias", t) \in All(S)
<1> DEFINE d == MaxDepth
<1>1. t \in Trees
  BY DEF All
<1>2. d \in 1 .. MaxDepth /\ d \in 0 .. MaxDepth /\ t \in TreesAt[d]
  BY <1>1, SomeLevel
<1>3. t \in Over(S, d)
  BY <1>2, OverAll
<1>4. CASE TopSelect(t)
  <2>1. AliasDuplicated(t) \in Over(S, d)
    BY <1>2, <1>3, <1>4, AliasOver
  <2>2. AliasDuplicated(t) \in All(S)
    BY <1>2, <2>1, OverAll
  <2> QED BY <1>4, <2>2 DEF Apply
<1>5. CASE ~TopSelect(t)
  BY <1>5 DEF Apply
<1> QED BY <1>4, <1>5

LEMMA ResolveStep ==
  ASSUME NEW S, \A x \in Trees : x.kind \in {"query", "select"} => x \in S,
         \A table \in Names : Requalifies(S, table),
         NEW t \in All(S)
  PROVE  Apply("resolve", t) \in All(S)
<1> DEFINE d == MaxDepth
<1>1. t \in Trees
  BY DEF All
<1>2. d \in 1 .. MaxDepth /\ d \in 0 .. MaxDepth /\ t \in TreesAt[d]
  BY <1>1, SomeLevel
<1>3. t \in Over(S, d)
  BY <1>2, OverAll
<1>4. CASE TopSelect(t) /\ OneTable(t)
  <2>1. ResolveUnqualified(t) \in Over(S, d)
    BY <1>2, <1>3, <1>4, ResolveOver
  <2>2. ResolveUnqualified(t) \in All(S)
    BY <1>2, <2>1, OverAll
  <2> QED BY <1>4, <2>2 DEF Apply
<1>5. CASE ~(TopSelect(t) /\ OneTable(t))
  BY <1>5 DEF Apply, ResolveUnqualified
<1> QED BY <1>4, <1>5

LEMMA AllTrees == All(Trees) = Trees
BY NodesOf DEF All

LEMMA ApplyTree ==
  ASSUME NEW rl \in Visitors \union {"alias", "resolve"}, NEW t \in Trees
  PROVE  Apply(rl, t) \in Trees
<1>1. CASE rl = "alias"
  BY <1>1, AllTrees, AliasStep
<1>2. CASE rl = "resolve"
  <2>1. \A table \in Names : Requalifies(Trees, table)
    BY DEF Requalifies
  <2> QED BY <1>2, <2>1, AllTrees, ResolveStep
<1>3. CASE rl \in Visitors
  <2>1. rl # "alias" /\ rl # "resolve"
    BY <1>3 DEF Visitors
  <2>2. Apply(rl, t) = Visited(rl)[t]
    BY <2>1 DEF Apply
  <2>3. MaxDepth \in 0 .. MaxDepth /\ TreesAt[MaxDepth] = Trees
    BY DEF Trees
  <2> QED BY <1>3, <2>2, <2>3, VisitedTree
<1> QED BY <1>1, <1>2, <1>3

-----------------------------------------------------------------------------
(* Each statement is what the rules before the next one made of what was   *)
(* parsed.                                                                 *)

Chain(t, old, new, k) ==
  /\ t \in [0 .. k -> Trees] /\ t[0] = old /\ t[k] = new
  /\ \A j \in 1 .. k : t[j] = Apply(RuleOrder[j], t[j - 1])

\* The rules that went over a statement.
Done(i) == IF i < current THEN 12 ELSE IF i = current THEN rule - 1 ELSE 0

RulesInv ==
  /\ statements \in Seq(Trees) /\ parsed \in Seq(Trees) /\ Len(statements) = Len(parsed)
  /\ \A i \in DOMAIN parsed : parsed[i].kind \in StatementKinds
  /\ rule \in 1 .. 12 /\ current \in Nat \ {0}
  /\ stage = "scan" => current = 1 /\ rule = 1
  /\ \A i \in DOMAIN statements : \E t : Chain(t, parsed[i], statements[i], Done(i))

RewriteInv == TokenInv /\ RulesInv

LEMMA RulesNamed ==
  /\ Len(RuleOrder) = 12
  /\ \A k \in 1 .. 12 : RuleOrder[k] \in Visitors \union {"alias", "resolve"}
BY DEF RuleOrder, Visitors

LEMMA ChainGrows ==
  ASSUME NEW k \in 1 .. 12, NEW old, NEW new, NEW t, Chain(t, old, new, k - 1)
  PROVE  \E u : Chain(u, old, Apply(RuleOrder[k], new), k)
<1> DEFINE u == [j \in 0 .. k |-> IF j < k THEN t[j] ELSE Apply(RuleOrder[k], new)]
<1>1. new \in Trees
  BY DEF Chain
<1>2. Apply(RuleOrder[k], new) \in Trees
  BY <1>1, RulesNamed, ApplyTree
<1>3. u \in [0 .. k -> Trees] /\ u[0] = old /\ u[k] = Apply(RuleOrder[k], new)
  BY <1>2 DEF Chain
<1>4. ASSUME NEW j \in 1 .. k PROVE u[j] = Apply(RuleOrder[j], u[j - 1])
  <2>1. CASE j = k
    <3>1. u[j - 1] = t[k - 1] /\ u[j] = Apply(RuleOrder[k], new)
      BY <2>1
    <3> QED BY <2>1, <3>1 DEF Chain
  <2>2. CASE j # k
    <3>1. j \in 1 .. k - 1 /\ j \in 0 .. k /\ j - 1 \in 0 .. k /\ j < k /\ j - 1 < k
      BY <2>2
    <3>2. u[j] = t[j] /\ u[j - 1] = t[j - 1]
      BY <3>1
    <3> HIDE DEF u
    <3> QED BY <3>1, <3>2 DEF Chain
  <2> QED BY <2>1, <2>2
<1> QED BY <1>3, <1>4 DEF Chain

LEMMA ParsedSeq ==
  ASSUME NEW words \in Seq(Words), AreStatements(Parsed(words))
  PROVE  Parsed(words) \in Seq(Trees)
<1>1. IsFiniteSet(Starts(words))
  <2>1. DOMAIN words = 1 .. Len(words) /\ Len(words) \in Nat
    OBVIOUS
  <2>2. IsFiniteSet(1 .. Len(words))
    BY <2>1, FS_Interval
  <2> QED BY <2>1, <2>2, FS_Subset DEF Starts
<1> DEFINE n == Cardinality(Starts(words))
<1>2. n \in Nat
  BY <1>1, FS_CardinalityType
<1> HIDE DEF n
<1>3. DOMAIN Parts(words) = 1 .. n
  BY DEF Parts, n
<1>4. Parsed(words) = [k \in 1 .. n |-> Grammar(Parts(words)[k])]
  BY <1>3, Zenon DEF Parsed
<1>5. Parsed(words) \in [1 .. n -> Trees]
  BY <1>4 DEF AreStatements
<1> QED BY <1>2, <1>5

LEMMA RewriteInitInv == RewriteInit => RewriteInv
<1> SUFFICES ASSUME RewriteInit PROVE RewriteInv
  OBVIOUS
<1>1. TokenInv
  BY TokenInitInv DEF RewriteInit
<1>2. RulesInv
  BY DEF RewriteInit, RulesInv
<1> QED BY <1>1, <1>2 DEF RewriteInv

LEMMA RewriteStepInv == RewriteInv /\ [RewriteNext]_rewriteVars => RewriteInv'
<1> SUFFICES ASSUME RewriteInv, [RewriteNext]_rewriteVars PROVE RewriteInv'
  OBVIOUS
<1>0. /\ statements \in Seq(Trees) /\ parsed \in Seq(Trees) /\ Len(statements) = Len(parsed)
      /\ \A i \in DOMAIN parsed : parsed[i].kind \in StatementKinds
      /\ rule \in 1 .. 12 /\ current \in Nat \ {0}
      /\ stage = "scan" => current = 1 /\ rule = 1
      /\ \A i \in DOMAIN statements : \E t : Chain(t, parsed[i], statements[i], Done(i))
  BY DEF RewriteInv, RulesInv
<1>00. TokenInv /\ output \in Seq(Words)
  BY DEF RewriteInv, TokenInv, TokenTypeOK
<1>1. CASE ScanToken
  <2>1. TokenInv'
    BY <1>00, <1>1, TokenStepInv DEF ScanToken
  <2>2. RulesInv'
    BY <1>0, <1>1 DEF ScanToken, RulesInv, Done
  <2> QED BY <2>1, <2>2 DEF RewriteInv
<1>2. CASE ParseTokens
  <2>1. TokenInv'
    BY <1>00, <1>2, TokenStepInv DEF ParseTokens
  <2> DEFINE p == Parsed(output)
  <2>2. /\ p \in Seq(Trees) /\ statements' = p /\ parsed' = p /\ stage' = "rewrite"
        /\ current' = 1 /\ rule' = 1
    BY <1>0, <1>00, <1>2, ParsedSeq DEF ParseTokens
  <2>6. \A i \in DOMAIN p : p[i].kind \in StatementKinds
    BY <1>2 DEF ParseTokens, AreStatements
  <2> HIDE DEF p
  <2>3. ASSUME NEW i \in DOMAIN p PROVE \E t : Chain(t, p[i], p[i], 0)
    <3> DEFINE t == [j \in 0 .. 0 |-> p[i]]
    <3>1. p[i] \in Trees
      BY <2>2
    <3>2. Chain(t, p[i], p[i], 0)
      BY <3>1 DEF Chain
    <3> QED BY <3>2
  <2>4. \A i \in DOMAIN p : (Done(i))' = 0
    BY <2>2 DEF Done
  <2>5. RulesInv'
    BY <2>2, <2>3, <2>4, <2>6 DEF RulesInv
  <2> QED BY <2>1, <2>5 DEF RewriteInv
<1>3. CASE FailParse
  <2>1. TokenInv'
    BY <1>00, <1>3, TokenStepInv DEF FailParse
  <2>2. RulesInv'
    BY <1>0, <1>3 DEF FailParse, RulesInv, Done
  <2> QED BY <2>1, <2>2 DEF RewriteInv
<1>4. CASE ApplyRule
  <2>1. TokenInv'
    BY <1>00, <1>4, TokenStepInv DEF ApplyRule
  <2> DEFINE new == Apply(RuleOrder[rule], statements[current])
  <2>2. /\ current \in DOMAIN statements /\ statements' = [statements EXCEPT ![current] = new]
        /\ parsed' = parsed /\ stage' # "scan"
        /\ rule = 12 => rule' = 1 /\ current' = current + 1
        /\ rule # 12 => rule' = rule + 1 /\ current' = current
    BY <1>4, RulesNamed DEF ApplyRule, RuleAfter
  <2>3. new \in Trees
    <3>1. statements[current] \in Trees
      BY <1>0, <2>2
    <3>2. RuleOrder[rule] \in Visitors \union {"alias", "resolve"}
      BY <1>0, RulesNamed
    <3> QED BY <3>1, <3>2, ApplyTree
  <2>4. Done(current) = rule - 1
    BY <1>0 DEF Done
  <2>5. \E u : Chain(u, parsed[current], new, rule)
    <3>1. PICK t : Chain(t, parsed[current], statements[current], rule - 1)
      BY <1>0, <2>2, <2>4
    <3> QED BY <1>0, <3>1, ChainGrows
  <2> HIDE DEF new
  <2>6. \A i \in DOMAIN statements : (IF i < current' THEN 12 ELSE IF i = current' THEN rule' - 1 ELSE 0)
          = IF i = current THEN rule ELSE Done(i)
    BY <1>0, <2>2 DEF Done
  <2>7. ASSUME NEW i \in DOMAIN statements
        PROVE  \E t : Chain(t, parsed[i], statements'[i],
                        IF i < current' THEN 12 ELSE IF i = current' THEN rule' - 1 ELSE 0)
    <3>1. CASE i = current
      <4>1. statements'[i] = new
        BY <1>0, <2>2, <3>1
      <4> QED BY <2>5, <2>6, <3>1, <4>1
    <3>2. CASE i # current
      <4>1. statements'[i] = statements[i]
        BY <1>0, <2>2, <3>2
      <4> QED BY <1>0, <2>6, <3>2, <4>1
    <3> QED BY <3>1, <3>2
  <2>8. /\ statements' \in Seq(Trees) /\ Len(statements') = Len(parsed)
        /\ DOMAIN statements' = DOMAIN statements
    BY <1>0, <2>2, <2>3
  <2>9. rule' \in 1 .. 12 /\ current' \in Nat \ {0}
    BY <1>0, <2>2
  <2>10. RulesInv'
    BY <1>0, <2>2, <2>7, <2>8, <2>9 DEF RulesInv, Done
  <2> QED BY <2>1, <2>10 DEF RewriteInv
<1>5. CASE Finish
  <2>1. TokenInv'
    BY <1>00, <1>5, TokenStepInv DEF Finish
  <2>2. RulesInv'
    BY <1>0, <1>5 DEF Finish, RulesInv, Done
  <2> QED BY <2>1, <2>2 DEF RewriteInv
<1>6. CASE UNCHANGED rewriteVars
  <2>1. TokenInv'
    BY <1>00, <1>6, TokenStepInv DEF rewriteVars
  <2>2. RulesInv'
    BY <1>0, <1>6 DEF rewriteVars, RulesInv, Done
  <2> QED BY <2>1, <2>2 DEF RewriteInv
<1> QED BY <1>1, <1>2, <1>3, <1>4, <1>5, <1>6 DEF RewriteNext

LEMMA RewriteInvariant == RewriteSpec => []RewriteInv
BY RewriteInitInv, RewriteStepInv, PTL DEF RewriteSpec

\* A statement that is through went through all rules, one after the other.
LEMMA RewrittenChain ==
  ASSUME RewriteInv, NEW i \in Rewritten
  PROVE  /\ i \in DOMAIN statements
         /\ parsed[i].kind \in StatementKinds
         /\ \E t : Chain(t, parsed[i], statements[i], 12)
<1>1. i \in DOMAIN statements /\ Done(i) = 12
  BY DEF Rewritten, Done
<1> QED BY <1>1 DEF RewriteInv, RulesInv

\* The steps of a chain, by name.
LEMMA ChainSteps ==
  ASSUME NEW t, NEW old, NEW new, Chain(t, old, new, 12)
  PROVE  /\ \A j \in 0 .. 12 : t[j] \in Trees
         /\ t[0] = old /\ t[12] = new
         /\ t[1] = Apply("alias", t[0]) /\ t[2] = Apply("resolve", t[1])
         /\ t[3] = Visited("anyall")[t[2]] /\ t[4] = Visited("catalog")[t[3]]
         /\ t[5] = Visited("callable")[t[4]] /\ t[6] = Visited("array")[t[5]]
         /\ t[7] = Visited("user")[t[6]] /\ t[8] = Visited("collate")[t[7]]
         /\ t[9] = Visited("operator")[t[8]] /\ t[10] = Visited("regcast")[t[9]]
         /\ t[11] = Visited("subquery")[t[10]] /\ t[12] = Visited("version")[t[11]]
<1>1. \A j \in 1 .. 12 : t[j] = Apply(RuleOrder[j], t[j - 1])
  BY DEF Chain
<1>2. /\ t[1] = Apply(RuleOrder[1], t[0]) /\ t[2] = Apply(RuleOrder[2], t[1])
      /\ t[3] = Apply(RuleOrder[3], t[2]) /\ t[4] = Apply(RuleOrder[4], t[3])
      /\ t[5] = Apply(RuleOrder[5], t[4]) /\ t[6] = Apply(RuleOrder[6], t[5])
      /\ t[7] = Apply(RuleOrder[7], t[6]) /\ t[8] = Apply(RuleOrder[8], t[7])
      /\ t[9] = Apply(RuleOrder[9], t[8]) /\ t[10] = Apply(RuleOrder[10], t[9])
      /\ t[11] = Apply(RuleOrder[11], t[10]) /\ t[12] = Apply(RuleOrder[12], t[11])
  BY <1>1
<1>3. /\ RuleOrder[1] = "alias" /\ RuleOrder[2] = "resolve" /\ RuleOrder[3] = "anyall"
      /\ RuleOrder[4] = "catalog" /\ RuleOrder[5] = "callable" /\ RuleOrder[6] = "array"
      /\ RuleOrder[7] = "user" /\ RuleOrder[8] = "collate" /\ RuleOrder[9] = "operator"
      /\ RuleOrder[10] = "regcast" /\ RuleOrder[11] = "subquery" /\ RuleOrder[12] = "version"
  BY DEF RuleOrder
<1>4. \A rl \in Visitors : \A x : Apply(rl, x) = Visited(rl)[x]
  BY DEF Apply, Visitors
<1>5. \A j \in 3 .. 12 : RuleOrder[j] \in Visitors
  BY DEF RuleOrder, Visitors
<1>6. \A j \in 3 .. 12 : Apply(RuleOrder[j], t[j - 1]) = Visited(RuleOrder[j])[t[j - 1]]
  BY <1>4, <1>5
<1>7. /\ t[3] = Visited("anyall")[t[2]] /\ t[4] = Visited("catalog")[t[3]]
      /\ t[5] = Visited("callable")[t[4]] /\ t[6] = Visited("array")[t[5]]
  BY <1>2, <1>3, <1>6
<1>8. /\ t[7] = Visited("user")[t[6]] /\ t[8] = Visited("collate")[t[7]]
      /\ t[9] = Visited("operator")[t[8]] /\ t[10] = Visited("regcast")[t[9]]
      /\ t[11] = Visited("subquery")[t[10]] /\ t[12] = Visited("version")[t[11]]
  BY <1>2, <1>3, <1>6
<1> QED BY <1>2, <1>3, <1>7, <1>8 DEF Chain

-----------------------------------------------------------------------------
(* What becomes of the names in a node.                                    *)

Labels(m, n) == m.kind = n.kind /\ m.qual = n.qual /\ m.name = n.name /\ m.alias = n.alias

\* A node that takes names from a rule, or makes room for another.
Relabelled(rl, n, m) ==
  \/ Labels(m, n)
  \/ rl = "anyall" /\ n.kind = "any" /\ m.kind = "call" /\ m.name = "array_contains" /\ m.qual = None
  \/ rl = "anyall" /\ n.kind = "all" /\ m.kind = "not"
  \/ rl = "catalog" /\ n.kind = "table" /\ m.kind = "table" /\ m.name = n.name
       /\ m.qual = "pg_catalog" /\ m.alias = n.alias
  \/ rl = "callable" /\ n.kind \in {"call", "tablefunction"} /\ m.kind = n.kind
       /\ m.qual = None /\ m.name = n.name /\ m.alias = n.alias
  \/ rl = "user" /\ n.kind = "ident" /\ n.name = "current_schema"
       /\ m.kind = "call" /\ m.name = "current_schema" /\ m.qual = None
  \/ rl = "user" /\ n.kind \in {"register", "call"} /\ m.kind = "call"
       /\ m.name = "current_database" /\ m.qual = None
  \/ rl = "user" /\ n.kind \in {"register", "call"} /\ m.kind = n.kind
       /\ m.name = "session_user" /\ m.qual = None
  \/ rl = "operator" /\ n.kind = "binary" /\ m.kind = "binary" /\ m.qual = None
       /\ m.name = n.name /\ m.alias = n.alias
  \/ rl = "regcast" /\ RegCast(n) /\ m.kind \in {"number", "subquery"}

\* A tree is one over all trees.
LEMMA WholeLevel ==
  ASSUME NEW n \in Trees
  PROVE  /\ MaxDepth \in 1 .. MaxDepth /\ n \in Over(Trees, MaxDepth)
         /\ Over(Trees, MaxDepth) = Trees
<1>1. MaxDepth \in 1 .. MaxDepth /\ MaxDepth \in 0 .. MaxDepth /\ n \in TreesAt[MaxDepth]
  BY SomeLevel
<1> QED BY <1>1, OverTrees DEF Trees

LEMMA Relabels ==
  ASSUME NEW rl \in Visitors \ {"collate"}, NEW n \in Trees
  PROVE  Relabelled(rl, n, PreVisit(rl, n))
<1> DEFINE d == MaxDepth
<1>0. d \in 1 .. MaxDepth /\ n \in Over(Trees, d) /\ n \in TreesAt[d] /\ n \in Record(Trees)
  BY WholeLevel, SomeLevel, TreeNode
<1> HIDE DEF d
<1>1. CASE rl = "anyall"
  <2>1. PreVisit(rl, n) = ArrayAnyAll(n)
    BY <1>1 DEF PreVisit
  <2>2. \A x \in Trees : Made("anyall", x) => x \in Trees
    OBVIOUS
  <2>3. LET m == ArrayAnyAll(n) IN
         /\ m \in TreesAt[d]
         /\ \A i \in DOMAIN m.args : m.args[i] \in Over(Trees, d - 1)
         /\ \/ m = n /\ (n.kind = "any" => n.name # "=") /\ (n.kind = "all" => n.name # "<>")
            \/ n.kind = "any" /\ m.kind = "call" /\ m.name = "array_contains" /\ m.qual = None
            \/ n.kind = "all" /\ m.kind = "not"
    BY <1>0, <2>2, AnyAllOver
  <2> QED BY <1>1, <2>1, <2>3 DEF Relabelled, Labels
<1>2. CASE rl = "catalog"
  <2>1. PreVisit(rl, n) = PrependCatalog(n)
    BY <1>2 DEF PreVisit
  <2> QED BY <1>0, <1>2, <2>1 DEF Relabelled, Labels, PrependCatalog, Record
<1>3. CASE rl = "callable"
  <2>1. PreVisit(rl, n) = StripCallable(n)
    BY <1>3 DEF PreVisit
  <2> QED BY <1>0, <1>3, <2>1 DEF Relabelled, Labels, StripCallable, Record
<1>4. CASE rl = "array"
  <2>1. PreVisit(rl, n) = FixArray(n)
    BY <1>4 DEF PreVisit
  <2>2. \A x \in Trees : Made("array", x) => x \in Trees
    OBVIOUS
  <2>3. LET m == FixArray(n) IN
         /\ m \in TreesAt[d]
         /\ \A i \in DOMAIN m.args : m.args[i] \in Over(Trees, d - 1)
         /\ m.kind = n.kind /\ m.qual = n.qual /\ m.name = n.name /\ m.alias = n.alias
    BY <1>0, <2>2, ArrayTree
  <2> QED BY <2>1, <2>3 DEF Relabelled, Labels
<1>5. CASE rl = "user"
  <2>1. PreVisit(rl, n) = CurrentUser(n)
    BY <1>5 DEF PreVisit
  <2>2. CASE n.kind = "ident" /\ n.name = "current_schema"
    BY <1>5, <2>1, <2>2 DEF Relabelled, CurrentUser, Call, Node
  <2>3. CASE n.kind \in {"register", "call"} /\ n.name = "current_user"
    <3>1. CurrentUser(n) = [n EXCEPT !.name = "session_user", !.qual = None]
      BY <2>3 DEF CurrentUser
    <3> QED BY <1>0, <1>5, <2>1, <2>3, <3>1 DEF Relabelled, Record
  <2>4. CASE n.kind \in {"register", "call"} /\ n.name = "current_catalog"
    <3>1. CurrentUser(n) = Call("current_database", n.args)
      BY <2>4 DEF CurrentUser
    <3> QED BY <1>5, <2>1, <2>4, <3>1 DEF Relabelled, Call, Node
  <2>5. CASE CurrentUser(n) = n
    BY <2>1, <2>5 DEF Relabelled, Labels
  <2> QED BY <2>2, <2>3, <2>4, <2>5 DEF CurrentUser
<1>6. CASE rl = "operator"
  <2>1. PreVisit(rl, n) = BareOperator(n)
    BY <1>6 DEF PreVisit
  <2> QED BY <1>0, <1>6, <2>1 DEF Relabelled, Labels, BareOperator, Record
<1>7. CASE rl = "regcast"
  <2>1. PreVisit(rl, n) = RegCastToSubquery(n)
    BY <1>7 DEF PreVisit
  <2>2. CASE RegCast(n)
    <3>1. RegCastToSubquery(n).kind \in {"number", "subquery"}
      BY <2>2 DEF RegCastToSubquery, LookUp, Leaf, Subquery, Node
    <3> QED BY <1>7, <2>1, <2>2, <3>1 DEF Relabelled
  <2>3. CASE ~RegCast(n)
    BY <2>1, <2>3 DEF Relabelled, Labels, RegCastToSubquery
  <2> QED BY <2>2, <2>3
<1>8. CASE rl = "subquery"
  <2>1. PreVisit(rl, n) = RemoveSubquery(n)
    BY <1>8 DEF PreVisit
  <2>2. \A x \in Trees : Made("subquery", x) => x \in Trees
    OBVIOUS
  <2>3. LET m == RemoveSubquery(n) IN
         /\ m.kind = n.kind /\ m.name = n.name /\ m.qual = n.qual /\ m.alias = n.alias
    BY <1>0, <2>2, RemoveSubqueryOver
  <2> QED BY <2>1, <2>3 DEF Relabelled, Labels
<1>9. CASE rl = "version"
  <2>1. PreVisit(rl, n) = FixVersion(n)
    BY <1>9 DEF PreVisit
  <2>2. \A x \in Trees : Made("version", x) => x \in Trees
    OBVIOUS
  <2>3. LET m == FixVersion(n) IN
         /\ m.kind = n.kind /\ m.name = n.name /\ m.qual = n.qual /\ m.alias = n.alias
    BY <1>0, <2>2, FixVersionOver
  <2> QED BY <2>1, <2>3 DEF Relabelled, Labels
<1> QED BY <1>1, <1>2, <1>3, <1>4, <1>5, <1>6, <1>7, <1>8, <1>9 DEF Visitors

\* What a visitor leaves in the place of a child.
LEMMA VisitedChild ==
  ASSUME NEW rl \in Visitors, NEW n \in Trees, NEW i \in DOMAIN PreVisit(rl, n).args
  PROVE  LET c == PreVisit(rl, n).args[i] IN
         /\ c \in Trees /\ Visited(rl)[n].args[i] = Visited(rl)[c]
         /\ Labels(Visited(rl)[c], PreVisit(rl, c))
<1>1. PreVisit(rl, n).args[i] \in Trees /\ Visited(rl)[n].args[i] = Visited(rl)[PreVisit(rl, n).args[i]]
  BY VisitedFields
<1> DEFINE c == PreVisit(rl, n).args[i]
<1>2. c \in Trees
  BY <1>1
<1> HIDE DEF c
<1>3. Labels(Visited(rl)[c], PreVisit(rl, c))
  BY <1>2, VisitedFields DEF Labels
<1> QED BY <1>1, <1>3 DEF c

-----------------------------------------------------------------------------
(* What a rule is there for is gone once it went over a statement, and does *)
(* not come back.                                                          *)

Gone(rl, n) ==
  CASE rl = "anyall" -> (n.kind # "any" \/ n.name # "=") /\ (n.kind # "all" \/ n.name # "<>")
    [] rl = "catalog" -> n.kind # "table" \/ n.qual # None \/ n.name \notin CatalogTables
    [] rl = "callable" -> n.kind \notin {"call", "tablefunction"} \/ n.qual = None
    [] rl = "array" -> ~ArrayString(n)
    [] rl = "user" -> /\ n.kind # "call" \/ n.name \notin {"current_user", "current_catalog"}
                      /\ n.kind # "register" \/ n.name = "session_user"
                      /\ n.kind # "ident" \/ n.name # "current_schema"
    [] rl = "collate" -> n.kind # "collate"
    [] rl = "operator" -> n.kind # "binary" \/ n.qual # "pg_catalog" \/ n.name \notin RegexOperators
    [] rl = "regcast" -> ~RegCast(n)
    [] OTHER -> TRUE

LEMMA AllGone ==
  ASSUME NEW n, \A rl \in Visitors : Gone(rl, n)
  PROVE  Plannable(n)
<1>1. Gone("anyall", n) /\ Gone("catalog", n) /\ Gone("callable", n) /\ Gone("array", n)
  BY DEF Visitors
<1>2. Gone("user", n) /\ Gone("collate", n) /\ Gone("operator", n) /\ Gone("regcast", n)
  BY DEF Visitors
<1>3. n.kind \in {"call", "tablefunction"} => n.qual = None
  BY <1>1 DEF Gone
<1>4. (n.kind # "any" \/ n.name # "=") /\ (n.kind # "all" \/ n.name # "<>")
  BY <1>1 DEF Gone
<1>5. ~ArrayString(n) /\ (n.kind = "table" /\ n.qual = None => n.name \notin CatalogTables)
  BY <1>1 DEF Gone
<1>6. /\ n.kind = "call" => n.name \notin {"current_user", "current_catalog"}
      /\ n.kind # "register" \/ n.name = "session_user"
      /\ ~(n.kind = "ident" /\ n.name = "current_schema")
  BY <1>2 DEF Gone
<1>7. n.kind # "collate" /\ ~RegCast(n)
  BY <1>2 DEF Gone
<1>8. n.kind = "binary" => n.qual # "pg_catalog" \/ n.name \notin RegexOperators
  BY <1>2 DEF Gone
<1> QED BY <1>3, <1>4, <1>5, <1>6, <1>7, <1>8 DEF Plannable

Shallow == Visitors \ {"array", "regcast"}

\* The names of a node are all that most of this is about.
LEMMA GoneLabels ==
  ASSUME NEW rl \in Shallow, NEW n, NEW m, Labels(m, n), Gone(rl, n)
  PROVE  Gone(rl, m)
<1>1. rl # "array" /\ rl # "regcast"
  BY DEF Shallow
<1> QED BY <1>1 DEF Gone, Labels

LEMMA GoneRelabelled ==
  ASSUME NEW rl \in Shallow, NEW by \in Visitors \ {"collate"}, NEW n, NEW m,
         Relabelled(by, n, m), Gone(rl, n)
  PROVE  Gone(rl, m)
<1>0. CASE Labels(m, n)
  BY <1>0, GoneLabels
<1> USE DEF Shallow
<1>1. None # "pg_catalog"
  BY DEF None
<1>2. CASE ~Labels(m, n)
  <2>1. rl \in {"anyall", "collate", "subquery", "version"} => Gone(rl, m)
    BY <1>2 DEF Gone, Relabelled
  <2>2. rl = "catalog" => Gone(rl, m)
    BY <1>1, <1>2 DEF Gone, Relabelled
  <2>3. rl = "callable" => Gone(rl, m)
    BY <1>2 DEF Gone, Relabelled
  <2>4. rl = "user" => Gone(rl, m)
    BY <1>2 DEF Gone, Relabelled
  <2>5. rl = "operator" => Gone(rl, m)
    BY <1>1, <1>2 DEF Gone, Relabelled
  <2> QED BY <2>1, <2>2, <2>3, <2>4, <2>5 DEF Visitors
<1> QED BY <1>0, <1>2

\* The string an array is written in has made room for the array.
LEMMA ArrayPlaced ==
  ASSUME NEW n \in Trees, ArrayString(n)
  PROVE  FixArray(n).args[1].kind = "array"
<1>0. n \in Record(Trees) /\ Shape(n) /\ n.kind = "cast"
  BY TreeNode DEF ArrayString
<1>1. PICK s : FixArray(n) = WithArg(n, 1, ArrayOf(s))
  <2> DEFINE Element(x) ==
        IF n.qual = None /\ n.name \in TextTypes THEN x ELSE Leaf("number", x.name)
             s == [i \in DOMAIN Elements(n.args[1]) |-> Element(Elements(n.args[1])[i])]
  <2>1. FixArray(n) = WithArg(n, 1, ArrayOf(s))
    BY Zenon DEF FixArray
  <2> QED BY <2>1
<1>2. 1 \in DOMAIN n.args
  <2>1. Len(n.args) = 1
    BY <1>0 DEF Shape, UnaryKinds
  <2> QED BY <1>0, <2>1, RecordFields
<1>3. WithArg(n, 1, ArrayOf(s)).args[1] = ArrayOf(s)
  BY <1>0, <1>2 DEF WithArg, WithArgs, Record
<1>4. ArrayOf(s).kind = "array"
  BY DEF ArrayOf, Node
<1> QED BY <1>1, <1>3, <1>4

\* A cast has its operand still, or the array that stood in a string.
LEMMA CastsStay ==
  ASSUME NEW rl \in Visitors \ {"collate"}, NEW n \in Trees, PreVisit(rl, n).kind \in {"cast", "castas"}
  PROVE  LET m == PreVisit(rl, n) IN
         /\ Labels(m, n) /\ 1 \in DOMAIN m.args
         /\ m = n \/ (rl = "array" /\ m.args[1].kind = "array")
         /\ rl = "array" /\ ArrayString(n) => m.args[1].kind = "array"
<1> DEFINE m == PreVisit(rl, n)
<1>1. Labels(m, n)
  BY Relabels DEF Relabelled
<1>2. n.kind \in {"cast", "castas"}
  BY <1>1 DEF Labels
<1>3. m = n \/ (rl = "array" /\ m.args[1].kind = "array")
  <2>0. n \in Record(Trees)
    BY TreeNode
  <2>1. CASE rl \in {"anyall", "catalog", "callable", "user", "operator"}
    <3>1. PreVisit(rl, n) \in
            {ArrayAnyAll(n), PrependCatalog(n), StripCallable(n), CurrentUser(n), BareOperator(n)}
      BY <2>1 DEF PreVisit
    <3>2. ArrayAnyAll(n) = n /\ PrependCatalog(n) = n /\ StripCallable(n) = n
      BY <1>2 DEF ArrayAnyAll, PrependCatalog, StripCallable
    <3>3. CurrentUser(n) = n /\ BareOperator(n) = n
      BY <1>2 DEF CurrentUser, BareOperator
    <3>4. PreVisit(rl, n) = n
      BY <3>1, <3>2, <3>3
    <3> QED BY <3>4
  <2>2. CASE rl = "array"
    <3>1. PreVisit(rl, n) = FixArray(n)
      BY <2>2 DEF PreVisit
    <3>2. CASE ArrayString(n)
      BY <2>2, <3>1, <3>2, ArrayPlaced
    <3>3. CASE ~ArrayString(n)
      <4>1. PreVisit(rl, n) = n
        BY <3>1, <3>3 DEF FixArray
      <4> QED BY <4>1
    <3> QED BY <3>2, <3>3
  <2>3. CASE rl = "regcast"
    <3>1. PreVisit(rl, n) = RegCastToSubquery(n)
      BY <2>3 DEF PreVisit
    <3>2. RegCast(n) => RegCastToSubquery(n).kind \in {"number", "subquery"}
      BY DEF RegCastToSubquery, LookUp, Leaf, Subquery, Node
    <3>3. ~RegCast(n)
      BY <3>1, <3>2
    <3>9. PreVisit(rl, n) = n
      BY <3>1, <3>3 DEF RegCastToSubquery
    <3> QED BY <3>9
  <2>4. CASE rl = "subquery"
    <3>1. PreVisit(rl, n) = RemoveSubquery(n)
      BY <2>4 DEF PreVisit
    <3>2. ~TopSelect(n)
      BY <1>2 DEF TopSelect
    <3>9. PreVisit(rl, n) = n
      BY <3>1, <3>2 DEF RemoveSubquery
    <3> QED BY <3>9
  <2>5. CASE rl = "version"
    <3>1. PreVisit(rl, n) = FixVersion(n)
      BY <2>5 DEF PreVisit
    <3>2. ~TopSelect(n)
      BY <1>2 DEF TopSelect
    <3>9. PreVisit(rl, n) = n
      BY <3>1, <3>2 DEF FixVersion
    <3> QED BY <3>9
  <2> QED BY <2>1, <2>2, <2>3, <2>4, <2>5 DEF Visitors
<1>5. rl = "array" /\ ArrayString(n) => m.args[1].kind = "array"
  BY ArrayPlaced DEF PreVisit
<1>4. 1 \in DOMAIN m.args
  <2>1. m \in Trees
    BY VisitedFields
  <2>2. m \in Record(Trees) /\ Shape(m)
    BY <2>1, TreeNode
  <2>3. Len(m.args) = 1
    BY <2>2 DEF Shape, UnaryKinds
  <2> QED BY <2>2, <2>3, RecordFields
<1> QED BY <1>1, <1>3, <1>4, <1>5

\* Strings and parameters come from what was one.
LEMMA StringsStay ==
  ASSUME NEW rl \in Visitors \ {"collate"}, NEW c \in Trees
  PROVE  /\ IsString(Visited(rl)[c]) => IsString(c)
         /\ Visited(rl)[c].kind = "param" => c.kind = "param"
         /\ Visited(rl)[c].kind = "collate" => c.kind = "collate"
<1>1. Visited(rl)[c].kind = PreVisit(rl, c).kind
  BY VisitedFields
<1>2. Relabelled(rl, c, PreVisit(rl, c))
  BY Relabels
<1> DEFINE k == PreVisit(rl, c).kind
<1>3. k = c.kind \/ k \in {"call", "not", "number", "subquery"}
  BY <1>2 DEF Relabelled, Labels
<1> QED BY <1>1, <1>3 DEF IsString, StringKinds

\* What a rule is there for does not come back, whatever other rules do.
LEMMA GoneKept ==
  ASSUME NEW rl \in Visitors, NEW by \in Visitors \ {"collate"}, NEW n \in Trees, Gone(rl, n)
  PROVE  Gone(rl, Visited(by)[n])
<1> DEFINE m == PreVisit(by, n)
           v == Visited(by)[n]
<1>1. Relabelled(by, n, m) /\ Labels(v, m)
  BY Relabels, VisitedFields DEF Labels
<1>2. CASE rl \in Shallow
  <2>1. Gone(rl, m)
    BY <1>1, <1>2, GoneRelabelled
  <2> HIDE DEF m, v
  <2> QED BY <1>1, <1>2, <2>1, GoneLabels DEF v
<1>3. ASSUME v.kind \in {"cast", "castas"}
      PROVE  /\ Labels(v, n) /\ (IsString(v.args[1]) => IsString(n.args[1]))
             /\ v.args[1].kind = "param" => n.args[1].kind = "param"
  <2>0. m.kind \in {"cast", "castas"}
    BY <1>1, <1>3 DEF Labels
  <2>1. /\ Labels(m, n) /\ 1 \in DOMAIN m.args
        /\ m = n \/ (by = "array" /\ m.args[1].kind = "array")
    BY <2>0, CastsStay
  <2>2. m.args[1] \in Trees /\ v.args[1] = Visited(by)[m.args[1]]
    BY <2>1, VisitedChild
  <2>3. /\ IsString(v.args[1]) => IsString(m.args[1])
        /\ v.args[1].kind = "param" => m.args[1].kind = "param"
    <3>1. \A c \in Trees :
            /\ IsString(Visited(by)[c]) => IsString(c)
            /\ Visited(by)[c].kind = "param" => c.kind = "param"
      BY StringsStay
    <3> HIDE DEF m, v
    <3> QED BY <2>2, <3>1
  <2>4. m.args[1].kind = "array" => ~IsString(m.args[1]) /\ m.args[1].kind # "param"
    BY DEF IsString, StringKinds
  <2>5. Labels(v, n)
    BY <1>1, <2>1 DEF Labels
  <2> HIDE DEF m, v
  <2> QED BY <2>1, <2>3, <2>4, <2>5
<1> HIDE DEF v, m
<1>4. CASE rl = "array"
  <2>1. ~ArrayString(n)
    BY <1>4 DEF Gone
  <2>2. ~ArrayString(v)
    BY <1>3, <2>1 DEF ArrayString, Labels
  <2> QED BY <1>4, <2>2 DEF Gone, v
<1>5. CASE rl = "regcast"
  <2>1. ~RegCast(n)
    BY <1>5 DEF Gone
  <2>2. ~RegCast(v)
    BY <1>3, <2>1 DEF RegCast, Labels
  <2> QED BY <1>5, <2>2 DEF Gone, v
<1> QED BY <1>2, <1>4, <1>5 DEF Shallow

Early == {"anyall", "catalog", "callable", "array", "user"}

\* What stands below a COLLATE stays there until the rule for it comes.
LEMMA CollatesStay ==
  ASSUME NEW rl \in Visitors \ {"collate"}, NEW n \in Trees, PreVisit(rl, n).kind = "collate"
  PROVE  PreVisit(rl, n) = n /\ 1 \in DOMAIN n.args
<1>1. n.kind = "collate"
  BY Relabels DEF Relabelled, Labels
<1>2. PreVisit(rl, n) = n
  <2>1. CASE rl \in {"anyall", "catalog", "callable", "user", "operator"}
    <3>1. PreVisit(rl, n) \in
            {ArrayAnyAll(n), PrependCatalog(n), StripCallable(n), CurrentUser(n), BareOperator(n)}
      BY <2>1 DEF PreVisit
    <3>2. ArrayAnyAll(n) = n /\ PrependCatalog(n) = n /\ StripCallable(n) = n
      BY <1>1 DEF ArrayAnyAll, PrependCatalog, StripCallable
    <3>3. CurrentUser(n) = n /\ BareOperator(n) = n
      BY <1>1 DEF CurrentUser, BareOperator
    <3> QED BY <3>1, <3>2, <3>3
  <2>2. CASE rl \in {"array", "regcast"}
    <3>1. PreVisit(rl, n) \in {FixArray(n), RegCastToSubquery(n)}
      BY <2>2 DEF PreVisit
    <3>2. ~ArrayString(n) /\ ~RegCast(n)
      BY <1>1 DEF ArrayString, RegCast
    <3>3. FixArray(n) = n /\ RegCastToSubquery(n) = n
      BY <3>2 DEF FixArray, RegCastToSubquery
    <3> QED BY <3>1, <3>3
  <2>3. CASE rl \in {"subquery", "version"}
    <3>1. PreVisit(rl, n) \in {RemoveSubquery(n), FixVersion(n)}
      BY <2>3 DEF PreVisit
    <3>2. ~TopSelect(n)
      BY <1>1 DEF TopSelect
    <3>3. RemoveSubquery(n) = n /\ FixVersion(n) = n
      BY <3>2 DEF RemoveSubquery, FixVersion
    <3> QED BY <3>1, <3>3
  <2> QED BY <2>1, <2>2, <2>3 DEF Visitors
<1>3. n \in Record(Trees) /\ Shape(n)
  BY TreeNode
<1>4. Len(n.args) = 1
  BY <1>1, <1>3 DEF Shape, UnaryKinds
<1> QED BY <1>2, <1>3, <1>4, RecordFields

Hidden(n) == CollatedTwice(n) \/ CollatedArray(n)

LEMMA HiddenKept ==
  ASSUME NEW rl \in Visitors \ {"collate"}, NEW n \in Trees, ~Hidden(n)
  PROVE  ~Hidden(Visited(rl)[n])
<1> DEFINE m == PreVisit(rl, n)
           V == Visited(rl)
           v == V[n]
           c == m.args[1]
<1>0. Labels(v, m) /\ m \in Trees
  BY VisitedFields DEF Labels
<1>1. 1 \in DOMAIN m.args => c \in Trees /\ v.args[1] = V[c] /\ Labels(V[c], PreVisit(rl, c))
  BY VisitedChild
<1>2. \A x \in Trees :
        /\ IsString(V[x]) => IsString(x)
        /\ V[x].kind = "collate" => x.kind = "collate"
  BY StringsStay
<1>3. ASSUME CollatedTwice(v) PROVE FALSE
  <2>1. v.kind = "collate" /\ v.args[1].kind = "collate"
    BY <1>3 DEF CollatedTwice
  <2>2. m = n /\ 1 \in DOMAIN n.args /\ n.kind = "collate"
    <3>1. m.kind = "collate"
      BY <1>0, <2>1 DEF Labels
    <3>2. m = n /\ 1 \in DOMAIN n.args
      BY <3>1, CollatesStay
    <3> QED BY <3>1, <3>2
  <2> HIDE DEF m, V
  <2>3. n.args[1].kind = "collate"
    BY <1>1, <1>2, <2>1, <2>2
  <2> QED BY <2>2, <2>3 DEF Hidden, CollatedTwice
<1>4. ASSUME CollatedArray(v) PROVE FALSE
  <2>1. /\ v.kind = "cast" /\ v.alias = "array" /\ v.args[1].kind = "collate"
        /\ IsString(v.args[1].args[1])
    BY <1>4 DEF CollatedArray
  <2>2. /\ Labels(m, n) /\ 1 \in DOMAIN m.args
        /\ m = n \/ (rl = "array" /\ m.args[1].kind = "array")
    <3>1. m.kind \in {"cast", "castas"}
      BY <1>0, <2>1 DEF Labels
    <3> QED BY <3>1, CastsStay
  <2>3. c \in Trees /\ v.args[1] = V[c] /\ Labels(V[c], PreVisit(rl, c)) /\ c.kind = "collate"
    <3> HIDE DEF m, V
    <3> QED BY <1>1, <1>2, <2>1, <2>2
  <2>4. m = n /\ n.kind = "cast" /\ n.alias = "array"
    <3> HIDE DEF m, V
    <3>1. Labels(v, m)
      BY <1>0
    <3> HIDE DEF v
    <3> QED BY <2>1, <2>2, <2>3, <3>1 DEF Labels
  <2> HIDE DEF c
  <2>5. PreVisit(rl, c) = c /\ 1 \in DOMAIN c.args
    <3>1. PreVisit(rl, c).kind = "collate"
      BY <2>1, <2>3 DEF Labels
    <3> QED BY <2>3, <3>1, CollatesStay
  <2>6. V[c].args[1] = V[c.args[1]] /\ c.args[1] \in Trees
    BY <2>3, <2>5, VisitedChild
  <2>7. IsString(c.args[1])
    <3> HIDE DEF V, v
    <3> QED BY <1>2, <2>1, <2>3, <2>6
  <2>8. n.args[1] = c
    BY <2>4 DEF c
  <2> QED BY <2>3, <2>4, <2>7, <2>8 DEF Hidden, CollatedArray
<1> QED BY <1>3, <1>4 DEF Hidden

\* What a rule is there for is gone behind it.
LEMMA GoneDone ==
  ASSUME NEW rl \in Visitors \ {"collate"}, NEW n \in Trees
  PROVE  Gone(rl, Visited(rl)[n])
<1> DEFINE m == PreVisit(rl, n)
           v == Visited(rl)[n]
<1>0. Labels(v, m) /\ n \in Record(Trees)
  BY VisitedFields, TreeNode DEF Labels
<1>1. CASE rl \in Shallow
  <2>1. Gone(rl, m)
    <3>1. CASE rl = "anyall"
      <4>1. m = ArrayAnyAll(n)
        BY <3>1 DEF PreVisit
      <4>2. ArrayContains(n).kind = "call"
        BY DEF ArrayContains, Call, Node
      <4>3. Gone("anyall", ArrayAnyAll(n))
        BY <4>2 DEF Gone, ArrayAnyAll, Node
      <4> QED BY <3>1, <4>1, <4>3
    <3>2. CASE rl = "catalog"
      <4>1. m = PrependCatalog(n)
        BY <3>2 DEF PreVisit
      <4>2. "pg_catalog" # None
        BY DEF None
      <4>3. Gone("catalog", PrependCatalog(n))
        BY <1>0, <4>2 DEF Gone, PrependCatalog, Record
      <4> QED BY <3>2, <4>1, <4>3
    <3>3. CASE rl = "callable"
      <4>1. m = StripCallable(n)
        BY <3>3 DEF PreVisit
      <4>2. Gone("callable", StripCallable(n))
        BY <1>0 DEF Gone, StripCallable, Record
      <4> QED BY <3>3, <4>1, <4>2
    <3>4. CASE rl = "user"
      <4>1. m = CurrentUser(n)
        BY <3>4 DEF PreVisit
      <4>2. CASE n.kind = "ident" /\ n.name = "current_schema"
        <5>1. CurrentUser(n).kind = "call" /\ CurrentUser(n).name = "current_schema"
          BY <4>2 DEF CurrentUser, Call, Node
        <5> QED BY <3>4, <4>1, <5>1 DEF Gone
      <4>3. CASE n.kind \in {"register", "call"} /\ n.name = "current_user"
        <5>1. CurrentUser(n) = [n EXCEPT !.name = "session_user", !.qual = None]
          BY <4>3 DEF CurrentUser
        <5>2. CurrentUser(n).kind = n.kind /\ CurrentUser(n).name = "session_user"
          BY <1>0, <5>1 DEF Record
        <5> QED BY <3>4, <4>1, <4>3, <5>2 DEF Gone
      <4>4. CASE n.kind \in {"register", "call"} /\ n.name = "current_catalog"
        <5>1. CurrentUser(n).kind = "call" /\ CurrentUser(n).name = "current_database"
          BY <4>4 DEF CurrentUser, Call, Node
        <5> QED BY <3>4, <4>1, <5>1 DEF Gone
      <4>5. CASE /\ ~(n.kind = "ident" /\ n.name = "current_schema")
                 /\ ~(n.kind \in {"register", "call"} /\ n.name \in {"current_user", "current_catalog"})
        <5>1. CurrentUser(n) = n
          BY <4>5 DEF CurrentUser
        <5>2. n.kind = "register" => n.name = "session_user"
          <6>1. Shape(n)
            BY TreeNode
          <6> QED BY <4>5, <6>1 DEF Shape, Registers
        <5> QED BY <3>4, <4>1, <4>5, <5>1, <5>2 DEF Gone
      <4> QED BY <4>2, <4>3, <4>4, <4>5
    <3>5. CASE rl = "operator"
      <4>1. m = BareOperator(n)
        BY <3>5 DEF PreVisit
      <4>2. "pg_catalog" # None
        BY DEF None
      <4>3. Gone("operator", BareOperator(n))
        BY <1>0, <4>2 DEF Gone, BareOperator, Record
      <4> QED BY <3>5, <4>1, <4>3
    <3>6. CASE rl \in {"subquery", "version"}
      BY <3>6 DEF Gone
    <3> QED BY <1>1, <3>1, <3>2, <3>3, <3>4, <3>5, <3>6 DEF Shallow, Visitors
  <2> HIDE DEF m, v
  <2> QED BY <1>0, <1>1, <2>1, GoneLabels DEF v
<1>2. CASE rl = "array"
  <2>1. CASE ArrayString(n)
    <3> SUFFICES ASSUME ArrayString(v) PROVE FALSE
      BY <1>2 DEF Gone
    <3>1. m.kind \in {"cast", "castas"}
      BY <1>0 DEF ArrayString, Labels
    <3>2. 1 \in DOMAIN m.args /\ m.args[1].kind = "array"
      BY <1>2, <2>1, <3>1, CastsStay
    <3>3. m.args[1] \in Trees /\ v.args[1] = Visited(rl)[m.args[1]]
      BY <3>2, VisitedChild
    <3> DEFINE c == m.args[1]
    <3> HIDE DEF c, m, v
    <3>4. IsString(Visited(rl)[c])
      BY <3>3 DEF ArrayString, c
    <3>5. IsString(c)
      BY <3>3, <3>4, StringsStay DEF c
    <3> QED BY <3>2, <3>5 DEF IsString, StringKinds, c
  <2>2. CASE ~ArrayString(n)
    <3>1. Gone(rl, n)
      BY <1>2, <2>2 DEF Gone
    <3> QED BY <3>1, GoneKept
  <2> QED BY <2>1, <2>2
<1>3. CASE rl = "regcast"
  <2>1. CASE RegCast(n)
    <3>1. m = LookUp(n.name, n.args[1])
      BY <1>3, <2>1 DEF PreVisit, RegCastToSubquery
    <3>2. LookUp(n.name, n.args[1]).kind \in {"number", "subquery"}
      BY DEF LookUp, Leaf, Subquery, Node
    <3>3. v.kind \in {"number", "subquery"}
      BY <1>0, <3>1, <3>2 DEF Labels
    <3> QED BY <1>3, <3>3 DEF Gone, RegCast
  <2>2. CASE ~RegCast(n)
    <3>1. Gone(rl, n)
      BY <1>3, <2>2 DEF Gone
    <3> QED BY <3>1, GoneKept
  <2> QED BY <2>1, <2>2
<1> QED BY <1>1, <1>2, <1>3 DEF Shallow

\* What the rules put into a statement holds nothing for any of them.
LEMMA MadeGone ==
  ASSUME NEW by, NEW n, Made(by, n) \/ (by = "regcast" /\ InTemplate(n)), NEW rl \in Visitors
  PROVE  Gone(rl, n) /\ ~Hidden(n)
<1> DEFINE Kept ==
      FrameKinds \union {"unnamed", "aliased", "derived", "subquery", "array", "number", "null"}
<1>0. None # "pg_catalog" /\ None # "array"
  BY DEF None
<1>1. \/ n.kind \in Kept
      \/ n.kind = "call" /\ n.qual = None
           /\ n.name \in {"array_contains", "parse_ident", "current_schema"}
      \/ n.kind = "table" /\ n.qual = "pg_catalog"
      \/ n.kind = "column"
      \/ n.kind = "cast" /\ n.name = "text" /\ n.alias = None
      \/ n.kind = "binary" /\ n.qual = None
      \/ n.kind = "ident" /\ n.name # "current_schema"
  BY DEF Made, InTemplate, FrameKinds
<1>2. CASE n.kind \in Kept
  BY <1>2 DEF FrameKinds, Gone, Hidden, CollatedTwice, CollatedArray, ArrayString, RegCast
<1>3. CASE n.kind = "call" /\ n.qual = None
             /\ n.name \in {"array_contains", "parse_ident", "current_schema"}
  BY <1>3 DEF Gone, Hidden, CollatedTwice, CollatedArray, ArrayString, RegCast
<1>4. CASE n.kind = "table" /\ n.qual = "pg_catalog"
  BY <1>0, <1>4 DEF Gone, Hidden, CollatedTwice, CollatedArray, ArrayString, RegCast
<1>5. CASE n.kind = "column"
  BY <1>5 DEF Gone, Hidden, CollatedTwice, CollatedArray, ArrayString, RegCast
<1>6. CASE n.kind = "cast" /\ n.name = "text" /\ n.alias = None
  <2>1. ~CollatedTwice(n) /\ ~CollatedArray(n) /\ ~ArrayString(n)
    BY <1>0, <1>6 DEF CollatedTwice, CollatedArray, ArrayString
  <2>2. ~RegCast(n)
    BY <1>6 DEF RegCast, RegTypes
  <2> QED BY <1>6, <2>1, <2>2 DEF Gone, Hidden
<1>7. CASE n.kind = "binary" /\ n.qual = None
  BY <1>0, <1>7 DEF Gone, Hidden, CollatedTwice, CollatedArray, ArrayString, RegCast
<1>8. CASE n.kind = "ident" /\ n.name # "current_schema"
  BY <1>8 DEF Gone, Hidden, CollatedTwice, CollatedArray, ArrayString, RegCast
<1> QED BY <1>1, <1>2, <1>3, <1>4, <1>5, <1>6, <1>7, <1>8

\* COLLATE is not under itself where it is taken away: what it leaves is a node
\* of the statement, and not one that COLLATE hides.
LEMMA CollateDone ==
  ASSUME NEW n \in Trees, ~Hidden(n), NEW rl \in Early,
         LET m == StripCollate(n) IN ~Hidden(m) /\ Gone(rl, m)
  PROVE  Gone(rl, Visited("collate")[n]) /\ Gone("collate", Visited("collate")[n])
<1> DEFINE by == "collate"
           m == PreVisit(by, n)
           V == Visited(by)
           v == V[n]
           c == m.args[1]
<1>0. by \in Visitors
  BY DEF Visitors
<1>1. m = StripCollate(n) /\ \A x : PreVisit(by, x) = StripCollate(x)
  BY DEF PreVisit
<1>2. ~Hidden(m) /\ Gone(rl, m)
  BY <1>1
<1>3. m.kind # "collate"
  BY <1>1 DEF StripCollate, Hidden, CollatedTwice
<1>4. Labels(v, m) /\ m \in Trees
  <2>1. by \in Visitors
    BY <1>0
  <2> HIDE DEF by
  <2> QED BY <2>1, VisitedFields DEF Labels
<1>5. Gone("collate", v)
  BY <1>3, <1>4 DEF Gone, Labels
<1>6. rl # "array" => Gone(rl, v)
  <2>1. rl # "array" => rl \in Shallow
    BY DEF Early, Shallow, Visitors
  <2> HIDE DEF m, v
  <2> QED BY <1>2, <1>4, <2>1, GoneLabels
<1>7. rl = "array" => Gone(rl, v)
  <2> SUFFICES ASSUME rl = "array", ArrayString(v) PROVE FALSE
    BY DEF Gone
  <2>1. m.kind = "cast" /\ m.alias = "array" /\ IsString(v.args[1])
    BY <1>4 DEF ArrayString, Labels
  <2>2. 1 \in DOMAIN m.args
    <3>1. m \in Record(Trees) /\ Shape(m)
      BY <1>4, TreeNode
    <3>2. Len(m.args) = 1
      BY <2>1, <3>1 DEF Shape, UnaryKinds
    <3> QED BY <3>1, <3>2, RecordFields
  <2>3. c \in Trees /\ v.args[1] = V[c] /\ Labels(V[c], PreVisit(by, c))
    <3>1. by \in Visitors
      BY <1>0
    <3> HIDE DEF by
    <3> QED BY <2>2, <3>1, VisitedChild
  <2>4. IsString(StripCollate(c))
    BY <1>1, <2>1, <2>3 DEF IsString, Labels
  <2> HIDE DEF m, c
  <2>5. ~ArrayString(m) /\ ~CollatedArray(m) /\ c = m.args[1]
    BY <1>2 DEF Hidden, Gone, c
  <2> QED BY <2>1, <2>4, <2>5 DEF StripCollate, ArrayString, CollatedArray
<1> QED BY <1>5, <1>6, <1>7

\* The nodes of a statement that the rules up to one of them went over.
Rid(k) ==
  {n \in Trees : /\ k < 8 => ~Hidden(n)
                 /\ \A j \in 3 .. k : Gone(RuleOrder[j], n)}

LEMMA RidPuts ==
  ASSUME NEW rl \in Visitors, NEW k \in 2 .. 12
  PROVE  Puts(rl, Rid(k))
<1>1. \A j \in 3 .. 12 : RuleOrder[j] \in Visitors
  BY DEF RuleOrder, Visitors
<1> QED BY <1>1, MadeGone DEF Puts, Rid

LEMMA RidStep ==
  ASSUME NEW k \in 3 .. 12, NEW t \in All(Rid(k - 1))
  PROVE  Visited(RuleOrder[k])[t] \in All(Rid(k))
<1> DEFINE rl == RuleOrder[k]
           A == Rid(k - 1)
           B == Rid(k)
<1>1. rl \in Visitors /\ \A j \in 3 .. 12 : RuleOrder[j] \in Visitors
  BY DEF RuleOrder, Visitors
<1>2. Puts(rl, A)
  <2>1. k - 1 \in 2 .. 12
    OBVIOUS
  <2> QED BY <1>1, <2>1, RidPuts
<1>3. /\ rl = "collate" <=> k = 8
      /\ \A j \in 3 .. 7 : RuleOrder[j] \in Early
      /\ RuleOrder[8] = "collate"
  BY DEF RuleOrder, Early
<1> HIDE DEF rl
<1>4. ASSUME NEW n \in All(A) PROVE Visited(rl)[n] \in B
  <2> DEFINE v == Visited(rl)[n]
  <2>1. n \in Trees /\ n \in A
    BY AllOver DEF All
  <2>2. v \in Trees
    <3>1. MaxDepth \in 0 .. MaxDepth /\ TreesAt[MaxDepth] = Trees
      BY DEF Trees
    <3> QED BY <1>1, <2>1, <3>1, VisitedTree
  <2>3. /\ k - 1 < 8 => ~Hidden(n)
        /\ \A j \in 3 .. k - 1 : Gone(RuleOrder[j], n)
    BY <2>1 DEF Rid
  <2>4. CASE k # 8
    <3>1. rl \in Visitors \ {"collate"}
      BY <1>1, <1>3, <2>4
    <3>2. k < 8 => ~Hidden(v)
      <4>1. k < 8 => k - 1 < 8
        OBVIOUS
      <4> QED BY <2>1, <2>3, <3>1, <4>1, HiddenKept
    <3>3. ASSUME NEW j \in 3 .. k PROVE Gone(RuleOrder[j], v)
      <4>1. CASE j = k
        BY <2>1, <3>1, <4>1, GoneDone DEF rl
      <4>2. CASE j # k
        <5>1. j \in 3 .. k - 1 /\ j \in 3 .. 12
          BY <4>2
        <5>2. Gone(RuleOrder[j], n) /\ RuleOrder[j] \in Visitors
          BY <1>1, <2>3, <5>1
        <5> QED BY <2>1, <3>1, <5>2, GoneKept
      <4> QED BY <4>1, <4>2
    <3> QED BY <2>2, <3>2, <3>3 DEF Rid
  <2>5. CASE k = 8
    <3>0. ~Hidden(n) /\ \A j \in 3 .. 7 : Gone(RuleOrder[j], n)
      BY <2>3, <2>5
    <3> DEFINE m == StripCollate(n)
    <3>1. m \in All(A)
      <4>1. CASE n.kind = "collate"
        <5>1. 1 \in DOMAIN n.args
          <6>1. n \in Record(Trees) /\ Shape(n)
            BY <2>1, TreeNode
          <6>2. Len(n.args) = 1
            BY <4>1, <6>1 DEF Shape, UnaryKinds
          <6> QED BY <6>1, <6>2, RecordFields
        <5>2. n.args[1] \in All(A)
          BY <2>1, <5>1, AllOver
        <5> QED BY <4>1, <5>2 DEF StripCollate
      <4>2. CASE n.kind # "collate"
        BY <4>2 DEF StripCollate
      <4> QED BY <4>1, <4>2
    <3>2. m \in A
      <4>1. m \in Trees
        BY <3>1 DEF All
      <4> HIDE DEF m, A
      <4> QED BY <3>1, <4>1, AllOver
    <3>3. ~Hidden(m) /\ \A j \in 3 .. 7 : Gone(RuleOrder[j], m)
      BY <2>5, <3>2 DEF Rid
    <3>4. rl = "collate"
      BY <1>3, <2>5
    <3>5. \A r \in Early : Gone(r, m) => Gone(r, v) /\ Gone("collate", v)
      BY <2>1, <3>0, <3>3, <3>4, CollateDone
    <3> HIDE DEF m, v
    <3>6. \A j \in 3 .. 7 : Gone(RuleOrder[j], v) /\ Gone("collate", v)
      BY <1>3, <3>3, <3>5
    <3>7. \A j \in 3 .. k : Gone(RuleOrder[j], v)
      <4>1. 3 \in 3 .. 7
        OBVIOUS
      <4>2. \A j \in 3 .. k : j \in 3 .. 7 \/ j = 8
        BY <2>5
      <4> QED BY <1>3, <3>6, <4>1, <4>2
    <3> QED BY <2>2, <2>5, <3>7 DEF Rid, v
  <2> QED BY <2>4, <2>5
<1> HIDE DEF A, B
<1>5. t \in All(A)
  BY DEF A
<1>6. Visited(rl)[t] \in All(B)
  BY <1>1, <1>2, <1>4, <1>5, VisitNodes
<1> QED BY <1>6 DEF rl, B

\* The two rules before the visitors leave what COLLATE hides as it is.
LEMMA RidFirst ==
  ASSUME NEW t, NEW old, NEW new, Chain(t, old, new, 12), \A n \in Nodes(old) : ~Hidden(n)
  PROVE  t[2] \in All(Rid(2))
<1> DEFINE S == {n \in Trees : ~Hidden(n)}
<1>0. \A x \in Trees : x.kind \notin {"collate", "cast"} => x \in S
  BY DEF Hidden, CollatedTwice, CollatedArray
<1>1. t[0] \in All(S)
  <2>1. t[0] = old /\ t[0] \in Trees
    BY ChainSteps
  <2> QED BY <2>1, NodesOf DEF All
<1>2. \A x \in Trees : x.kind \in {"query", "select", "items", "aliased"} => x \in S
  BY <1>0
<1>3. \A x \in Trees : x.kind \in {"query", "select"} => x \in S
  BY <1>0
<1>4. \A table \in Names : Requalifies(S, table)
  <2>1. \A x \in Trees : x.kind \in {"column", "binary", "list"} => x \in S
    BY <1>0
  <2> HIDE DEF S
  <2> QED BY <2>1 DEF Requalifies
<1>5. Rid(2) = S
  <2>1. 3 .. 2 = {} /\ 2 < 8
    OBVIOUS
  <2> QED BY <2>1 DEF Rid
<1> HIDE DEF S
<1>6. t[1] \in All(S)
  BY <1>1, <1>2, AliasStep, ChainSteps
<1>7. t[2] \in All(S)
  BY <1>3, <1>4, <1>6, ResolveStep, ChainSteps
<1> QED BY <1>5, <1>7

LEMMA RidLast ==
  ASSUME NEW t, NEW old, NEW new, Chain(t, old, new, 12), \A n \in Nodes(old) : ~Hidden(n)
  PROVE  \A k \in 2 .. 12 : t[k] \in All(Rid(k))
<1> DEFINE S == {k \in Nat : k >= 2 => t[k] \in All(Rid(k))}
<1>1. 0 \in S
  OBVIOUS
<1>2. ASSUME NEW k \in 1 .. 12, k - 1 \in S PROVE k \in S
  <2>1. CASE k = 1
    BY <2>1
  <2>2. CASE k = 2
    BY <2>2, RidFirst
  <2>3. CASE k \in 3 .. 12
    <3>1. t[k - 1] \in All(Rid(k - 1))
      BY <1>2, <2>3
    <3>2. Visited(RuleOrder[k])[t[k - 1]] \in All(Rid(k))
      BY <2>3, <3>1, RidStep
    <3>3. t[k] = Apply(RuleOrder[k], t[k - 1])
      BY DEF Chain
    <3>4. Apply(RuleOrder[k], t[k - 1]) = Visited(RuleOrder[k])[t[k - 1]]
      <4>1. RuleOrder[k] \notin {"alias", "resolve"}
        BY <2>3 DEF RuleOrder
      <4> QED BY <4>1 DEF Apply
    <3>5. k \in Nat
      OBVIOUS
    <3> QED BY <3>2, <3>3, <3>4, <3>5
  <2> QED BY <2>1, <2>2, <2>3
<1> HIDE DEF S
<1>3. 0 .. 12 \subseteq S
  BY <1>1, <1>2, UpTo
<1> QED BY <1>3 DEF S

\* DataFusion meets none of the constructs it cannot plan in any statement the
\* rules of sql/rules.rs went over, in a subquery or in a template, up to what
\* COLLATE hides.
THEOREM StatementsPlannable == RewriteSpec => []PlannableInTheEnd
<1>1. RewriteInv => PlannableInTheEnd
  <2> SUFFICES ASSUME RewriteInv, NEW i \in Rewritten,
                      \A n \in Nodes(parsed[i]) : ~Hidden(n),
                      NEW n \in Nodes(statements[i])
               PROVE  Plannable(n)
    BY DEF PlannableInTheEnd, Hidden
  <2>1. PICK t : Chain(t, parsed[i], statements[i], 12)
    BY RewrittenChain
  <2>2. t[12] \in All(Rid(12)) /\ t[12] = statements[i]
    <3>1. 12 \in 2 .. 12
      OBVIOUS
    <3> QED BY <2>1, <3>1, RidLast, ChainSteps
  <2>3. \A j \in 3 .. 12 : Gone(RuleOrder[j], n)
    BY <2>2 DEF All, Rid
  <2>4. \A rl \in Visitors : \E j \in 3 .. 12 : RuleOrder[j] = rl
    BY DEF Visitors, RuleOrder
  <2>5. \A rl \in Visitors : Gone(rl, n)
    BY <2>3, <2>4
  <2> QED BY <2>5, AllGone
<1> QED BY <1>1, RewriteInvariant, PTL

-----------------------------------------------------------------------------
(* Parameters: no rule makes one.                                          *)

\* The nodes that are none of other parameters than these.
Only(C) == {n \in Trees : n.kind = "param" => n.name \in C}

LEMMA OnlyPuts ==
  ASSUME NEW C, NEW rl \in Visitors
  PROVE  Puts(rl, Only(C))
<1>1. \A x : Made(rl, x) \/ InTemplate(x) => x.kind # "param"
  BY DEF Made, InTemplate, FrameKinds
<1> QED BY <1>1 DEF Puts, Only

LEMMA OnlyVisited ==
  ASSUME NEW C, NEW rl \in Visitors, NEW n \in All(Only(C))
  PROVE  Visited(rl)[n] \in Only(C)
<1> DEFINE m == PreVisit(rl, n)
           v == Visited(rl)[n]
<1>1. n \in Trees /\ n \in Only(C)
  BY AllOver DEF All
<1>2. Labels(v, m)
  BY <1>1, VisitedFields DEF Labels
<1>3. v \in Trees
  <2>1. MaxDepth \in 0 .. MaxDepth /\ TreesAt[MaxDepth] = Trees
    BY DEF Trees
  <2> QED BY <1>1, <2>1, VisitedTree
<1>4. CASE rl # "collate"
  <2>1. Relabelled(rl, n, m)
    BY <1>1, <1>4, Relabels
  <2>2. m.kind = "param" => Labels(m, n)
    BY <2>1 DEF Relabelled
  <2> HIDE DEF m, v
  <2>3. v.kind = "param" => v.name \in C
    BY <1>1, <1>2, <2>2 DEF Only, Labels
  <2> QED BY <1>3, <2>3 DEF Only, v
<1>5. CASE rl = "collate"
  <2>1. m = StripCollate(n)
    BY <1>5 DEF PreVisit
  <2>2. m \in Only(C)
    <3>1. CASE n.kind = "collate"
      <4>1. 1 \in DOMAIN n.args
        <5>1. n \in Record(Trees) /\ Shape(n)
          BY <1>1, TreeNode
        <5>2. Len(n.args) = 1
          BY <3>1, <5>1 DEF Shape, UnaryKinds
        <5> QED BY <5>1, <5>2, RecordFields
      <4>2. n.args[1] \in All(Only(C))
        BY <1>1, <4>1, AllOver
      <4>3. n.args[1] \in Trees
        BY <4>2 DEF All
      <4>4. n.args[1] \in Only(C)
        BY <4>2, <4>3, AllOver
      <4> QED BY <2>1, <3>1, <4>4 DEF StripCollate
    <3>2. CASE n.kind # "collate"
      BY <1>1, <2>1, <3>2 DEF StripCollate
    <3> QED BY <3>1, <3>2
  <2> HIDE DEF m, v
  <2>3. v.kind = "param" => v.name \in C
    BY <1>2, <2>2 DEF Only, Labels
  <2> QED BY <1>3, <2>3 DEF Only, v
<1> QED BY <1>4, <1>5

LEMMA OnlyStep ==
  ASSUME NEW C, NEW rl \in Visitors \union {"alias", "resolve"}, NEW t \in All(Only(C))
  PROVE  Apply(rl, t) \in All(Only(C))
<1> DEFINE S == Only(C)
<1>0. \A x \in Trees : x.kind # "param" => x \in S
  BY DEF Only
<1> HIDE DEF S
<1>1. CASE rl = "alias"
  <2>1. \A x \in Trees : x.kind \in {"query", "select", "items", "aliased"} => x \in S
    BY <1>0
  <2>2. t \in All(S)
    BY DEF S
  <2> QED BY <1>1, <2>1, <2>2, AliasStep DEF S
<1>2. CASE rl = "resolve"
  <2>1. \A x \in Trees : x.kind \in {"query", "select"} => x \in S
    BY <1>0
  <2>2. t \in All(S)
    BY DEF S
  <2>3. \A table \in Names : Requalifies(S, table)
    <3>1. \A x \in Trees : x.kind \in {"column", "binary", "list"} => x \in S
      BY <1>0
    <3> QED BY <3>1 DEF Requalifies
  <2> QED BY <1>2, <2>1, <2>2, <2>3, ResolveStep DEF S
<1>3. CASE rl \in Visitors
  <2>1. Apply(rl, t) = Visited(rl)[t]
    BY <1>3 DEF Apply, Visitors
  <2>2. Puts(rl, S) /\ \A n \in All(S) : Visited(rl)[n] \in S
    BY <1>3, OnlyPuts, OnlyVisited DEF S
  <2>3. t \in All(S)
    BY DEF S
  <2>4. Visited(rl)[t] \in All(S)
    BY <1>3, <2>2, <2>3, VisitNodes
  <2> QED BY <2>1, <2>4 DEF S
<1> QED BY <1>1, <1>2, <1>3

\* What each step of a chain keeps holds at its end.
LEMMA ChainKeeps ==
  ASSUME NEW t, NEW old, NEW new, Chain(t, old, new, 12), NEW S, old \in S,
         \A rl \in Visitors \union {"alias", "resolve"} : \A x \in S : Apply(rl, x) \in S
  PROVE  new \in S
<1> DEFINE K == {k \in Nat : k <= 12 => t[k] \in S}
<1>1. 0 \in K
  BY DEF Chain
<1>2. ASSUME NEW k \in 1 .. 12, k - 1 \in K PROVE k \in K
  <2>1. t[k] = Apply(RuleOrder[k], t[k - 1]) /\ t[k - 1] \in S
    BY <1>2 DEF Chain
  <2>2. t[k] \in S
    BY <2>1, RulesNamed
  <2>3. k \in Nat
    OBVIOUS
  <2> QED BY <2>2, <2>3
<1> HIDE DEF K
<1>3. 0 .. 12 \subseteq K
  BY <1>1, <1>2, UpTo
<1>4. 12 \in K
  BY <1>3
<1> QED BY <1>4 DEF K, Chain

LEMMA NoneInvented ==
  ASSUME NEW t, NEW old, NEW new, Chain(t, old, new, 12)
  PROVE  ParametersOf(new) \subseteq ParametersOf(old)
<1> DEFINE C == ParametersOf(old)
<1>0. old \in Trees /\ new \in Trees
  BY ChainSteps
<1>1. old \in All(Only(C))
  <2>1. \A n \in Nodes(old) : n \in Only(C)
    BY <1>0, NodesOf DEF Only, ParametersOf, ParametersIn
  <2> HIDE DEF C
  <2> QED BY <1>0, <2>1 DEF All
<1> HIDE DEF C
<1>2. new \in All(Only(C))
  <2> DEFINE S == All(Only(C))
  <2>1. \A rl \in Visitors \union {"alias", "resolve"} : \A x \in S : Apply(rl, x) \in S
    BY OnlyStep
  <2>2. old \in S
    BY <1>1
  <2> HIDE DEF S
  <2>3. new \in S
    BY <2>1, <2>2, ChainKeeps
  <2> QED BY <2>3 DEF S
<1>3. \A n \in Nodes(new) : n.kind = "param" => n.name \in C
  BY <1>2 DEF All, Only
<1> QED BY <1>3 DEF ParametersOf, ParametersIn, C

-----------------------------------------------------------------------------
(* Parameters that are kept.                                               *)

KeptIn(t) == ParametersIn(Reached("kept")[t])

KeptStop(n) == n.kind \in {"unnamed", "aliased"} /\ MayGo(ItemExpr(n))

LEMMA KeptNode ==
  ASSUME NEW n \in Trees, NEW x
  PROVE  x \in KeptIn(n) <=>
           \/ n.kind = "param" /\ n.name = x
           \/ ~KeptStop(n) /\ \E i \in DOMAIN n.args : x \in KeptIn(n.args[i])
<1> DEFINE w == "kept"
           R(t) == Reached(w)[t]
<1>1. Reached(w)[n] =
        {n} \union IF Stops(w, n) THEN {} ELSE UNION {Reached(w)[n.args[i]] : i \in DOMAIN n.args}
  BY ReachedNodes
<1>2. Stops(w, n) <=> KeptStop(n)
  BY DEF Stops, KeptStop
<1>3. \A t : x \in KeptIn(t) <=> \E m \in R(t) : m.kind = "param" /\ m.name = x
  BY DEF KeptIn, ParametersIn
<1> HIDE DEF w
<1>4. CASE KeptStop(n)
  <2>1. R(n) = {n}
    BY <1>1, <1>2, <1>4
  <2> QED BY <1>3, <1>4, <2>1
<1>5. CASE ~KeptStop(n)
  <2>1. R(n) = {n} \union UNION {R(n.args[i]) : i \in DOMAIN n.args}
    BY <1>1, <1>2, <1>5
  <2> HIDE DEF R
  <2>2. x \in KeptIn(n) <=>
          \/ n.kind = "param" /\ n.name = x
          \/ \E i \in DOMAIN n.args : \E m \in R(n.args[i]) : m.kind = "param" /\ m.name = x
    BY <1>3, <2>1
  <2> QED BY <1>3, <1>5, <2>2
<1> QED BY <1>4, <1>5

LEMMA KeptPlain ==
  ASSUME NEW n \in Trees, n.kind \notin {"unnamed", "aliased", "param"}, NEW x
  PROVE  x \in KeptIn(n) <=> \E i \in DOMAIN n.args : x \in KeptIn(n.args[i])
BY KeptNode DEF KeptStop

\* A parameter below a node is below what holds the node, but for items.
LEMMA KeptBelow ==
  ASSUME NEW n \in Trees, ~KeptStop(n), NEW i \in DOMAIN n.args
  PROVE  n.args[i] \in Trees /\ KeptIn(n.args[i]) \subseteq KeptIn(n)
BY TreeNode, KeptNode

LEMMA KeptItem ==
  ASSUME NEW n \in Trees, NEW m \in Trees, n.kind \in {"unnamed", "aliased"}, m.kind \in {"unnamed", "aliased"},
         DOMAIN n.args = {1}, DOMAIN m.args = {1}, ItemExpr(m) = ItemExpr(n)
  PROVE  KeptIn(n) = KeptIn(m)
<1>1. KeptStop(n) <=> KeptStop(m)
  BY DEF KeptStop
<1>2. n.args[1] = m.args[1]
  BY DEF ItemExpr
<1>3. n.kind # "param" /\ m.kind # "param"
  OBVIOUS
<1>4. \A x : x \in KeptIn(n) <=> ~KeptStop(n) /\ \E i \in DOMAIN n.args : x \in KeptIn(n.args[i])
  BY <1>3, KeptNode
<1>5. \A x : x \in KeptIn(m) <=> ~KeptStop(m) /\ \E i \in DOMAIN m.args : x \in KeptIn(m.args[i])
  BY <1>3, KeptNode
<1>6. \A x : x \in KeptIn(n) <=> x \in KeptIn(m)
  BY <1>1, <1>2, <1>4, <1>5
<1> QED BY <1>6 DEF KeptIn, ParametersIn

LEMMA NoneInStrings ==
  ASSUME NEW n \in Trees, IsString(n)
  PROVE  KeptIn(n) = {}
<1>1. ASSUME NEW m \in Trees, m.kind \in {"string", "digits"}, NEW x \in KeptIn(m) PROVE FALSE
  <2>1. m.args = <<>>
    <3>1. Shape(m)
      BY TreeNode
    <3> QED BY <1>1, <3>1 DEF Shape, LeafKinds
  <2>2. \E i \in DOMAIN m.args : x \in KeptIn(m.args[i])
    BY <1>1, KeptPlain
  <2> QED BY <2>1, <2>2
<1>2. ASSUME n.kind = "braces", NEW x \in KeptIn(n) PROVE FALSE
  <2>1. PICK i \in DOMAIN n.args : x \in KeptIn(n.args[i])
    BY <1>2, KeptPlain
  <2>2. n.args[i] \in Trees /\ n.args[i].kind = "string"
    <3>1. Shape(n) /\ n.args[i] \in Trees
      BY TreeNode
    <3>2. n.args[i].kind \in ChildKinds(n.kind, i)
      BY <3>1 DEF Shape
    <3> QED BY <1>2, <3>1, <3>2 DEF ChildKinds
  <2> QED BY <1>1, <2>1, <2>2
<1>3. \A x : x \notin KeptIn(n)
  BY <1>1, <1>2 DEF IsString, StringKinds
<1> QED BY <1>3

\* The only child of a node of one child.
LEMMA OneChild ==
  ASSUME NEW n \in Trees, n.kind \in UnaryKinds
  PROVE  DOMAIN n.args = {1} /\ n.args[1] \in Trees
<1>1. n \in Record(Trees) /\ Shape(n) /\ \A i \in DOMAIN n.args : n.args[i] \in Trees
  BY TreeNode
<1>2. Len(n.args) = 1
  BY <1>1 DEF Shape
<1>3. DOMAIN n.args = {1}
  BY <1>1, <1>2, RecordFields
<1> QED BY <1>1, <1>3

\* An item at which the walk stops after a visit is one at which it did before.
LEMMA StopsVisited ==
  ASSUME NEW rl \in Visitors, NEW n \in Trees, KeptStop(Visited(rl)[n])
  PROVE  KeptStop(PreVisit(rl, n))
<1> DEFINE m == PreVisit(rl, n)
           V == Visited(rl)
           v == V[n]
           c == m.args[1]
           p == PreVisit(rl, c)
<1>1. Labels(v, m) /\ m \in Trees
  BY VisitedFields DEF Labels
<1>2. m.kind \in {"unnamed", "aliased"} /\ MayGo(v.args[1])
  BY <1>1 DEF KeptStop, Labels, ItemExpr
<1>3. DOMAIN m.args = {1}
  <2> HIDE DEF m, v
  <2> QED BY <1>1, <1>2, OneChild DEF UnaryKinds
<1>4. c \in Trees /\ v.args[1] = V[c] /\ Labels(V[c], p)
  <2>1. 1 \in DOMAIN m.args
    BY <1>3
  <2> QED BY <2>1, VisitedChild
<1>5. MayGo(p)
  <2> HIDE DEF p, c, m, v
  <2> QED BY <1>2, <1>4 DEF MayGo, Labels
<1>6. MayGo(c)
  <2>1. CASE rl = "collate"
    <3>1. p = StripCollate(c)
      BY <2>1 DEF PreVisit
    <3> HIDE DEF p, c
    <3> QED BY <1>5, <3>1 DEF MayGo, StripCollate
  <2>2. CASE rl # "collate"
    <3>1. Relabelled(rl, c, p)
      BY <1>4, <2>2, Relabels
    <3>2. CASE Labels(p, c)
      <4> HIDE DEF p, c
      <4> QED BY <1>5, <3>2 DEF MayGo, Labels
    <3>3. CASE RegCast(c)
      BY <3>3 DEF RegCast, MayGo
    <3>4. CASE ~Labels(p, c) /\ ~RegCast(c)
      <4> HIDE DEF p, c
      <4>1. p.kind \in {"call", "not", "table", "tablefunction", "register", "binary"}
        BY <3>1, <3>4 DEF Relabelled
      <4> QED BY <1>5, <4>1 DEF MayGo
    <3> QED BY <3>2, <3>3, <3>4
  <2> QED BY <2>1, <2>2
<1> QED BY <1>2, <1>6 DEF KeptStop, ItemExpr

\* A visitor keeps them if it does so where it is.
LEMMA KeptVisited ==
  ASSUME NEW rl \in Visitors,
         \A n \in Trees : KeptIn(n) \subseteq KeptIn(PreVisit(rl, n)),
         NEW t \in Trees
  PROVE  KeptIn(t) \subseteq KeptIn(Visited(rl)[t])
<1> DEFINE V == Visited(rl)
           S == {n \in Trees : KeptIn(n) \subseteq KeptIn(V[n])}
<1>1. ASSUME NEW d \in 1 .. MaxDepth, TreesAt[d - 1] \subseteq S PROVE TreesAt[d] \subseteq S
  <2>0. TreesAt[d] \subseteq Trees
    BY LevelsAreTrees
  <2> SUFFICES ASSUME NEW n \in TreesAt[d], NEW x \in KeptIn(n) PROVE x \in KeptIn(V[n])
    BY <2>0
  <2> DEFINE m == PreVisit(rl, n)
             v == V[n]
  <2>1. n \in Trees /\ m \in Trees /\ Labels(v, m)
    BY <2>0, VisitedFields DEF Labels
  <2>2. x \in KeptIn(m)
    BY <2>1
  <2>3. v \in Trees
    <3>1. MaxDepth \in 0 .. MaxDepth /\ TreesAt[MaxDepth] = Trees
      BY DEF Trees
    <3> QED BY <2>1, <3>1, VisitedTree
  <2>4. \A i \in DOMAIN m.args : m.args[i] \in TreesAt[d - 1]
    BY PreVisitTree
  <2>5. \A i \in DOMAIN m.args : KeptIn(m.args[i]) \subseteq KeptIn(V[m.args[i]])
    BY <1>1, <2>4
  <2>6. DOMAIN v.args = DOMAIN m.args /\ \A i \in DOMAIN m.args : v.args[i] = V[m.args[i]]
    BY <2>1, VisitedFields
  <2>7. KeptStop(v) => KeptStop(m)
    BY <2>1, StopsVisited
  <2> HIDE DEF m, v, V, S
  <2>8. \/ m.kind = "param" /\ m.name = x
        \/ ~KeptStop(m) /\ \E i \in DOMAIN m.args : x \in KeptIn(m.args[i])
    BY <2>1, <2>2, KeptNode
  <2>9. \/ v.kind = "param" /\ v.name = x
        \/ ~KeptStop(v) /\ \E i \in DOMAIN v.args : x \in KeptIn(v.args[i])
    BY <2>1, <2>5, <2>6, <2>7, <2>8 DEF Labels
  <2>10. x \in KeptIn(v)
    BY <2>3, <2>9, KeptNode
  <2> QED BY <2>10 DEF v
<1> HIDE DEF S
<1>2. Trees \subseteq S
  BY <1>1, LevelInduction
<1> QED BY <1>2 DEF S

LEMMA KeptArgs ==
  ASSUME NEW n \in Trees, NEW m \in Trees, n.kind \notin {"unnamed", "aliased", "param"},
         m.kind \notin {"unnamed", "aliased"}, m.args = n.args
  PROVE  KeptIn(n) \subseteq KeptIn(m)
<1> SUFFICES ASSUME NEW x \in KeptIn(n) PROVE x \in KeptIn(m)
  OBVIOUS
<1>1. \E i \in DOMAIN n.args : x \in KeptIn(n.args[i])
  BY KeptPlain
<1>2. ~KeptStop(m)
  BY DEF KeptStop
<1> QED BY <1>1, <1>2, KeptNode

\* The parameters of both sides of ANY and ALL.
LEMMA KeptContains ==
  ASSUME NEW n \in Trees, n.kind \in {"any", "all"}, ArrayContains(n) \in Trees
  PROVE  KeptIn(n) \subseteq KeptIn(ArrayContains(n))
<1> DEFINE a == IF n.args[2].kind = "braces" THEN ArrayOf(Elements(n.args[2])) ELSE n.args[2]
           m == ArrayContains(n)
<1>1. m.kind = "call" /\ m.args = <<a, n.args[1]>>
  BY DEF ArrayContains, Call, Node
<1>2. DOMAIN n.args = {1, 2} /\ n.args[1] \in Trees /\ n.args[2] \in Trees
  <2>1. n \in Record(Trees) /\ Shape(n) /\ \A i \in DOMAIN n.args : n.args[i] \in Trees
    BY TreeNode
  <2>2. n.kind \in BinaryKinds
    BY DEF BinaryKinds
  <2>3. DOMAIN n.args = {1, 2}
    BY <2>1, <2>2, BinaryArgs
  <2> QED BY <2>1, <2>3
<1> SUFFICES ASSUME NEW x \in KeptIn(n) PROVE x \in KeptIn(m)
  OBVIOUS
<1>3. PICK i \in DOMAIN n.args : x \in KeptIn(n.args[i])
  BY KeptPlain
<1>4. DOMAIN m.args = {1, 2} /\ m.args[1] = a /\ m.args[2] = n.args[1]
  <2> HIDE DEF a, m
  <2> QED BY <1>1
<1>5. m.kind \notin {"unnamed", "aliased", "param"}
  BY <1>1
<1>6. \E j \in DOMAIN m.args : x \in KeptIn(m.args[j])
  <2>1. CASE i = 1
    <3> HIDE DEF a, m
    <3> QED BY <1>3, <1>4, <2>1
  <2>2. CASE i = 2 /\ n.args[2].kind # "braces"
    <3>1. a = n.args[2]
      BY <2>2
    <3> HIDE DEF a, m
    <3> QED BY <1>3, <1>4, <2>2, <3>1
  <2>3. CASE i = 2 /\ n.args[2].kind = "braces"
    <3>1. KeptIn(n.args[2]) = {}
      BY <1>2, <2>3, NoneInStrings DEF IsString, StringKinds
    <3> QED BY <1>3, <2>3, <3>1
  <2> QED BY <1>2, <2>1, <2>2, <2>3
<1> HIDE DEF m
<1> QED BY <1>5, <1>6, KeptPlain DEF m

\* What a template looks up is in its subquery.
LEMMA KeptInName ==
  ASSUME NEW table, NEW column, NEW o, NameTemplate(table, column, o) \in Trees
  PROVE  KeptIn(o) \subseteq KeptIn(NameTemplate(table, column, o))
<1> DEFINE b == Binary("=", Leaf("ident", column), o)
           l == ListOf("list", <<b>>)
           i == ListOf("items", <<Item(Leaf("ident", "oid"))>>)
           f == ListOf("sources", <<TableAs("pg_catalog", table, None)>>)
           s == Node("select", None, None, None, <<i, f, l>>)
           q == Query(s, <<>>)
<1>0. NameTemplate(table, column, o) = q
  BY DEF NameTemplate, Select
<1>1. b.kind = "binary" /\ 2 \in DOMAIN b.args /\ b.args[2] = o
  BY DEF Binary, Node
<1> HIDE DEF b
<1>2. l.kind = "list" /\ 1 \in DOMAIN l.args /\ l.args[1] = b
  BY DEF ListOf, Node
<1> HIDE DEF l, i, f
<1>3. s.kind = "select" /\ 3 \in DOMAIN s.args /\ s.args[3] = l
  BY DEF Node
<1> HIDE DEF s
<1>4. q.kind = "query" /\ 1 \in DOMAIN q.args /\ q.args[1] = s
  BY DEF Query, Node
<1>5. q \in Trees
  BY <1>0
<1> HIDE DEF q
<1>6. \A n : n.kind \in {"query", "select", "list", "binary"} => ~KeptStop(n)
  BY DEF KeptStop
<1>7. s \in Trees /\ KeptIn(s) \subseteq KeptIn(q)
  BY <1>4, <1>5, <1>6, KeptBelow
<1>8. l \in Trees /\ KeptIn(l) \subseteq KeptIn(s)
  BY <1>3, <1>6, <1>7, KeptBelow
<1>9. b \in Trees /\ KeptIn(b) \subseteq KeptIn(l)
  BY <1>2, <1>6, <1>8, KeptBelow
<1>10. KeptIn(o) \subseteq KeptIn(b)
  BY <1>1, <1>6, <1>9, KeptBelow
<1> QED BY <1>0, <1>7, <1>8, <1>9, <1>10

LEMMA KeptInClass ==
  ASSUME NEW o, ClassTemplate(o) \in Trees
  PROVE  KeptIn(o) \subseteq KeptIn(ClassTemplate(o))
<1> DEFINE e == Node("cast", None, "text", None, <<o>>)
           c == Call("parse_ident", <<e>>)
           i == ItemAs(c, "parts")
           l == ListOf("items", <<i>>)
           s == Node("select", None, None, None, <<l, ListOf("sources", <<>>), ListOf("list", <<>>)>>)
           q == Query(s, <<>>)
           d == Node("derived", None, None, None, <<q>>)
           f == ListOf("sources",
                  <<TableAs("pg_catalog", "pg_class", "c"), TableAs("pg_catalog", "pg_namespace", "n"), d>>)
           w == ListOf("list",
                  <<Binary("and", Binary("=", Column("n", "nspname"), Call("current_schema", <<>>)),
                          Binary("=", Column("c", "relname"), Leaf("ident", "parts")))>>)
           g == ListOf("items", <<Item(Column("c", "oid"))>>)
           t == Node("select", None, None, None, <<g, f, w>>)
           r == Query(t, <<>>)
<1>0. ClassTemplate(o) = r
  BY DEF ClassTemplate, Select
<1>1. e.kind = "cast" /\ 1 \in DOMAIN e.args /\ e.args[1] = o
  BY DEF Node
<1> HIDE DEF e
<1>2. c.kind = "call" /\ 1 \in DOMAIN c.args /\ c.args[1] = e
  BY DEF Call, Node
<1> HIDE DEF c
<1>3. i.kind = "aliased" /\ 1 \in DOMAIN i.args /\ i.args[1] = c
  BY DEF ItemAs, Node
<1> HIDE DEF i
<1>4. l.kind = "items" /\ 1 \in DOMAIN l.args /\ l.args[1] = i
  BY DEF ListOf, Node
<1> HIDE DEF l
<1>5. s.kind = "select" /\ 1 \in DOMAIN s.args /\ s.args[1] = l
  BY DEF Node
<1> HIDE DEF s
<1>6. q.kind = "query" /\ 1 \in DOMAIN q.args /\ q.args[1] = s
  BY DEF Query, Node
<1> HIDE DEF q
<1>7. d.kind = "derived" /\ 1 \in DOMAIN d.args /\ d.args[1] = q
  BY DEF Node
<1> HIDE DEF d
<1>8. f.kind = "sources" /\ 3 \in DOMAIN f.args /\ f.args[3] = d
  BY DEF ListOf, Node
<1> HIDE DEF f, w, g
<1>9. t.kind = "select" /\ 2 \in DOMAIN t.args /\ t.args[2] = f
  BY DEF Node
<1> HIDE DEF t
<1>10. r.kind = "query" /\ 1 \in DOMAIN r.args /\ r.args[1] = t
  BY DEF Query, Node
<1>11. r \in Trees
  BY <1>0
<1> HIDE DEF r
<1>12. \A n : n.kind \in {"query", "select", "items", "sources", "derived", "call", "cast"} => ~KeptStop(n)
  BY DEF KeptStop
<1>13. t \in Trees /\ KeptIn(t) \subseteq KeptIn(r)
  BY <1>10, <1>11, <1>12, KeptBelow
<1>14. f \in Trees /\ KeptIn(f) \subseteq KeptIn(t)
  BY <1>9, <1>12, <1>13, KeptBelow
<1>15. d \in Trees /\ KeptIn(d) \subseteq KeptIn(f)
  BY <1>8, <1>12, <1>14, KeptBelow
<1>16. q \in Trees /\ KeptIn(q) \subseteq KeptIn(d)
  BY <1>7, <1>12, <1>15, KeptBelow
<1>17. s \in Trees /\ KeptIn(s) \subseteq KeptIn(q)
  BY <1>6, <1>12, <1>16, KeptBelow
<1>18. l \in Trees /\ KeptIn(l) \subseteq KeptIn(s)
  BY <1>5, <1>12, <1>17, KeptBelow
<1>19. i \in Trees /\ KeptIn(i) \subseteq KeptIn(l)
  BY <1>4, <1>12, <1>18, KeptBelow
<1>20. c \in Trees /\ KeptIn(c) \subseteq KeptIn(i)
  <2>1. ~KeptStop(i)
    BY <1>2, <1>3 DEF KeptStop, MayGo, ItemExpr
  <2> QED BY <1>3, <1>19, <2>1, KeptBelow
<1>21. e \in Trees /\ KeptIn(e) \subseteq KeptIn(c)
  BY <1>2, <1>12, <1>20, KeptBelow
<1>22. KeptIn(o) \subseteq KeptIn(e)
  BY <1>1, <1>12, <1>21, KeptBelow
<1> QED BY <1>0, <1>13, <1>14, <1>15, <1>16, <1>17, <1>18, <1>19, <1>20, <1>21, <1>22

LEMMA KeptInSubquery ==
  ASSUME NEW type, NEW o, Subquery(Template(type, o)) \in Trees
  PROVE  KeptIn(o) \subseteq KeptIn(Subquery(Template(type, o)))
<1> DEFINE q == Template(type, o)
           m == Subquery(q)
<1>1. m.kind = "subquery" /\ 1 \in DOMAIN m.args /\ m.args[1] = q
  BY DEF Subquery, Node
<1>2. q \in Trees /\ KeptIn(q) \subseteq KeptIn(m)
  <2>1. m \in Trees /\ ~KeptStop(m)
    BY <1>1 DEF KeptStop
  <2> HIDE DEF m, q
  <2> QED BY <1>1, <2>1, KeptBelow
<1>3. KeptIn(o) \subseteq KeptIn(q)
  BY <1>2, KeptInClass, KeptInName DEF Template
<1> QED BY <1>2, <1>3

\* What is kept in a query is kept in one of its parts.
LEMMA KeptParts ==
  ASSUME NEW q \in Trees, TopSelect(q), NEW x
  PROVE  x \in KeptIn(q) <=>
           \/ \E k \in DOMAIN Items(q) : x \in KeptIn(Items(q)[k])
           \/ \E k \in DOMAIN From(q) : x \in KeptIn(From(q)[k])
           \/ x \in KeptIn(Where(q)) \/ x \in KeptIn(Order(q))
<1> DEFINE s == q.args[1]
           i == s.args[1]
           f == s.args[2]
<1>1. /\ q.kind = "query" /\ DOMAIN q.args = 1 .. 2 /\ DOMAIN s.args = 1 .. 3
      /\ s.kind = "select" /\ i.kind = "items" /\ f.kind = "sources"
  BY SomeLevel, QueryParts DEF TopSelect
<1>2. s \in Trees /\ q.args[2] \in Trees
  BY <1>1, TreeNode
<1>3. i \in Trees /\ f \in Trees /\ s.args[3] \in Trees
  BY <1>1, <1>2, TreeNode
<1>4. x \in KeptIn(q) <=> x \in KeptIn(s) \/ x \in KeptIn(q.args[2])
  <2>1. x \in KeptIn(q) <=> \E j \in DOMAIN q.args : x \in KeptIn(q.args[j])
    BY <1>1, KeptPlain
  <2>2. DOMAIN q.args = {1, 2}
    BY <1>1
  <2> QED BY <2>1, <2>2
<1>5. x \in KeptIn(s) <=> x \in KeptIn(i) \/ x \in KeptIn(f) \/ x \in KeptIn(s.args[3])
  <2>1. x \in KeptIn(s) <=> \E j \in DOMAIN s.args : x \in KeptIn(s.args[j])
    BY <1>1, <1>2, KeptPlain
  <2>2. DOMAIN s.args = {1, 2, 3}
    BY <1>1
  <2> QED BY <2>1, <2>2
<1>6. x \in KeptIn(i) <=> \E k \in DOMAIN Items(q) : x \in KeptIn(Items(q)[k])
  <2>1. x \in KeptIn(i) <=> \E k \in DOMAIN i.args : x \in KeptIn(i.args[k])
    BY <1>1, <1>3, KeptPlain
  <2> QED BY <2>1 DEF Items
<1>7. x \in KeptIn(f) <=> \E k \in DOMAIN From(q) : x \in KeptIn(From(q)[k])
  <2>1. x \in KeptIn(f) <=> \E k \in DOMAIN f.args : x \in KeptIn(f.args[k])
    BY <1>1, <1>3, KeptPlain
  <2> QED BY <2>1 DEF From
<1> QED BY <1>4, <1>5, <1>6, <1>7 DEF Where, Order

LEMMA KeptQuery ==
  ASSUME NEW q \in Trees, TopSelect(q), NEW m \in Trees, TopSelect(m),
         From(m) = From(q), DOMAIN Items(m) = DOMAIN Items(q),
         KeptIn(Where(q)) \subseteq KeptIn(Where(m)), KeptIn(Order(q)) \subseteq KeptIn(Order(m)),
         \A k \in DOMAIN Items(q) : KeptIn(Items(q)[k]) \subseteq KeptIn(Items(m)[k])
  PROVE  KeptIn(q) \subseteq KeptIn(m)
<1> SUFFICES ASSUME NEW x \in KeptIn(q) PROVE x \in KeptIn(m)
  OBVIOUS
<1>1. \/ \E k \in DOMAIN Items(q) : x \in KeptIn(Items(q)[k])
      \/ \E k \in DOMAIN From(q) : x \in KeptIn(From(q)[k])
      \/ x \in KeptIn(Where(q)) \/ x \in KeptIn(Order(q))
  BY KeptParts
<1>2. \/ \E k \in DOMAIN Items(m) : x \in KeptIn(Items(m)[k])
      \/ \E k \in DOMAIN From(m) : x \in KeptIn(From(m)[k])
      \/ x \in KeptIn(Where(m)) \/ x \in KeptIn(Order(m))
  BY <1>1
<1> QED BY <1>2, KeptParts

\* Nothing is kept in an item that may be dropped.
LEMMA KeptMayGo ==
  ASSUME NEW n \in Trees, n.kind \in {"unnamed", "aliased"}, MayGo(ItemExpr(n))
  PROVE  KeptIn(n) = {}
<1>1. KeptStop(n) /\ n.kind # "param"
  BY DEF KeptStop
<1>2. \A x : x \notin KeptIn(n)
  BY <1>1, KeptNode
<1> QED BY <1>2

\* The items of a query are trees.
LEMMA ItemsAreTrees ==
  ASSUME NEW q \in Trees, TopSelect(q)
  PROVE  \A k \in DOMAIN Items(q) :
           /\ Items(q)[k] \in Trees /\ Items(q)[k].kind \in ItemKinds
           /\ Items(q)[k].kind \in {"unnamed", "aliased"} =>
                DOMAIN Items(q)[k].args = {1} /\ ItemExpr(Items(q)[k]) \in Trees
<1> SUFFICES ASSUME NEW k \in DOMAIN Items(q)
             PROVE  /\ Items(q)[k] \in Trees /\ Items(q)[k].kind \in ItemKinds
                    /\ Items(q)[k].kind \in {"unnamed", "aliased"} =>
                         DOMAIN Items(q)[k].args = {1} /\ ItemExpr(Items(q)[k]) \in Trees
  OBVIOUS
<1> DEFINE i == Items(q)[k]
           d == MaxDepth - 3
<1>1. i \in TreesAt[d] /\ i.kind \in ItemKinds /\ d \in 1 .. MaxDepth
  BY SomeLevel, ItemsParts
<1>2. i \in Trees
  BY <1>1, LevelsAreTrees
<1> HIDE DEF i, d
<1>3. i.kind \in {"unnamed", "aliased"} => DOMAIN i.args = {1} /\ i.args[1] \in Trees
  BY <1>2, OneChild DEF UnaryKinds
<1> QED BY <1>1, <1>2, <1>3 DEF i, ItemExpr

LEMMA KeptSubquery ==
  ASSUME NEW n \in Trees
  PROVE  KeptIn(n) \subseteq KeptIn(RemoveSubquery(n))
<1> DEFINE m == RemoveSubquery(n)
<1>1. MaxDepth \in 1 .. MaxDepth /\ n \in Over(Trees, MaxDepth)
  BY WholeLevel
<1>2. /\ m \in TreesAt[MaxDepth]
      /\ ~TopSelect(n) => m = n
      /\ TopSelect(n) =>
           /\ TopSelect(m) /\ From(m) = From(n) /\ Where(m) = Where(n) /\ Order(m) = Order(n)
           /\ Items(m) = [k \in DOMAIN Items(n) |-> ScalarItem(Items(n)[k])]
  BY <1>1, RemoveSubqueryOver
<1> HIDE DEF m
<1>3. m \in Trees
  BY <1>2 DEF Trees
<1>4. ASSUME TopSelect(n) PROVE KeptIn(n) \subseteq KeptIn(m)
  <2>1. ASSUME NEW k \in DOMAIN Items(n) PROVE KeptIn(Items(n)[k]) \subseteq KeptIn(Items(m)[k])
    <3> DEFINE i == Items(n)[k]
               e == ItemExpr(i)
    <3>1. i \in Trees /\ (i.kind \in {"unnamed", "aliased"} => DOMAIN i.args = {1})
      BY <1>4, ItemsAreTrees
    <3>2. Items(m)[k] = ScalarItem(i)
      BY <1>2, <1>4
    <3>3. CASE i.kind \notin {"unnamed", "aliased"}
      BY <3>2, <3>3 DEF ScalarItem
    <3>4. CASE i.kind \in {"unnamed", "aliased"} /\ e.kind = "subquery"
      <4>1. KeptIn(i) = {}
        BY <3>1, <3>4, KeptMayGo DEF MayGo
      <4> QED BY <4>1
    <3>5. CASE i.kind \in {"unnamed", "aliased"} /\ e.kind # "subquery"
      <4>1. ScalarItem(i) = WithArg(i, 1, e)
        BY <3>5 DEF ScalarItem, Scalar
      <4>2. WithArg(i, 1, e) = i
        <5>1. i \in Record(Trees) /\ e = i.args[1]
          BY <3>1, TreeNode DEF ItemExpr
        <5>2. [i.args EXCEPT ![1] = e] = i.args
          <6>1. i.args \in Seq(Trees)
            BY <5>1, RecordFields
          <6> HIDE DEF i
          <6> QED BY <5>1, <6>1
        <5> HIDE DEF i, e
        <5> QED BY <5>1, <5>2 DEF WithArg, WithArgs, Record
      <4> QED BY <3>2, <4>1, <4>2
    <3> QED BY <3>3, <3>4, <3>5
  <2>2. DOMAIN Items(m) = DOMAIN Items(n)
    BY <1>2, <1>4
  <2> QED BY <1>2, <1>3, <1>4, <2>1, <2>2, KeptQuery
<1> QED BY <1>2, <1>4 DEF m

LEMMA KeptVersion ==
  ASSUME NEW n \in Trees
  PROVE  KeptIn(n) \subseteq KeptIn(FixVersion(n))
<1> DEFINE m == FixVersion(n)
<1>1. MaxDepth \in 1 .. MaxDepth /\ n \in Over(Trees, MaxDepth)
  BY WholeLevel
<1>2. /\ m \in TreesAt[MaxDepth]
      /\ ~TopSelect(n) => m = n
      /\ TopSelect(n) =>
           /\ TopSelect(m) /\ From(m) = From(n) /\ Where(m) = Where(n) /\ Order(m) = Order(n)
           /\ Items(m) = [k \in DOMAIN Items(n) |-> VersionItem(Items(n)[k])]
  BY <1>1, FixVersionOver
<1> HIDE DEF m
<1>3. m \in Trees
  BY <1>2 DEF Trees
<1>4. ASSUME TopSelect(n) PROVE KeptIn(n) \subseteq KeptIn(m)
  <2>1. ASSUME NEW k \in DOMAIN Items(n) PROVE KeptIn(Items(n)[k]) \subseteq KeptIn(Items(m)[k])
    <3> DEFINE i == Items(n)[k]
               j == Items(m)[k]
    <3>1. k \in DOMAIN Items(m) /\ j = VersionItem(i)
      BY <1>2, <1>4
    <3>2. i \in Trees /\ j \in Trees /\ (i.kind \in {"unnamed", "aliased"} => DOMAIN i.args = {1})
      BY <1>2, <1>3, <1>4, <3>1, ItemsAreTrees
    <3>3. \/ j = i
          \/ /\ i.kind = "unnamed" /\ j.kind = "aliased"
             /\ DOMAIN j.args = {1} /\ ItemExpr(j) = ItemExpr(i)
      BY <1>1, <1>4, <3>1, VersionItemOver
    <3> HIDE DEF i, j
    <3>4. KeptIn(i) = KeptIn(j)
      BY <3>2, <3>3, KeptItem
    <3> QED BY <3>4 DEF i, j
  <2>2. DOMAIN Items(m) = DOMAIN Items(n)
    BY <1>2, <1>4
  <2> QED BY <1>2, <1>3, <1>4, <2>1, <2>2, KeptQuery
<1> QED BY <1>2, <1>4 DEF m

LEMMA KeptAlias ==
  ASSUME NEW n \in Trees, TopSelect(n)
  PROVE  KeptIn(n) \subseteq KeptIn(AliasDuplicated(n))
<1> DEFINE m == AliasDuplicated(n)
<1>1. MaxDepth \in 1 .. MaxDepth /\ n \in Over(Trees, MaxDepth) /\ Over(Trees, MaxDepth) = Trees
  BY WholeLevel
<1>2. /\ m \in Over(Trees, MaxDepth)
      /\ TopSelect(m) /\ From(m) = From(n) /\ Where(m) = Where(n) /\ Order(m) = Order(n)
      /\ Items(m) = [k \in DOMAIN Items(n) |-> AliasItem(n, Items(n)[k])]
      /\ \A k \in DOMAIN Items(n) :
           \/ Items(m)[k] = Items(n)[k]
           \/ /\ Items(n)[k].kind = "unnamed"
              /\ Items(m)[k].kind = "aliased" /\ DOMAIN Items(m)[k].args = {1}
              /\ ItemExpr(Items(m)[k]) = ItemExpr(Items(n)[k])
  BY <1>1, AliasOver
<1> HIDE DEF m
<1>3. m \in Trees /\ DOMAIN Items(m) = DOMAIN Items(n)
  BY <1>1, <1>2
<1>4. ASSUME NEW k \in DOMAIN Items(n) PROVE KeptIn(Items(n)[k]) \subseteq KeptIn(Items(m)[k])
  <2> DEFINE i == Items(n)[k]
             j == Items(m)[k]
  <2>1. i \in Trees /\ j \in Trees /\ (i.kind \in {"unnamed", "aliased"} => DOMAIN i.args = {1})
    BY <1>2, <1>3, ItemsAreTrees
  <2>2. \/ j = i
        \/ /\ i.kind = "unnamed" /\ j.kind = "aliased"
           /\ DOMAIN j.args = {1} /\ ItemExpr(j) = ItemExpr(i)
    BY <1>2
  <2> HIDE DEF i, j
  <2>3. KeptIn(i) = KeptIn(j)
    BY <2>1, <2>2, KeptItem
  <2> QED BY <2>3 DEF i, j
<1>5. KeptIn(n) \subseteq KeptIn(m)
  BY <1>2, <1>3, <1>4, KeptQuery
<1> QED BY <1>5 DEF m

\* A name has no parameters, whether it is qualified or not.
LEMMA KeptQualified ==
  ASSUME NEW table \in Names, NEW known, NEW t \in Trees
  PROVE  KeptIn(t) \subseteq KeptIn(Qualified(table, known)[t])
<1> DEFINE Q == Qualified(table, known)
           S == {e \in Trees : KeptIn(e) \subseteq KeptIn(Q[e])}
<1>0. \A e \in Trees : Q[e] \in Trees
  <2>1. Requalifies(Trees, table)
    BY DEF Requalifies
  <2>2. \A e \in Over(Trees, MaxDepth) : Q[e] \in Over(Trees, MaxDepth)
    <3>1. MaxDepth \in 0 .. MaxDepth
      OBVIOUS
    <3> QED BY <2>1, <3>1, QualifiedOver
  <2> QED BY <2>2, WholeLevel
<1>1. ASSUME NEW e \in Trees, \A i \in DOMAIN e.args : e.args[i] \in S PROVE e \in S
  <2>1. Q[e] = CASE e.kind = "ident" /\ e.name \notin known -> Column(table, e.name)
                 [] e.kind = "binary" -> WithArgs(e, [i \in DOMAIN e.args |-> Q[e.args[i]]])
                 [] OTHER -> e
    BY QualifiedNode
  <2>2. \A i \in DOMAIN e.args : KeptIn(e.args[i]) \subseteq KeptIn(Q[e.args[i]])
    BY <1>1
  <2>3. Q[e] \in Trees
    BY <1>0
  <2> HIDE DEF Q
  <2>4. CASE e.kind = "ident"
    <3>1. e.args = <<>>
      <4>1. Shape(e)
        BY TreeNode
      <4> QED BY <2>4, <4>1 DEF Shape, LeafKinds
    <3>2. \A x : x \notin KeptIn(e)
      BY <2>4, <3>1, KeptPlain
    <3> QED BY <3>2
  <2>5. CASE e.kind = "binary"
    <3> DEFINE g == [i \in DOMAIN e.args |-> Q[e.args[i]]]
               v == WithArgs(e, g)
    <3>1. Q[e] = v
      BY <2>1, <2>5
    <3>2. v.kind = "binary" /\ v.args = g
      <4>1. e \in Record(Trees)
        BY TreeNode
      <4> HIDE DEF g
      <4> QED BY <2>5, <4>1 DEF WithArgs, Record
    <3>3. DOMAIN v.args = DOMAIN e.args /\ \A i \in DOMAIN e.args : v.args[i] = Q[e.args[i]]
      <4> HIDE DEF v
      <4> QED BY <3>2
    <3>4. v \in Trees
      BY <2>3, <3>1
    <3> HIDE DEF v
    <3>5. ASSUME NEW x \in KeptIn(e) PROVE x \in KeptIn(v)
      <4>1. \E i \in DOMAIN e.args : x \in KeptIn(e.args[i])
        BY <2>5, KeptPlain
      <4>2. \E i \in DOMAIN v.args : x \in KeptIn(v.args[i])
        BY <2>2, <3>3, <4>1
      <4> QED BY <3>2, <3>4, <4>2, KeptPlain
    <3> QED BY <3>1, <3>5
  <2>6. CASE e.kind \notin {"ident", "binary"}
    <3>1. Q[e] = e
      BY <2>1, <2>6
    <3> QED BY <3>1
  <2> QED BY <2>4, <2>5, <2>6
<1> HIDE DEF S
<1>2. Trees \subseteq S
  BY <1>1, TreeInduction
<1> QED BY <1>2 DEF S

LEMMA KeptQualifyAll ==
  ASSUME NEW table \in Names, NEW known, NEW l \in Trees, l.kind = "list"
  PROVE  KeptIn(l) \subseteq KeptIn(QualifyAll(l, table, known))
<1> DEFINE m == QualifyAll(l, table, known)
<1>1. MaxDepth \in 1 .. MaxDepth /\ l \in Over(Trees, MaxDepth) /\ Over(Trees, MaxDepth) = Trees
  BY WholeLevel
<1>2. /\ m \in Over(Trees, MaxDepth) /\ m.kind = "list" /\ DOMAIN m.args = DOMAIN l.args
      /\ \A i \in DOMAIN l.args : m.args[i] = Qualified(table, known)[l.args[i]]
  <2>1. Requalifies(Trees, table)
    BY DEF Requalifies
  <2> QED BY <1>1, <2>1, QualifyAllOver
<1>3. m \in Trees
  BY <1>1, <1>2
<1>4. \A i \in DOMAIN l.args : KeptIn(l.args[i]) \subseteq KeptIn(m.args[i])
  <2>1. \A i \in DOMAIN l.args : l.args[i] \in Trees
    BY TreeNode
  <2> HIDE DEF m
  <2> QED BY <1>2, <2>1, KeptQualified
<1> HIDE DEF m
<1>5. ASSUME NEW x \in KeptIn(l) PROVE x \in KeptIn(m)
  <2>1. \E i \in DOMAIN l.args : x \in KeptIn(l.args[i])
    BY KeptPlain
  <2>2. \E i \in DOMAIN m.args : x \in KeptIn(m.args[i])
    BY <1>2, <1>4, <2>1
  <2> QED BY <1>2, <1>3, <2>2, KeptPlain
<1> QED BY <1>5 DEF m

LEMMA KeptResolve ==
  ASSUME NEW n \in Trees, TopSelect(n)
  PROVE  KeptIn(n) \subseteq KeptIn(ResolveUnqualified(n))
<1> DEFINE m == ResolveUnqualified(n)
<1>1. CASE ~OneTable(n)
  BY <1>1 DEF ResolveUnqualified
<1>2. CASE OneTable(n)
  <2>1. MaxDepth \in 1 .. MaxDepth /\ n \in Over(Trees, MaxDepth) /\ Over(Trees, MaxDepth) = Trees
    BY WholeLevel
  <2>2. PICK table \in Names :
          /\ m \in Over(Trees, MaxDepth)
          /\ TopSelect(m) /\ Items(m) = Items(n) /\ From(m) = From(n)
          /\ Where(m) = QualifyAll(Where(n), table, Known(n))
          /\ Order(m) = QualifyAll(Order(n), table, Known(n))
    <3>1. \A table \in Names : Requalifies(Trees, table)
      BY DEF Requalifies
    <3> QED BY <1>2, <2>1, <3>1, ResolveOver
  <2>3. Where(n) \in Trees /\ Where(n).kind = "list" /\ Order(n) \in Trees /\ Order(n).kind = "list"
    <3> DEFINE a == MaxDepth - 1
               b == MaxDepth - 2
    <3>1. /\ a \in 1 .. MaxDepth /\ b \in 1 .. MaxDepth
          /\ Where(n) \in TreesAt[b] /\ Where(n).kind = "list"
          /\ Order(n) \in TreesAt[a] /\ Order(n).kind = "list"
      BY SomeLevel, QueryParts
    <3> HIDE DEF a, b
    <3>2. TreesAt[a] \subseteq Trees /\ TreesAt[b] \subseteq Trees
      BY <3>1, LevelsAreTrees
    <3> QED BY <3>1, <3>2
  <2> HIDE DEF m
  <2>4. KeptIn(Where(n)) \subseteq KeptIn(Where(m)) /\ KeptIn(Order(n)) \subseteq KeptIn(Order(m))
    BY <2>2, <2>3, KeptQualifyAll
  <2>5. KeptIn(n) \subseteq KeptIn(m)
    BY <2>1, <2>2, <2>4, KeptQuery
  <2> QED BY <2>5 DEF m
<1> QED BY <1>1, <1>2

\* Each visitor keeps what is kept in the node it looks at.
LEMMA KeptPreVisit ==
  ASSUME NEW rl \in Visitors, NEW n \in Trees
  PROVE  KeptIn(n) \subseteq KeptIn(PreVisit(rl, n))
<1> DEFINE m == PreVisit(rl, n)
           d == MaxDepth
<1>0. d \in 1 .. MaxDepth /\ n \in TreesAt[d] /\ n \in Over(Trees, d) /\ TreesAt[d] = Trees
  BY SomeLevel, WholeLevel DEF Trees
<1>1. m \in Trees
  BY <1>0, PreVisitTree
<1> HIDE DEF d
<1>2. CASE rl = "catalog"
  <2>1. m = PrependCatalog(n)
    BY <1>2 DEF PreVisit
  <2>2. m.args = n.args /\ m.kind = n.kind
    BY <1>0, <2>1, CatalogTree
  <2>3. n.kind \in {"unnamed", "aliased", "param"} => m = n
    BY <2>1 DEF PrependCatalog
  <2> HIDE DEF m
  <2>4. KeptIn(n) \subseteq KeptIn(m)
    BY <1>1, <2>2, <2>3, KeptArgs
  <2> QED BY <2>4 DEF m
<1>3. CASE rl = "callable"
  <2>1. m = StripCallable(n)
    BY <1>3 DEF PreVisit
  <2>2. m.args = n.args /\ m.kind = n.kind
    BY <1>0, <2>1, CallableTree
  <2>3. n.kind \in {"unnamed", "aliased", "param"} => m = n
    BY <2>1 DEF StripCallable
  <2> HIDE DEF m
  <2>4. KeptIn(n) \subseteq KeptIn(m)
    BY <1>1, <2>2, <2>3, KeptArgs
  <2> QED BY <2>4 DEF m
<1>4. CASE rl = "operator"
  <2>1. m = BareOperator(n)
    BY <1>4 DEF PreVisit
  <2>2. m.args = n.args /\ m.kind = n.kind
    BY <1>0, <2>1, OperatorTree
  <2>3. n.kind \in {"unnamed", "aliased", "param"} => m = n
    BY <2>1 DEF BareOperator
  <2> HIDE DEF m
  <2>4. KeptIn(n) \subseteq KeptIn(m)
    BY <1>1, <2>2, <2>3, KeptArgs
  <2> QED BY <2>4 DEF m
<1>5. CASE rl = "user"
  <2>1. m = CurrentUser(n)
    BY <1>5 DEF PreVisit
  <2>2. m.args = n.args /\ m.kind \in {n.kind, "call"}
    BY <1>0, <2>1, UserTree
  <2>3. n.kind \in {"unnamed", "aliased", "param"} => m = n
    BY <2>1 DEF CurrentUser
  <2> HIDE DEF m
  <2>4. KeptIn(n) \subseteq KeptIn(m)
    BY <1>1, <2>2, <2>3, KeptArgs
  <2> QED BY <2>4 DEF m
<1>6. CASE rl = "collate"
  <2>1. m = StripCollate(n)
    BY <1>6 DEF PreVisit
  <2>2. CASE n.kind = "collate"
    <3>1. DOMAIN n.args = {1} /\ m = n.args[1]
      BY <2>1, <2>2, OneChild DEF StripCollate, UnaryKinds
    <3> HIDE DEF m
    <3>2. ASSUME NEW x \in KeptIn(n) PROVE x \in KeptIn(m)
      <4>1. \E i \in DOMAIN n.args : x \in KeptIn(n.args[i])
        BY <2>2, KeptPlain
      <4> QED BY <3>1, <4>1
    <3> QED BY <3>2 DEF m
  <2>3. CASE n.kind # "collate"
    <3>1. m = n
      BY <2>1, <2>3 DEF StripCollate
    <3> QED BY <3>1
  <2> QED BY <2>2, <2>3
<1>7. CASE rl = "subquery"
  BY <1>7, KeptSubquery DEF PreVisit
<1>8. CASE rl = "version"
  BY <1>8, KeptVersion DEF PreVisit
<1>9. CASE rl = "anyall"
  <2>1. m = ArrayAnyAll(n)
    BY <1>9 DEF PreVisit
  <2>2. CASE n.kind = "any" /\ n.name = "="
    <3>1. m = ArrayContains(n)
      BY <2>1, <2>2 DEF ArrayAnyAll
    <3>2. ArrayContains(n) \in Trees
      BY <1>1, <3>1
    <3>3. KeptIn(n) \subseteq KeptIn(ArrayContains(n))
      BY <2>2, <3>2, KeptContains
    <3> QED BY <3>1, <3>3
  <2>3. CASE n.kind = "all" /\ n.name = "<>"
    <3> DEFINE c == ArrayContains(n)
    <3>1. m = Node("not", None, None, None, <<c>>)
      BY <2>1, <2>3 DEF ArrayAnyAll
    <3> HIDE DEF c
    <3>2. m.kind = "not" /\ 1 \in DOMAIN m.args /\ m.args[1] = c
      BY <3>1 DEF Node
    <3>3. ~KeptStop(m)
      BY <3>2 DEF KeptStop
    <3> HIDE DEF m
    <3>4. c \in Trees /\ KeptIn(c) \subseteq KeptIn(m)
      BY <1>1, <3>2, <3>3, KeptBelow
    <3>5. KeptIn(n) \subseteq KeptIn(c)
      BY <2>3, <3>4, KeptContains DEF c
    <3>6. KeptIn(n) \subseteq KeptIn(m)
      BY <3>4, <3>5
    <3> QED BY <3>6 DEF m
  <2>4. CASE (n.kind = "any" => n.name # "=") /\ (n.kind = "all" => n.name # "<>")
    <3>1. m = n
      BY <2>1, <2>4 DEF ArrayAnyAll
    <3> QED BY <3>1
  <2> QED BY <2>2, <2>3, <2>4
<1>10. CASE rl = "array"
  <2>1. m = FixArray(n)
    BY <1>10 DEF PreVisit
  <2>2. CASE ArrayString(n)
    <3>1. n.kind = "cast" /\ IsString(n.args[1])
      BY <2>2 DEF ArrayString
    <3>2. DOMAIN n.args = {1} /\ n.args[1] \in Trees
      BY <3>1, OneChild DEF UnaryKinds
    <3>3. KeptIn(n.args[1]) = {}
      BY <3>1, <3>2, NoneInStrings
    <3>4. \A x : x \notin KeptIn(n)
      BY <3>1, <3>2, <3>3, KeptPlain
    <3> QED BY <3>4
  <2>3. CASE ~ArrayString(n)
    <3>1. m = n
      BY <2>1, <2>3 DEF FixArray
    <3> QED BY <3>1
  <2> QED BY <2>2, <2>3
<1>11. CASE rl = "regcast"
  <2>1. m = RegCastToSubquery(n)
    BY <1>11 DEF PreVisit
  <2>2. CASE RegCast(n)
    <3> DEFINE o == n.args[1]
    <3>1. n.kind \in {"cast", "castas"} /\ o.kind \in StringKinds \union {"param"}
      BY <2>2 DEF RegCast, IsString
    <3>2. DOMAIN n.args = {1} /\ o \in Trees
      BY <3>1, OneChild DEF UnaryKinds
    <3>3. KeptIn(n) \subseteq KeptIn(o)
      <4>1. \A x : x \in KeptIn(n) => \E i \in DOMAIN n.args : x \in KeptIn(n.args[i])
        BY <3>1, KeptPlain
      <4> QED BY <3>2, <4>1
    <3>4. CASE IsString(o)
      <4>1. KeptIn(o) = {}
        BY <3>2, <3>4, NoneInStrings
      <4> QED BY <3>3, <4>1
    <3>5. CASE o.kind = "param"
      <4>1. m = Subquery(Template(n.name, o))
        BY <2>1, <2>2, <3>5 DEF RegCastToSubquery, LookUp
      <4>2. KeptIn(o) \subseteq KeptIn(Subquery(Template(n.name, o)))
        BY <1>1, <4>1, KeptInSubquery
      <4> HIDE DEF m, o
      <4> QED BY <3>3, <4>1, <4>2 DEF m
    <3> QED BY <3>1, <3>4, <3>5 DEF IsString
  <2>3. CASE ~RegCast(n)
    <3>1. m = n
      BY <2>1, <2>3 DEF RegCastToSubquery
    <3> QED BY <3>1
  <2> QED BY <2>2, <2>3
<1> QED BY <1>2, <1>3, <1>4, <1>5, <1>6, <1>7, <1>8, <1>9, <1>10, <1>11 DEF Visitors

\* Each rule keeps them.
LEMMA KeptStep ==
  ASSUME NEW rl \in Visitors \union {"alias", "resolve"}, NEW t \in Trees
  PROVE  KeptIn(t) \subseteq KeptIn(Apply(rl, t))
<1>1. CASE rl = "alias"
  BY <1>1, KeptAlias DEF Apply
<1>2. CASE rl = "resolve"
  BY <1>2, KeptResolve DEF Apply
<1>3. CASE rl \in Visitors
  <2>1. Apply(rl, t) = Visited(rl)[t]
    BY <1>3 DEF Apply, Visitors
  <2>2. KeptIn(t) \subseteq KeptIn(Visited(rl)[t])
    BY <1>3, KeptPreVisit, KeptVisited
  <2> QED BY <2>1, <2>2
<1> QED BY <1>1, <1>2, <1>3

\* What a walk reaches are nodes.
LEMMA ReachedAreNodes ==
  ASSUME NEW walk, NEW t \in Trees
  PROVE  Reached(walk)[t] \subseteq Nodes(t)
<1> DEFINE S == {n \in Trees : Reached(walk)[n] \subseteq Nodes(n)}
<1>1. ASSUME NEW n \in Trees, \A i \in DOMAIN n.args : n.args[i] \in S PROVE n \in S
  <2>1. Reached(walk)[n] \subseteq {n} \union UNION {Reached(walk)[n.args[i]] : i \in DOMAIN n.args}
    <3>1. Reached(walk)[n] =
            {n} \union IF Stops(walk, n) THEN {}
                       ELSE UNION {Reached(walk)[n.args[i]] : i \in DOMAIN n.args}
      BY ReachedNodes
    <3> QED BY <3>1
  <2>2. Nodes(n) = {n} \union UNION {Nodes(n.args[i]) : i \in DOMAIN n.args}
    BY NodesOf
  <2>3. \A i \in DOMAIN n.args : Reached(walk)[n.args[i]] \subseteq Nodes(n.args[i])
    BY <1>1
  <2> QED BY <2>1, <2>2, <2>3
<1> HIDE DEF S
<1>2. Trees \subseteq S
  BY <1>1, TreeInduction
<1> QED BY <1>2 DEF S

LEMMA KeptInTheEnd ==
  ASSUME NEW t, NEW old, NEW new, Chain(t, old, new, 12)
  PROVE  KeptIn(old) \subseteq ParametersOf(new)
<1> DEFINE S == {x \in Trees : KeptIn(old) \subseteq KeptIn(x)}
<1>1. old \in S /\ new \in Trees
  BY ChainSteps
<1>2. \A rl \in Visitors \union {"alias", "resolve"} : \A x \in S : Apply(rl, x) \in S
  <2> SUFFICES ASSUME NEW rl \in Visitors \union {"alias", "resolve"}, NEW x \in S
               PROVE  Apply(rl, x) \in Trees /\ KeptIn(old) \subseteq KeptIn(Apply(rl, x))
    BY Zenon
  <2> QED BY KeptStep, ApplyTree
<1> HIDE DEF S
<1>3. new \in S
  BY <1>1, <1>2, ChainKeeps
<1>4. KeptIn(old) \subseteq KeptIn(new)
  BY <1>3 DEF S
<1>5. KeptIn(new) \subseteq ParametersOf(new)
  BY <1>1, ReachedAreNodes DEF KeptIn, ParametersOf, ParametersIn
<1> QED BY <1>4, <1>5

\* However many rules go over a statement and whatever they put into it, the
\* client's parameters are the ones it bound: none is invented, and none is lost
\* but below a column that may be dropped.
THEOREM StatementsBound == RewriteSpec => []ParametersBound
<1>1. RewriteInv => ParametersBound
  <2> SUFFICES ASSUME RewriteInv, NEW i \in Rewritten
               PROVE  /\ ParametersOf(statements[i]) \subseteq ParametersOf(parsed[i])
                      /\ ParametersIn(Reached("kept")[parsed[i]]) \subseteq ParametersOf(statements[i])
    BY DEF ParametersBound
  <2>1. PICK t : Chain(t, parsed[i], statements[i], 12)
    BY RewrittenChain
  <2>2. ParametersOf(statements[i]) \subseteq ParametersOf(parsed[i])
    BY <2>1, NoneInvented
  <2>3. KeptIn(parsed[i]) \subseteq ParametersOf(statements[i])
    BY <2>1, KeptInTheEnd
  <2> QED BY <2>2, <2>3 DEF KeptIn
<1> QED BY <1>1, RewriteInvariant, PTL

-----------------------------------------------------------------------------
(* What becomes of the parts of a query.                                   *)

\* The kinds of nodes that a visitor changes.
Changing ==
  {"any", "all", "table", "call", "tablefunction", "cast", "castas", "ident", "register",
   "collate", "binary", "query"}

LEMMA PreVisitPlain ==
  ASSUME NEW rl \in Visitors, NEW n, n.kind \notin Changing
  PROVE  PreVisit(rl, n) = n
<1>1. ArrayAnyAll(n) = n
  BY DEF ArrayAnyAll, Changing
<1>2. PrependCatalog(n) = n
  BY DEF PrependCatalog, Changing
<1>3. StripCallable(n) = n
  BY DEF StripCallable, Changing
<1>4. FixArray(n) = n
  <2>1. ~ArrayString(n)
    BY DEF ArrayString, Changing
  <2> QED BY <2>1 DEF FixArray
<1>5. CurrentUser(n) = n
  BY DEF CurrentUser, Changing
<1>6. StripCollate(n) = n
  BY DEF StripCollate, Changing
<1>7. BareOperator(n) = n
  BY DEF BareOperator, Changing
<1>8. RegCastToSubquery(n) = n
  <2>1. ~RegCast(n)
    BY DEF RegCast, Changing
  <2> QED BY <2>1 DEF RegCastToSubquery
<1>9. ~TopSelect(n)
  BY DEF TopSelect, Changing
<1>10. RemoveSubquery(n) = n /\ FixVersion(n) = n
  BY <1>9 DEF RemoveSubquery, FixVersion
<1> QED BY <1>1, <1>2, <1>3, <1>4, <1>5, <1>6, <1>7, <1>8, <1>10 DEF PreVisit, Visitors

\* Only two of them look at queries.
LEMMA PreVisitQuery ==
  ASSUME NEW rl \in Visitors \ {"subquery", "version"}, NEW n, n.kind = "query"
  PROVE  PreVisit(rl, n) = n
<1>1. ArrayAnyAll(n) = n
  BY DEF ArrayAnyAll
<1>2. PrependCatalog(n) = n
  BY DEF PrependCatalog
<1>3. StripCallable(n) = n
  BY DEF StripCallable
<1>4. FixArray(n) = n
  <2>1. ~ArrayString(n)
    BY DEF ArrayString
  <2> QED BY <2>1 DEF FixArray
<1>5. CurrentUser(n) = n
  BY DEF CurrentUser
<1>6. StripCollate(n) = n
  BY DEF StripCollate
<1>7. BareOperator(n) = n
  BY DEF BareOperator
<1>8. RegCastToSubquery(n) = n
  <2>1. ~RegCast(n)
    BY DEF RegCast
  <2> QED BY <2>1 DEF RegCastToSubquery
<1> QED BY <1>1, <1>2, <1>3, <1>4, <1>5, <1>6, <1>7, <1>8 DEF PreVisit, Visitors

\* A node that a visitor leaves as it is has its children visited.
LEMMA VisitedPlain ==
  ASSUME NEW rl \in Visitors, NEW n \in Trees, PreVisit(rl, n) = n
  PROVE  LET v == Visited(rl)[n] IN
         /\ Labels(v, n) /\ Len(v.args) = Len(n.args) /\ DOMAIN v.args = DOMAIN n.args
         /\ \A i \in DOMAIN n.args : v.args[i] = Visited(rl)[n.args[i]]
<1> DEFINE v == Visited(rl)[n]
           m == PreVisit(rl, n)
<1>1. /\ v.kind = m.kind /\ v.qual = m.qual /\ v.name = m.name /\ v.alias = m.alias
      /\ Len(v.args) = Len(m.args) /\ DOMAIN v.args = DOMAIN m.args
      /\ \A i \in DOMAIN m.args : v.args[i] = Visited(rl)[m.args[i]]
  BY VisitedFields
<1> HIDE DEF v, m
<1>2. m = n
  BY DEF m
<1> QED BY <1>1, <1>2 DEF Labels, v

LEMMA VisitedItem ==
  ASSUME NEW rl \in Visitors, NEW i \in Trees, i.kind \in {"unnamed", "aliased"}
  PROVE  LET v == Visited(rl)[i] IN
         /\ Labels(v, i) /\ DOMAIN v.args = {1}
         /\ ItemExpr(v) = Visited(rl)[ItemExpr(i)] /\ ItemExpr(i) \in Trees
<1>1. PreVisit(rl, i) = i
  BY PreVisitPlain DEF Changing
<1>2. DOMAIN i.args = {1} /\ i.args[1] \in Trees
  BY OneChild DEF UnaryKinds
<1> DEFINE v == Visited(rl)[i]
<1>3. /\ Labels(v, i) /\ DOMAIN v.args = DOMAIN i.args
      /\ \A j \in DOMAIN i.args : v.args[j] = Visited(rl)[i.args[j]]
  BY <1>1, VisitedPlain
<1>4. v.args[1] = Visited(rl)[i.args[1]]
  <2>1. 1 \in DOMAIN i.args
    BY <1>2
  <2> QED BY <1>3, <2>1
<1> HIDE DEF v
<1> QED BY <1>2, <1>3, <1>4 DEF ItemExpr, v

\* The parts of a query that is visited, after the visitor looked at it.
LEMMA VisitedQuery ==
  ASSUME NEW rl \in Visitors, NEW n \in Trees, TopSelect(PreVisit(rl, n))
  PROVE  LET V == Visited(rl) m == PreVisit(rl, n) v == V[n] IN
         /\ TopSelect(v) /\ m \in Trees
         /\ DOMAIN Items(v) = DOMAIN Items(m)
         /\ \A k \in DOMAIN Items(m) : Items(v)[k] = V[Items(m)[k]]
         /\ DOMAIN From(v) = DOMAIN From(m)
         /\ \A k \in DOMAIN From(m) : From(v)[k] = V[From(m)[k]]
         /\ Where(v) = V[Where(m)] /\ Order(v) = V[Order(m)]
<1> DEFINE V == Visited(rl)
           m == PreVisit(rl, n)
           v == V[n]
           s == m.args[1]
           i == s.args[1]
           f == s.args[2]
<1>1. /\ m \in Trees /\ Labels(v, m) /\ DOMAIN v.args = DOMAIN m.args
      /\ \A j \in DOMAIN m.args : v.args[j] = V[m.args[j]]
  BY VisitedFields DEF Labels
<1> HIDE DEF V, m, v
<1>2. /\ m.kind = "query" /\ DOMAIN m.args = 1 .. 2 /\ DOMAIN s.args = 1 .. 3
      /\ s.kind = "select" /\ i.kind = "items" /\ f.kind = "sources"
  BY <1>1, SomeLevel, QueryParts DEF TopSelect, m
<1>3. s \in Trees /\ v.args[1] = V[s] /\ v.args[2] = V[m.args[2]]
  BY <1>1, <1>2, TreeNode
<1> HIDE DEF s
<1>4. i \in Trees /\ f \in Trees
  BY <1>2, <1>3, TreeNode
<1>5. Labels(V[s], s) /\ \A j \in 1 .. 3 : V[s].args[j] = V[s.args[j]]
  <2>1. PreVisit(rl, s) = s
    BY <1>2, PreVisitPlain DEF Changing
  <2> QED BY <1>2, <1>3, <2>1, VisitedPlain DEF V
<1>6. V[s].args[1] = V[i] /\ V[s].args[2] = V[f] /\ V[s].args[3] = V[s.args[3]]
  BY <1>5
<1> HIDE DEF i, f
<1>7. DOMAIN V[i].args = DOMAIN i.args /\ \A k \in DOMAIN i.args : V[i].args[k] = V[i.args[k]]
  <2>1. PreVisit(rl, i) = i
    BY <1>2, PreVisitPlain DEF Changing
  <2> QED BY <1>4, <2>1, VisitedPlain DEF V
<1>8. DOMAIN V[f].args = DOMAIN f.args /\ \A k \in DOMAIN f.args : V[f].args[k] = V[f.args[k]]
  <2>1. PreVisit(rl, f) = f
    BY <1>2, PreVisitPlain DEF Changing
  <2> QED BY <1>4, <2>1, VisitedPlain DEF V
<1>9. TopSelect(v)
  BY <1>1, <1>2, <1>3, <1>5 DEF TopSelect, IsSelect, Labels
<1>10. /\ Items(v) = V[i].args /\ From(v) = V[f].args /\ Where(v) = V[s.args[3]] /\ Order(v) = V[m.args[2]]
       /\ Items(m) = i.args /\ From(m) = f.args /\ Where(m) = s.args[3] /\ Order(m) = m.args[2]
  BY <1>3, <1>6 DEF Items, From, Where, Order, s, i, f
<1> QED BY <1>1, <1>7, <1>8, <1>9, <1>10 DEF V, m, v

\* Whether a node is a query with a projection does not change.
LEMMA TopSelectKept ==
  ASSUME NEW rl \in Visitors \ {"collate"}, NEW n \in Trees
  PROVE  TopSelect(PreVisit(rl, n)) <=> TopSelect(n)
<1> DEFINE m == PreVisit(rl, n)
<1>1. MaxDepth \in 1 .. MaxDepth /\ n \in Over(Trees, MaxDepth)
  BY WholeLevel
<1>2. CASE rl = "subquery"
  <2>1. m = RemoveSubquery(n)
    BY <1>2 DEF PreVisit
  <2>2. (~TopSelect(n) => RemoveSubquery(n) = n) /\ (TopSelect(n) => TopSelect(RemoveSubquery(n)))
    BY <1>1, RemoveSubqueryOver
  <2> QED BY <2>1, <2>2
<1>3. CASE rl = "version"
  <2>1. m = FixVersion(n)
    BY <1>3 DEF PreVisit
  <2>2. (~TopSelect(n) => FixVersion(n) = n) /\ (TopSelect(n) => TopSelect(FixVersion(n)))
    BY <1>1, FixVersionOver
  <2> QED BY <2>1, <2>2
<1>4. CASE rl \in Visitors \ {"subquery", "version", "collate"}
  <2>1. n.kind = "query" => m = n
    BY <1>4, PreVisitQuery
  <2>2. m.kind = "query" => n.kind = "query"
    <3>1. Relabelled(rl, n, m)
      BY <1>4, Relabels
    <3> HIDE DEF m
    <3> QED BY <3>1 DEF Relabelled, Labels
  <2> HIDE DEF m
  <2>3. TopSelect(m) <=> TopSelect(n)
    BY <2>1, <2>2 DEF TopSelect
  <2> QED BY <2>3 DEF m
<1> QED BY <1>2, <1>3, <1>4

-----------------------------------------------------------------------------
(* What stays of a query, and of what it names.                            *)

LEMMA VisitedStays ==
  ASSUME NEW rl \in Visitors, NEW t \in Trees
  PROVE  Visited(rl)[t] \in Trees
<1>1. MaxDepth \in 0 .. MaxDepth
  BY SomeLevel
<1> QED BY <1>1, VisitedTree DEF Trees

LEMMA VisitedTopSelect ==
  ASSUME NEW rl \in Visitors \ {"collate"}, NEW n \in Trees
  PROVE  TopSelect(Visited(rl)[n]) <=> TopSelect(n)
<1> DEFINE v == Visited(rl)[n]
           m == PreVisit(rl, n)
           c == m.args[1]
<1>1. TopSelect(m) <=> TopSelect(n)
  BY TopSelectKept
<1>2. TopSelect(m) => TopSelect(v)
  BY VisitedQuery
<1>3. TopSelect(v) => TopSelect(m)
  <2> SUFFICES ASSUME TopSelect(v) PROVE TopSelect(m)
    OBVIOUS
  <2>1. m \in Trees /\ v.kind = m.kind
    BY VisitedFields
  <2>2. m.kind = "query" /\ v.args[1].kind = "select"
    BY <2>1 DEF TopSelect, IsSelect
  <2>3. 1 \in DOMAIN m.args
    <3> HIDE DEF m, v
    <3>1. Shape(m) /\ m \in Record(Trees)
      BY <2>1, TreeNode
    <3>2. Len(m.args) = 2 /\ m.args \in Seq(Trees)
      BY <2>2, <3>1, RecordFields DEF Shape
    <3> QED BY <3>2
  <2>4. c \in Trees /\ v.args[1] = Visited(rl)[c] /\ Labels(Visited(rl)[c], PreVisit(rl, c))
    BY <2>3, VisitedChild
  <2>5. Relabelled(rl, c, PreVisit(rl, c))
    BY <2>4, Relabels
  <2> HIDE DEF v, m, c
  <2>6. c.kind = "select"
    BY <2>2, <2>4, <2>5 DEF Relabelled, Labels
  <2> QED BY <2>2, <2>6 DEF TopSelect, IsSelect, c
<1> QED BY <1>1, <1>2, <1>3

\* A source keeps its alias.
LEMMA SourceVisited ==
  ASSUME NEW rl \in Visitors, NEW f \in Trees, f.kind \in SourceKinds
  PROVE  LET v == Visited(rl)[f] IN v.kind = f.kind /\ v.alias = f.alias
<1> DEFINE v == Visited(rl)[f]
           p == PreVisit(rl, f)
<1>1. Labels(v, p) /\ (rl # "collate" => Relabelled(rl, f, p)) /\ (rl = "collate" => p = f)
  <2>1. Labels(v, p)
    BY VisitedFields DEF Labels
  <2>2. rl # "collate" => Relabelled(rl, f, p)
    BY Relabels
  <2>3. rl = "collate" => p = f
    BY DEF SourceKinds, PreVisit, StripCollate
  <2> QED BY <2>1, <2>2, <2>3
<1> HIDE DEF v, p
<1>2. v.kind = f.kind /\ v.alias = f.alias
  BY <1>1 DEF Relabelled, Labels, SourceKinds, RegCast
<1> QED BY <1>2 DEF v

LEMMA SourcesVisited ==
  ASSUME NEW rl \in Visitors, NEW x \in Trees, TopSelect(x)
  PROVE  LET v == Visited(rl)[x] IN
         /\ TopSelect(v) /\ DOMAIN From(v) = DOMAIN From(x)
         /\ \A k \in DOMAIN From(x) : From(v)[k].kind = From(x)[k].kind /\ From(v)[k].alias = From(x)[k].alias
         /\ TableAliases(v) = TableAliases(x)
<1> DEFINE V == Visited(rl)
           v == V[x]
           m == PreVisit(rl, x)
           d == MaxDepth
<1>1. d \in 1 .. MaxDepth /\ x \in Over(Trees, d) /\ \A y \in Trees : Made(rl, y) => y \in Trees
  BY WholeLevel
<1> HIDE DEF d
<1>2. TopSelect(m) /\ From(m) = From(x)
  <2>1. CASE rl \notin {"subquery", "version"}
    <3>1. m = x
      BY <2>1, PreVisitQuery DEF TopSelect
    <3> QED BY <3>1
  <2>2. CASE rl = "subquery"
    <3>1. m = RemoveSubquery(x)
      BY <2>2 DEF PreVisit
    <3>2. \A y \in Trees : Made("subquery", y) => y \in Trees
      OBVIOUS
    <3>3. TopSelect(RemoveSubquery(x)) /\ From(RemoveSubquery(x)) = From(x)
      BY <1>1, <3>2, RemoveSubqueryOver
    <3> HIDE DEF m
    <3> QED BY <3>1, <3>3
  <2>3. CASE rl = "version"
    <3>1. m = FixVersion(x)
      BY <2>3 DEF PreVisit
    <3>2. \A y \in Trees : Made("version", y) => y \in Trees
      OBVIOUS
    <3>3. TopSelect(FixVersion(x)) /\ From(FixVersion(x)) = From(x)
      BY <1>1, <3>2, FixVersionOver
    <3> HIDE DEF m
    <3> QED BY <3>1, <3>3
  <2> QED BY <2>1, <2>2, <2>3
<1>3. /\ TopSelect(v) /\ m \in Trees
      /\ DOMAIN From(v) = DOMAIN From(m) /\ \A k \in DOMAIN From(m) : From(v)[k] = V[From(m)[k]]
  BY <1>2, VisitedQuery
<1> HIDE DEF m, v
<1>4. ASSUME NEW k \in DOMAIN From(x)
      PROVE  From(v)[k].kind = From(x)[k].kind /\ From(v)[k].alias = From(x)[k].alias
  <2> DEFINE f == From(x)[k]
             s == x.args[1].args[2]
  <2>1. s \in Trees /\ s.kind = "sources" /\ From(x) = s.args
    <3>1. d - 2 \in 1 .. MaxDepth /\ x \in TreesAt[d]
      BY <1>1, QueryParts, OverParts
    <3>2. s \in TreesAt[d - 2] /\ s.kind = "sources"
      BY <1>1, <3>1, QueryParts
    <3>3. s \in Trees
      <4> DEFINE c == d - 2
      <4>1. c \in 0 .. MaxDepth /\ s \in TreesAt[c]
        BY <3>1, <3>2
      <4> HIDE DEF c
      <4> QED BY <4>1, LevelsAreTrees
    <3> QED BY <3>2, <3>3 DEF From
  <2> HIDE DEF s
  <2>2. f \in Trees /\ f.kind \in SourceKinds
    <3>1. Shape(s) /\ \A i \in DOMAIN s.args : s.args[i] \in Trees
      BY <2>1, TreeNode
    <3> QED BY <2>1, <3>1 DEF Shape, ChildKinds
  <2>3. From(v)[k] = V[f]
    BY <1>2, <1>3
  <2> HIDE DEF f
  <2>4. V[f].kind = f.kind /\ V[f].alias = f.alias
    BY <2>2, SourceVisited
  <2> QED BY <2>3, <2>4 DEF f
<1>5. TableAliases(v) = TableAliases(x)
  BY <1>2, <1>3, <1>4 DEF TableAliases
<1> QED BY <1>2, <1>3, <1>4, <1>5 DEF v

-----------------------------------------------------------------------------
(* A query that names its own tables only goes on doing so.                *)

\* The nodes that are no parameter, and no column of a table but these.
Inner(T) == {n \in Trees : n.kind # "param" /\ (n.kind = "column" => n.qual \in T)}

LEMMA CorrelatedInner ==
  ASSUME NEW q \in Trees
  PROVE  Correlated(q) <=> IsSelect(q) /\ q \notin All(Inner(TableAliases(q)))
<1>1. Nodes(q) \subseteq Trees
  BY NodesOf
<1> QED BY <1>1 DEF Correlated, All, Inner

LEMMA InnerVisited ==
  ASSUME NEW rl \in {"subquery", "version"}, NEW T, NEW q \in All(Inner(T))
  PROVE  Visited(rl)[q] \in All(Inner(T))
<1> DEFINE S == Inner(T)
<1>0. rl \in Visitors /\ rl \in Visitors \ {"collate"}
  BY DEF Visitors
<1>1. Puts(rl, S)
  <2>1. \A x : Made(rl, x) => x.kind \notin {"param", "column"}
    BY DEF Made
  <2> QED BY <2>1 DEF Puts, Inner
<1>2. ASSUME NEW n \in All(S) PROVE Visited(rl)[n] \in S
  <2> DEFINE v == Visited(rl)[n]
             m == PreVisit(rl, n)
  <2>1. n \in Trees /\ n \in S
    BY AllOver DEF All
  <2>2. v \in Trees /\ Labels(v, m)
    BY <1>0, <2>1, VisitedStays, VisitedFields DEF Labels
  <2>3. Labels(m, n)
    BY <1>0, <2>1, Relabels DEF Relabelled
  <2> HIDE DEF m, v
  <2>4. v \in S
    BY <2>1, <2>2, <2>3 DEF Inner, Labels
  <2> QED BY <2>4 DEF v
<1> HIDE DEF S
<1>3. q \in All(S)
  BY DEF S
<1>4. Visited(rl)[q] \in All(S)
  BY <1>0, <1>1, <1>2, <1>3, VisitNodes
<1> QED BY <1>4 DEF S

LEMMA UncorrelatedVisited ==
  ASSUME NEW rl \in {"subquery", "version"}, NEW q \in Trees, q.kind = "query", ~Correlated(q)
  PROVE  ~Correlated(Visited(rl)[q])
<1> DEFINE v == Visited(rl)[q]
           m == PreVisit(rl, q)
<1>0. rl \in Visitors /\ rl \in Visitors \ {"collate"}
  BY DEF Visitors
<1>1. v \in Trees
  BY <1>0, VisitedStays
<1>2. v.kind = "query"
  <2>1. Labels(v, m)
    BY <1>0, VisitedFields DEF Labels
  <2>2. Labels(m, q)
    BY <1>0, Relabels DEF Relabelled
  <2> HIDE DEF v, m
  <2> QED BY <2>1, <2>2 DEF Labels
<1>3. TopSelect(v) => TopSelect(q)
  BY <1>0, VisitedTopSelect
<1>4. TopSelect(q) => TableAliases(v) = TableAliases(q)
  BY <1>0, SourcesVisited
<1>5. \A T : q \in All(Inner(T)) => v \in All(Inner(T))
  BY InnerVisited
<1> HIDE DEF v
<1>6. ~Correlated(v)
  BY <1>1, <1>2, <1>3, <1>4, <1>5, CorrelatedInner DEF TopSelect
<1> QED BY <1>6 DEF v

LEMMA LimitedCorrelated ==
  ASSUME NEW q \in Trees, q.kind = "query", ~Correlated(q), Limited(q) \in Trees
  PROVE  ~Correlated(Limited(q))
<1> DEFINE m == Limited(q)
<1>1. m.kind = q.kind /\ m.args = q.args
  <2>1. q \in Record(Trees)
    BY TreeNode
  <2>2. CASE HasLimit(q)
    BY <2>2 DEF Limited
  <2>3. CASE ~HasLimit(q)
    BY <2>1, <2>3 DEF Limited, Record
  <2> QED BY <2>2, <2>3
<1> HIDE DEF m
<1>2. TableAliases(m) = TableAliases(q) /\ (IsSelect(m) <=> IsSelect(q))
  BY <1>1 DEF TableAliases, From, IsSelect
<1> DEFINE S == Inner(TableAliases(q))
<1>3. m \in Trees
  BY DEF m
<1>4. m \in S
  BY <1>1, <1>3 DEF Inner
<1> HIDE DEF S
<1>5. q \in All(S) => m \in All(S)
  BY <1>1, <1>3, <1>4, AllOver
<1>6. ~Correlated(m)
  BY <1>2, <1>3, <1>5, CorrelatedInner DEF S
<1> QED BY <1>6 DEF m

-----------------------------------------------------------------------------
(* What a projection computes from a subquery is one value.                *)

\* A result column that is a subquery has a limit, and names its own tables.
OneValue(i) ==
  i.kind \in {"unnamed", "aliased"} /\ ItemExpr(i).kind = "subquery" =>
    HasLimit(ItemExpr(i).args[1]) /\ ~Correlated(ItemExpr(i).args[1])
Scalars == {q \in Trees : TopSelect(q) => \A k \in DOMAIN Items(q) : OneValue(Items(q)[k])}

LEMMA OneValueVisited ==
  ASSUME NEW rl \in {"subquery", "version"}, NEW i \in Trees, i.kind \in ItemKinds, OneValue(i)
  PROVE  OneValue(Visited(rl)[i])
<1> DEFINE V == Visited(rl)
           j == V[i]
           e == ItemExpr(i)
           q == e.args[1]
<1>0. rl \in Visitors \ {"collate"}
  BY DEF Visitors
<1> SUFFICES ASSUME j.kind \in {"unnamed", "aliased"}, ItemExpr(j).kind = "subquery"
             PROVE  HasLimit(ItemExpr(j).args[1]) /\ ~Correlated(ItemExpr(j).args[1])
  BY DEF OneValue
<1>1. i.kind \in {"unnamed", "aliased"}
  <2>1. PreVisit(rl, i) = i
    BY <1>0, PreVisitPlain DEF Changing, ItemKinds
  <2>2. Labels(j, i)
    BY <1>0, <2>1, VisitedPlain
  <2> HIDE DEF j
  <2> QED BY <2>2 DEF Labels
<1>2. e \in Trees /\ ItemExpr(j) = V[e]
  BY <1>0, <1>1, VisitedItem
<1> HIDE DEF e
<1>3. Labels(V[e], PreVisit(rl, e)) /\ Relabelled(rl, e, PreVisit(rl, e))
  BY <1>0, <1>2, VisitedFields, Relabels DEF Labels
<1> HIDE DEF j
<1>4. V[e].kind = "subquery"
  BY <1>2
<1> HIDE DEF V
<1>5. e.kind = "subquery"
  BY <1>3, <1>4 DEF Relabelled, Labels
<1>6. HasLimit(q) /\ ~Correlated(q)
  BY <1>1, <1>5 DEF OneValue, e
<1>7. DOMAIN e.args = {1} /\ q \in Trees /\ q.kind = "query"
  <2>1. DOMAIN e.args = {1} /\ q \in Trees
    BY <1>2, <1>5, OneChild DEF UnaryKinds
  <2>2. Shape(e)
    BY <1>2, TreeNode
  <2> QED BY <1>5, <2>1, <2>2 DEF Shape, ChildKinds
<1>8. V[e].args[1] = V[q]
  <2>1. PreVisit(rl, e) = e
    BY <1>0, <1>5, PreVisitPlain DEF Changing
  <2>2. \A k \in DOMAIN e.args : V[e].args[k] = V[e.args[k]]
    BY <1>0, <1>2, <2>1, VisitedPlain DEF V
  <2> QED BY <1>7, <2>2
<1> HIDE DEF q
<1>9. Labels(V[q], PreVisit(rl, q)) /\ Relabelled(rl, q, PreVisit(rl, q))
  BY <1>0, <1>7, VisitedFields, Relabels DEF Labels, V
<1>10. V[q].name = q.name
  BY <1>9 DEF Relabelled, Labels
<1>11. ~Correlated(V[q])
  BY <1>6, <1>7, UncorrelatedVisited DEF V
<1> QED BY <1>2, <1>6, <1>8, <1>10, <1>11 DEF HasLimit

LEMMA ScalarsVisited ==
  ASSUME NEW rl \in {"subquery", "version"}, NEW n \in Trees,
         LET m == PreVisit(rl, n) IN
         TopSelect(m) => \A k \in DOMAIN Items(m) : OneValue(Items(m)[k])
  PROVE  Visited(rl)[n] \in Scalars
<1> DEFINE m == PreVisit(rl, n)
           v == Visited(rl)[n]
<1>0. rl \in Visitors \ {"collate"}
  BY DEF Visitors
<1>1. v \in Trees
  <2>1. MaxDepth \in 0 .. MaxDepth
    BY SomeLevel
  <2> QED BY <1>0, <2>1, VisitedTree DEF Trees
<1>2. ASSUME TopSelect(v), NEW k \in DOMAIN Items(v) PROVE OneValue(Items(v)[k])
  <2>1. TopSelect(m)
    BY <1>0, <1>2, VisitedTopSelect, TopSelectKept
  <2>2. m \in Trees /\ k \in DOMAIN Items(m) /\ Items(v)[k] = Visited(rl)[Items(m)[k]]
    BY <1>0, <1>2, <2>1, VisitedQuery
  <2>3. OneValue(Items(m)[k])
    BY <2>1, <2>2
  <2> HIDE DEF m, v
  <2>4. Items(m)[k] \in Trees /\ Items(m)[k].kind \in ItemKinds
    BY <2>1, <2>2, ItemsAreTrees
  <2>5. OneValue(Visited(rl)[Items(m)[k]])
    BY <2>3, <2>4, OneValueVisited
  <2> QED BY <2>2, <2>5
<1> HIDE DEF v
<1>3. v \in Scalars
  BY <1>1, <1>2 DEF Scalars
<1> QED BY <1>3 DEF v

LEMMA SubqueriesScalar ==
  ASSUME NEW n \in Trees
  PROVE  Visited("subquery")[n] \in Scalars
<1> DEFINE rl == "subquery"
           m == RemoveSubquery(n)
           d == MaxDepth
<1>0. PreVisit(rl, n) = m
  BY DEF PreVisit
<1>1. d \in 1 .. MaxDepth /\ n \in Over(Trees, d) /\ \A x \in Trees : Made(rl, x) => x \in Trees
  BY WholeLevel
<1>2. ASSUME TopSelect(m), NEW k \in DOMAIN Items(m) PROVE OneValue(Items(m)[k])
  <2> HIDE DEF d
  <2>1. TopSelect(n)
    <3>1. ~TopSelect(n) => m = n
      BY <1>1, RemoveSubqueryOver
    <3> QED BY <1>2, <3>1
  <2>2. Items(m) = [j \in DOMAIN Items(n) |-> ScalarItem(Items(n)[j])]
    BY <1>1, <2>1, RemoveSubqueryOver
  <2> HIDE DEF m
  <2>3. k \in DOMAIN Items(n) /\ Items(m)[k] = ScalarItem(Items(n)[k])
    BY <1>2, <2>2
  <2> DEFINE i == Items(n)[k]
             j == ScalarItem(i)
             e == ItemExpr(i)
  <2>4. /\ j.kind = i.kind
        /\ i.kind \in {"unnamed", "aliased"} => ItemExpr(j) = Scalar(e)
    BY <1>1, <2>1, <2>3, ScalarItemOver
  <2>5. i.kind \in {"unnamed", "aliased"} => d - 4 \in 1 .. MaxDepth /\ e \in Over(Trees, d - 4) /\ e.kind \in Kinds \ Lists
    BY <1>1, <2>1, <2>3, QueryItems
  <2> HIDE DEF j, e
  <2>6. ASSUME i.kind \in {"unnamed", "aliased"}, Scalar(e).kind = "subquery"
        PROVE  HasLimit(Scalar(e).args[1]) /\ ~Correlated(Scalar(e).args[1])
    <3> DEFINE c == d - 4
    <3>1. c \in 1 .. MaxDepth /\ e \in Over(Trees, c) /\ e.kind \in Kinds \ Lists
      BY <2>5, <2>6
    <3> HIDE DEF c, rl
    <3>2. \/ Scalar(e) = e /\ e.kind # "subquery"
          \/ Scalar(e).kind = "null"
          \/ /\ Scalar(e) \in Over(Trees, c) /\ DOMAIN Scalar(e).args = {1}
             /\ e.kind = "subquery" /\ ~Correlated(e.args[1])
             /\ Scalar(e).args[1] = Limited(e.args[1]) /\ HasLimit(Limited(e.args[1]))
      <4>1. LimitOf(e.args[1]) # None
        BY DEF LimitOf, HasLimit, None
      <4> QED BY <1>1, <3>1, <4>1, ScalarOver DEF rl, HasLimit
    <3> SUFFICES ASSUME Scalar(e) \in Over(Trees, c), DOMAIN Scalar(e).args = {1},
                        e.kind = "subquery", ~Correlated(e.args[1]),
                        Scalar(e).args[1] = Limited(e.args[1]), HasLimit(Limited(e.args[1]))
                 PROVE  ~Correlated(Limited(e.args[1]))
      BY <2>6, <3>2
    <3>3. e \in Trees /\ Scalar(e) \in Trees
      BY <3>1, OverParts
    <3>4. Limited(e.args[1]) \in Trees
      <4>1. Scalar(e).args[1] \in Trees
        BY <3>3, TreeNode
      <4> QED BY <4>1
    <3>5. e.args[1] \in Trees /\ e.args[1].kind = "query"
      <4>1. 1 \in DOMAIN e.args
        BY <3>3, OneChild DEF UnaryKinds
      <4>2. Shape(e) /\ e.args[1] \in Trees
        BY <3>3, <4>1, TreeNode
      <4> QED BY <4>1, <4>2 DEF Shape, ChildKinds
    <3> QED BY <3>4, <3>5, LimitedCorrelated
  <2>7. OneValue(j)
    BY <2>4, <2>6 DEF OneValue
  <2> QED BY <2>3, <2>7 DEF j
<1> HIDE DEF m
<1>3. rl \in {"subquery", "version"}
  OBVIOUS
<1> HIDE DEF rl
<1>4. Visited(rl)[n] \in Scalars
  BY <1>0, <1>2, <1>3, ScalarsVisited
<1> QED BY <1>4 DEF rl

LEMMA VersionScalar ==
  ASSUME NEW n \in Scalars
  PROVE  Visited("version")[n] \in Scalars
<1> DEFINE rl == "version"
           m == FixVersion(n)
           d == MaxDepth
<1>0. PreVisit(rl, n) = m /\ n \in Trees
  BY DEF PreVisit, Scalars
<1>1. d \in 1 .. MaxDepth /\ n \in Over(Trees, d) /\ \A x \in Trees : Made(rl, x) => x \in Trees
  BY <1>0, WholeLevel
<1>2. ASSUME TopSelect(m), NEW k \in DOMAIN Items(m) PROVE OneValue(Items(m)[k])
  <2> HIDE DEF d
  <2>1. TopSelect(n)
    <3>1. ~TopSelect(n) => m = n
      BY <1>1, FixVersionOver
    <3> QED BY <1>2, <3>1
  <2>2. Items(m) = [j \in DOMAIN Items(n) |-> VersionItem(Items(n)[j])]
    BY <1>1, <2>1, FixVersionOver
  <2> HIDE DEF m
  <2> DEFINE i == Items(n)[k]
             j == VersionItem(i)
  <2>3. k \in DOMAIN Items(n) /\ Items(m)[k] = j
    BY <1>2, <2>2
  <2>4. OneValue(i)
    BY <2>1, <2>3 DEF Scalars
  <2>5. j = i \/ (i.kind = "unnamed" /\ ItemExpr(j) = ItemExpr(i))
    <3>1. \A x \in Trees : x.kind = "aliased" => x \in Trees
      OBVIOUS
    <3> QED BY <1>1, <2>1, <2>3, <3>1, VersionItemOver
  <2> HIDE DEF i, j
  <2>6. OneValue(j)
    BY <2>4, <2>5 DEF OneValue
  <2> QED BY <2>3, <2>6
<1> HIDE DEF m
<1>3. rl \in {"subquery", "version"}
  OBVIOUS
<1> HIDE DEF rl
<1>4. Visited(rl)[n] \in Scalars
  BY <1>0, <1>2, <1>3, ScalarsVisited
<1> QED BY <1>4 DEF rl

\* After the last rule every query in a statement is such a one.
LEMMA AllScalar ==
  ASSUME NEW t, NEW old, NEW new, Chain(t, old, new, 12)
  PROVE  \A q \in Nodes(new) : q \in Scalars
<1>1. /\ t[10] \in Trees /\ t[12] = new
      /\ t[11] = Visited("subquery")[t[10]] /\ t[12] = Visited("version")[t[11]]
  BY ChainSteps
<1>2. t[11] \in All(Scalars)
  <2> DEFINE rl == "subquery"
  <2>1. rl \in Visitors /\ Puts(rl, Trees)
    BY DEF Visitors, Puts
  <2>2. \A n \in All(Trees) : Visited(rl)[n] \in Scalars
    BY AllTrees, SubqueriesScalar
  <2> HIDE DEF rl
  <2>3. Visited(rl)[t[10]] \in All(Scalars)
    BY <1>1, <2>1, <2>2, AllTrees, VisitNodes
  <2> QED BY <1>1, <2>3 DEF rl
<1>3. t[12] \in All(Scalars)
  <2> DEFINE rl == "version"
  <2>1. rl \in Visitors
    BY DEF Visitors
  <2>2. Puts(rl, Scalars)
    BY DEF Puts, Made, Scalars, TopSelect
  <2>3. \A n \in All(Scalars) : Visited(rl)[n] \in Scalars
    <3>1. All(Scalars) \subseteq Scalars
      BY AllOver DEF All
    <3> QED BY <3>1, VersionScalar
  <2> HIDE DEF rl
  <2>4. Visited(rl)[t[11]] \in All(Scalars)
    BY <1>2, <2>1, <2>2, <2>3, VisitNodes
  <2> QED BY <1>1, <2>4 DEF rl
<1> QED BY <1>1, <1>3 DEF All

-----------------------------------------------------------------------------
(* The query that a cast becomes names only its own tables.                *)

LEMMA StringOver ==
  ASSUME NEW S, NEW o \in Trees, IsString(o), \A x \in Trees : IsString(x) => x \in S
  PROVE  o \in All(S)
<1>1. ASSUME NEW m \in Trees, m.kind \in {"string", "digits"} PROVE m \in All(S)
  <2>1. m.args = <<>>
    <3>1. Shape(m)
      BY TreeNode
    <3> QED BY <1>1, <3>1 DEF Shape, LeafKinds
  <2>2. m \in S
    BY <1>1 DEF IsString, StringKinds
  <2> QED BY <2>1, <2>2, AllOver
<1>2. ASSUME o.kind = "braces" PROVE o \in All(S)
  <2>1. ASSUME NEW i \in DOMAIN o.args PROVE o.args[i] \in All(S)
    <3>1. Shape(o) /\ o.args[i] \in Trees
      BY TreeNode
    <3>2. o.args[i].kind \in ChildKinds(o.kind, i)
      BY <3>1 DEF Shape
    <3>3. o.args[i].kind = "string"
      BY <1>2, <3>2 DEF ChildKinds
    <3> QED BY <1>1, <3>1, <3>3
  <2> QED BY <2>1, AllOver
<1> QED BY <1>1, <1>2 DEF IsString, StringKinds

\* What stands in FROM, whatever the columns are.
LEMMA FromOf ==
  ASSUME NEW items, NEW from, NEW where, NEW order
  PROVE  From(Query(Select(items, from, where), order)) = from
BY DEF From, Query, Select, ListOf, Node

LEMMA ClassAliases ==
  ASSUME NEW o
  PROVE  {"c", "n"} \subseteq TableAliases(ClassTemplate(o))
<1> DEFINE q == ClassTemplate(o)
           c == TableAs("pg_catalog", "pg_class", "c")
           n == TableAs("pg_catalog", "pg_namespace", "n")
           p == Node("derived", None, None, None,
                  <<Query(Select(<<ItemAs(Call("parse_ident",
                     <<Node("cast", None, "text", None, <<o>>)>>), "parts")>>, <<>>, <<>>), <<>>)>>)
           items == <<Item(Column("c", "oid"))>>
           where == <<Binary("and", Binary("=", Column("n", "nspname"), Call("current_schema", <<>>)),
                            Binary("=", Column("c", "relname"), Leaf("ident", "parts")))>>
<1>1. From(q) = <<c, n, p>>
  <2>1. q = Query(Select(items, <<c, n, p>>, where), <<>>)
    BY DEF ClassTemplate
  <2> HIDE DEF q, c, n, p, items, where
  <2> QED BY <2>1, FromOf
<1>2. c.kind = "table" /\ c.alias = "c" /\ n.kind = "table" /\ n.alias = "n"
  BY DEF TableAs, Node
<1> HIDE DEF q, c, n, p
<1>3. /\ 1 \in DOMAIN From(q) /\ From(q)[1].kind = "table" /\ From(q)[1].alias = "c"
      /\ 2 \in DOMAIN From(q) /\ From(q)[2].kind = "table" /\ From(q)[2].alias = "n"
  BY <1>1, <1>2
<1>4. "c" \in TableAliases(q) /\ "n" \in TableAliases(q)
  BY <1>3 DEF TableAliases, None
<1> QED BY <1>4 DEF q

Castless == {n \in Trees : ~RegCast(n)}
Uncorrelated(q) == q \in Trees /\ q.kind = "query" /\ ~Correlated(q) /\ q \in All(Castless)

LEMMA ClassUncorrelated ==
  ASSUME NEW b \in 1 .. MaxDepth, b + Growth <= MaxDepth, NEW o \in TreesAt[b], IsString(o)
  PROVE  Uncorrelated(ClassTemplate(o))
<1> DEFINE S == {n \in Castless : n.kind # "param" /\ (n.kind = "column" => n.qual \in {"c", "n"})}
           q == ClassTemplate(o)
           c1 == b + 1
           c2 == b + 2
           c3 == b + 3
           c4 == b + 4
           c5 == b + 5
           c6 == b + 6
           c7 == b + 7
           c8 == b + 8
           c9 == b + 9
           c10 == b + 10
<1>1. /\ Under(b, c1) /\ Under(c1, c2) /\ Under(c2, c3) /\ Under(c3, c4) /\ Under(c4, c5)
      /\ Under(c5, c6) /\ Under(c6, c7) /\ Under(c7, c8) /\ Under(c8, c9) /\ Under(c9, c10)
  BY DEF Under, Growth
<1>2. c10 \in 0 .. MaxDepth /\ b \in 0 .. MaxDepth
  BY DEF Growth
<1> HIDE DEF c1, c2, c3, c4, c5, c6, c7, c8, c9, c10
<1>3. \A n \in Trees : InTemplate(n) => n \in S
  BY DEF InTemplate, FrameKinds, Castless, RegCast, RegTypes
<1>4. o \in Trees /\ \A x \in Trees : IsString(x) => x \in S
  BY <1>2, LevelsAreTrees DEF IsString, StringKinds, Castless, RegCast
<1> HIDE DEF S
<1>5. o \in Over(S, b) /\ o.kind \in Kinds \ Lists
  BY <1>2, <1>4, StringOver, OverAll DEF IsString, StringKinds, Kinds, Lists, LeafKinds
<1>6. q \in Over(S, c10) /\ q.kind = "query"
  BY <1>1, <1>3, <1>5, ClassTemplateOver
<1> HIDE DEF q
<1>7. q \in Trees /\ Nodes(q) \subseteq S
  BY <1>2, <1>6, OverTrees DEF Over
<1>8. {"c", "n"} \subseteq TableAliases(q)
  BY ClassAliases DEF q
<1>9. ~Correlated(q)
  BY <1>7, <1>8 DEF Correlated, S
<1>10. q \in All(Castless)
  BY <1>7 DEF All, S
<1> QED BY <1>6, <1>7, <1>9, <1>10 DEF Uncorrelated, q

LEMMA NameUncorrelated ==
  ASSUME NEW b \in 1 .. MaxDepth, b + Growth <= MaxDepth, NEW o \in TreesAt[b], IsString(o),
         NEW table \in Names, NEW column \in {"nspname", "typname", "proname"}
  PROVE  Uncorrelated(NameTemplate(table, column, o))
<1> DEFINE S == {n \in Castless : n.kind # "param" /\ n.kind # "column"}
           q == NameTemplate(table, column, o)
           c1 == b + 1
           c2 == b + 2
           c3 == b + 3
           c4 == b + 4
<1>1. Under(b, c1) /\ Under(c1, c2) /\ Under(c2, c3) /\ Under(c3, c4)
  BY DEF Under, Growth
<1>2. c4 \in 0 .. MaxDepth /\ b \in 0 .. MaxDepth
  BY DEF Growth
<1> HIDE DEF c1, c2, c3, c4
<1>3. \A n \in Trees : InTemplate(n) /\ n.kind # "column" => n \in S
  BY DEF InTemplate, FrameKinds, Castless, RegCast, RegTypes
<1>4. o \in Trees /\ \A x \in Trees : IsString(x) => x \in S
  BY <1>2, LevelsAreTrees DEF IsString, StringKinds, Castless, RegCast
<1> HIDE DEF S
<1>5. o \in Over(S, b) /\ o.kind \in Kinds \ Lists
  BY <1>2, <1>4, StringOver, OverAll DEF IsString, StringKinds, Kinds, Lists, LeafKinds
<1>6. q \in Over(S, c4) /\ q.kind = "query"
  BY <1>1, <1>3, <1>5, NameTemplateOver
<1> HIDE DEF q
<1>7. q \in Trees /\ Nodes(q) \subseteq S
  BY <1>2, <1>6, OverTrees DEF Over
<1>8. ~Correlated(q)
  BY <1>7 DEF Correlated, S
<1>9. q \in All(Castless)
  BY <1>7 DEF All, S
<1> QED BY <1>6, <1>7, <1>8, <1>9 DEF Uncorrelated, q

LEMMA TemplateUncorrelated ==
  ASSUME NEW b \in 1 .. MaxDepth, b + Growth <= MaxDepth, NEW o \in TreesAt[b], IsString(o), NEW type
  PROVE  Uncorrelated(Template(type, o))
<1>1. Uncorrelated(ClassTemplate(o))
  BY ClassUncorrelated
<1>2. \A table \in Names, column \in {"nspname", "typname", "proname"} :
        Uncorrelated(NameTemplate(table, column, o))
  BY NameUncorrelated
<1>3. {"pg_namespace", "pg_type", "pg_proc"} \subseteq Names
  BY Written DEF RuleNames
<1>4. \/ Template(type, o) = ClassTemplate(o)
      \/ Template(type, o) = NameTemplate("pg_namespace", "nspname", o)
      \/ Template(type, o) = NameTemplate("pg_type", "typname", o)
      \/ Template(type, o) = NameTemplate("pg_proc", "proname", o)
  BY DEF Template
<1>5. /\ Uncorrelated(NameTemplate("pg_namespace", "nspname", o))
      /\ Uncorrelated(NameTemplate("pg_type", "typname", o))
      /\ Uncorrelated(NameTemplate("pg_proc", "proname", o))
  BY <1>2, <1>3
<1> QED BY <1>1, <1>4, <1>5

-----------------------------------------------------------------------------
(* A name cast to an OID as a result column is looked up, and not dropped.  *)

StringCasts == {e \in Trees : RegCast(e) /\ IsString(e.args[1])}
Answers == {e \in Trees : e.kind = "number" \/ (e.kind = "subquery" /\ ~Correlated(e.args[1]))}

\* A cast that is no array in a string stays for the rule that replaces it.
LEMMA PreVisitCast ==
  ASSUME NEW rl \in Visitors \ {"regcast"}, NEW e, RegCast(e)
  PROVE  PreVisit(rl, e) = e
<1>0. e.kind \in {"cast", "castas"} /\ e.alias = None
  BY DEF RegCast
<1>1. ArrayAnyAll(e) = e
  BY <1>0 DEF ArrayAnyAll
<1>2. PrependCatalog(e) = e
  BY <1>0 DEF PrependCatalog
<1>3. StripCallable(e) = e
  BY <1>0 DEF StripCallable
<1>4. FixArray(e) = e
  <2>1. ~ArrayString(e)
    BY <1>0 DEF ArrayString, None
  <2> QED BY <2>1 DEF FixArray
<1>5. CurrentUser(e) = e
  BY <1>0 DEF CurrentUser
<1>6. StripCollate(e) = e
  BY <1>0 DEF StripCollate
<1>7. BareOperator(e) = e
  BY <1>0 DEF BareOperator
<1>8. ~TopSelect(e)
  BY <1>0 DEF TopSelect
<1>9. RemoveSubquery(e) = e /\ FixVersion(e) = e
  BY <1>8 DEF RemoveSubquery, FixVersion
<1> QED BY <1>1, <1>2, <1>3, <1>4, <1>5, <1>6, <1>7, <1>9 DEF PreVisit, Visitors

LEMMA StringCastVisited ==
  ASSUME NEW rl \in Visitors \ {"regcast"}, NEW e \in StringCasts
  PROVE  Visited(rl)[e] \in StringCasts
<1> DEFINE v == Visited(rl)[e]
           o == e.args[1]
           w == Visited(rl)[o]
<1>1. e \in Trees /\ RegCast(e) /\ IsString(o) /\ e.kind \in {"cast", "castas"}
  BY DEF StringCasts, RegCast
<1>2. DOMAIN e.args = {1} /\ o \in Trees
  BY <1>1, OneChild DEF UnaryKinds
<1>3. Labels(v, e) /\ \A i \in DOMAIN e.args : v.args[i] = Visited(rl)[e.args[i]]
  <2>1. PreVisit(rl, e) = e
    BY <1>1, PreVisitCast
  <2> QED BY <1>1, <2>1, VisitedPlain
<1>4. v.args[1] = w
  BY <1>2, <1>3
<1> HIDE DEF o
<1>5. Labels(w, o)
  <2>1. PreVisit(rl, o) = o
    BY <1>1, PreVisitPlain DEF Changing, IsString, StringKinds
  <2> QED BY <1>2, <2>1, VisitedPlain
<1>6. v \in Trees
  BY <1>1, VisitedStays
<1> HIDE DEF v, w
<1>7. v \in StringCasts
  BY <1>1, <1>3, <1>4, <1>5, <1>6 DEF StringCasts, RegCast, Labels, IsString, o
<1> QED BY <1>7 DEF v

LEMMA CastAnswered ==
  ASSUME NEW e \in StringCasts
  PROVE  Visited("regcast")[e] \in Answers
<1> DEFINE rl == "regcast"
           o == e.args[1]
           m == RegCastToSubquery(e)
           q == Template(e.name, o)
           v == Visited(rl)[e]
           b == Below(MaxDepth, Growth)
<1>1. e \in Trees /\ RegCast(e) /\ IsString(o) /\ e.kind \in {"cast", "castas"}
  BY DEF StringCasts, RegCast
<1>2. PreVisit(rl, e) = m /\ m = LookUp(e.name, o)
  BY <1>1 DEF PreVisit, RegCastToSubquery
<1>3. /\ m \in Trees /\ Labels(v, m) /\ DOMAIN v.args = DOMAIN m.args
      /\ \A i \in DOMAIN m.args : v.args[i] = Visited(rl)[m.args[i]]
  <2>1. rl \in Visitors
    BY DEF Visitors
  <2> DEFINE p == PreVisit(rl, e)
  <2> HIDE DEF rl
  <2>2. /\ p \in Trees /\ Labels(v, p) /\ DOMAIN v.args = DOMAIN p.args
        /\ \A i \in DOMAIN p.args : v.args[i] = Visited(rl)[p.args[i]]
    BY <1>1, <2>1, VisitedFields DEF Labels
  <2> HIDE DEF v, m, p
  <2>3. p = m
    BY <1>2 DEF p
  <2> QED BY <2>2, <2>3
<1>4. v \in Trees
  BY <1>1, VisitedStays DEF Visitors
<1>5. CASE o.kind = "digits"
  <2>1. m.kind = "number"
    BY <1>2, <1>5 DEF LookUp, Leaf, Node
  <2> HIDE DEF m, v
  <2>2. v \in Answers
    BY <1>3, <1>4, <2>1 DEF Answers, Labels
  <2> QED BY <2>2 DEF v
<1>6. CASE o.kind # "digits"
  <2>1. m = Subquery(q)
    BY <1>2, <1>6 DEF LookUp
  <2>2. m.kind = "subquery" /\ 1 \in DOMAIN m.args /\ m.args[1] = q
    BY <2>1 DEF Subquery, Node
  <2>3. b \in 1 .. MaxDepth /\ b + Growth <= MaxDepth /\ o \in TreesAt[b]
    <3>1. DOMAIN e.args = {1}
      BY <1>1, OneChild DEF UnaryKinds
    <3>2. Grows(e)
      BY <1>1 DEF Grows, RegCast, None
    <3>3. MaxDepth \in 1 .. MaxDepth /\ e \in TreesAt[MaxDepth]
      BY <1>1, SomeLevel
    <3>4. o \in TreesAt[b]
      BY <3>1, <3>2, <3>3, TreeParts
    <3>5. b \in 0 .. MaxDepth
      BY <3>3, BelowLess
    <3>6. b \in 1 .. MaxDepth
      BY <3>4, <3>5, Positive
    <3> QED BY <3>4, <3>6 DEF Below, Growth
  <2> HIDE DEF b, m, v, o
  <2>4. Uncorrelated(q)
    BY <1>1, <2>3, TemplateUncorrelated
  <2> HIDE DEF q
  <2>5. Visited(rl)[q] = q
    <3>1. rl \in Visitors
      BY DEF Visitors
    <3>2. \A n \in All(Castless) : PreVisit(rl, n) = n
      <4>1. \A n \in All(Castless) : ~RegCast(n)
        BY AllOver DEF All, Castless
      <4> QED BY <4>1 DEF PreVisit, RegCastToSubquery
    <3> HIDE DEF rl
    <3>3. q \in All(Castless)
      BY <2>4 DEF Uncorrelated
    <3> QED BY <3>1, <3>2, <3>3, VisitIdentity
  <2>6. v.kind = "subquery" /\ v.args[1] = q
    BY <1>3, <2>2, <2>5 DEF Labels
  <2>7. v \in Answers
    BY <1>4, <2>4, <2>6 DEF Answers, Uncorrelated
  <2> QED BY <2>7 DEF v
<1> QED BY <1>5, <1>6

\* The expression of a result column.
At(x, k, E) ==
  /\ x \in Trees /\ TopSelect(x) /\ k \in DOMAIN Items(x)
  /\ Items(x)[k].kind \in {"unnamed", "aliased"} /\ ItemExpr(Items(x)[k]) \in E

LEMMA AtAlias ==
  ASSUME NEW x, NEW k, NEW E, At(x, k, E)
  PROVE  At(Apply("alias", x), k, E)
<1> DEFINE m == AliasDuplicated(x)
           d == MaxDepth
<1>1. x \in Trees /\ TopSelect(x) /\ k \in DOMAIN Items(x)
  BY DEF At
<1>2. d \in 1 .. MaxDepth /\ x \in Over(Trees, d) /\ Over(Trees, d) = Trees
  BY <1>1, WholeLevel
<1> HIDE DEF d
<1>3. /\ m \in Over(Trees, d) /\ TopSelect(m)
      /\ Items(m) = [j \in DOMAIN Items(x) |-> AliasItem(x, Items(x)[j])]
      /\ \A j \in DOMAIN Items(x) :
           \/ Items(m)[j] = Items(x)[j]
           \/ Items(m)[j].kind = "aliased" /\ ItemExpr(Items(m)[j]) = ItemExpr(Items(x)[j])
  <2>1. \A t \in Trees : t.kind \in {"query", "select", "items", "aliased"} => t \in Trees
    OBVIOUS
  <2> QED BY <1>1, <1>2, <2>1, AliasOver
<1>4. Apply("alias", x) = m
  BY <1>1 DEF Apply
<1> HIDE DEF m
<1>5. m \in Trees /\ k \in DOMAIN Items(m)
  BY <1>1, <1>2, <1>3
<1>6. Items(m)[k].kind \in {"unnamed", "aliased"} /\ ItemExpr(Items(m)[k]) \in E
  BY <1>1, <1>3 DEF At
<1> QED BY <1>3, <1>4, <1>5, <1>6 DEF At

LEMMA AtResolve ==
  ASSUME NEW x, NEW k, NEW E, At(x, k, E)
  PROVE  At(Apply("resolve", x), k, E)
<1> DEFINE m == ResolveUnqualified(x)
           d == MaxDepth
<1>1. x \in Trees /\ TopSelect(x) /\ k \in DOMAIN Items(x)
  BY DEF At
<1>2. d \in 1 .. MaxDepth /\ x \in Over(Trees, d) /\ Over(Trees, d) = Trees
  BY <1>1, WholeLevel
<1>3. Apply("resolve", x) = m
  BY <1>1 DEF Apply
<1>4. CASE OneTable(x)
  <2>1. \A table \in Names : Requalifies(Trees, table)
    BY DEF Requalifies
  <2>2. \A t \in Trees : t.kind \in {"query", "select"} => t \in Trees
    OBVIOUS
  <2> HIDE DEF d
  <2>3. m \in Over(Trees, d) /\ TopSelect(m) /\ Items(m) = Items(x)
    BY <1>1, <1>2, <1>4, <2>1, <2>2, ResolveOver
  <2> HIDE DEF m
  <2> QED BY <1>2, <1>3, <2>3 DEF At
<1>5. CASE ~OneTable(x)
  BY <1>3, <1>5 DEF ResolveUnqualified
<1> QED BY <1>4, <1>5

\* Most visitors go to the column without a look at the query.
LEMMA AtVisited ==
  ASSUME NEW rl \in Visitors \ {"subquery", "version"}, NEW x, NEW k, NEW E, NEW F, At(x, k, E),
         \A e \in E : e \in Trees => Visited(rl)[e] \in F
  PROVE  At(Visited(rl)[x], k, F)
<1> DEFINE v == Visited(rl)[x]
           i == Items(x)[k]
<1>1. x \in Trees /\ TopSelect(x) /\ k \in DOMAIN Items(x) /\ i.kind \in {"unnamed", "aliased"} /\ ItemExpr(i) \in E
  BY DEF At
<1>2. PreVisit(rl, x) = x
  BY <1>1, PreVisitQuery DEF TopSelect
<1>3. TopSelect(v) /\ k \in DOMAIN Items(v) /\ Items(v)[k] = Visited(rl)[i]
  BY <1>1, <1>2, VisitedQuery
<1>4. v \in Trees
  BY <1>1, VisitedStays
<1>5. i \in Trees
  BY <1>1, ItemsAreTrees
<1> HIDE DEF i, v
<1>6. Labels(Visited(rl)[i], i) /\ ItemExpr(Visited(rl)[i]) = Visited(rl)[ItemExpr(i)] /\ ItemExpr(i) \in Trees
  BY <1>1, <1>5, VisitedItem
<1>7. Items(v)[k].kind \in {"unnamed", "aliased"} /\ ItemExpr(Items(v)[k]) \in F
  BY <1>1, <1>3, <1>6 DEF Labels
<1>8. At(v, k, F)
  BY <1>3, <1>4, <1>7 DEF At
<1> QED BY <1>8 DEF v

\* The two that do look leave it to what they make of the query.
LEMMA AtMade ==
  ASSUME NEW rl \in {"subquery", "version"}, NEW x \in Trees, NEW k, NEW R,
         At(PreVisit(rl, x), k, R), \A e \in R : e \in Trees => Visited(rl)[e] \in R
  PROVE  At(Visited(rl)[x], k, R)
<1> DEFINE m == PreVisit(rl, x)
           v == Visited(rl)[x]
           i == Items(m)[k]
           e == ItemExpr(i)
<1>0. rl \in Visitors \ {"collate"}
  BY DEF Visitors
<1>1. /\ m \in Trees /\ TopSelect(m) /\ k \in DOMAIN Items(m)
      /\ i.kind \in {"unnamed", "aliased"} /\ e \in R
  BY DEF At
<1>2. TopSelect(v) /\ k \in DOMAIN Items(v) /\ Items(v)[k] = Visited(rl)[i]
  BY <1>0, <1>1, VisitedQuery
<1>3. v \in Trees
  BY <1>0, VisitedStays
<1> HIDE DEF m, v
<1>4. i \in Trees
  BY <1>1, ItemsAreTrees
<1> HIDE DEF i
<1>5. Labels(Visited(rl)[i], i) /\ ItemExpr(Visited(rl)[i]) = Visited(rl)[e] /\ e \in Trees
  BY <1>0, <1>1, <1>4, VisitedItem
<1> HIDE DEF e
<1>6. Visited(rl)[e] \in R
  BY <1>1, <1>5
<1>7. Items(v)[k].kind \in {"unnamed", "aliased"} /\ ItemExpr(Items(v)[k]) \in R
  BY <1>1, <1>2, <1>5, <1>6 DEF Labels
<1>8. At(v, k, R)
  BY <1>2, <1>3, <1>7 DEF At
<1> QED BY <1>8 DEF v

LEMMA AtSubquery ==
  ASSUME NEW x, NEW k, NEW E, NEW R, At(x, k, E),
         \A e \in E : e \in Trees /\ Scalar(e) \in Trees => Scalar(e) \in R,
         \A e \in R : e \in Trees => Visited("subquery")[e] \in R
  PROVE  At(Visited("subquery")[x], k, R)
<1> DEFINE rl == "subquery"
           m == RemoveSubquery(x)
           i == Items(x)[k]
           j == ScalarItem(i)
           e == ItemExpr(i)
           d == MaxDepth
           c == d - 4
<1>1. /\ x \in Trees /\ TopSelect(x) /\ k \in DOMAIN Items(x)
      /\ i.kind \in {"unnamed", "aliased"} /\ e \in E
  BY DEF At
<1>2. d \in 1 .. MaxDepth /\ x \in Over(Trees, d) /\ \A t \in Trees : Made(rl, t) => t \in Trees
  BY <1>1, WholeLevel
<1> HIDE DEF d
<1>3. m \in TreesAt[d] /\ TopSelect(m) /\ Items(m) = [l \in DOMAIN Items(x) |-> ScalarItem(Items(x)[l])]
  BY <1>1, <1>2, RemoveSubqueryOver
<1>4. j.kind = i.kind /\ ItemExpr(j) = Scalar(e)
  BY <1>1, <1>2, ScalarItemOver
<1>5. c \in 1 .. MaxDepth /\ e \in Over(Trees, c) /\ e.kind \in Kinds \ Lists
  BY <1>1, <1>2, QueryItems
<1> HIDE DEF c, m, j
<1>6. k \in DOMAIN Items(m) /\ Items(m)[k] = j
  BY <1>1, <1>3 DEF j
<1> HIDE DEF i, e
<1>7. Scalar(e) \in R
  <2>1. Scalar(e) \in Over(Trees, c)
    BY <1>2, <1>5, ScalarOver
  <2>2. c \in 0 .. MaxDepth
    BY <1>5
  <2>3. e \in Trees /\ Scalar(e) \in Trees
    BY <1>5, <2>1, <2>2, OverTrees
  <2> QED BY <1>1, <2>3
<1>8. At(m, k, R)
  <2>1. m \in Trees
    BY <1>2, <1>3, LevelsAreTrees
  <2> QED BY <1>1, <1>3, <1>4, <1>6, <1>7, <2>1 DEF At
<1>9. PreVisit(rl, x) = m
  BY DEF PreVisit, m
<1>10. rl \in {"subquery", "version"} /\ \A t \in R : t \in Trees => Visited(rl)[t] \in R
  OBVIOUS
<1> HIDE DEF rl
<1>11. At(Visited(rl)[x], k, R)
  BY <1>1, <1>8, <1>9, <1>10, AtMade
<1> QED BY <1>11 DEF rl

LEMMA AtVersion ==
  ASSUME NEW x, NEW k, NEW R, At(x, k, R),
         \A e \in R : e \in Trees => Visited("version")[e] \in R
  PROVE  At(Visited("version")[x], k, R)
<1> DEFINE rl == "version"
           m == FixVersion(x)
           i == Items(x)[k]
           j == VersionItem(i)
           d == MaxDepth
<1>1. /\ x \in Trees /\ TopSelect(x) /\ k \in DOMAIN Items(x)
      /\ i.kind \in {"unnamed", "aliased"} /\ ItemExpr(i) \in R
  BY DEF At
<1>2. d \in 1 .. MaxDepth /\ x \in Over(Trees, d) /\ \A t \in Trees : Made(rl, t) => t \in Trees
  BY <1>1, WholeLevel
<1> HIDE DEF d
<1>3. m \in TreesAt[d] /\ TopSelect(m) /\ Items(m) = [l \in DOMAIN Items(x) |-> VersionItem(Items(x)[l])]
  BY <1>1, <1>2, FixVersionOver
<1>4. j = i \/ (j.kind = "aliased" /\ ItemExpr(j) = ItemExpr(i))
  <2>1. \A t \in Trees : t.kind = "aliased" => t \in Trees
    OBVIOUS
  <2> QED BY <1>1, <1>2, <2>1, VersionItemOver
<1> HIDE DEF m, j
<1>5. k \in DOMAIN Items(m) /\ Items(m)[k] = j
  BY <1>1, <1>3 DEF j
<1> HIDE DEF i
<1>6. At(m, k, R)
  <2>1. m \in Trees
    BY <1>2, <1>3, LevelsAreTrees
  <2> QED BY <1>1, <1>3, <1>4, <1>5, <2>1 DEF At
<1>7. PreVisit(rl, x) = m
  BY DEF PreVisit, m
<1>8. rl \in {"subquery", "version"} /\ \A t \in R : t \in Trees => Visited(rl)[t] \in R
  OBVIOUS
<1> HIDE DEF rl
<1>9. At(Visited(rl)[x], k, R)
  BY <1>1, <1>6, <1>7, <1>8, AtMade
<1> QED BY <1>9 DEF rl

\* What a cast of a name is in the end.
Results == {e \in Trees : e.kind \in {"number", "subquery"}}

LEMMA ResultVisited ==
  ASSUME NEW rl \in {"subquery", "version"}, NEW e \in Results
  PROVE  Visited(rl)[e] \in Results
<1>1. rl \in Visitors
  BY DEF Visitors
<1>2. e \in Trees /\ e.kind \in {"number", "subquery"}
  BY DEF Results
<1>3. PreVisit(rl, e) = e
  BY <1>1, <1>2, PreVisitPlain DEF Changing
<1>4. Labels(Visited(rl)[e], e) /\ Visited(rl)[e] \in Trees
  BY <1>1, <1>2, <1>3, VisitedPlain, VisitedStays
<1> QED BY <1>2, <1>4 DEF Results, Labels

LEMMA AnswerScalar ==
  ASSUME NEW e \in Answers, Scalar(e) \in Trees
  PROVE  Scalar(e) \in Results
<1>1. CASE e.kind # "subquery"
  BY <1>1 DEF Scalar, Answers, Results
<1>2. CASE e.kind = "subquery"
  <2>1. ~Correlated(e.args[1])
    BY <1>2 DEF Answers
  <2>2. Scalar(e) = WithArg(e, 1, Limited(e.args[1]))
    BY <1>2, <2>1 DEF Scalar
  <2>3. WithArg(e, 1, Limited(e.args[1])).kind = e.kind
    <3>1. e \in Record(Trees)
      BY TreeNode DEF Answers
    <3> QED BY <3>1 DEF WithArg, WithArgs, Record
  <2> QED BY <1>2, <2>2, <2>3 DEF Results
<1> QED BY <1>1, <1>2


LEMMA CastsLookedUp ==
  ASSUME NEW t, NEW old, NEW new, Chain(t, old, new, 12), NEW k, At(old, k, StringCasts)
  PROVE  At(new, k, Results)
<1> DEFINE C == StringCasts
           A == Answers
           R == Results
<1>1. /\ t[0] = old /\ t[12] = new
      /\ t[1] = Apply("alias", t[0]) /\ t[2] = Apply("resolve", t[1])
      /\ t[3] = Visited("anyall")[t[2]] /\ t[4] = Visited("catalog")[t[3]]
      /\ t[5] = Visited("callable")[t[4]] /\ t[6] = Visited("array")[t[5]]
      /\ t[7] = Visited("user")[t[6]] /\ t[8] = Visited("collate")[t[7]]
      /\ t[9] = Visited("operator")[t[8]] /\ t[10] = Visited("regcast")[t[9]]
      /\ t[11] = Visited("subquery")[t[10]] /\ t[12] = Visited("version")[t[11]]
  BY ChainSteps
<1>2. ASSUME NEW rl \in Visitors \ {"regcast", "subquery", "version"}, NEW x, At(x, k, C)
      PROVE  At(Visited(rl)[x], k, C)
  <2>1. \A e \in C : e \in Trees => Visited(rl)[e] \in C
    BY StringCastVisited
  <2> QED BY <1>2, <2>1, AtVisited
<1>3. At(t[2], k, C)
  BY <1>1, AtAlias, AtResolve
<1>4. {"anyall", "catalog", "callable", "array", "user", "collate", "operator"}
        \subseteq Visitors \ {"regcast", "subquery", "version"}
  BY DEF Visitors
<1>5. At(t[3], k, C)
  BY <1>1, <1>2, <1>3, <1>4
<1>6. At(t[4], k, C)
  BY <1>1, <1>2, <1>4, <1>5
<1>7. At(t[5], k, C)
  BY <1>1, <1>2, <1>4, <1>6
<1>8. At(t[6], k, C)
  BY <1>1, <1>2, <1>4, <1>7
<1>9. At(t[7], k, C)
  BY <1>1, <1>2, <1>4, <1>8
<1>10. At(t[8], k, C)
  BY <1>1, <1>2, <1>4, <1>9
<1>11. At(t[9], k, C)
  BY <1>1, <1>2, <1>4, <1>10
<1>12. At(t[10], k, A)
  <2> DEFINE rl == "regcast"
  <2>1. rl \in Visitors \ {"subquery", "version"}
    BY DEF Visitors
  <2>2. \A e \in C : e \in Trees => Visited(rl)[e] \in A
    BY CastAnswered
  <2> HIDE DEF rl, C, A
  <2>3. At(Visited(rl)[t[9]], k, A)
    BY <1>11, <2>1, <2>2, AtVisited
  <2> QED BY <1>1, <2>3 DEF rl
<1>13. At(t[11], k, R)
  BY <1>1, <1>12, AnswerScalar, ResultVisited, AtSubquery
<1>14. At(t[12], k, R)
  BY <1>1, <1>13, ResultVisited, AtVersion
<1> QED BY <1>1, <1>14

\* The subqueries with a limit, or without one where it is "".
WithLimit(limit) == {e \in Trees : e.kind = "subquery" /\ e.args[1].name = limit}

\* What becomes of them as columns.
InTheEnd(limit) == {e \in Trees : e.kind = "null"} \union WithLimit(IF limit = None THEN "limit" ELSE limit)

LEMMA LimitVisited ==
  ASSUME NEW rl \in Visitors, NEW limit, NEW e \in WithLimit(limit)
  PROVE  Visited(rl)[e] \in WithLimit(limit)
<1> DEFINE v == Visited(rl)[e]
           q == e.args[1]
           w == Visited(rl)[q]
<1>1. e \in Trees /\ e.kind = "subquery" /\ q.name = limit
  BY DEF WithLimit
<1>2. DOMAIN e.args = {1} /\ q \in Trees /\ q.kind = "query"
  <2>1. DOMAIN e.args = {1} /\ q \in Trees
    BY <1>1, OneChild DEF UnaryKinds
  <2>2. Shape(e)
    BY <1>1, TreeNode
  <2> QED BY <1>1, <2>1, <2>2 DEF Shape, ChildKinds
<1>3. Labels(v, e) /\ v.args[1] = w
  <2>1. PreVisit(rl, e) = e
    BY <1>1, PreVisitPlain DEF Changing
  <2> QED BY <1>1, <1>2, <2>1, VisitedPlain
<1>4. v \in Trees
  BY <1>1, VisitedStays
<1> HIDE DEF v, q
<1>5. w.name = q.name
  <2>1. w.name = PreVisit(rl, q).name
    BY <1>2, VisitedFields
  <2>2. CASE rl \in {"subquery", "version"}
    <3>1. Relabelled(rl, q, PreVisit(rl, q))
      BY <1>2, <2>2, Relabels
    <3> QED BY <1>2, <2>1, <2>2, <3>1 DEF Relabelled, Labels
  <2>3. CASE rl \notin {"subquery", "version"}
    <3>1. PreVisit(rl, q) = q
      BY <1>2, <2>3, PreVisitQuery
    <3> QED BY <2>1, <3>1
  <2> QED BY <2>2, <2>3
<1> HIDE DEF w
<1>6. v \in WithLimit(limit)
  BY <1>1, <1>3, <1>4, <1>5 DEF WithLimit, Labels
<1> QED BY <1>6 DEF v

LEMMA LimitScalar ==
  ASSUME NEW limit, NEW e \in WithLimit(limit), Scalar(e) \in Trees
  PROVE  Scalar(e) \in InTheEnd(limit)
<1> DEFINE q == e.args[1]
           b == MaxDepth
<1>1. e \in Trees /\ e.kind = "subquery" /\ q.name = limit /\ e.kind \in Kinds \ Lists
  BY DEF WithLimit, Kinds, UnaryKinds, Lists
<1>2. b \in 1 .. MaxDepth /\ e \in Over(Trees, b) /\ \A x \in Trees : Made("subquery", x) => x \in Trees
  BY <1>1, WholeLevel
<1> HIDE DEF b, q
<1>3. \/ Scalar(e).kind = "null"
      \/ Scalar(e).kind = "subquery" /\ Scalar(e).args[1].name = LimitOf(q)
  BY <1>1, <1>2, ScalarOver DEF q
<1>4. LimitOf(q) = IF limit = None THEN "limit" ELSE limit
  BY <1>1 DEF LimitOf, HasLimit
<1> QED BY <1>3, <1>4 DEF InTheEnd, WithLimit

LEMMA EndVisited ==
  ASSUME NEW rl \in {"subquery", "version"}, NEW limit, NEW e \in InTheEnd(limit)
  PROVE  Visited(rl)[e] \in InTheEnd(limit)
<1>1. rl \in Visitors
  BY DEF Visitors
<1>2. CASE e.kind = "null" /\ e \in Trees
  <2>1. PreVisit(rl, e) = e
    BY <1>1, <1>2, PreVisitPlain DEF Changing
  <2>2. Labels(Visited(rl)[e], e) /\ Visited(rl)[e] \in Trees
    BY <1>1, <1>2, <2>1, VisitedPlain, VisitedStays
  <2> QED BY <1>2, <2>2 DEF InTheEnd, Labels
<1>3. CASE e \in WithLimit(IF limit = None THEN "limit" ELSE limit)
  BY <1>1, <1>3, LimitVisited DEF InTheEnd
<1> QED BY <1>2, <1>3 DEF InTheEnd

LEMMA LimitsKept ==
  ASSUME NEW t, NEW old, NEW new, Chain(t, old, new, 12), NEW k, NEW limit, At(old, k, WithLimit(limit))
  PROVE  At(new, k, InTheEnd(limit))
<1> DEFINE W == WithLimit(limit)
           R == InTheEnd(limit)
<1>1. /\ t[0] = old /\ t[12] = new
      /\ t[1] = Apply("alias", t[0]) /\ t[2] = Apply("resolve", t[1])
      /\ t[3] = Visited("anyall")[t[2]] /\ t[4] = Visited("catalog")[t[3]]
      /\ t[5] = Visited("callable")[t[4]] /\ t[6] = Visited("array")[t[5]]
      /\ t[7] = Visited("user")[t[6]] /\ t[8] = Visited("collate")[t[7]]
      /\ t[9] = Visited("operator")[t[8]] /\ t[10] = Visited("regcast")[t[9]]
      /\ t[11] = Visited("subquery")[t[10]] /\ t[12] = Visited("version")[t[11]]
  BY ChainSteps
<1>2. ASSUME NEW rl \in Visitors \ {"subquery", "version"}, NEW x, At(x, k, W)
      PROVE  At(Visited(rl)[x], k, W)
  <2>1. \A e \in W : e \in Trees => Visited(rl)[e] \in W
    BY LimitVisited
  <2> HIDE DEF W
  <2> QED BY <1>2, <2>1, AtVisited
<1>3. {"anyall", "catalog", "callable", "array", "user", "collate", "operator", "regcast"}
        \subseteq Visitors \ {"subquery", "version"}
  BY DEF Visitors
<1>4. /\ \A e \in W : e \in Trees /\ Scalar(e) \in Trees => Scalar(e) \in R
      /\ \A e \in R : e \in Trees => Visited("subquery")[e] \in R
      /\ \A e \in R : e \in Trees => Visited("version")[e] \in R
  BY LimitScalar, EndVisited
<1> HIDE DEF W, R
<1>5. At(t[2], k, W)
  BY <1>1, AtAlias, AtResolve DEF W
<1>6. At(t[3], k, W)
  BY <1>1, <1>2, <1>3, <1>5
<1>7. At(t[4], k, W)
  BY <1>1, <1>2, <1>3, <1>6
<1>8. At(t[5], k, W)
  BY <1>1, <1>2, <1>3, <1>7
<1>9. At(t[6], k, W)
  BY <1>1, <1>2, <1>3, <1>8
<1>10. At(t[7], k, W)
  BY <1>1, <1>2, <1>3, <1>9
<1>11. At(t[8], k, W)
  BY <1>1, <1>2, <1>3, <1>10
<1>12. At(t[9], k, W)
  BY <1>1, <1>2, <1>3, <1>11
<1>13. At(t[10], k, W)
  BY <1>1, <1>2, <1>3, <1>12
<1>14. At(t[11], k, R)
  BY <1>1, <1>4, <1>13, AtSubquery
<1>15. At(t[12], k, R)
  BY <1>1, <1>4, <1>14, AtVersion
<1> QED BY <1>1, <1>15 DEF R

\* Whatever a statement is, each column that a SELECT anywhere in it computes from
\* a subquery has a limit in the end: the one the client gave it, and LIMIT 1
\* where there was none.  A cast of a name to an OID is looked up or read as a
\* number, and not dropped.
THEOREM StatementsScalar == RewriteSpec => []ScalarSubqueries
<1>1. RewriteInv => ScalarSubqueries
  <2> SUFFICES ASSUME RewriteInv, NEW i \in Rewritten
               PROVE  /\ \A q \in Nodes(statements[i]) :
                           TopSelect(q) => \A e \in Subqueries(q) : HasLimit(e.args[1])
                      /\ TopSelect(parsed[i]) =>
                           \A k \in DOMAIN Items(parsed[i]) :
                             LET old == Items(parsed[i])[k] new == Items(statements[i])[k] IN
                             /\ old.kind = "unnamed" /\ RegCast(ItemExpr(old)) /\ IsString(ItemExpr(old).args[1])
                                  => ItemExpr(new).kind # "null"
                             /\ ItemSubquery(old) =>
                                  \/ ItemExpr(new).kind = "null"
                                  \/ ItemExpr(new).args[1].name =
                                       IF HasLimit(ItemExpr(old).args[1])
                                       THEN ItemExpr(old).args[1].name ELSE "limit"
    BY DEF ScalarSubqueries
  <2>1. PICK t : Chain(t, parsed[i], statements[i], 12)
    BY RewrittenChain
  <2>2. ASSUME NEW q \in Nodes(statements[i]), TopSelect(q), NEW e \in Subqueries(q)
        PROVE  HasLimit(e.args[1])
    <3>1. \A k \in DOMAIN Items(q) : OneValue(Items(q)[k])
      BY <2>1, <2>2, AllScalar DEF Scalars
    <3>2. PICK k \in DOMAIN Items(q) :
            Items(q)[k].kind \in {"unnamed", "aliased"} /\ e = ItemExpr(Items(q)[k]) /\ e.kind = "subquery"
      BY <2>2 DEF Subqueries, ItemSubquery
    <3> QED BY <3>1, <3>2 DEF OneValue
  <2>3. ASSUME TopSelect(parsed[i]), NEW k \in DOMAIN Items(parsed[i]),
               Items(parsed[i])[k].kind = "unnamed", RegCast(ItemExpr(Items(parsed[i])[k])),
               IsString(ItemExpr(Items(parsed[i])[k]).args[1])
        PROVE  ItemExpr(Items(statements[i])[k]).kind # "null"
    <3>1. parsed[i] \in Trees
      BY <2>1, ChainSteps
    <3>2. ItemExpr(Items(parsed[i])[k]) \in Trees
      BY <2>3, <3>1, ItemsAreTrees
    <3>3. At(parsed[i], k, StringCasts)
      BY <2>3, <3>1, <3>2 DEF At, StringCasts
    <3>4. At(statements[i], k, Results)
      BY <2>1, <3>3, CastsLookedUp
    <3> QED BY <3>4 DEF At, Results
  <2>4. ASSUME TopSelect(parsed[i]), NEW k \in DOMAIN Items(parsed[i]), ItemSubquery(Items(parsed[i])[k])
        PROVE  LET q == ItemExpr(Items(parsed[i])[k]).args[1] e == ItemExpr(Items(statements[i])[k]) IN
               \/ e.kind = "null"
               \/ e.args[1].name = IF HasLimit(q) THEN q.name ELSE "limit"
    <3> DEFINE q == ItemExpr(Items(parsed[i])[k]).args[1]
               e == ItemExpr(Items(statements[i])[k])
    <3>1. parsed[i] \in Trees
      BY <2>1, ChainSteps
    <3>2. ItemExpr(Items(parsed[i])[k]) \in Trees
      BY <2>4, <3>1, ItemsAreTrees DEF ItemSubquery
    <3>3. At(parsed[i], k, WithLimit(q.name))
      BY <2>4, <3>1, <3>2 DEF At, WithLimit, ItemSubquery
    <3> HIDE DEF q
    <3>4. At(statements[i], k, InTheEnd(q.name))
      BY <2>1, <3>3, LimitsKept
    <3>5. e \in InTheEnd(q.name)
      BY <3>4 DEF At
    <3> HIDE DEF e
    <3>6. \/ e.kind = "null"
          \/ e.args[1].name = IF HasLimit(q) THEN q.name ELSE "limit"
      BY <3>5 DEF InTheEnd, WithLimit, HasLimit
    <3> QED BY <3>6 DEF q, e
  <2> QED BY <2>2, <2>3, <2>4
<1> QED BY <1>1, RewriteInvariant, PTL


-----------------------------------------------------------------------------
(* Bare names of comparisons.                                              *)

LEMMA BareNode ==
  ASSUME NEW n \in Trees, NEW x
  PROVE  x \in BareNames(n) <=>
           \/ n.kind = "ident" /\ n.name = x
           \/ n.kind \in {"binary", "list"} /\ \E i \in DOMAIN n.args : x \in BareNames(n.args[i])
<1> DEFINE w == "compared"
           R(t) == Reached(w)[t]
<1>1. Reached(w)[n] =
        {n} \union IF Stops(w, n) THEN {} ELSE UNION {Reached(w)[n.args[i]] : i \in DOMAIN n.args}
  BY ReachedNodes
<1>2. Stops(w, n) <=> n.kind \notin {"binary", "list"}
  BY DEF Stops
<1>3. \A t : x \in BareNames(t) <=> \E m \in R(t) : m.kind = "ident" /\ m.name = x
  BY DEF BareNames
<1> HIDE DEF w
<1>4. CASE n.kind \notin {"binary", "list"}
  <2>1. R(n) = {n}
    BY <1>1, <1>2, <1>4
  <2> QED BY <1>3, <1>4, <2>1
<1>5. CASE n.kind \in {"binary", "list"}
  <2>1. R(n) = {n} \union UNION {R(n.args[i]) : i \in DOMAIN n.args}
    BY <1>1, <1>2, <1>5
  <2> HIDE DEF R
  <2>2. x \in BareNames(n) <=>
          \/ n.kind = "ident" /\ n.name = x
          \/ \E i \in DOMAIN n.args : \E m \in R(n.args[i]) : m.kind = "ident" /\ m.name = x
    BY <1>3, <2>1
  <2> QED BY <1>3, <1>5, <2>2
<1> QED BY <1>4, <1>5

\* What names in comparisons are turned into is known where it is bare.
LEMMA BareQualified ==
  ASSUME NEW table \in Names, NEW known, NEW t \in Trees, t.kind # "list"
  PROVE  BareNames(Qualified(table, known)[t]) \subseteq known
<1> DEFINE Q == Qualified(table, known)
           S == {e \in Trees : e.kind # "list" => BareNames(Q[e]) \subseteq known}
<1>0. \A e \in Trees : Q[e] \in Trees
  <2> SUFFICES ASSUME NEW e \in Trees PROVE Q[e] \in Trees
    OBVIOUS
  <2>1. Requalifies(Trees, table)
    BY DEF Requalifies
  <2> DEFINE d == MaxDepth
  <2>2. d \in 0 .. MaxDepth /\ e \in Over(Trees, d) /\ Over(Trees, d) = Trees
    BY WholeLevel
  <2> HIDE DEF d
  <2>3. Q[e] \in Over(Trees, d)
    BY <2>1, <2>2, QualifiedOver
  <2> QED BY <2>2, <2>3
<1>1. ASSUME NEW e \in Trees, \A i \in DOMAIN e.args : e.args[i] \in S PROVE e \in S
  <2> SUFFICES ASSUME e.kind # "list" PROVE BareNames(Q[e]) \subseteq known
    OBVIOUS
  <2>1. Q[e] = CASE e.kind = "ident" /\ e.name \notin known -> Column(table, e.name)
                 [] e.kind = "binary" -> WithArgs(e, [i \in DOMAIN e.args |-> Q[e.args[i]]])
                 [] OTHER -> e
    BY QualifiedNode
  <2>2. Q[e] \in Trees
    BY <1>0
  <2> HIDE DEF Q
  <2>3. CASE e.kind = "ident" /\ e.name \notin known
    <3>1. Q[e].kind = "column"
      BY <2>1, <2>3 DEF Column, Node
    <3> QED BY <2>2, <3>1, BareNode
  <2>4. CASE e.kind = "binary"
    <3> DEFINE g == [i \in DOMAIN e.args |-> Q[e.args[i]]]
               v == WithArgs(e, g)
    <3>1. Q[e] = v
      BY <2>1, <2>4
    <3>2. v.kind = "binary" /\ v.args = g
      <4>1. e \in Record(Trees)
        BY TreeNode
      <4> HIDE DEF g
      <4> QED BY <2>4, <4>1 DEF WithArgs, Record
    <3>3. DOMAIN v.args = DOMAIN e.args /\ \A i \in DOMAIN e.args : v.args[i] = Q[e.args[i]]
      <4> HIDE DEF v
      <4> QED BY <3>2
    <3> HIDE DEF v
    <3>4. \A i \in DOMAIN e.args : e.args[i].kind # "list"
      <4>1. Shape(e)
        BY TreeNode
      <4> QED BY <2>4, <4>1 DEF Shape, ChildKinds, Lists
    <3>5. ASSUME NEW x \in BareNames(v) PROVE x \in known
      <4>1. PICK i \in DOMAIN v.args : x \in BareNames(v.args[i])
        BY <2>2, <3>1, <3>2, <3>5, BareNode
      <4> QED BY <1>1, <3>3, <3>4, <4>1
    <3> QED BY <3>1, <3>5
  <2>5. CASE e.kind # "binary" /\ (e.kind = "ident" => e.name \in known)
    <3>1. Q[e] = e
      BY <2>1, <2>5
    <3>2. \A x : x \in BareNames(e) => x \in known
      BY <2>5, BareNode
    <3> QED BY <3>1, <3>2
  <2> QED BY <2>3, <2>4, <2>5
<1> HIDE DEF S
<1>2. Trees \subseteq S
  BY <1>1, TreeInduction
<1> QED BY <1>2 DEF S

LEMMA BareQualifyAll ==
  ASSUME NEW table \in Names, NEW known, NEW l \in Trees, l.kind = "list"
  PROVE  BareNames(QualifyAll(l, table, known)) \subseteq known
<1> DEFINE m == QualifyAll(l, table, known)
           d == MaxDepth
<1>1. d \in 1 .. MaxDepth /\ l \in Over(Trees, d) /\ Over(Trees, d) = Trees
  BY WholeLevel
<1> HIDE DEF d
<1>2. Requalifies(Trees, table)
  BY DEF Requalifies
<1>3. m \in Over(Trees, d)
  BY <1>1, <1>2, QualifyAllOver
<1>4. /\ m.kind = "list" /\ DOMAIN m.args = DOMAIN l.args
      /\ \A i \in DOMAIN l.args : m.args[i] = Qualified(table, known)[l.args[i]]
  BY <1>1, <1>2, QualifyAllOver
<1>5. \A i \in DOMAIN l.args : l.args[i] \in Trees /\ l.args[i].kind # "list"
  <2>1. Shape(l) /\ \A i \in DOMAIN l.args : l.args[i] \in Trees
    BY TreeNode
  <2> QED BY <2>1 DEF Shape, ChildKinds, Lists
<1> HIDE DEF m
<1>6. ASSUME NEW x \in BareNames(m) PROVE x \in known
  <2>1. m \in Trees
    BY <1>1, <1>3
  <2>2. PICK i \in DOMAIN m.args : x \in BareNames(m.args[i])
    BY <1>4, <1>6, <2>1, BareNode
  <2> QED BY <1>4, <1>5, <2>2, BareQualified
<1> QED BY <1>6 DEF m

\* Trees without a name below a COLLATE stay such until COLLATE is taken away.
Plain == {n \in Trees : ~CollatedName(n)}
BeforeCollate == {"anyall", "catalog", "callable", "array", "user"}

LEMMA PlainVisited ==
  ASSUME NEW rl \in BeforeCollate, NEW n \in Plain
  PROVE  Visited(rl)[n] \in Plain
<1> DEFINE V == Visited(rl)
           m == PreVisit(rl, n)
           v == V[n]
<1>0. rl \in Visitors \ {"collate"} /\ n \in Trees /\ ~CollatedName(n)
  BY DEF Visitors, BeforeCollate, Plain
<1>1. v \in Trees
  BY <1>0, VisitedStays
<1>2. /\ Labels(v, m) /\ m \in Trees /\ DOMAIN v.args = DOMAIN m.args
      /\ \A i \in DOMAIN m.args : v.args[i] = V[m.args[i]]
  BY <1>0, VisitedFields DEF Labels
<1>3. Relabelled(rl, n, m)
  BY <1>0, Relabels
<1> SUFFICES ASSUME CollatedName(v) PROVE FALSE
  BY <1>1 DEF Plain
<1>4. v.kind \in {"unnamed", "binary", "list"}
  BY DEF CollatedName
<1>5. PICK i \in DOMAIN v.args : v.args[i].kind = "collate" /\ v.args[i].args[1].kind \in {"ident", "column", "binary"}
  BY DEF CollatedName
<1>6. n.kind = v.kind
  <2> HIDE DEF m, v
  <2> QED BY <1>0, <1>2, <1>3, <1>4 DEF Relabelled, Labels, BeforeCollate
<1>7. m = n
  <2>1. n.kind \in {"unnamed", "list"} => m = n
    BY <1>0, PreVisitPlain DEF Changing
  <2>2. n.kind = "binary" => m = n
    BY <1>0 DEF PreVisit, BeforeCollate, ArrayAnyAll, PrependCatalog, StripCallable, FixArray, ArrayString,
                CurrentUser
  <2> QED BY <1>4, <1>6, <2>1, <2>2
<1> DEFINE c == n.args[i]
           e == c.args[1]
<1>8. i \in DOMAIN n.args /\ v.args[i] = V[c] /\ c \in Trees
  BY <1>0, <1>2, <1>5, <1>7, TreeNode
<1> HIDE DEF m, v, c
<1>9. Labels(V[c], PreVisit(rl, c)) /\ Relabelled(rl, c, PreVisit(rl, c))
  BY <1>0, <1>8, VisitedFields, Relabels DEF Labels
<1>10. c.kind = "collate"
  <2>1. V[c].kind = "collate"
    BY <1>5, <1>8
  <2> HIDE DEF V
  <2> QED BY <1>9, <2>1 DEF Relabelled, Labels
<1>11. DOMAIN c.args = {1} /\ e \in Trees
  BY <1>8, <1>10, OneChild DEF UnaryKinds
<1>12. V[c].args[1] = V[e]
  <2>1. PreVisit(rl, c) = c
    BY <1>0, <1>10 DEF PreVisit, BeforeCollate, ArrayAnyAll, PrependCatalog, StripCallable, FixArray,
                ArrayString, CurrentUser
  <2>2. \A j \in DOMAIN c.args : V[c].args[j] = V[c.args[j]]
    BY <1>0, <1>8, <2>1, VisitedPlain
  <2> QED BY <1>11, <2>2
<1> HIDE DEF e
<1>13. Labels(V[e], PreVisit(rl, e)) /\ Relabelled(rl, e, PreVisit(rl, e))
  BY <1>0, <1>11, VisitedFields, Relabels DEF Labels
<1>14. e.kind \in {"ident", "column", "binary"}
  <2>1. V[e].kind \in {"ident", "column", "binary"}
    BY <1>5, <1>8, <1>12
  <2> HIDE DEF V
  <2> QED BY <1>13, <2>1 DEF Relabelled, Labels
<1>15. CollatedName(n)
  BY <1>4, <1>6, <1>8, <1>10, <1>14 DEF CollatedName, c, e
<1> QED BY <1>0, <1>15

LEMMA PlainInAll ==
  ASSUME NEW S, NEW t \in All(S)
  PROVE  t \in Trees /\ t \in S /\ \A i \in DOMAIN t.args : t.args[i] \in All(S)
<1>1. t \in Trees
  BY DEF All
<1> QED BY <1>1, AllOver

LEMMA PlainStep ==
  ASSUME NEW rl \in BeforeCollate \union {"alias", "resolve"}, NEW t \in All(Plain)
  PROVE  Apply(rl, t) \in All(Plain)
<1>1. CASE rl = "alias"
  <2>1. \A x \in Trees : x.kind \in {"query", "select", "items", "aliased"} => x \in Plain
    BY DEF Plain, CollatedName
  <2> QED BY <1>1, <2>1, AliasStep
<1>2. CASE rl = "resolve"
  <2>1. \A x \in Trees : x.kind \in {"query", "select"} => x \in Plain
    BY DEF Plain, CollatedName
  <2>2. ASSUME NEW table \in Names PROVE Requalifies(Plain, table)
    <3>1. \A n \in Trees : n.kind = "column" /\ n.qual = table => n \in Plain
      BY DEF Plain, CollatedName
    <3>2. ASSUME NEW e \in Trees, NEW f \in Trees, e \in Plain, e.kind \in {"binary", "list"},
                 f.kind = e.kind, DOMAIN f.args = DOMAIN e.args,
                 \A i \in DOMAIN e.args : Requalified(table, e.args[i], f.args[i])
          PROVE  f \in Plain
      <4>1. \A i \in DOMAIN e.args : f.args[i].kind = "collate" => f.args[i] = e.args[i]
        BY <3>2 DEF Requalified
      <4>2. ~CollatedName(f)
        BY <3>2, <4>1 DEF Plain, CollatedName
      <4> QED BY <4>2 DEF Plain
    <3> QED BY <3>1, <3>2 DEF Requalifies
  <2> QED BY <1>2, <2>1, <2>2, ResolveStep
<1>3. CASE rl \in BeforeCollate
  <2>1. rl \in Visitors /\ rl # "alias" /\ rl # "resolve"
    BY <1>3 DEF BeforeCollate, Visitors
  <2>2. Puts(rl, Plain)
    BY <1>3 DEF Puts, Plain, Made, CollatedName, BeforeCollate
  <2>3. \A n \in All(Plain) : Visited(rl)[n] \in Plain
    BY <1>3, PlainInAll, PlainVisited
  <2>4. Visited(rl)[t] \in All(Plain)
    BY <2>1, <2>2, <2>3, VisitNodes
  <2> QED BY <2>1, <2>4 DEF Apply
<1> QED BY <1>1, <1>2, <1>3

LEMMA PlainBefore ==
  ASSUME NEW t, NEW old, NEW new, Chain(t, old, new, 12), \A n \in Nodes(old) : ~CollatedName(n)
  PROVE  t[7] \in All(Plain)
<1> DEFINE P == All(Plain)
<1>1. \A j \in 1 .. 7 : t[j] = Apply(RuleOrder[j], t[j - 1]) /\ RuleOrder[j] \in BeforeCollate \union {"alias", "resolve"}
  BY DEF Chain, RuleOrder, BeforeCollate
<1>2. t[0] \in P
  <2>1. t[0] = old /\ t[0] \in Trees
    BY ChainSteps
  <2>2. Nodes(old) \subseteq Plain
    BY <2>1, NodesOf DEF Plain
  <2> QED BY <2>1, <2>2 DEF All
<1> HIDE DEF P
<1>3. \A j \in 1 .. 7 : t[j - 1] \in P => t[j] \in P
  BY <1>1, PlainStep DEF P
<1> DEFINE T == {j \in Nat : t[j] \in P}
<1>4. 0 \in T /\ \A j \in 1 .. 7 : j - 1 \in T => j \in T
  BY <1>2, <1>3
<1> HIDE DEF T
<1>5. 0 .. 7 \subseteq T
  BY <1>4, UpTo
<1>6. 7 \in T
  BY <1>5
<1> QED BY <1>6 DEF T, P

\* What the visitor for COLLATE leaves in the place of one is no part of a
\* comparison.
LEMMA CollateHides ==
  ASSUME NEW n \in Plain, n.kind \in {"binary", "list"}, NEW i \in DOMAIN n.args, n.args[i].kind = "collate"
  PROVE  LET v == Visited("collate")[n.args[i]] IN
         v \in Trees /\ v.kind \notin {"ident", "column", "binary", "list"}
<1> DEFINE rl == "collate"
           c == n.args[i]
           v == Visited(rl)[c]
           e == c.args[1]
<1>1. n \in Trees /\ ~CollatedName(n) /\ c \in Trees
  BY TreeNode DEF Plain
<1>2. DOMAIN c.args = {1} /\ e \in Trees /\ Shape(c)
  BY <1>1, OneChild, TreeNode DEF UnaryKinds
<1>3. e.kind \notin Lists
  BY <1>2 DEF Shape, ChildKinds
<1>4. e.kind \notin {"ident", "column", "binary"}
  BY <1>1 DEF CollatedName
<1>5. PreVisit(rl, c) = e
  BY DEF PreVisit, StripCollate
<1>6. rl \in Visitors
  BY DEF Visitors
<1> HIDE DEF c, rl
<1>7. v.kind = e.kind /\ v \in Trees
  <2> DEFINE p == PreVisit(rl, c)
  <2>1. v.kind = p.kind /\ v \in Trees
    BY <1>1, <1>6, VisitedFields, VisitedStays
  <2>2. p = e
    BY <1>5
  <2> HIDE DEF p, e, v
  <2> QED BY <2>1, <2>2
<1> HIDE DEF e, v
<1>8. v \in Trees /\ v.kind \notin {"ident", "column", "binary", "list"}
  BY <1>3, <1>4, <1>7 DEF Lists
<1> QED BY <1>8 DEF v, c, rl

\* A visitor makes no bare name in a comparison, and one takes current_schema away.
LEMMA BareVisited ==
  ASSUME NEW rl \in Visitors, NEW x, NEW t \in Trees, t.kind # "collate",
         rl = "collate" => t \in All(Plain), x \in BareNames(Visited(rl)[t])
  PROVE  x \in BareNames(t) /\ (rl = "user" => x # "current_schema")
<1> DEFINE V == Visited(rl)
           Kept(e) == x \in BareNames(V[e]) => x \in BareNames(e) /\ (rl = "user" => x # "current_schema")
           S == {e \in Trees : e.kind # "collate" /\ (rl = "collate" => e \in All(Plain)) => Kept(e)}
<1>1. ASSUME NEW e \in Trees, \A i \in DOMAIN e.args : e.args[i] \in S PROVE e \in S
  <2> SUFFICES ASSUME e.kind # "collate", rl = "collate" => e \in All(Plain), x \in BareNames(V[e])
               PROVE  x \in BareNames(e) /\ (rl = "user" => x # "current_schema")
    OBVIOUS
  <2> DEFINE m == PreVisit(rl, e)
             v == V[e]
  <2>1. /\ Labels(v, m) /\ m \in Trees /\ DOMAIN v.args = DOMAIN m.args
        /\ \A i \in DOMAIN m.args : v.args[i] = V[m.args[i]]
    BY VisitedFields DEF Labels
  <2>2. v \in Trees
    BY VisitedStays
  <2>3. Labels(m, e) \/ (rl # "collate" /\ Relabelled(rl, e, m))
    <3>1. CASE rl = "collate"
      BY <3>1 DEF PreVisit, StripCollate, Labels
    <3>2. CASE rl # "collate"
      BY <3>2, Relabels
    <3> QED BY <3>1, <3>2
  <2>4. \/ v.kind = "ident" /\ v.name = x
        \/ v.kind \in {"binary", "list"} /\ \E i \in DOMAIN v.args : x \in BareNames(v.args[i])
    <3> HIDE DEF V
    <3> QED BY <2>2, BareNode
  <2>5. v.kind \in {"ident", "binary", "list"} => e.kind = v.kind /\ (v.kind = "ident" => v.name = e.name)
    <3> HIDE DEF v, m
    <3> QED BY <2>1, <2>3 DEF Relabelled, Labels
  <2>6. CASE v.kind = "ident" /\ v.name = x
    <3>1. e.kind = "ident" /\ e.name = x
      BY <2>5, <2>6
    <3>2. rl = "user" => x # "current_schema"
      <4>1. ASSUME rl = "user", x = "current_schema" PROVE FALSE
        <5>1. m.kind = "call"
          BY <3>1, <4>1 DEF PreVisit, CurrentUser, Call, Node
        <5> HIDE DEF m, v
        <5> QED BY <2>1, <2>6, <5>1 DEF Labels
      <4> QED BY <4>1
    <3> QED BY <3>1, <3>2, BareNode
  <2>7. CASE v.kind \in {"binary", "list"} /\ \E i \in DOMAIN v.args : x \in BareNames(v.args[i])
    <3>1. e.kind \in {"binary", "list"}
      BY <2>5, <2>7
    <3>2. m.args = e.args
      <4>1. CASE e.kind = "list"
        BY <4>1, PreVisitPlain DEF Changing
      <4>2. CASE e.kind = "binary"
        <5>1. m = e \/ m = BareOperator(e)
          BY <4>2 DEF PreVisit, Visitors, ArrayAnyAll, PrependCatalog, StripCallable, FixArray, ArrayString,
                      CurrentUser, StripCollate, RegCastToSubquery, RegCast, RemoveSubquery, FixVersion, TopSelect
        <5>2. BareOperator(e).args = e.args
          <6>1. e \in Record(Trees)
            BY TreeNode
          <6> QED BY <6>1 DEF BareOperator, Record
        <5> QED BY <5>1, <5>2
      <4> QED BY <3>1, <4>1, <4>2
    <3>3. PICK i \in DOMAIN v.args : x \in BareNames(v.args[i])
      BY <2>7
    <3> DEFINE c == e.args[i]
    <3>4. i \in DOMAIN e.args /\ v.args[i] = V[c] /\ c \in Trees
      BY <2>1, <3>2, <3>3, TreeNode
    <3>5. c.kind # "collate"
      <4> SUFFICES ASSUME c.kind = "collate" PROVE FALSE
        OBVIOUS
      <4>1. V[c].kind \in {"ident", "binary", "list"} /\ V[c] \in Trees
        <5>1. V[c] \in Trees
          BY <3>4, VisitedStays
        <5> QED BY <3>3, <3>4, <5>1, BareNode
      <4>2. CASE rl = "collate"
        <5>1. e \in Plain
          BY <4>2, PlainInAll
        <5> QED BY <3>1, <3>4, <4>1, <4>2, <5>1, CollateHides
      <4>3. CASE rl # "collate"
        <5> HIDE DEF c
        <5>1. Labels(V[c], PreVisit(rl, c)) /\ Relabelled(rl, c, PreVisit(rl, c))
          BY <3>4, <4>3, VisitedFields, Relabels DEF Labels
        <5> HIDE DEF V
        <5> QED BY <4>1, <5>1 DEF Relabelled, Labels
      <4> QED BY <4>2, <4>3
    <3>6. rl = "collate" => c \in All(Plain)
      BY <3>4, PlainInAll
    <3>7. Kept(c)
      BY <1>1, <3>4, <3>5, <3>6
    <3>8. x \in BareNames(c) /\ (rl = "user" => x # "current_schema")
      BY <3>3, <3>4, <3>7
    <3> HIDE DEF m, v, V
    <3> QED BY <3>1, <3>4, <3>8, BareNode
  <2> QED BY <2>4, <2>6, <2>7
<1>2. Trees \subseteq S
  <2> HIDE DEF S
  <2> QED BY <1>1, TreeInduction
<1> QED BY <1>2

-----------------------------------------------------------------------------
(* What stays of the columns of a query.                                   *)

ItemKept(rl, i, j) ==
  LET e == ItemExpr(i) f == ItemExpr(j) IN
  /\ j.kind = i.kind \/ (i.kind = "unnamed" /\ j.kind = "aliased")
  /\ i.kind = "tablewildcard" => j.qual = i.qual
  /\ i.kind = "aliased" => j.alias = i.alias
  /\ i.kind = "unnamed" /\ e.kind = "ident" =>
       \/ rl = "user" /\ e.name = "current_schema"
       \/ j.kind = "unnamed" /\ f.kind = "ident" /\ f.name = e.name
  /\ j.kind = "unnamed" /\ f.kind \in {"ident", "column"} =>
       \/ rl = "collate" /\ CollatedName(i)
       \/ i.kind = "unnamed" /\ e.kind = f.kind /\ e.qual = f.qual

LEMMA ItemVisited ==
  ASSUME NEW rl \in Visitors, NEW i \in Trees, i.kind \in ItemKinds
  PROVE  ItemKept(rl, i, Visited(rl)[i])
<1> DEFINE V == Visited(rl)
           j == V[i]
           e == ItemExpr(i)
           f == ItemExpr(j)
           p == PreVisit(rl, e)
<1>1. Labels(j, i)
  <2>1. PreVisit(rl, i) = i
    BY PreVisitPlain DEF Changing, ItemKinds
  <2> QED BY <2>1, VisitedPlain
<1>2. CASE i.kind # "unnamed"
  <2> HIDE DEF j, e, f, p, V
  <2>1. j.kind = i.kind /\ j.qual = i.qual /\ j.alias = i.alias
    BY <1>1 DEF Labels
  <2>2. ItemKept(rl, i, j)
    BY <1>2, <2>1 DEF ItemKept
  <2> QED BY <2>2 DEF j, V
<1>3. CASE i.kind = "unnamed"
  <2>1. f = V[e] /\ e \in Trees
    BY <1>3, VisitedItem
  <2>2. DOMAIN i.args = {1}
    BY <1>3, OneChild DEF UnaryKinds
  <2> HIDE DEF j
  <2>3. Labels(V[e], p) /\ (rl # "collate" => Relabelled(rl, e, p))
    <3> HIDE DEF e
    <3> QED BY <2>1, VisitedFields, Relabels DEF Labels
  <2> HIDE DEF V
  <2>4. e.kind = "ident" => p = e \/ (rl = "user" /\ e.name = "current_schema")
    <3> HIDE DEF e
    <3> SUFFICES ASSUME e.kind = "ident", ~(rl = "user" /\ e.name = "current_schema") PROVE p = e
      OBVIOUS
    <3> QED BY DEF PreVisit, Visitors, ArrayAnyAll, PrependCatalog, StripCallable, FixArray, ArrayString,
                   CurrentUser, StripCollate, BareOperator, RegCastToSubquery, RegCast, RemoveSubquery,
                   FixVersion, TopSelect
  <2>5. rl = "collate" => p = e \/ (e.kind = "collate" /\ p = e.args[1])
    <3> HIDE DEF e
    <3> QED BY DEF PreVisit, StripCollate
  <2>6. p.kind \in {"ident", "column"} =>
          \/ rl = "collate" /\ CollatedName(i)
          \/ e.kind = p.kind /\ e.qual = p.qual
    <3>1. CASE rl = "collate" /\ e.kind = "collate" /\ p = e.args[1]
      <4> HIDE DEF p
      <4> QED BY <1>3, <2>2, <3>1 DEF CollatedName, ItemExpr
    <3>2. CASE rl = "collate" /\ p = e
      BY <3>2
    <3>3. CASE rl # "collate"
      <4>1. Relabelled(rl, e, p)
        BY <2>3, <3>3
      <4> HIDE DEF p, e
      <4> QED BY <4>1 DEF Relabelled, Labels
    <3> QED BY <2>5, <3>1, <3>2, <3>3
  <2> HIDE DEF e, p, f
  <2>7. f.kind = p.kind /\ f.name = p.name /\ f.qual = p.qual /\ j.kind = "unnamed"
    BY <1>1, <1>3, <2>1, <2>3 DEF Labels
  <2> QED BY <1>3, <2>4, <2>6, <2>7 DEF ItemKept, e, f, j, V
<1> QED BY <1>2, <1>3

LEMMA ItemKeptTwice ==
  ASSUME NEW rl \in {"subquery", "version"}, NEW i, NEW h, NEW j, ItemKept(rl, i, h), ItemKept(rl, h, j)
  PROVE  ItemKept(rl, i, j)
BY DEF ItemKept

LEMMA ScalarItemKept ==
  ASSUME NEW q \in Trees, TopSelect(q), NEW k \in DOMAIN Items(q)
  PROVE  ItemKept("subquery", Items(q)[k], ScalarItem(Items(q)[k]))
<1> DEFINE rl == "subquery"
           i == Items(q)[k]
           j == ScalarItem(i)
           e == ItemExpr(i)
           d == MaxDepth
           c == d - 4
<1>1. d \in 1 .. MaxDepth /\ q \in Over(Trees, d) /\ \A x \in Trees : Made(rl, x) => x \in Trees
  BY WholeLevel
<1> HIDE DEF d
<1>0. \A x \in Trees : Made("subquery", x) => x \in Trees
  OBVIOUS
<1>2. /\ j.kind = i.kind /\ j.qual = i.qual /\ j.alias = i.alias
      /\ i.kind \notin {"unnamed", "aliased"} => j = i
      /\ i.kind \in {"unnamed", "aliased"} => ItemExpr(j) = Scalar(e)
  <2>1. LET y == ScalarItem(Items(q)[k]) x == Items(q)[k] IN
        /\ y \in Over(Trees, d - 3) /\ y.kind = x.kind /\ y.kind \in ItemKinds
        /\ y.qual = x.qual /\ y.name = x.name /\ y.alias = x.alias
        /\ x.kind \notin {"unnamed", "aliased"} => y = x
        /\ x.kind \in {"unnamed", "aliased"} => DOMAIN y.args = {1} /\ ItemExpr(y) = Scalar(ItemExpr(x))
    <3> HIDE DEF i, j, e, c, rl
    <3> QED BY <1>0, <1>1, ScalarItemOver
  <2> QED BY <2>1
<1>3. i.kind = "unnamed" => c \in 1 .. MaxDepth /\ e \in Over(Trees, c) /\ e.kind \in Kinds \ Lists
  BY <1>1, QueryItems
<1> HIDE DEF j, c, i, e
<1>4. i.kind = "unnamed" => Scalar(e) = e \/ (e.kind = "subquery" /\ Scalar(e).kind \notin {"ident", "column"})
  <2> SUFFICES ASSUME i.kind = "unnamed"
               PROVE  Scalar(e) = e \/ (e.kind = "subquery" /\ Scalar(e).kind \notin {"ident", "column"})
    OBVIOUS
  <2>1. c \in 1 .. MaxDepth /\ e \in Over(Trees, c) /\ e.kind \in Kinds \ Lists
    BY <1>3
  <2>2. \/ Scalar(e) = e
        \/ e.kind = "subquery" /\ Scalar(e).kind = "null"
        \/ e.kind = "subquery" /\ Scalar(e).kind = "subquery"
    BY <1>1, <2>1, ScalarOver
  <2> QED BY <2>2
<1>5. ItemKept(rl, i, j)
  BY <1>2, <1>4 DEF ItemKept, e
<1> QED BY <1>5 DEF i, j

LEMMA VersionItemKept ==
  ASSUME NEW q \in Trees, TopSelect(q), NEW k \in DOMAIN Items(q)
  PROVE  ItemKept("version", Items(q)[k], VersionItem(Items(q)[k]))
<1> DEFINE rl == "version"
           i == Items(q)[k]
           j == VersionItem(i)
           d == MaxDepth
<1>1. d \in 1 .. MaxDepth /\ q \in Over(Trees, d) /\ \A x \in Trees : x.kind = "aliased" => x \in Trees
  BY WholeLevel
<1> HIDE DEF d
<1>2. j = i \/ (i.kind = "unnamed" /\ j.kind = "aliased" /\ i = Item(Call("version", <<>>)))
  BY <1>1, VersionItemOver
<1>3. i = Item(Call("version", <<>>)) => ItemExpr(i).kind = "call"
  BY DEF Item, Call, Node, ItemExpr
<1> HIDE DEF i, j
<1>4. ItemKept(rl, i, j)
  BY <1>2, <1>3 DEF ItemKept
<1> QED BY <1>4 DEF i, j

LEMMA QueryVisited ==
  ASSUME NEW rl \in Visitors, NEW x \in Trees, TopSelect(x)
  PROVE  LET V == Visited(rl) v == V[x] IN
         /\ TopSelect(v) /\ DOMAIN Items(v) = DOMAIN Items(x) /\ DOMAIN From(v) = DOMAIN From(x)
         /\ \A k \in DOMAIN Items(x) : ItemKept(rl, Items(x)[k], Items(v)[k])
         /\ \A k \in DOMAIN From(x) : From(v)[k].kind = From(x)[k].kind /\ From(v)[k].alias = From(x)[k].alias
         /\ Where(v) = V[Where(x)] /\ Order(v) = V[Order(x)]
<1> DEFINE V == Visited(rl)
           v == V[x]
           m == PreVisit(rl, x)
           d == MaxDepth
<1>1. d \in 1 .. MaxDepth /\ x \in Over(Trees, d) /\ \A y \in Trees : Made(rl, y) => y \in Trees
  BY WholeLevel
<1> HIDE DEF d
<1>2. /\ TopSelect(m) /\ From(m) = From(x) /\ Where(m) = Where(x) /\ Order(m) = Order(x)
      /\ DOMAIN Items(m) = DOMAIN Items(x)
      /\ \A k \in DOMAIN Items(x) :
           \/ Items(m)[k] = Items(x)[k]
           \/ rl \in {"subquery", "version"} /\ ItemKept(rl, Items(x)[k], Items(m)[k])
  <2>1. CASE rl \notin {"subquery", "version"}
    <3>1. m = x
      BY <2>1, PreVisitQuery DEF TopSelect
    <3> QED BY <3>1
  <2>2. CASE rl = "subquery"
    <3>1. m = RemoveSubquery(x)
      BY <2>2 DEF PreVisit
    <3> DEFINE n == RemoveSubquery(x)
    <3>2. /\ TopSelect(n) /\ From(n) = From(x) /\ Where(n) = Where(x) /\ Order(n) = Order(x)
          /\ Items(n) = [k \in DOMAIN Items(x) |-> ScalarItem(Items(x)[k])]
      <4>1. \A y \in Trees : Made("subquery", y) => y \in Trees
        OBVIOUS
      <4> QED BY <1>1, <4>1, RemoveSubqueryOver
    <3> HIDE DEF m, n
    <3>3. \A k \in DOMAIN Items(x) : ItemKept("subquery", Items(x)[k], ScalarItem(Items(x)[k]))
      BY ScalarItemKept
    <3>4. DOMAIN Items(n) = DOMAIN Items(x) /\ \A k \in DOMAIN Items(x) : Items(n)[k] = ScalarItem(Items(x)[k])
      BY <3>2
    <3> QED BY <2>2, <3>1, <3>2, <3>3, <3>4 DEF n
  <2>3. CASE rl = "version"
    <3>1. m = FixVersion(x)
      BY <2>3 DEF PreVisit
    <3> DEFINE n == FixVersion(x)
    <3>2. /\ TopSelect(n) /\ From(n) = From(x) /\ Where(n) = Where(x) /\ Order(n) = Order(x)
          /\ Items(n) = [k \in DOMAIN Items(x) |-> VersionItem(Items(x)[k])]
      <4>1. \A y \in Trees : Made("version", y) => y \in Trees
        OBVIOUS
      <4> QED BY <1>1, <4>1, FixVersionOver
    <3> HIDE DEF m, n
    <3>3. \A k \in DOMAIN Items(x) : ItemKept("version", Items(x)[k], VersionItem(Items(x)[k]))
      BY VersionItemKept
    <3>4. DOMAIN Items(n) = DOMAIN Items(x) /\ \A k \in DOMAIN Items(x) : Items(n)[k] = VersionItem(Items(x)[k])
      BY <3>2
    <3> QED BY <2>3, <3>1, <3>2, <3>3, <3>4 DEF n
  <2> QED BY <2>1, <2>2, <2>3
<1>3. /\ TopSelect(v) /\ m \in Trees
      /\ DOMAIN Items(v) = DOMAIN Items(m) /\ \A k \in DOMAIN Items(m) : Items(v)[k] = V[Items(m)[k]]
      /\ DOMAIN From(v) = DOMAIN From(m) /\ \A k \in DOMAIN From(m) : From(v)[k] = V[From(m)[k]]
      /\ Where(v) = V[Where(m)] /\ Order(v) = V[Order(m)]
  BY <1>2, VisitedQuery
<1> HIDE DEF m, v
<1>4. ASSUME NEW k \in DOMAIN Items(x) PROVE ItemKept(rl, Items(x)[k], Items(v)[k])
  <2>1. Items(m)[k] \in Trees /\ Items(m)[k].kind \in ItemKinds /\ k \in DOMAIN Items(m)
    BY <1>2, <1>3, ItemsAreTrees
  <2>2. ItemKept(rl, Items(m)[k], Items(v)[k])
    BY <1>3, <2>1, ItemVisited
  <2> QED BY <1>2, <2>2, ItemKeptTwice
<1>5. ASSUME NEW k \in DOMAIN From(x)
      PROVE  From(v)[k].kind = From(x)[k].kind /\ From(v)[k].alias = From(x)[k].alias
  BY <1>5, SourcesVisited DEF v
<1> QED BY <1>2, <1>3, <1>4, <1>5 DEF v

-----------------------------------------------------------------------------
(* Names of the comparisons of a statement.                                *)

NamesKnown(x) ==
  TopSelect(x) /\ OneTable(x) =>
    BareNames(Where(x)) \union BareNames(Order(x)) \subseteq ProjectionAliases(x) \union TableAliases(x)

LEMMA VisitedTop ==
  ASSUME NEW rl \in Visitors, NEW x \in Trees, x.kind # "collate"
  PROVE  Visited(rl)[x].kind # "collate" /\ (TopSelect(Visited(rl)[x]) => TopSelect(x))
<1> DEFINE V == Visited(rl)
           v == V[x]
           p == PreVisit(rl, x)
           b == x.args[1]
<1>1. /\ Labels(v, p) /\ DOMAIN v.args = DOMAIN p.args
      /\ \A i \in DOMAIN p.args : v.args[i] = V[p.args[i]]
  BY VisitedFields DEF Labels
<1>2. rl # "collate" => Relabelled(rl, x, p)
  BY Relabels
<1>3. rl = "collate" => p = x
  BY DEF PreVisit, StripCollate
<1>4. v.kind # "collate" /\ (v.kind = "query" => x.kind = "query")
  <2> HIDE DEF v, p
  <2> QED BY <1>1, <1>2, <1>3 DEF Relabelled, Labels
<1>5. ASSUME TopSelect(v) PROVE TopSelect(x)
  <2>1. v.kind = "query" /\ v.args[1].kind = "select"
    BY <1>5 DEF TopSelect, IsSelect
  <2>2. x.kind = "query"
    BY <1>4, <2>1
  <2>3. 1 \in DOMAIN x.args /\ b \in Trees /\ b.kind \in BodyKinds
    <3>1. Shape(x) /\ x \in Record(Trees) /\ \A i \in DOMAIN x.args : x.args[i] \in Trees
      BY TreeNode
    <3>2. 1 \in DOMAIN x.args
      BY <2>2, <3>1 DEF Shape, Record
    <3> QED BY <2>2, <3>1, <3>2 DEF Shape, ChildKinds
  <2> SUFFICES ASSUME ~TopSelect(x) PROVE FALSE
    OBVIOUS
  <2>4. p = x
    <3>1. rl \notin {"subquery", "version"} => p = x
      BY <2>2, PreVisitQuery
    <3>2. rl \in {"subquery", "version"} => p = x
      BY DEF PreVisit, RemoveSubquery, FixVersion
    <3> QED BY <3>1, <3>2
  <2>5. v.args[1] = V[b]
    <3> HIDE DEF v, p, V
    <3> QED BY <1>1, <2>3, <2>4
  <2> HIDE DEF b
  <2>6. Labels(V[b], PreVisit(rl, b))
    BY <2>3, VisitedFields DEF Labels
  <2>7. b.kind = "select"
    <3>1. rl # "collate" => Relabelled(rl, b, PreVisit(rl, b))
      BY <2>3, Relabels
    <3>2. rl = "collate" => PreVisit(rl, b) = b
      BY <2>3 DEF PreVisit, StripCollate, BodyKinds
    <3> HIDE DEF V, v
    <3> QED BY <2>1, <2>5, <2>6, <3>1, <3>2 DEF Relabelled, Labels
  <2> QED BY <2>2, <2>7 DEF TopSelect, IsSelect, b
<1> QED BY <1>4, <1>5

LEMMA AliasesVisited ==
  ASSUME NEW rl \in Visitors, NEW x \in Trees, TopSelect(x)
  PROVE  LET v == Visited(rl)[x] IN
         /\ Wildcards(v) = Wildcards(x) /\ TableAliases(v) = TableAliases(x)
         /\ \A k \in Wildcards(x) : Items(v)[k].qual = Items(x)[k].qual
         /\ \A y \in ProjectionAliases(x) :
              y \in ProjectionAliases(v) \/ (rl = "user" /\ y = "current_schema")
<1> DEFINE v == Visited(rl)[x]
<1>1. /\ DOMAIN Items(v) = DOMAIN Items(x) /\ DOMAIN From(v) = DOMAIN From(x)
      /\ \A k \in DOMAIN Items(x) : ItemKept(rl, Items(x)[k], Items(v)[k])
      /\ \A k \in DOMAIN From(x) : From(v)[k].kind = From(x)[k].kind /\ From(v)[k].alias = From(x)[k].alias
  BY QueryVisited
<1> HIDE DEF v
<1>2. Wildcards(v) = Wildcards(x) /\ \A k \in Wildcards(x) : Items(v)[k].qual = Items(x)[k].qual
  BY <1>1 DEF Wildcards, ItemKept
<1>3. TableAliases(v) = TableAliases(x)
  BY <1>1 DEF TableAliases
<1>4. ASSUME NEW y \in ProjectionAliases(x), ~(rl = "user" /\ y = "current_schema")
      PROVE  y \in ProjectionAliases(v)
  <2>1. PICK k \in DOMAIN Items(x) :
          \/ Items(x)[k].kind = "aliased" /\ y = Items(x)[k].alias
          \/ /\ Items(x)[k].kind = "unnamed" /\ ItemExpr(Items(x)[k]).kind = "ident"
             /\ y = ItemExpr(Items(x)[k]).name
    BY <1>4 DEF ProjectionAliases
  <2>2. k \in DOMAIN Items(v)
    BY <1>1
  <2>3. \/ Items(v)[k].kind = "aliased" /\ y = Items(v)[k].alias
        \/ /\ Items(v)[k].kind = "unnamed" /\ ItemExpr(Items(v)[k]).kind = "ident"
           /\ y = ItemExpr(Items(v)[k]).name
    BY <1>1, <1>4, <2>1 DEF ItemKept
  <2> QED BY <2>2, <2>3 DEF ProjectionAliases
<1> QED BY <1>2, <1>3, <1>4 DEF v

LEMMA QueryLists ==
  ASSUME NEW x \in Trees, TopSelect(x)
  PROVE  /\ Where(x) \in Trees /\ Where(x).kind = "list"
         /\ Order(x) \in Trees /\ Order(x).kind = "list"
         /\ \A S : x \in All(S) => Where(x) \in All(S) /\ Order(x) \in All(S)
<1> DEFINE d == MaxDepth
<1>1. d \in 1 .. MaxDepth /\ x \in TreesAt[d]
  BY SomeLevel
<1> HIDE DEF d
<1>2. /\ Where(x).kind = "list" /\ Order(x).kind = "list"
      /\ DOMAIN x.args = 1 .. 2 /\ DOMAIN x.args[1].args = 1 .. 3
  BY <1>1, QueryParts
<1>3. x.args[1] \in Trees /\ Order(x) \in Trees
  BY <1>2, TreeNode DEF Order
<1>4. Where(x) \in Trees
  BY <1>2, <1>3, TreeNode DEF Where
<1>5. ASSUME NEW S, x \in All(S) PROVE Where(x) \in All(S) /\ Order(x) \in All(S)
  <2>1. x.args[1] \in All(S) /\ x.args[2] \in All(S)
    BY <1>2, <1>5, PlainInAll
  <2>2. x.args[1].args[3] \in All(S)
    BY <1>2, <2>1, PlainInAll
  <2> QED BY <2>1, <2>2 DEF Where, Order
<1> QED BY <1>2, <1>3, <1>4, <1>5

LEMMA NamesVisited ==
  ASSUME NEW rl \in Visitors, NEW x \in Trees, x.kind # "collate", rl = "collate" => x \in All(Plain),
         NamesKnown(x)
  PROVE  NamesKnown(Visited(rl)[x])
<1> DEFINE V == Visited(rl)
           v == V[x]
<1> SUFFICES ASSUME TopSelect(v), OneTable(v), NEW y \in BareNames(Where(v)) \union BareNames(Order(v))
             PROVE  y \in ProjectionAliases(v) \union TableAliases(v)
  BY DEF NamesKnown
<1>1. TopSelect(x)
  BY VisitedTop
<1>2. /\ Wildcards(v) = Wildcards(x) /\ TableAliases(v) = TableAliases(x)
      /\ \A z \in ProjectionAliases(x) :
           z \in ProjectionAliases(v) \/ (rl = "user" /\ z = "current_schema")
  BY <1>1, AliasesVisited
<1>3. Where(v) = V[Where(x)] /\ Order(v) = V[Order(x)]
  BY <1>1, QueryVisited
<1> HIDE DEF v
<1>4. OneTable(x)
  BY <1>2 DEF OneTable
<1>5. /\ Where(x) \in Trees /\ Where(x).kind = "list"
      /\ Order(x) \in Trees /\ Order(x).kind = "list"
      /\ rl = "collate" => Where(x) \in All(Plain) /\ Order(x) \in All(Plain)
  BY <1>1, QueryLists
<1>6. y \in BareNames(Where(x)) \union BareNames(Order(x)) /\ (rl = "user" => y # "current_schema")
  <2>1. CASE y \in BareNames(Where(v))
    <3> DEFINE w == Where(x)
    <3>1. w \in Trees /\ w.kind # "collate" /\ (rl = "collate" => w \in All(Plain)) /\ y \in BareNames(V[w])
      BY <1>3, <1>5, <2>1
    <3> HIDE DEF w
    <3>2. y \in BareNames(w) /\ (rl = "user" => y # "current_schema")
      BY <3>1, BareVisited
    <3> QED BY <3>2 DEF w
  <2>2. CASE y \in BareNames(Order(v))
    <3> DEFINE w == Order(x)
    <3>1. w \in Trees /\ w.kind # "collate" /\ (rl = "collate" => w \in All(Plain)) /\ y \in BareNames(V[w])
      BY <1>3, <1>5, <2>2
    <3> HIDE DEF w
    <3>2. y \in BareNames(w) /\ (rl = "user" => y # "current_schema")
      BY <3>1, BareVisited
    <3> QED BY <3>2 DEF w
  <2> QED BY <2>1, <2>2
<1>7. y \in ProjectionAliases(x) \union TableAliases(x)
  BY <1>1, <1>4, <1>6 DEF NamesKnown
<1> QED BY <1>2, <1>6, <1>7

LEMMA NamesResolved ==
  ASSUME NEW x \in Trees, x.kind # "collate"
  PROVE  /\ NamesKnown(Apply("resolve", x)) /\ Apply("resolve", x) \in Trees
         /\ Apply("resolve", x).kind # "collate"
<1> DEFINE m == ResolveUnqualified(x)
           r == Apply("resolve", x)
           d == MaxDepth
<1>1. d \in 1 .. MaxDepth /\ x \in Over(Trees, d) /\ Over(Trees, d) = Trees
  BY WholeLevel
<1> HIDE DEF d
<1>2. CASE ~TopSelect(x)
  <2>1. r = x
    BY <1>2 DEF Apply
  <2> HIDE DEF r
  <2> QED BY <1>2, <2>1 DEF NamesKnown, r
<1>3. CASE TopSelect(x) /\ ~OneTable(x)
  <2>1. r = x
    BY <1>3 DEF Apply, ResolveUnqualified
  <2> HIDE DEF r
  <2> QED BY <1>3, <2>1 DEF NamesKnown, r
<1>4. CASE TopSelect(x) /\ OneTable(x)
  <2>1. r = m
    BY <1>4 DEF Apply
  <2>2. \A table \in Names : Requalifies(Trees, table)
    BY DEF Requalifies
  <2>3. \A t \in Trees : t.kind \in {"query", "select"} => t \in Trees
    OBVIOUS
  <2> HIDE DEF m, r
  <2>4. PICK table \in Names :
          /\ m \in Trees
          /\ TopSelect(m) /\ Items(m) = Items(x) /\ From(m) = From(x)
          /\ Where(m) = QualifyAll(Where(x), table, Known(x))
          /\ Order(m) = QualifyAll(Order(x), table, Known(x))
    BY <1>1, <1>4, <2>2, <2>3, ResolveOver DEF m
  <2>5. /\ Where(x) \in Trees /\ Where(x).kind = "list"
        /\ Order(x) \in Trees /\ Order(x).kind = "list"
    BY <1>4, QueryLists
  <2>6. BareNames(Where(m)) \subseteq Known(x) /\ BareNames(Order(m)) \subseteq Known(x)
    <3> DEFINE w == Where(x)
               o == Order(x)
               K == Known(x)
    <3>1. w \in Trees /\ w.kind = "list" /\ o \in Trees /\ o.kind = "list"
      BY <2>5
    <3>2. Where(m) = QualifyAll(w, table, K) /\ Order(m) = QualifyAll(o, table, K)
      BY <2>4
    <3> HIDE DEF w, o, K
    <3>3. BareNames(QualifyAll(w, table, K)) \subseteq K
      BY <3>1, BareQualifyAll
    <3>4. BareNames(QualifyAll(o, table, K)) \subseteq K
      BY <3>1, BareQualifyAll
    <3> QED BY <3>2, <3>3, <3>4 DEF K
  <2>7. ProjectionAliases(m) = ProjectionAliases(x) /\ TableAliases(m) = TableAliases(x)
    BY <2>4 DEF ProjectionAliases, TableAliases
  <2>8. NamesKnown(m)
    BY <2>6, <2>7 DEF NamesKnown, Known
  <2>9. m.kind = "query"
    BY <2>4 DEF TopSelect
  <2> QED BY <2>1, <2>4, <2>8, <2>9 DEF r
<1> QED BY <1>2, <1>3, <1>4

LEMMA AliasKind ==
  ASSUME NEW x \in Trees, x.kind # "collate"
  PROVE  Apply("alias", x) \in Trees /\ Apply("alias", x).kind # "collate"
<1> DEFINE m == AliasDuplicated(x)
           r == Apply("alias", x)
           d == MaxDepth
<1>1. d \in 1 .. MaxDepth /\ x \in Over(Trees, d) /\ Over(Trees, d) = Trees
  BY WholeLevel
<1> HIDE DEF d
<1>2. CASE ~TopSelect(x)
  BY <1>2 DEF Apply
<1>3. CASE TopSelect(x)
  <2>1. r = m
    BY <1>3 DEF Apply
  <2>2. \A t \in Trees : t.kind \in {"query", "select", "items", "aliased"} => t \in Trees
    OBVIOUS
  <2> HIDE DEF m, r
  <2>3. m \in Trees /\ TopSelect(m)
    BY <1>1, <1>3, <2>2, AliasOver DEF m
  <2>4. m.kind = "query"
    BY <2>3 DEF TopSelect
  <2> QED BY <2>1, <2>3, <2>4 DEF r
<1> QED BY <1>2, <1>3

\* What the first two rules brought about stays to the end if no visitor spoils it.
LEMMA LaterStays ==
  ASSUME NEW t, NEW old, NEW new, Chain(t, old, new, 12), \A n \in Nodes(old) : ~CollatedName(n),
         NEW K, t[2] \in K,
         \A rl \in Visitors : \A x \in K : (rl = "collate" => x \in All(Plain)) => Visited(rl)[x] \in K
  PROVE  new \in K
<1>4. /\ t[3] = Visited("anyall")[t[2]] /\ t[4] = Visited("catalog")[t[3]]
      /\ t[5] = Visited("callable")[t[4]] /\ t[6] = Visited("array")[t[5]]
      /\ t[7] = Visited("user")[t[6]] /\ t[8] = Visited("collate")[t[7]]
      /\ t[9] = Visited("operator")[t[8]] /\ t[10] = Visited("regcast")[t[9]]
      /\ t[11] = Visited("subquery")[t[10]] /\ t[12] = Visited("version")[t[11]] /\ t[12] = new
  BY ChainSteps
<1>5. t[7] \in K
  <2>1. \A rl \in BeforeCollate : \A x \in K : Visited(rl)[x] \in K
    BY DEF BeforeCollate, Visitors
  <2>2. t[3] \in K
    BY <1>4, <2>1 DEF BeforeCollate
  <2>3. t[4] \in K
    BY <1>4, <2>1, <2>2 DEF BeforeCollate
  <2>4. t[5] \in K
    BY <1>4, <2>1, <2>3 DEF BeforeCollate
  <2>5. t[6] \in K
    BY <1>4, <2>1, <2>4 DEF BeforeCollate
  <2> QED BY <1>4, <2>1, <2>5 DEF BeforeCollate
<1>6. t[8] \in K
  <2>1. t[7] \in All(Plain)
    BY PlainBefore
  <2> DEFINE rl == "collate"
  <2>2. rl \in Visitors
    BY DEF Visitors
  <2>3. Visited(rl)[t[7]] \in K
    BY <1>5, <2>1, <2>2
  <2> QED BY <1>4, <2>3
<1>7. \A rl \in {"operator", "regcast", "subquery", "version"} : \A x \in K : Visited(rl)[x] \in K
  BY DEF Visitors
<1>8. t[9] \in K
  BY <1>4, <1>6, <1>7
<1>9. t[10] \in K
  BY <1>4, <1>7, <1>8
<1>10. t[11] \in K
  BY <1>4, <1>7, <1>9
<1> QED BY <1>4, <1>7, <1>10

LEMMA NamesStay ==
  ASSUME NEW t, NEW old, NEW new, Chain(t, old, new, 12), old.kind # "collate",
         \A n \in Nodes(old) : ~CollatedName(n)
  PROVE  NamesKnown(new)
<1> DEFINE K == {x \in Trees : x.kind # "collate" /\ NamesKnown(x)}
<1>1. t[2] \in K
  <2>1. t[0] = old /\ t[1] = Apply("alias", t[0]) /\ t[2] = Apply("resolve", t[1]) /\ t[0] \in Trees
    BY ChainSteps
  <2>2. t[1] \in Trees /\ t[1].kind # "collate"
    BY <2>1, AliasKind
  <2> QED BY <2>1, <2>2, NamesResolved
<1>2. ASSUME NEW rl \in Visitors, NEW x \in K, rl = "collate" => x \in All(Plain)
      PROVE  Visited(rl)[x] \in K
  BY <1>2, VisitedStays, VisitedTop, NamesVisited
<1> HIDE DEF K
<1>3. new \in K
  BY <1>1, <1>2, LaterStays
<1> QED BY <1>3 DEF K

\* Whatever a statement is, up to what COLLATE hides: in a query with the wildcard
\* of one table, the names that WHERE and ORDER BY still use bare are names of the
\* projection or of a table, also after the rules that come later have changed the
\* items of the projection and the parts of the comparisons.
THEOREM StatementsNamed == RewriteSpec => []NamesResolve
<1>1. RewriteInv => NamesResolve
  <2> SUFFICES ASSUME RewriteInv, NEW i \in Rewritten, \A n \in Nodes(parsed[i]) : ~CollatedName(n)
               PROVE  LET s == statements[i] IN
                      TopSelect(s) /\ OneTable(s) =>
                        BareNames(Where(s)) \union BareNames(Order(s))
                          \subseteq ProjectionAliases(s) \union TableAliases(s)
    BY DEF NamesResolve
  <2>1. parsed[i].kind \in StatementKinds /\ \E t : Chain(t, parsed[i], statements[i], 12)
    BY RewrittenChain
  <2>2. PICK t : Chain(t, parsed[i], statements[i], 12)
    BY <2>1
  <2>3. parsed[i].kind # "collate"
    BY <2>1 DEF StatementKinds
  <2>4. NamesKnown(statements[i])
    BY <2>2, <2>3, NamesStay
  <2> QED BY <2>4 DEF NamesKnown
<1> QED BY <1>1, RewriteInvariant, PTL

-----------------------------------------------------------------------------
(* Rules that have nothing to do.                                          *)

LEMMA GonePreVisit ==
  ASSUME NEW rl \in Visitors \ {"subquery", "version"}, NEW n \in Trees, Gone(rl, n)
  PROVE  PreVisit(rl, n) = n
<1>0. n \in Record(Trees) /\ Shape(n)
  BY TreeNode
<1>1. CASE rl = "anyall"
  BY <1>1 DEF PreVisit, ArrayAnyAll, Gone
<1>2. CASE rl = "catalog"
  BY <1>2 DEF PreVisit, PrependCatalog, Gone
<1>3. CASE rl = "callable"
  <2>1. n.kind \in {"call", "tablefunction"} => n.qual = None
    BY <1>3 DEF Gone
  <2>2. n.qual = None => [n EXCEPT !.qual = None] = n
    BY <1>0 DEF Record
  <2>3. StripCallable(n) = n
    BY <2>1, <2>2 DEF StripCallable
  <2> QED BY <1>3, <2>3 DEF PreVisit
<1>4. CASE rl = "array"
  <2>1. ~ArrayString(n)
    BY <1>4 DEF Gone
  <2> QED BY <1>4, <2>1 DEF PreVisit, FixArray
<1>5. CASE rl = "user"
  BY <1>5 DEF PreVisit, CurrentUser, Gone
<1>6. CASE rl = "collate"
  BY <1>6 DEF PreVisit, StripCollate, Gone
<1>7. CASE rl = "operator"
  BY <1>7 DEF PreVisit, BareOperator, Gone
<1>8. CASE rl = "regcast"
  <2>1. ~RegCast(n)
    BY <1>8 DEF Gone
  <2> QED BY <1>8, <2>1 DEF PreVisit, RegCastToSubquery
<1> QED BY <1>1, <1>2, <1>3, <1>4, <1>5, <1>6, <1>7, <1>8 DEF Visitors

LEMMA GoneStays ==
  ASSUME NEW rl \in Visitors \ {"subquery", "version"}, NEW t \in Trees, \A n \in Nodes(t) : Gone(rl, n)
  PROVE  Visited(rl)[t] = t
<1> DEFINE A == {n \in Trees : Gone(rl, n)}
<1>1. t \in All(A)
  BY NodesOf DEF All
<1>2. ASSUME NEW n \in All(A) PROVE PreVisit(rl, n) = n
  <2>1. n \in Trees /\ n \in A
    BY AllOver DEF All
  <2> QED BY <2>1, GonePreVisit
<1> HIDE DEF A
<1> QED BY <1>1, <1>2, VisitIdentity

LEMMA WithArgSame ==
  ASSUME NEW n \in Trees, NEW i \in DOMAIN n.args
  PROVE  WithArg(n, i, n.args[i]) = n /\ WithArgs(n, n.args) = n
<1>1. n \in Record(Trees)
  BY TreeNode
<1>2. WithArgs(n, n.args) = n
  BY <1>1 DEF WithArgs, Record
<1>3. [n.args EXCEPT ![i] = n.args[i]] = n.args
  <2>1. n.args \in Seq(Trees)
    BY <1>1 DEF Record
  <2> QED BY <2>1
<1> QED BY <1>2, <1>3 DEF WithArg

LEMMA WithItemsSame ==
  ASSUME NEW q \in Trees, TopSelect(q)
  PROVE  WithItems(q, Items(q)) = q /\ Items(q) = [k \in DOMAIN Items(q) |-> Items(q)[k]]
<1> DEFINE s == q.args[1]
           i == s.args[1]
<1>1. DOMAIN q.args = 1 .. 2 /\ DOMAIN s.args = 1 .. 3
  BY SomeLevel, QueryParts
<1>2. s \in Trees
  BY <1>1, TreeNode
<1> HIDE DEF s
<1>3. i \in Trees
  BY <1>1, <1>2, TreeNode
<1>4. i.args \in Seq(Trees)
  BY <1>3, TreeNode DEF Record
<1> HIDE DEF i
<1>5. WithArgs(i, i.args) = i
  <2>1. i \in Record(Trees)
    BY <1>3, TreeNode
  <2> QED BY <2>1 DEF WithArgs, Record
<1>6. WithArg(s, 1, i) = s /\ WithArg(q, 1, s) = q
  <2>1. WithArg(s, 1, s.args[1]) = s
    BY <1>1, <1>2, WithArgSame
  <2>2. WithArg(q, 1, q.args[1]) = q
    BY <1>1, WithArgSame
  <2> QED BY <2>1, <2>2 DEF s, i
<1>7. WithItems(q, i.args) = q /\ Items(q) = i.args
  BY <1>5, <1>6 DEF WithItems, Items, s, i
<1>8. i.args = [k \in DOMAIN i.args |-> i.args[k]]
  BY <1>4
<1> QED BY <1>7, <1>8

LEMMA ScalarItemSame ==
  ASSUME NEW i \in Trees, i.kind \in ItemKinds, OneValue(i)
  PROVE  ScalarItem(i) = i
<1> DEFINE e == ItemExpr(i)
           q == e.args[1]
<1>1. CASE i.kind \notin {"unnamed", "aliased"}
  BY <1>1 DEF ScalarItem
<1>2. CASE i.kind \in {"unnamed", "aliased"}
  <2>1. 1 \in DOMAIN i.args /\ e \in Trees
    BY <1>2, OneChild DEF UnaryKinds, ItemExpr
  <2>2. Scalar(e) = e
    <3>1. CASE e.kind # "subquery"
      BY <3>1 DEF Scalar
    <3>2. CASE e.kind = "subquery"
      <4>1. HasLimit(q) /\ ~Correlated(q)
        BY <1>2, <3>2 DEF OneValue
      <4> HIDE DEF e
      <4>2. 1 \in DOMAIN e.args /\ q \in Trees
        BY <2>1, <3>2, OneChild DEF UnaryKinds
      <4>3. Limited(q) = q
        BY <4>1 DEF Limited
      <4>4. WithArg(e, 1, q) = e
        BY <2>1, <4>2, WithArgSame
      <4> QED BY <3>2, <4>1, <4>3, <4>4 DEF Scalar
    <3> QED BY <3>1, <3>2
  <2>3. WithArg(i, 1, i.args[1]) = i
    BY <2>1, WithArgSame
  <2> QED BY <1>2, <2>2, <2>3 DEF ScalarItem, ItemExpr
<1> QED BY <1>1, <1>2

LEMMA RemoveSubquerySame ==
  ASSUME NEW n \in Scalars
  PROVE  RemoveSubquery(n) = n
<1>1. n \in Trees
  BY DEF Scalars
<1>2. CASE ~TopSelect(n)
  BY <1>2 DEF RemoveSubquery
<1>3. CASE TopSelect(n)
  <2>1. RemoveSubquery(n) = WithItems(n, [k \in DOMAIN Items(n) |-> ScalarItem(Items(n)[k])])
    BY <1>3 DEF RemoveSubquery, ScalarItem
  <2>2. \A k \in DOMAIN Items(n) : ScalarItem(Items(n)[k]) = Items(n)[k]
    <3> SUFFICES ASSUME NEW k \in DOMAIN Items(n) PROVE ScalarItem(Items(n)[k]) = Items(n)[k]
      OBVIOUS
    <3>1. OneValue(Items(n)[k])
      BY <1>3 DEF Scalars
    <3>2. Items(n)[k] \in Trees /\ Items(n)[k].kind \in ItemKinds
      BY <1>1, <1>3, ItemsAreTrees
    <3> QED BY <3>1, <3>2, ScalarItemSame
  <2>3. [k \in DOMAIN Items(n) |-> ScalarItem(Items(n)[k])] = [k \in DOMAIN Items(n) |-> Items(n)[k]]
    BY <2>2
  <2> QED BY <1>1, <1>3, <2>1, <2>3, WithItemsSame
<1> QED BY <1>2, <1>3

\* No column that calls version() is left without its name.
Versioned == {q \in Trees : TopSelect(q) => \A k \in DOMAIN Items(q) : Items(q)[k] # Item(Call("version", <<>>))}

LEMMA FixVersionSame ==
  ASSUME NEW n \in Versioned
  PROVE  FixVersion(n) = n
<1>1. n \in Trees
  BY DEF Versioned
<1>2. CASE ~TopSelect(n)
  BY <1>2 DEF FixVersion
<1>3. CASE TopSelect(n)
  <2>1. FixVersion(n) = WithItems(n, [k \in DOMAIN Items(n) |-> VersionItem(Items(n)[k])])
    BY <1>3 DEF FixVersion, VersionItem
  <2>2. \A k \in DOMAIN Items(n) : VersionItem(Items(n)[k]) = Items(n)[k]
    BY <1>3 DEF Versioned, VersionItem
  <2>3. [k \in DOMAIN Items(n) |-> VersionItem(Items(n)[k])] = [k \in DOMAIN Items(n) |-> Items(n)[k]]
    BY <2>2
  <2> QED BY <1>1, <1>3, <2>1, <2>3, WithItemsSame
<1> QED BY <1>2, <1>3

LEMMA VersionCallKept ==
  ASSUME NEW j \in Trees, j.kind \in ItemKinds, Visited("version")[j] = Item(Call("version", <<>>))
  PROVE  j = Item(Call("version", <<>>))
<1> DEFINE rl == "version"
           V == Visited(rl)
           e == ItemExpr(j)
           c == Call("version", <<>>)
<1>0. rl \in Visitors /\ rl \in Visitors \ {"collate"}
  BY DEF Visitors
<1>1. c = [kind |-> "call", qual |-> None, name |-> "version", alias |-> None, args |-> <<>>]
  BY DEF Call, Node
<1>2. Item(c) = [kind |-> "unnamed", qual |-> None, name |-> None, alias |-> None, args |-> <<c>>]
  BY DEF Item, Node
<1>3. V[j] = Item(c)
  OBVIOUS
<1> HIDE DEF rl, c
<1>4. Labels(V[j], j)
  <2>1. PreVisit(rl, j) = j
    BY <1>0, PreVisitPlain DEF Changing, ItemKinds
  <2> QED BY <1>0, <2>1, VisitedPlain
<1>5. j.kind = "unnamed" /\ j.qual = None /\ j.name = None /\ j.alias = None
  <2> HIDE DEF V
  <2> QED BY <1>2, <1>3, <1>4 DEF Labels
<1>6. ItemExpr(V[j]) = V[e] /\ e \in Trees
  BY <1>0, <1>5, VisitedItem
<1>7. V[e] = c
  <2> HIDE DEF V
  <2> QED BY <1>2, <1>3, <1>6 DEF ItemExpr
<1>8. DOMAIN j.args = {1} /\ j \in Record(Trees)
  BY <1>5, OneChild, TreeNode DEF UnaryKinds
<1> HIDE DEF e
<1>9. Labels(V[e], PreVisit(rl, e)) /\ Labels(PreVisit(rl, e), e)
  <2>1. Labels(V[e], PreVisit(rl, e))
    BY <1>0, <1>6, VisitedFields DEF Labels
  <2>2. Labels(PreVisit(rl, e), e)
    BY <1>0, <1>6, Relabels DEF Relabelled, rl
  <2> QED BY <2>1, <2>2
<1>10. e.kind = "call" /\ e.qual = None /\ e.name = "version" /\ e.alias = None
  <2> HIDE DEF V
  <2> QED BY <1>1, <1>7, <1>9 DEF Labels
<1>11. PreVisit(rl, e) = e
  <2>1. ~TopSelect(e)
    BY <1>10 DEF TopSelect
  <2> QED BY <2>1 DEF PreVisit, FixVersion, rl
<1>12. Len(e.args) = 0 /\ e \in Record(Trees)
  <2>1. Len(V[e].args) = Len(e.args)
    BY <1>0, <1>6, <1>11, VisitedPlain
  <2>2. V[e].args = <<>>
    BY <1>1, <1>7
  <2> HIDE DEF V
  <2> QED BY <1>6, <2>1, <2>2, TreeNode
<1>13. e = c
  <2>1. e.args = <<>>
    BY <1>12 DEF Record
  <2> QED BY <1>1, <1>10, <1>12, <2>1 DEF Record
<1>14. j = Item(c)
  <2>1. j.args = <<e>>
    BY <1>8 DEF Record, ItemExpr, e
  <2> QED BY <1>2, <1>5, <1>8, <1>13, <2>1 DEF Record
<1> QED BY <1>14 DEF c

LEMMA VersionsNamed ==
  ASSUME NEW n \in Trees
  PROVE  Visited("version")[n] \in Versioned
<1> DEFINE rl == "version"
           v == Visited(rl)[n]
           m == FixVersion(n)
           d == MaxDepth
           X == Item(Call("version", <<>>))
<1>0. rl \in Visitors /\ rl \in Visitors \ {"collate"} /\ PreVisit(rl, n) = m
  BY DEF Visitors, PreVisit
<1>1. d \in 1 .. MaxDepth /\ n \in Over(Trees, d)
  BY WholeLevel
<1>2. v \in Trees
  BY <1>0, VisitedStays
<1> HIDE DEF d
<1>3. X.kind = "unnamed"
  BY DEF Item, Node
<1>4. ASSUME TopSelect(v), NEW k \in DOMAIN Items(v), Items(v)[k] = X PROVE FALSE
  <2>1. TopSelect(n)
    BY <1>0, <1>4, VisitedTopSelect
  <2>2. \A y \in Trees : Made("version", y) => y \in Trees
    OBVIOUS
  <2>3. TopSelect(m) /\ Items(m) = [i \in DOMAIN Items(n) |-> VersionItem(Items(n)[i])]
    BY <1>1, <2>1, <2>2, FixVersionOver
  <2>4. m \in Trees /\ k \in DOMAIN Items(m) /\ Items(v)[k] = Visited(rl)[Items(m)[k]]
    BY <1>0, <1>4, <2>3, VisitedQuery
  <2> HIDE DEF m, v, X
  <2>5. k \in DOMAIN Items(n) /\ Items(m)[k] = VersionItem(Items(n)[k])
    BY <2>3, <2>4
  <2>6. Items(m)[k] \in Trees /\ Items(m)[k].kind \in ItemKinds
    BY <2>3, <2>4, ItemsAreTrees
  <2>7. Items(m)[k] = X
    BY <1>4, <2>4, <2>6, VersionCallKept DEF X
  <2>8. VersionItem(Items(n)[k]) # X
    <3> DEFINE i == Items(n)[k]
    <3>1. CASE i = X
      <4>1. VersionItem(i).kind = "aliased"
        BY <3>1 DEF VersionItem, X, ItemAs, Node
      <4> HIDE DEF i
      <4> QED BY <1>3, <4>1 DEF i
    <3>2. CASE i # X
      BY <3>2 DEF VersionItem, X
    <3> QED BY <3>1, <3>2
  <2> QED BY <2>5, <2>7, <2>8
<1> HIDE DEF v
<1>5. v \in Versioned
  BY <1>2, <1>4 DEF Versioned
<1> QED BY <1>5 DEF v

\* After the last rule no subquery and no version() is left to look at.
LEMMA LastTwo ==
  ASSUME NEW t, NEW old, NEW new, Chain(t, old, new, 12)
  PROVE  new \in Trees /\ Visited("subquery")[new] = new /\ Visited("version")[new] = new
<1>1. t[11] \in Trees /\ new \in Trees /\ new = Visited("version")[t[11]]
  BY ChainSteps
<1>2. Visited("subquery")[new] = new
  <2> DEFINE rl == "subquery"
  <2>1. rl \in Visitors
    BY DEF Visitors
  <2>2. ASSUME NEW n \in All(Scalars) PROVE PreVisit(rl, n) = n
    <3>1. n \in Scalars
      BY AllOver DEF All
    <3> QED BY <3>1, RemoveSubquerySame DEF PreVisit
  <2>3. new \in All(Scalars)
    BY <1>1, AllScalar DEF All
  <2> HIDE DEF rl
  <2>4. Visited(rl)[new] = new
    BY <2>1, <2>2, <2>3, VisitIdentity
  <2> QED BY <2>4 DEF rl
<1>3. Visited("version")[new] = new
  <2> DEFINE rl == "version"
  <2>1. rl \in Visitors /\ Puts(rl, Trees)
    BY DEF Visitors, Puts
  <2>2. \A n \in All(Trees) : Visited(rl)[n] \in Versioned
    BY AllTrees, VersionsNamed
  <2>3. ASSUME NEW n \in All(Versioned) PROVE PreVisit(rl, n) = n
    <3>1. n \in Versioned
      BY AllOver DEF All
    <3> QED BY <3>1, FixVersionSame DEF PreVisit
  <2> HIDE DEF rl
  <2>4. Visited(rl)[t[11]] \in All(Versioned)
    BY <1>1, <2>1, <2>2, AllTrees, VisitNodes
  <2>5. new \in All(Versioned)
    BY <1>1, <2>4 DEF rl
  <2>6. Visited(rl)[new] = new
    BY <2>1, <2>3, <2>5, VisitIdentity
  <2> QED BY <2>6 DEF rl
<1> QED BY <1>1, <1>2, <1>3

-----------------------------------------------------------------------------
(* No duplicated column is left without an alias, and no name unresolved.  *)

NoneTwice(x) ==
  TopSelect(x) =>
    \A k \in DOMAIN Items(x) : ~(Items(x)[k].kind = "unnamed" /\ Duplicated(x, ItemExpr(Items(x)[k])))

LEMMA AliasSame ==
  ASSUME NEW x \in Trees, NoneTwice(x)
  PROVE  Apply("alias", x) = x
<1>1. CASE ~TopSelect(x)
  BY <1>1 DEF Apply
<1>2. CASE TopSelect(x)
  <2>1. AliasDuplicated(x) = WithItems(x, [k \in DOMAIN Items(x) |-> AliasItem(x, Items(x)[k])])
    BY DEF AliasDuplicated, AliasItem
  <2>2. \A k \in DOMAIN Items(x) : AliasItem(x, Items(x)[k]) = Items(x)[k]
    BY <1>2 DEF NoneTwice, AliasItem
  <2>3. [k \in DOMAIN Items(x) |-> AliasItem(x, Items(x)[k])] = [k \in DOMAIN Items(x) |-> Items(x)[k]]
    BY <2>2
  <2>4. AliasDuplicated(x) = x
    BY <1>2, <2>1, <2>3, WithItemsSame
  <2> QED BY <1>2, <2>4 DEF Apply
<1> QED BY <1>1, <1>2

\* What makes a column a duplicate stays, and makes no others duplicates.
LEMMA DuplicatedFrom ==
  ASSUME NEW x, NEW y, NEW e, NEW f, DOMAIN Items(y) = DOMAIN Items(x),
         \A k \in DOMAIN Items(x) :
           Items(y)[k].kind \in {"tablewildcard", "wildcard"} =>
             /\ Items(x)[k].kind = Items(y)[k].kind
             /\ Items(y)[k].kind = "tablewildcard" => Items(x)[k].qual = Items(y)[k].qual,
         e.kind = f.kind, e.qual = f.qual, Duplicated(y, f)
  PROVE  Duplicated(x, e)
<1>1. CASE f.kind = "ident" /\ \E k \in DOMAIN Items(y) : Items(y)[k].kind \in {"tablewildcard", "wildcard"}
  <2>1. PICK k \in DOMAIN Items(y) : Items(y)[k].kind \in {"tablewildcard", "wildcard"}
    BY <1>1
  <2>2. k \in DOMAIN Items(x) /\ Items(x)[k].kind \in {"tablewildcard", "wildcard"}
    BY <2>1
  <2> QED BY <1>1, <2>2 DEF Duplicated
<1>2. CASE f.kind = "column" /\ \E k \in Wildcards(y) : Items(y)[k].qual = f.qual
  <2>1. PICK k \in DOMAIN Items(y) : Items(y)[k].kind = "tablewildcard" /\ Items(y)[k].qual = f.qual
    BY <1>2 DEF Wildcards
  <2>2. k \in DOMAIN Items(x) /\ Items(x)[k].kind = "tablewildcard" /\ Items(x)[k].qual = f.qual
    BY <2>1
  <2>3. k \in Wildcards(x)
    BY <2>2 DEF Wildcards
  <2> QED BY <1>2, <2>2, <2>3 DEF Duplicated
<1> QED BY <1>1, <1>2 DEF Duplicated

LEMMA AliasNoneTwice ==
  ASSUME NEW x \in Trees
  PROVE  NoneTwice(Apply("alias", x))
<1> DEFINE m == AliasDuplicated(x)
           r == Apply("alias", x)
           d == MaxDepth
<1>1. d \in 1 .. MaxDepth /\ x \in Over(Trees, d)
  BY WholeLevel
<1> HIDE DEF d
<1>2. CASE ~TopSelect(x)
  <2>1. r = x
    BY <1>2 DEF Apply
  <2> HIDE DEF r
  <2> QED BY <1>2, <2>1 DEF NoneTwice, r
<1>3. CASE TopSelect(x)
  <2>1. r = m
    BY <1>3 DEF Apply
  <2>2. \A t \in Trees : t.kind \in {"query", "select", "items", "aliased"} => t \in Trees
    OBVIOUS
  <2>3. /\ Items(m) = [k \in DOMAIN Items(x) |-> AliasItem(x, Items(x)[k])]
        /\ \A k \in DOMAIN Items(x) :
             \/ /\ Items(m)[k] = Items(x)[k]
                /\ ~(Items(x)[k].kind = "unnamed" /\ Duplicated(x, ItemExpr(Items(x)[k])))
             \/ Items(x)[k].kind = "unnamed" /\ Items(m)[k].kind = "aliased"
    BY <1>1, <1>3, <2>2, AliasOver
  <2> HIDE DEF m, r
  <2>4. DOMAIN Items(m) = DOMAIN Items(x)
    BY <2>3
  <2>5. ASSUME NEW k \in DOMAIN Items(m), Items(m)[k].kind = "unnamed", Duplicated(m, ItemExpr(Items(m)[k]))
        PROVE  FALSE
    <3>1. Items(m)[k] = Items(x)[k] /\ ~Duplicated(x, ItemExpr(Items(x)[k]))
      BY <2>3, <2>4, <2>5
    <3> DEFINE f == ItemExpr(Items(m)[k])
    <3>2. Duplicated(m, f)
      BY <2>5
    <3> HIDE DEF f
    <3>3. Duplicated(x, f)
      BY <2>3, <2>4, <3>2, DuplicatedFrom
    <3> QED BY <3>1, <3>3 DEF f
  <2>6. NoneTwice(m)
    BY <2>5 DEF NoneTwice
  <2> QED BY <2>1, <2>6 DEF r
<1> QED BY <1>2, <1>3

LEMMA ResolveNoneTwice ==
  ASSUME NEW x \in Trees, NoneTwice(x)
  PROVE  NoneTwice(Apply("resolve", x))
<1> DEFINE m == ResolveUnqualified(x)
           r == Apply("resolve", x)
           d == MaxDepth
<1>1. d \in 1 .. MaxDepth /\ x \in Over(Trees, d)
  BY WholeLevel
<1> HIDE DEF d
<1>2. CASE ~TopSelect(x) \/ ~OneTable(x)
  <2>1. r = x
    BY <1>2 DEF Apply, ResolveUnqualified
  <2> HIDE DEF r
  <2> QED BY <2>1 DEF r
<1>3. CASE TopSelect(x) /\ OneTable(x)
  <2>1. r = m
    BY <1>3 DEF Apply
  <2>2. \A table \in Names : Requalifies(Trees, table)
    BY DEF Requalifies
  <2>3. \A t \in Trees : t.kind \in {"query", "select"} => t \in Trees
    OBVIOUS
  <2>4. Items(m) = Items(x)
    BY <1>1, <1>3, <2>2, <2>3, ResolveOver
  <2> HIDE DEF m, r
  <2>5. \A e : Duplicated(m, e) <=> Duplicated(x, e)
    BY <2>4 DEF Duplicated, Wildcards
  <2>6. NoneTwice(m)
    BY <1>3, <2>4, <2>5 DEF NoneTwice
  <2> QED BY <2>1, <2>6 DEF r
<1> QED BY <1>2, <1>3

LEMMA VisitedNoneTwice ==
  ASSUME NEW rl \in Visitors, NEW x \in Trees, x.kind # "collate", rl = "collate" => x \in All(Plain),
         NoneTwice(x)
  PROVE  NoneTwice(Visited(rl)[x])
<1> DEFINE v == Visited(rl)[x]
<1> SUFFICES ASSUME TopSelect(v), NEW k \in DOMAIN Items(v), Items(v)[k].kind = "unnamed",
                    Duplicated(v, ItemExpr(Items(v)[k]))
             PROVE  FALSE
  BY DEF NoneTwice
<1>1. TopSelect(x)
  BY VisitedTop
<1>2. /\ DOMAIN Items(v) = DOMAIN Items(x)
      /\ \A i \in DOMAIN Items(x) : ItemKept(rl, Items(x)[i], Items(v)[i])
  BY <1>1, QueryVisited
<1> HIDE DEF v
<1> DEFINE i == Items(x)[k]
           e == ItemExpr(i)
           f == ItemExpr(Items(v)[k])
<1>3. f.kind \in {"ident", "column"}
  BY DEF Duplicated
<1>4. ~(rl = "collate" /\ CollatedName(i))
  <2> SUFFICES ASSUME rl = "collate" PROVE ~CollatedName(i)
    OBVIOUS
  <2>1. x \in All(Plain)
    OBVIOUS
  <2>2. DOMAIN x.args = 1 .. 2 /\ DOMAIN x.args[1].args = 1 .. 3
    BY <1>1, SomeLevel, QueryParts
  <2>3. x.args[1] \in All(Plain)
    BY <2>1, <2>2, PlainInAll
  <2>4. x.args[1].args[1] \in All(Plain)
    BY <2>2, <2>3, PlainInAll
  <2>5. k \in DOMAIN x.args[1].args[1].args /\ i = x.args[1].args[1].args[k]
    BY <1>2 DEF Items
  <2>6. i \in All(Plain)
    BY <2>4, <2>5, PlainInAll
  <2> HIDE DEF i
  <2>7. i \in Plain
    BY <2>6, PlainInAll
  <2> QED BY <2>7 DEF Plain
<1>5. i.kind = "unnamed" /\ e.kind = f.kind /\ e.qual = f.qual
  <2>1. ItemKept(rl, i, Items(v)[k])
    BY <1>2
  <2> HIDE DEF i
  <2> QED BY <1>3, <1>4, <2>1 DEF ItemKept
<1>6. Duplicated(x, e)
  <2>1. \A j \in DOMAIN Items(x) :
          Items(v)[j].kind \in {"tablewildcard", "wildcard"} =>
            /\ Items(x)[j].kind = Items(v)[j].kind
            /\ Items(v)[j].kind = "tablewildcard" => Items(x)[j].qual = Items(v)[j].qual
    BY <1>2 DEF ItemKept
  <2>2. Duplicated(v, f)
    OBVIOUS
  <2> HIDE DEF e, f
  <2> QED BY <1>2, <1>5, <2>1, <2>2, DuplicatedFrom
<1> QED BY <1>1, <1>2, <1>5, <1>6 DEF NoneTwice

LEMMA QualifiedSame ==
  ASSUME NEW table, NEW known, NEW t \in Trees, BareNames(t) \subseteq known
  PROVE  Qualified(table, known)[t] = t
<1> DEFINE Q == Qualified(table, known)
           S == {e \in Trees : BareNames(e) \subseteq known => Q[e] = e}
<1>1. ASSUME NEW e \in Trees, \A i \in DOMAIN e.args : e.args[i] \in S PROVE e \in S
  <2> SUFFICES ASSUME BareNames(e) \subseteq known PROVE Q[e] = e
    OBVIOUS
  <2>1. Q[e] = CASE e.kind = "ident" /\ e.name \notin known -> Column(table, e.name)
                 [] e.kind = "binary" -> WithArgs(e, [i \in DOMAIN e.args |-> Q[e.args[i]]])
                 [] OTHER -> e
    BY QualifiedNode
  <2> HIDE DEF Q
  <2>2. CASE e.kind = "binary"
    <3>1. ASSUME NEW i \in DOMAIN e.args PROVE Q[e.args[i]] = e.args[i]
      <4>1. \A x : x \in BareNames(e.args[i]) => x \in BareNames(e)
        BY <2>2, BareNode
      <4> QED BY <1>1, <4>1
    <3>2. [i \in DOMAIN e.args |-> Q[e.args[i]]] = [i \in DOMAIN e.args |-> e.args[i]]
      BY <3>1
    <3>3. [i \in DOMAIN e.args |-> e.args[i]] = e.args
      <4>1. e.args \in Seq(Trees)
        BY TreeNode DEF Record
      <4> QED BY <4>1
    <3>4. WithArgs(e, e.args) = e
      <4>1. e \in Record(Trees)
        BY TreeNode
      <4> QED BY <4>1 DEF WithArgs, Record
    <3> QED BY <2>1, <2>2, <3>2, <3>3, <3>4
  <2>3. CASE e.kind = "ident"
    <3>1. e.name \in known
      BY <2>3, BareNode
    <3> QED BY <2>1, <2>3, <3>1
  <2>4. CASE e.kind \notin {"binary", "ident"}
    BY <2>1, <2>4
  <2> QED BY <2>2, <2>3, <2>4
<1> HIDE DEF S
<1>2. Trees \subseteq S
  BY <1>1, TreeInduction
<1> QED BY <1>2 DEF S

LEMMA QualifyAllSame ==
  ASSUME NEW table, NEW known, NEW l \in Trees, l.kind = "list", BareNames(l) \subseteq known
  PROVE  QualifyAll(l, table, known) = l
<1>1. ASSUME NEW i \in DOMAIN l.args PROVE Qualified(table, known)[l.args[i]] = l.args[i]
  <2>1. l.args[i] \in Trees
    BY TreeNode
  <2>2. \A x : x \in BareNames(l.args[i]) => x \in BareNames(l)
    BY BareNode
  <2> QED BY <2>1, <2>2, QualifiedSame
<1>2. l.args \in Seq(Trees) /\ l \in Record(Trees)
  BY TreeNode DEF Record
<1>3. [i \in DOMAIN l.args |-> Qualified(table, known)[l.args[i]]] = [i \in DOMAIN l.args |-> l.args[i]]
  BY <1>1
<1>4. [i \in DOMAIN l.args |-> l.args[i]] = l.args
  BY <1>2
<1>5. WithArgs(l, l.args) = l
  BY <1>2 DEF WithArgs, Record
<1> QED BY <1>3, <1>4, <1>5 DEF QualifyAll

LEMMA ResolveSame ==
  ASSUME NEW x \in Trees, NamesKnown(x)
  PROVE  Apply("resolve", x) = x
<1>1. CASE ~TopSelect(x) \/ ~OneTable(x)
  BY <1>1 DEF Apply, ResolveUnqualified
<1>2. CASE TopSelect(x) /\ OneTable(x)
  <2> DEFINE table == Items(x)[CHOOSE k \in Wildcards(x) : TRUE].qual
             known == TableAliases(x) \union ProjectionAliases(x)
             s == x.args[1]
  <2>1. /\ Where(x) \in Trees /\ Where(x).kind = "list"
        /\ Order(x) \in Trees /\ Order(x).kind = "list"
    BY <1>2, QueryLists
  <2>2. BareNames(Where(x)) \subseteq known /\ BareNames(Order(x)) \subseteq known
    BY <1>2 DEF NamesKnown
  <2>3. DOMAIN x.args = 1 .. 2 /\ DOMAIN s.args = 1 .. 3 /\ s \in Trees
    BY <1>2, SomeLevel, QueryParts, TreeNode
  <2>4. ResolveUnqualified(x) =
          WithArg(WithArg(x, 1, WithArg(s, 3, QualifyAll(Where(x), table, known))),
                  2, QualifyAll(Order(x), table, known))
    BY <1>2 DEF ResolveUnqualified
  <2> HIDE DEF table, known
  <2>5. QualifyAll(Where(x), table, known) = Where(x) /\ QualifyAll(Order(x), table, known) = Order(x)
    BY <2>1, <2>2, QualifyAllSame
  <2>6. WithArg(s, 3, Where(x)) = s
    <3> HIDE DEF s
    <3>1. WithArg(s, 3, s.args[3]) = s
      BY <2>3, WithArgSame
    <3> QED BY <3>1 DEF Where, s
  <2>7. WithArg(x, 1, s) = x /\ WithArg(x, 2, Order(x)) = x
    BY <2>3, WithArgSame DEF Order
  <2>8. ResolveUnqualified(x) = x
    BY <2>4, <2>5, <2>6, <2>7
  <2> QED BY <1>2, <2>8 DEF Apply
<1> QED BY <1>1, <1>2

\* What the rules went over once none of them changes any more.
LEMMA NothingLeft ==
  ASSUME NEW t, NEW old, NEW new, Chain(t, old, new, 12), old.kind # "collate",
         \A n \in Nodes(old) : ~Hidden(n) /\ ~CollatedName(n),
         NEW k \in 1 .. 12
  PROVE  Apply(RuleOrder[k], new) = new
<1>0. new \in Trees /\ RuleOrder[k] \in Visitors \union {"alias", "resolve"}
  BY ChainSteps, RulesNamed
<1>1. CASE RuleOrder[k] = "alias"
  <2> DEFINE K == {x \in Trees : x.kind # "collate" /\ NoneTwice(x)}
  <2>1. t[2] \in K
    <3>1. t[0] = old /\ t[1] = Apply("alias", t[0]) /\ t[2] = Apply("resolve", t[1]) /\ t[0] \in Trees
      BY ChainSteps
    <3>2. t[1] \in Trees /\ t[1].kind # "collate" /\ NoneTwice(t[1])
      BY <3>1, AliasKind, AliasNoneTwice
    <3> QED BY <3>1, <3>2, NamesResolved, ResolveNoneTwice
  <2>2. ASSUME NEW rl \in Visitors, NEW x \in K, rl = "collate" => x \in All(Plain)
        PROVE  Visited(rl)[x] \in K
    BY <2>2, VisitedStays, VisitedTop, VisitedNoneTwice
  <2> HIDE DEF K
  <2>3. new \in K
    BY <2>1, <2>2, LaterStays
  <2> QED BY <1>1, <2>3, AliasSame DEF K
<1>2. CASE RuleOrder[k] = "resolve"
  <2>1. NamesKnown(new)
    BY NamesStay
  <2> QED BY <1>0, <1>2, <2>1, ResolveSame
<1>3. CASE RuleOrder[k] \in {"subquery", "version"}
  <2>1. Visited("subquery")[new] = new /\ Visited("version")[new] = new
    BY LastTwo
  <2> QED BY <1>3, <2>1 DEF Apply
<1>4. CASE RuleOrder[k] \in Visitors \ {"subquery", "version"}
  <2> DEFINE rl == RuleOrder[k]
  <2>1. new \in All(Rid(12))
    <3>1. 12 \in 2 .. 12
      OBVIOUS
    <3> QED BY <3>1, RidLast, ChainSteps
  <2>2. k \in 3 .. 12
    BY <1>4 DEF RuleOrder, Visitors
  <2>3. \A n \in Nodes(new) : Gone(rl, n)
    BY <2>1, <2>2 DEF All, Rid
  <2> HIDE DEF rl
  <2>4. Visited(rl)[new] = new
    BY <1>0, <1>4, <2>3, GoneStays DEF rl
  <2>5. Apply(rl, new) = Visited(rl)[new]
    BY <1>4 DEF Apply, Visitors, rl
  <2> QED BY <2>4, <2>5 DEF rl
<1> QED BY <1>0, <1>1, <1>2, <1>3, <1>4

\* Whatever a statement is, up to what COLLATE hides: rewriting it once more
\* changes nothing, rule by rule (PostgresCompatibilityParser::rewrite).
THEOREM StatementsFixed == RewriteSpec => []Fixpoint
<1>1. RewriteInv => Fixpoint
  <2> SUFFICES ASSUME RewriteInv, NEW i \in Rewritten,
                      \A n \in Nodes(parsed[i]) : ~Hidden(n) /\ ~CollatedName(n),
                      NEW k \in DOMAIN RuleOrder
               PROVE  Apply(RuleOrder[k], statements[i]) = statements[i]
    BY DEF Fixpoint, Hidden
  <2>1. parsed[i].kind \in StatementKinds /\ \E t : Chain(t, parsed[i], statements[i], 12)
    BY RewrittenChain
  <2>2. PICK t : Chain(t, parsed[i], statements[i], 12)
    BY <2>1
  <2>3. parsed[i].kind # "collate"
    BY <2>1 DEF StatementKinds
  <2>4. k \in 1 .. 12
    BY DEF RuleOrder
  <2> QED BY <2>2, <2>3, <2>4, NothingLeft
<1> QED BY <1>1, RewriteInvariant, PTL
=============================================================================
