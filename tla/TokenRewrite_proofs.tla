------------------------- MODULE TokenRewrite_proofs --------------------------
(***************************************************************************)
(* The token scan takes a message apart into pieces that lie one after the *)
(* other, and uses an entry exactly where it is the first that stands, for *)
(* all lists of entries and all messages.  Induction over a number is done *)
(* by looking at the least counterexample.                                 *)
(***************************************************************************)
EXTENDS TokenRewrite, TLAPS, NaturalsInduction, WellFoundedInduction

LessThan == {p \in Nat \X Nat : p[1] < p[2]}

LEMMA LessThanWellFounded == IsWellFoundedOn(LessThan, Nat)
BY NatLessThanWellFounded DEF LessThan, OpToRel

\* A set of natural numbers has a least one.
LEMMA LeastNumber ==
  ASSUME NEW S, S \subseteq Nat, S # {}
  PROVE  \E n \in S : \A m \in S : n <= m
<1>1. \E n \in S : \A m \in S : ~(<<m, n>> \in LessThan)
  <2>1. IsWellFoundedOn(LessThan, Nat)
    BY LessThanWellFounded
  <2> HIDE DEF LessThan
  <2> QED BY <2>1, WFMin
<1>2. PICK n \in S : \A m \in S : ~(<<m, n>> \in LessThan)
  BY <1>1
<1>3. ASSUME NEW m \in S PROVE n <= m
  <2>1. m \in Nat /\ n \in Nat
    OBVIOUS
  <2>2. ~(m < n)
    <3>1. <<m, n>> \in Nat \X Nat
      BY <2>1
    <3> QED BY <3>1, <1>2 DEF LessThan
  <2> QED BY <2>1, <2>2
<1> QED BY <1>3

LEMMA FirstOfSet ==
  ASSUME NEW S, S \subseteq Nat, S # {}
  PROVE  FirstOf(S) \in S /\ \A m \in S : FirstOf(S) <= m
BY LeastNumber DEF FirstOf

\* Where the next word is.
LEMMA NextWordFound ==
  ASSUME tokens \in Seq(Words), NEW p \in Nat, 0 < p
  PROVE  /\ NextWord[p] \in Nat
         /\ NextWord[p] <= Len(tokens) =>
              /\ p <= NextWord[p]
              /\ tokens[NextWord[p]] # Semicolon
              /\ \A q \in p .. NextWord[p] - 1 : tokens[q] = Semicolon
         /\ NextWord[p] > Len(tokens) => \A q \in p .. Len(tokens) : tokens[q] = Semicolon
<1> DEFINE found == {q \in p .. Len(tokens) : tokens[q] # Semicolon}
<1>0. Len(tokens) \in Nat
  OBVIOUS
<1>1. CASE found = {}
  BY <1>0, <1>1 DEF NextWord
<1>2. CASE found # {}
  <2>1. found \subseteq Nat
    OBVIOUS
  <2>2. NextWord[p] = FirstOf(found)
    BY <1>2 DEF NextWord
  <2>3. NextWord[p] \in found /\ \A q \in found : NextWord[p] <= q
    BY <1>2, <2>1, <2>2, FirstOfSet
  <2> QED BY <1>0, <2>3
<1> QED BY <1>1, <1>2

-----------------------------------------------------------------------------
(* Behind is what its equation says.                                       *)

BehindUpTo(pattern, at, n, b) ==
  b = [k \in 0 .. n |-> IF k = 0 THEN at ELSE After(pattern[k], b[k - 1])]

LEMMA BehindExists ==
  ASSUME NEW pattern, NEW at, NEW n \in Nat
  PROVE  \E b : BehindUpTo(pattern, at, n, b)
<1> DEFINE S == {m \in Nat : ~\E b : BehindUpTo(pattern, at, m, b)}
<1> SUFFICES ASSUME S # {} PROVE FALSE
  OBVIOUS
<1>1. PICK m \in S : \A l \in S : m <= l
  BY LeastNumber
<1>2. CASE m = 0
  <2>1. BehindUpTo(pattern, at, 0, [k \in 0 .. 0 |-> at])
    BY DEF BehindUpTo
  <2> QED BY <1>1, <1>2, <2>1
<1>3. CASE m # 0
  <2>1. m - 1 \in Nat /\ m - 1 \notin S
    BY <1>1, <1>3
  <2>2. PICK b : BehindUpTo(pattern, at, m - 1, b)
    BY <2>1
  <2> DEFINE c == [k \in 0 .. m |-> IF k = m THEN After(pattern[m], b[m - 1]) ELSE b[k]]
  <2>3. BehindUpTo(pattern, at, m, c)
    <3>1. \A k \in 0 .. m - 1 : b[k] = IF k = 0 THEN at ELSE After(pattern[k], b[k - 1])
      BY <2>2 DEF BehindUpTo
    <3>2. ASSUME NEW k \in 0 .. m
          PROVE  c[k] = IF k = 0 THEN at ELSE After(pattern[k], c[k - 1])
      <4>1. CASE k = m
        BY <1>3, <2>1, <4>1
      <4>2. CASE k # m
        BY <1>3, <2>1, <3>1, <4>2
      <4> QED BY <4>1, <4>2
    <3> HIDE DEF c
    <3>3. c = [k \in 0 .. m |-> c[k]]
      BY DEF c
    <3> QED BY <3>2, <3>3 DEF BehindUpTo
  <2> QED BY <1>1, <2>3
<1> QED BY <1>2, <1>3

LEMMA BehindSteps ==
  ASSUME NEW pattern, Len(pattern) \in Nat, NEW at
  PROVE  /\ Behind(pattern, at)[0] = at
         /\ \A k \in 1 .. Len(pattern) :
              Behind(pattern, at)[k] = After(pattern[k], Behind(pattern, at)[k - 1])
<1> DEFINE b == Behind(pattern, at)
<1>1. BehindUpTo(pattern, at, Len(pattern), b)
  <2>1. b = CHOOSE c : BehindUpTo(pattern, at, Len(pattern), c)
    BY DEF Behind, BehindUpTo
  <2> QED BY <2>1, BehindExists
<1> HIDE DEF b
<1>2. \A k \in 0 .. Len(pattern) : b[k] = IF k = 0 THEN at ELSE After(pattern[k], b[k - 1])
  BY <1>1 DEF BehindUpTo
<1> QED BY <1>2 DEF b

-----------------------------------------------------------------------------
(* A pattern that is found lies in the message, and one that lies there is *)
(* found.                                                                  *)

LEMMA AfterFound ==
  ASSUME tokens \in Seq(Words), NEW p \in Nat, 0 < p, NEW wanted
  PROVE  \/ After(wanted, p) = Nowhere
         \/ /\ After(wanted, p) \in p + 1 .. Len(tokens) + 1
            /\ After(wanted, p) = NextWord[p] + 1
            /\ Fits(wanted, tokens[NextWord[p]])
<1>1. Len(tokens) \in Nat
  OBVIOUS
<1> QED BY <1>1, NextWordFound DEF After

LEMMA AfterNowhere ==
  ASSUME tokens \in Seq(Words), NEW wanted
  PROVE  After(wanted, Nowhere) = Nowhere
<1>1. Nowhere = Len(tokens) + 2 /\ Len(tokens) \in Nat
  BY DEF Nowhere
<1>2. NextWord[Nowhere] \in Nat /\ (NextWord[Nowhere] <= Len(tokens) => Nowhere <= NextWord[Nowhere])
  BY <1>1, NextWordFound
<1> QED BY <1>1, <1>2 DEF After

LEMMA BehindInMessage ==
  ASSUME tokens \in Seq(Words), NEW pattern, Len(pattern) \in Nat,
         NEW at \in 1 .. Len(tokens), NEW k \in 0 .. Len(pattern)
  PROVE  \/ Behind(pattern, at)[k] = Nowhere
         \/ Behind(pattern, at)[k] \in at + k .. Len(tokens) + 1
<1> DEFINE b == Behind(pattern, at)
           S == {i \in 0 .. Len(pattern) : ~(b[i] = Nowhere \/ b[i] \in at + i .. Len(tokens) + 1)}
<1>1. b[0] = at /\ \A i \in 1 .. Len(pattern) : b[i] = After(pattern[i], b[i - 1])
  BY BehindSteps
<1> HIDE DEF b
<1>2. Len(tokens) \in Nat
  OBVIOUS
<1>3. SUFFICES ASSUME S # {} PROVE FALSE
  BY DEF b
<1>4. PICK m \in S : \A l \in S : m <= l
  <2>1. S \subseteq Nat
    OBVIOUS
  <2> QED BY <1>3, <2>1, LeastNumber
<1>5. m # 0
  BY <1>1, <1>2, <1>4
<1>6. m \in 1 .. Len(pattern) /\ m - 1 \in 0 .. Len(pattern) /\ m - 1 \notin S
  BY <1>4, <1>5
<1>7. b[m] = After(pattern[m], b[m - 1])
  BY <1>1, <1>6
<1>8. CASE b[m - 1] = Nowhere
  BY <1>4, <1>7, <1>8, AfterNowhere
<1>9. CASE b[m - 1] # Nowhere
  <2>1. b[m - 1] \in at + (m - 1) .. Len(tokens) + 1
    BY <1>6, <1>9
  <2>2. b[m - 1] \in Nat /\ 0 < b[m - 1]
    BY <1>2, <1>6, <2>1
  <2>3. b[m] = Nowhere \/ b[m] \in b[m - 1] + 1 .. Len(tokens) + 1
    BY <1>7, <2>2, AfterFound
  <2>4. b[m] = Nowhere \/ b[m] \in at + m .. Len(tokens) + 1
    BY <1>2, <1>6, <2>1, <2>2, <2>3
  <2> QED BY <1>4, <2>4
<1> QED BY <1>8, <1>9

\* Once a token was not found no later one is.
LEMMA BehindGrows ==
  ASSUME tokens \in Seq(Words), NEW pattern, Len(pattern) \in Nat,
         NEW at \in 1 .. Len(tokens), NEW j \in 0 .. Len(pattern), NEW i \in 0 .. j - 1,
         Behind(pattern, at)[j] # Nowhere
  PROVE  Behind(pattern, at)[i] # Nowhere /\ Behind(pattern, at)[i] < Behind(pattern, at)[j]
<1> DEFINE b == Behind(pattern, at)
           Less(n) == b[n] # Nowhere => b[i] # Nowhere /\ b[i] < b[n]
           S == {n \in i + 1 .. Len(pattern) : ~Less(n)}
<1>1. \A n \in 1 .. Len(pattern) : b[n] = After(pattern[n], b[n - 1])
  BY BehindSteps
<1>2. \A n \in 0 .. Len(pattern) : b[n] = Nowhere \/ b[n] \in at + n .. Len(tokens) + 1
  BY BehindInMessage
<1>3. Len(tokens) \in Nat /\ i \in Nat
  OBVIOUS
<1>4. SUFFICES ASSUME S # {} PROVE FALSE
  <2>1. j \in i + 1 .. Len(pattern)
    BY <1>3
  <2> QED BY <2>1
<1> HIDE DEF b
<1>5. PICK m \in S : \A l \in S : m <= l
  <2>1. S \subseteq Nat
    BY <1>3
  <2> QED BY <1>4, <2>1, LeastNumber
<1>6. m \in 1 .. Len(pattern) /\ m - 1 \in 0 .. Len(pattern) /\ i <= m - 1
  BY <1>3, <1>5
<1>7. b[m] = After(pattern[m], b[m - 1]) /\ b[m] # Nowhere
  BY <1>1, <1>5, <1>6
<1>8. b[m - 1] # Nowhere
  BY <1>7, AfterNowhere
<1>9. b[m - 1] < b[m] /\ b[m - 1] \in Nat /\ b[m] \in Nat
  <2>1. b[m - 1] \in at + (m - 1) .. Len(tokens) + 1
    BY <1>2, <1>6, <1>8
  <2>2. b[m - 1] \in Nat /\ 0 < b[m - 1]
    BY <1>3, <1>6, <2>1
  <2>3. b[m] \in b[m - 1] + 1 .. Len(tokens) + 1
    BY <1>7, <2>2, AfterFound
  <2> QED BY <1>3, <2>2, <2>3
<1>10. CASE i = m - 1
  BY <1>5, <1>8, <1>9, <1>10
<1>11. CASE i # m - 1
  <2>1. m - 1 \in i + 1 .. Len(pattern) /\ ~(m <= m - 1)
    BY <1>3, <1>6, <1>11
  <2>2. Less(m - 1)
    BY <1>5, <2>1
  <2>3. b[i] # Nowhere /\ b[i] < b[m - 1] /\ b[i] \in Nat
    <3>1. b[i] \in at + i .. Len(tokens) + 1
      BY <1>2, <1>3, <1>6, <1>8, <2>2
    <3> QED BY <1>3, <1>8, <2>2, <3>1
  <2> QED BY <1>5, <1>9, <2>3
<1> QED BY <1>10, <1>11

LEMMA MatchLengthBounds ==
  ASSUME tokens \in Seq(Words), NEW pattern, Len(pattern) \in Nat,
         pattern # <<>> => Len(pattern) > 0,
         NEW at \in 1 .. Len(tokens), MatchLength(pattern, at) # NoMatch
  PROVE  MatchLength(pattern, at) \in 1 .. Len(tokens) - at + 1
<1> DEFINE end == Behind(pattern, at)[Len(pattern)]
<1>1. MatchLength(pattern, at) = end - at /\ end # Nowhere /\ Len(pattern) > 0
  BY DEF MatchLength
<1>2. end \in at + Len(pattern) .. Len(tokens) + 1
  <2>1. Len(pattern) \in 0 .. Len(pattern)
    OBVIOUS
  <2> QED BY <1>1, <2>1, BehindInMessage
<1>3. Len(tokens) \in Nat
  OBVIOUS
<1> QED BY <1>1, <1>2, <1>3

LEMMA FoundLies ==
  ASSUME tokens \in Seq(Words), NEW pattern, pattern \in Seq(Words \union Placeholders),
         pattern # <<>>, NEW at \in 1 .. Len(tokens), tokens[at] # Semicolon,
         MatchLength(pattern, at) # NoMatch
  PROVE  \E place \in [DOMAIN pattern -> at .. at + MatchLength(pattern, at) - 1] :
           LiesAt(tokens, place, pattern, at, at + MatchLength(pattern, at) - 1)
<1> DEFINE b == Behind(pattern, at)
           n == Len(pattern)
           to == b[n] - 1
           place == [i \in DOMAIN pattern |-> b[i] - 1]
<1>1. n \in Nat \ {0} /\ DOMAIN pattern = 1 .. n /\ Len(tokens) \in Nat
  OBVIOUS
<1>2. b[n] # Nowhere /\ MatchLength(pattern, at) = b[n] - at
  BY DEF MatchLength
<1>3. b[0] = at /\ \A i \in 1 .. n : b[i] = After(pattern[i], b[i - 1])
  BY <1>1, BehindSteps
<1>4. \A i \in 0 .. n : \A k \in 0 .. i - 1 : b[i] # Nowhere => b[k] # Nowhere /\ b[k] < b[i]
  BY <1>1, BehindGrows
<1>5. \A i \in 0 .. n : b[i] = Nowhere \/ b[i] \in at + i .. Len(tokens) + 1
  BY <1>1, BehindInMessage
<1> HIDE DEF b, n
<1>6. \A i \in 0 .. n : b[i] # Nowhere /\ b[i] \in at + i .. Len(tokens) + 1
  <2>1. SUFFICES ASSUME NEW i \in 0 .. n PROVE b[i] # Nowhere
    BY <1>5
  <2>2. CASE i = n
    BY <1>2, <2>2
  <2>3. CASE i # n
    <3>1. n \in 0 .. n /\ i \in 0 .. n - 1
      BY <1>1, <2>3
    <3> QED BY <1>2, <1>4, <3>1
  <2> QED BY <2>2, <2>3
<1>7. \A i \in 1 .. n : /\ b[i] - 1 \in b[i - 1] .. Len(tokens)
                       /\ NextWord[b[i - 1]] = b[i] - 1
                       /\ Fits(pattern[i], tokens[b[i] - 1])
                       /\ tokens[b[i] - 1] # Semicolon
                       /\ \A p \in b[i - 1] .. b[i] - 2 : tokens[p] = Semicolon
  <2> SUFFICES ASSUME NEW i \in 1 .. n
               PROVE  /\ b[i] - 1 \in b[i - 1] .. Len(tokens)
                      /\ NextWord[b[i - 1]] = b[i] - 1
                      /\ Fits(pattern[i], tokens[b[i] - 1])
                      /\ tokens[b[i] - 1] # Semicolon
                      /\ \A p \in b[i - 1] .. b[i] - 2 : tokens[p] = Semicolon
    OBVIOUS
  <2>1. i \in 0 .. n /\ i - 1 \in 0 .. n
    BY <1>1
  <2>2. b[i - 1] \in Nat /\ 0 < b[i - 1]
    BY <1>1, <1>6, <2>1
  <2>3. /\ b[i] \in b[i - 1] + 1 .. Len(tokens) + 1
        /\ b[i] = NextWord[b[i - 1]] + 1
        /\ Fits(pattern[i], tokens[NextWord[b[i - 1]]])
    BY <1>3, <1>6, <2>1, <2>2, AfterFound
  <2>4. NextWord[b[i - 1]] \in Nat
    BY <2>2, NextWordFound
  <2>5. b[i] - 1 = NextWord[b[i - 1]] /\ NextWord[b[i - 1]] <= Len(tokens)
    BY <1>1, <2>2, <2>3, <2>4
  <2>6. /\ tokens[NextWord[b[i - 1]]] # Semicolon
        /\ \A p \in b[i - 1] .. NextWord[b[i - 1]] - 1 : tokens[p] = Semicolon
    BY <2>2, <2>5, NextWordFound
  <2>7. b[i] - 2 = NextWord[b[i - 1]] - 1 /\ b[i] - 1 \in b[i - 1] .. Len(tokens)
    BY <1>1, <2>2, <2>3, <2>4
  <2> QED BY <2>3, <2>5, <2>6, <2>7
<1>8. b[1] = at + 1
  <2>1. 1 \in 1 .. n
    BY <1>1
  <2>2. b[1] - 1 >= at /\ \A p \in at .. b[1] - 2 : tokens[p] = Semicolon
    BY <1>3, <1>7, <2>1
  <2>3. b[1] \in Nat
    BY <1>1, <1>6
  <2> QED BY <2>2, <2>3
<1>9. \A i \in 0 .. n : b[i] <= b[n] /\ b[i] \in Nat
  <2> SUFFICES ASSUME NEW i \in 0 .. n PROVE b[i] <= b[n] /\ b[i] \in Nat
    OBVIOUS
  <2>1. b[i] \in Nat /\ b[n] \in Nat
    BY <1>1, <1>6
  <2>2. CASE i = n
    BY <2>1, <2>2
  <2>3. CASE i # n
    <3>1. n \in 0 .. n /\ i \in 0 .. n - 1
      BY <1>1, <2>3
    <3> QED BY <1>2, <1>4, <2>1, <3>1
  <2> QED BY <2>2, <2>3
<1>10. place \in [DOMAIN pattern -> at .. to]
  <2> SUFFICES ASSUME NEW i \in 1 .. n PROVE b[i] - 1 \in at .. to
    BY <1>1
  <2>1. b[i] - 1 >= at /\ b[i] <= b[n] /\ b[i] \in Nat /\ b[n] \in Nat
    <3>1. i \in 0 .. n /\ n \in 0 .. n
      BY <1>1
    <3> QED BY <1>1, <1>6, <1>9, <3>1
  <2> QED BY <2>1
<1>11. \A p \in at .. to : tokens[p] = Semicolon \/ \E i \in 1 .. n : p = b[i] - 1
  <2> SUFFICES ASSUME NEW p \in at .. to PROVE tokens[p] = Semicolon \/ \E i \in 1 .. n : p = b[i] - 1
    OBVIOUS
  <2> DEFINE S == {i \in 0 .. n : p < b[i]}
  <2>1. n \in S
    BY <1>1, <1>9
  <2>2. PICK m \in S : \A l \in S : m <= l
    <3>1. S \subseteq Nat
      OBVIOUS
    <3> QED BY <2>1, <3>1, LeastNumber
  <2>3. m # 0
    BY <1>3, <2>2
  <2>4. m \in 1 .. n /\ m - 1 \in 0 .. n /\ m - 1 \notin S
    BY <1>1, <2>2, <2>3
  <2>5. b[m - 1] <= p /\ p < b[m] /\ b[m] \in Nat /\ b[m - 1] \in Nat
    BY <1>9, <2>2, <2>4
  <2>6. p = b[m] - 1 \/ p \in b[m - 1] .. b[m] - 2
    BY <2>5
  <2> QED BY <1>7, <2>4, <2>6
<1>12. LiesAt(tokens, place, pattern, at, to)
  <2>1. 1 \in 1 .. n /\ n \in 1 .. n
    BY <1>1
  <2>2. place[1] = at /\ place[n] = to
    BY <1>1, <1>8, <2>1
  <2>3. \A i, j \in 1 .. n : i < j => place[i] < place[j]
    <3> SUFFICES ASSUME NEW i \in 1 .. n, NEW j \in 1 .. n, i < j PROVE b[i] - 1 < b[j] - 1
      BY <1>1
    <3>1. j \in 0 .. n /\ i \in 0 .. n /\ i \in 0 .. j - 1
      BY <1>1
    <3>2. b[i] < b[j]
      BY <1>4, <1>6, <3>1
    <3> QED BY <1>9, <3>1, <3>2
  <2>4. \A i \in 1 .. n : tokens[place[i]] # Semicolon /\ Fits(pattern[i], tokens[place[i]])
    BY <1>1, <1>7
  <2>5. \A p \in at .. to : tokens[p] = Semicolon \/ \E i \in 1 .. n : p = place[i]
    BY <1>1, <1>11
  <2> HIDE DEF place, to
  <2> QED BY <1>1, <2>2, <2>3, <2>4, <2>5 DEF LiesAt, n
<1>13. at + MatchLength(pattern, at) - 1 = to
  <2>1. b[n] \in Nat
    BY <1>1, <1>9
  <2> QED BY <1>2, <2>1
<1> QED BY <1>10, <1>12, <1>13

LEMMA LyingIsFound ==
  ASSUME tokens \in Seq(Words), NEW pattern, pattern \in Seq(Words \union Placeholders),
         pattern # <<>>, NEW at \in 1 .. Len(tokens), NEW to \in at .. Len(tokens),
         NEW place \in [DOMAIN pattern -> at .. to], LiesAt(tokens, place, pattern, at, to)
  PROVE  MatchLength(pattern, at) # NoMatch
<1> DEFINE b == Behind(pattern, at)
           n == Len(pattern)
           S == {i \in 1 .. n : b[i] # place[i] + 1}
<1>1. n \in Nat \ {0} /\ DOMAIN pattern = 1 .. n /\ Len(tokens) \in Nat
  OBVIOUS
<1>2. b[0] = at /\ \A i \in 1 .. n : b[i] = After(pattern[i], b[i - 1])
  BY <1>1, BehindSteps
<1>3. MatchLength(pattern, at) = IF b[n] = Nowhere THEN NoMatch ELSE b[n] - at
  BY <1>1 DEF MatchLength
<1>4. /\ place[1] = at
      /\ \A i, j \in 1 .. n : i < j => place[i] < place[j]
      /\ \A i \in 1 .. n : tokens[place[i]] # Semicolon /\ Fits(pattern[i], tokens[place[i]])
      /\ \A p \in at .. to : tokens[p] = Semicolon \/ \E i \in 1 .. n : p = place[i]
      /\ \A i \in 1 .. n : place[i] \in at .. to
  BY <1>1 DEF LiesAt
<1> HIDE DEF b, n
<1>5. SUFFICES S = {}
  <2>1. n \in 1 .. n
    BY <1>1
  <2>2. b[n] = place[n] + 1 /\ place[n] \in at .. to
    BY <1>4, <1>5, <2>1
  <2> QED BY <1>1, <1>3, <2>2 DEF Nowhere, NoMatch
<1>6. SUFFICES ASSUME S # {} PROVE FALSE
  OBVIOUS
<1>7. PICK m \in S : \A l \in S : m <= l
  <2>1. S \subseteq Nat
    OBVIOUS
  <2> QED BY <1>6, <2>1, LeastNumber
<1>8. m \in 1 .. n /\ place[m] \in at .. to /\ place[m] \in Nat /\ place[m] <= Len(tokens)
  BY <1>1, <1>4
<1>9. /\ b[m - 1] \in at .. place[m]
      /\ \A p \in b[m - 1] .. place[m] - 1 : tokens[p] = Semicolon
  <2>1. CASE m = 1
    <3>1. place[m] = at /\ b[m - 1] = at
      BY <1>2, <1>4, <2>1
    <3> QED BY <1>8, <3>1
  <2>2. CASE m # 1
    <3>1. m - 1 \in 1 .. n /\ m - 1 < m
      BY <1>1, <1>8, <2>2
    <3>2. b[m - 1] = place[m - 1] + 1
      BY <1>7, <3>1
    <3>3. place[m - 1] < place[m] /\ place[m - 1] \in at .. to /\ place[m - 1] \in Nat
      BY <1>4, <1>8, <3>1
    <3>4. ASSUME NEW p \in b[m - 1] .. place[m] - 1
          PROVE  tokens[p] = Semicolon
      <4>1. p \in at .. to /\ place[m - 1] < p /\ p < place[m]
        BY <1>8, <3>2, <3>3
      <4>2. SUFFICES ASSUME NEW i \in 1 .. n, p = place[i] PROVE FALSE
        BY <1>4, <4>1
      <4>3. i \in 1 .. n /\ (i < m - 1 \/ i = m - 1 \/ i = m \/ m < i)
        BY <1>1, <1>8
      <4>4. place[i] \in Nat
        BY <1>4
      <4> QED BY <1>4, <1>8, <3>1, <3>3, <4>1, <4>2, <4>3, <4>4
    <3> QED BY <1>8, <3>2, <3>3, <3>4
  <2> QED BY <2>1, <2>2
<1>10. NextWord[b[m - 1]] = place[m]
  <2>1. b[m - 1] \in Nat /\ 0 < b[m - 1]
    BY <1>9
  <2> DEFINE w == NextWord[b[m - 1]]
  <2>2. /\ w \in Nat
        /\ w <= Len(tokens) =>
             /\ b[m - 1] <= w
             /\ tokens[w] # Semicolon
             /\ \A q \in b[m - 1] .. w - 1 : tokens[q] = Semicolon
        /\ w > Len(tokens) => \A q \in b[m - 1] .. Len(tokens) : tokens[q] = Semicolon
    BY <2>1, NextWordFound
  <2> HIDE DEF w
  <2>3. tokens[place[m]] # Semicolon
    BY <1>4, <1>8
  <2>4. w <= Len(tokens)
    <3>1. place[m] \in b[m - 1] .. Len(tokens)
      BY <1>1, <1>8, <1>9, <2>1
    <3> QED BY <1>1, <2>2, <2>3, <3>1
  <2>5. ~(w < place[m])
    <3>1. w < place[m] => w \in b[m - 1] .. place[m] - 1
      BY <1>8, <2>1, <2>2, <2>4
    <3> QED BY <1>9, <2>2, <2>4, <3>1
  <2>6. ~(place[m] < w)
    <3>1. place[m] < w => place[m] \in b[m - 1] .. w - 1
      BY <1>8, <1>9, <2>1, <2>2
    <3> QED BY <2>2, <2>3, <2>4, <3>1
  <2>7. w = place[m]
    BY <1>8, <2>2, <2>5, <2>6
  <2> QED BY <2>7 DEF w
<1>11. b[m] = place[m] + 1
  <2>1. Fits(pattern[m], tokens[place[m]])
    BY <1>4, <1>8
  <2> QED BY <1>2, <1>8, <1>10, <2>1 DEF After
<1> QED BY <1>7, <1>11

-----------------------------------------------------------------------------
(* Entries                                                                 *)

LEMMA ElementOfSeq ==
  ASSUME NEW T, NEW s \in Seq(T), NEW i \in DOMAIN s
  PROVE  s[i] \in T
OBVIOUS

LEMMA AppendedSeq ==
  ASSUME NEW T, NEW s \in Seq(T), NEW x \in T, NEW t, t = Append(s, x)
  PROVE  /\ DOMAIN t = 1 .. Len(s) + 1 /\ Len(t) = Len(s) + 1 /\ t # <<>> /\ t \in Seq(T)
         /\ DOMAIN s = 1 .. Len(s) /\ Len(s) \in Nat
         /\ t[Len(s) + 1] = x
         /\ \A k \in DOMAIN s : t[k] = s[k]
OBVIOUS

LEMMA EntryFacts ==
  ASSUME NEW e \in DOMAIN Blacklist
  PROVE  /\ e \in Nat \ {0}
         /\ Blacklist[e].pattern \in Seq(Words \union Placeholders)
         /\ Blacklist[e].by \in Seq(Words)
<1>1. Blacklist[e] \in [pattern : Seq((Words \union Placeholders) \ {Semicolon}), by : Seq(Words)]
  BY BlacklistAssumption, ElementOfSeq
<1>2. e \in 1 .. Len(Blacklist) /\ Len(Blacklist) \in Nat
  BY BlacklistAssumption
<1>3. Blacklist[e].pattern \in Seq((Words \union Placeholders) \ {Semicolon}) /\ Blacklist[e].by \in Seq(Words)
  BY <1>1
<1>4. ASSUME NEW s \in Seq((Words \union Placeholders) \ {Semicolon}) PROVE s \in Seq(Words \union Placeholders)
  OBVIOUS
<1> QED BY <1>2, <1>3, <1>4

\* An entry is matched where it stands and nowhere else.
LEMMA MatchingStands ==
  ASSUME tokens \in Seq(Words), NEW at \in 1 .. Len(tokens), tokens[at] # Semicolon,
         NEW e \in DOMAIN Blacklist
  PROVE  /\ StandsAt(tokens, e, at) => e \in Matching(at)
         /\ e \in Matching(at) =>
              /\ MatchLength(Blacklist[e].pattern, at) \in 1 .. Len(tokens) - at + 1
              /\ Stands(tokens, e, at, at + MatchLength(Blacklist[e].pattern, at) - 1)
<1> DEFINE pattern == Blacklist[e].pattern
           length == MatchLength(pattern, at)
<1>1. pattern \in Seq(Words \union Placeholders)
  BY EntryFacts
<1>2. Len(pattern) \in Nat /\ (pattern # <<>> => Len(pattern) > 0)
  BY <1>1
<1>3. ASSUME StandsAt(tokens, e, at) PROVE e \in Matching(at)
  <2>1. PICK to \in at .. Len(tokens) : Stands(tokens, e, at, to)
    BY <1>3 DEF StandsAt
  <2>2. pattern # <<>> /\ \E place \in [DOMAIN pattern -> at .. to] : LiesAt(tokens, place, pattern, at, to)
    BY <2>1 DEF Stands
  <2> HIDE DEF pattern
  <2>3. length # NoMatch
    BY <1>1, <2>2, LyingIsFound
  <2> QED BY <2>3 DEF Matching, pattern
<1>4. ASSUME e \in Matching(at)
      PROVE  length \in 1 .. Len(tokens) - at + 1 /\ Stands(tokens, e, at, at + length - 1)
  <2>1. length # NoMatch
    BY <1>4 DEF Matching
  <2> HIDE DEF pattern
  <2>2. length \in 1 .. Len(tokens) - at + 1
    BY <1>2, <2>1, MatchLengthBounds
  <2>3. pattern # <<>>
    BY <2>1 DEF MatchLength
  <2>4. \E place \in [DOMAIN pattern -> at .. at + length - 1] : LiesAt(tokens, place, pattern, at, at + length - 1)
    BY <1>1, <2>1, <2>3, FoundLies
  <2> HIDE DEF length
  <2>5. Stands(tokens, e, at, at + length - 1)
    BY <2>3, <2>4 DEF Stands, pattern
  <2> QED BY <2>2, <2>5
<1> QED BY <1>3, <1>4

\* Nothing stands where a semicolon is.
LEMMA NoneAtSemicolon ==
  ASSUME tokens \in Seq(Words), NEW at \in 1 .. Len(tokens), tokens[at] = Semicolon,
         NEW e \in DOMAIN Blacklist
  PROVE  ~StandsAt(tokens, e, at)
<1> SUFFICES ASSUME NEW to, Stands(tokens, e, at, to) PROVE FALSE
  BY DEF StandsAt
<1> DEFINE pattern == Blacklist[e].pattern
<1>1. pattern \in Seq(Words \union Placeholders)
  BY EntryFacts
<1>2. pattern # <<>> /\ \E place \in [DOMAIN pattern -> at .. to] : LiesAt(tokens, place, pattern, at, to)
  BY DEF Stands
<1> HIDE DEF pattern
<1>3. 1 \in DOMAIN pattern
  BY <1>1, <1>2
<1> QED BY <1>2, <1>3 DEF LiesAt

-----------------------------------------------------------------------------
(* The invariant                                                           *)

TokenInv == TokenTypeOK /\ PiecesCover /\ PiecesMatch

LEMMA TokenInitInv == TokenInit => TokenInv
<1> SUFFICES ASSUME TokenInit PROVE TokenInv
  OBVIOUS
<1>1. PICK message \in Messages :
        tokens = RewriteAbort(message) /\ position = 1 /\ output = <<>> /\ pieces = <<>>
  BY DEF TokenInit
<1>2. message \in Seq(Words)
  BY MessageAssumption
<1>3. tokens \in Seq(Words)
  BY <1>1, <1>2, WordAssumption DEF RewriteAbort
<1>4. <<>> \in Seq(Words) /\ <<>> \in Seq(PieceType) /\ Len(tokens) \in Nat /\ DOMAIN pieces = {}
  BY <1>1, <1>3
<1>5. TokenTypeOK
  BY <1>1, <1>3, <1>4 DEF TokenTypeOK
<1>6. PiecesCover /\ PiecesMatch
  BY <1>1, <1>4 DEF PiecesCover, PiecesMatch
<1> QED BY <1>5, <1>6 DEF TokenInv

\* Taking any piece of the right form.
LEMMA TakeInv ==
  ASSUME TokenInv, NEW length \in 1 .. Len(tokens) - position + 1, NEW by \in Seq(Words),
         NEW entry \in Nat, Take(length, by, entry),
         PieceRight(tokens, [from |-> position, to |-> position + length - 1, entry |-> entry])
  PROVE  TokenInv'
<1> DEFINE piece == [from |-> position, to |-> position + length - 1, entry |-> entry]
<1>1. /\ position' = position + length /\ output' = output \o by /\ tokens' = tokens
      /\ pieces' = Append(pieces, piece)
  BY DEF Take
<1>2. /\ tokens \in Seq(Words) /\ position \in 1 .. Len(tokens) + 1 /\ output \in Seq(Words)
      /\ pieces \in Seq(PieceType) /\ Len(tokens) \in Nat
  BY DEF TokenInv, TokenTypeOK
<1>3. piece \in PieceType /\ piece.from = position /\ piece.to = position + length - 1 /\ piece.to \in Nat
  BY <1>2 DEF PieceType
<1>0. PieceRight(tokens, piece)
  OBVIOUS
<1> HIDE DEF piece
<1>4. /\ DOMAIN pieces' = 1 .. Len(pieces) + 1 /\ Len(pieces') = Len(pieces) + 1
      /\ DOMAIN pieces = 1 .. Len(pieces) /\ Len(pieces) \in Nat
      /\ pieces'[Len(pieces) + 1] = piece
      /\ \A k \in DOMAIN pieces : pieces'[k] = pieces[k] /\ pieces[k] \in PieceType
      /\ pieces' # <<>> /\ pieces' \in Seq(PieceType)
  <2>1. \A k \in DOMAIN pieces : pieces[k] \in PieceType
    BY <1>2, ElementOfSeq
  <2>2. pieces' = Append(pieces, piece) /\ piece \in PieceType /\ pieces \in Seq(PieceType)
    BY <1>1, <1>2, <1>3
  <2>3. /\ DOMAIN pieces' = 1 .. Len(pieces) + 1 /\ Len(pieces') = Len(pieces) + 1
        /\ pieces' # <<>> /\ pieces' \in Seq(PieceType)
        /\ DOMAIN pieces = 1 .. Len(pieces) /\ Len(pieces) \in Nat
    BY <2>2, AppendedSeq
  <2>4. pieces'[Len(pieces) + 1] = piece /\ \A k \in DOMAIN pieces : pieces'[k] = pieces[k]
    BY <2>2, AppendedSeq
  <2> QED BY <2>1, <2>3, <2>4
<1>5. TokenTypeOK'
  <2>1. position' \in 1 .. Len(tokens) + 1
    BY <1>1, <1>2
  <2>2. output' \in Seq(Words) /\ pieces' \in Seq(PieceType)
    BY <1>1, <1>2, <1>4
  <2> QED BY <1>1, <1>2, <2>1, <2>2 DEF TokenTypeOK, PieceType
<1>6. PiecesMatch'
  <2>1. \A k \in DOMAIN pieces : PieceRight(tokens, pieces[k])
    BY DEF TokenInv, PiecesMatch
  <2>2. \A k \in DOMAIN pieces' : PieceRight(tokens, pieces'[k])
    BY <1>4, <1>0, <2>1
  <2> QED BY <1>1, <2>2 DEF PiecesMatch
<1>7. PiecesCover'
  <2>1. /\ \A k \in DOMAIN pieces :
             /\ pieces[k].from <= pieces[k].to
             /\ k = 1 => pieces[k].from = 1
             /\ k > 1 => pieces[k].from = pieces[k - 1].to + 1
        /\ position = IF pieces = <<>> THEN 1 ELSE pieces[Len(pieces)].to + 1
    BY DEF TokenInv, PiecesCover
  <2>2. position' = pieces'[Len(pieces')].to + 1
    BY <1>1, <1>2, <1>3, <1>4
  <2>3. ASSUME NEW k \in DOMAIN pieces'
        PROVE  /\ pieces'[k].from <= pieces'[k].to
               /\ k = 1 => pieces'[k].from = 1
               /\ k > 1 => pieces'[k].from = pieces'[k - 1].to + 1
    <3>1. CASE k \in DOMAIN pieces
      <4>1. k > 1 => k - 1 \in DOMAIN pieces
        BY <1>4, <3>1
      <4> QED BY <1>4, <2>1, <3>1, <4>1
    <3>2. CASE k = Len(pieces) + 1
      <4>1. pieces'[k].from = position /\ pieces'[k].from <= pieces'[k].to
        BY <1>2, <1>3, <1>4, <3>2
      <4>2. CASE pieces = <<>>
        BY <1>4, <2>1, <3>2, <4>1, <4>2
      <4>3. CASE pieces # <<>>
        <5>1. Len(pieces) \in DOMAIN pieces /\ k > 1 /\ k - 1 = Len(pieces)
          BY <1>2, <1>4, <3>2, <4>3
        <5> QED BY <1>4, <2>1, <4>1, <4>3, <5>1
      <4> QED BY <4>2, <4>3
    <3> QED BY <1>4, <3>1, <3>2
  <2> QED BY <1>4, <2>2, <2>3 DEF PiecesCover
<1> QED BY <1>5, <1>6, <1>7 DEF TokenInv

LEMMA TokenStepInv == TokenInv /\ [TokenNext]_tokenVars => TokenInv'
<1> SUFFICES ASSUME TokenInv, [TokenNext]_tokenVars PROVE TokenInv'
  OBVIOUS
<1>1. tokens \in Seq(Words) /\ position \in 1 .. Len(tokens) + 1 /\ Len(tokens) \in Nat
  BY DEF TokenInv, TokenTypeOK
<1>2. CASE ReplaceStatement
  <2> DEFINE S == Matching(position)
             e == FirstOf(S)
             length == MatchLength(Blacklist[e].pattern, position)
  <2>1. /\ position \in 1 .. Len(tokens) /\ tokens[position] # Semicolon /\ S # {}
        /\ Take(length, Blacklist[e].by, e)
    BY <1>1, <1>2 DEF ReplaceStatement, Scanned
  <2>2. S \subseteq DOMAIN Blacklist /\ S \subseteq Nat
    BY EntryFacts DEF Matching
  <2> HIDE DEF S
  <2>3. e \in S /\ \A f \in S : e <= f
    BY <2>1, <2>2, FirstOfSet
  <2> HIDE DEF e
  <2>4. e \in DOMAIN Blacklist /\ e \in Nat \ {0} /\ Blacklist[e].by \in Seq(Words)
    BY <2>2, <2>3, EntryFacts
  <2>5. /\ length \in 1 .. Len(tokens) - position + 1
        /\ Stands(tokens, e, position, position + length - 1)
    BY <1>1, <2>1, <2>3, <2>4, MatchingStands DEF S
  <2> HIDE DEF length
  <2>6. ASSUME NEW f \in 1 .. e - 1 PROVE ~StandsAt(tokens, f, position)
    <3>1. f \in DOMAIN Blacklist /\ ~(e <= f)
      BY <2>4, BlacklistAssumption
    <3>2. f \notin S
      BY <2>3, <3>1
    <3> QED BY <1>1, <2>1, <3>1, <3>2, MatchingStands DEF S
  <2>7. PieceRight(tokens, [from |-> position, to |-> position + length - 1, entry |-> e])
    BY <2>4, <2>5, <2>6 DEF PieceRight, Unused
  <2> QED BY <2>1, <2>4, <2>5, <2>7, TakeInv
<1>3. CASE KeepToken
  <2>1. /\ position \in 1 .. Len(tokens) /\ (tokens[position] = Semicolon \/ Matching(position) = {})
        /\ Take(1, <<tokens[position]>>, Unused)
    BY <1>1, <1>3 DEF KeepToken, Scanned
  <2>2. <<tokens[position]>> \in Seq(Words)
    BY <1>1, <2>1
  <2>3. ASSUME NEW e \in DOMAIN Blacklist PROVE ~StandsAt(tokens, e, position)
    BY <1>1, <2>1, MatchingStands, NoneAtSemicolon
  <2>4. PieceRight(tokens, [from |-> position, to |-> position + 1 - 1, entry |-> Unused])
    BY <1>1, <2>3 DEF PieceRight
  <2>5. 1 \in 1 .. Len(tokens) - position + 1 /\ Unused \in Nat
    BY <1>1, <2>1 DEF Unused
  <2> QED BY <2>1, <2>2, <2>4, <2>5, TakeInv
<1>4. CASE UNCHANGED tokenVars
  BY <1>4 DEF tokenVars, TokenInv, TokenTypeOK, PiecesCover, PiecesMatch
<1> QED BY <1>2, <1>3, <1>4 DEF TokenNext

LEMMA TokensRewritten == TokenSpec => []TokenInv
BY TokenInitInv, TokenStepInv, PTL DEF TokenSpec

\* The tokens stay words and the scan stays within the message
\* (maybe_replace_tokens), for every list of entries and every message.
THEOREM TokensTypeCorrect == TokenSpec => []TokenTypeOK
<1>1. TokenInv => TokenTypeOK
  BY DEF TokenInv
<1> QED BY <1>1, TokensRewritten, PTL

\* No token is dropped or looked at twice, however long the replaced statements
\* are and whatever semicolons they span (maybe_replace_tokens).
THEOREM TokensCovered == TokenSpec => []PiecesCover
<1>1. TokenInv => PiecesCover
  BY DEF TokenInv
<1> QED BY <1>1, TokensRewritten, PTL

\* The loops of maybe_replace_tokens find the first entry that stands at a place,
\* and find it whenever one does.
THEOREM EntriesMatch == TokenSpec => []PiecesMatch
<1>1. TokenInv => PiecesMatch
  BY DEF TokenInv
<1> QED BY <1>1, TokensRewritten, PTL
=============================================================================
