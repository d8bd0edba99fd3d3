---------------------------- MODULE TokenRewrite -----------------------------
(***************************************************************************)
(* The first half of PostgresCompatibilityParser::parse: the tokens of a   *)
(* message are scanned for the statements of client tools that DataFusion  *)
(* cannot plan, and each occurrence is replaced as a whole.  A token is a  *)
(* name; white space is gone.                                              *)
(***************************************************************************)
EXTENDS Naturals, Sequences

CONSTANTS
  Words,         \* the tokens of a message
  Placeholders,  \* the tokens of a pattern that match any token, such as $1
  Blacklist,     \* what is replaced and by what, in the order it is tried
  Messages       \* what clients send

Semicolon == ";"
Abort == "ABORT"
Rollback == "ROLLBACK"

ASSUME BlacklistAssumption ==
  Blacklist \in Seq([pattern : Seq((Words \union Placeholders) \ {Semicolon}), by : Seq(Words)])
ASSUME WordAssumption == Semicolon \in Words /\ Rollback \in Words
ASSUME MessageAssumption == Messages \subseteq Seq(Words)

VARIABLES
  tokens,    \* the message
  position,  \* the token the scan is at
  output,    \* what the parser is given
  pieces     \* history: what the scan took at a time, and the entry it used

tokenVars == <<tokens, position, output, pieces>>

-----------------------------------------------------------------------------
\* ABORT is a synonym the SQL parser does not know.
RewriteAbort(message) ==
  [i \in DOMAIN message |-> IF message[i] = Abort THEN Rollback ELSE message[i]]

\* A token of a pattern and one of the message.
Fits(wanted, token) == wanted \in Placeholders \/ wanted = token

NoMatch == 0

\* Mutant: a semicolon inside the pattern is held against it.
MatchLengthStrict(pattern, at) ==
  IF /\ at + Len(pattern) - 1 <= Len(tokens)
     /\ \A k \in DOMAIN pattern : Fits(pattern[k], tokens[at + k - 1])
  THEN Len(pattern) ELSE NoMatch

FirstOf(S) == CHOOSE n \in S : \A m \in S : n <= m

\* Semicolons of the message are skipped.
NextWord[p \in Nat] ==
  LET found == {q \in p .. Len(tokens) : tokens[q] # Semicolon} IN
  IF found = {} THEN Len(tokens) + 1 ELSE FirstOf(found)

\* The position behind the next word, if that is the one wanted.
Nowhere == Len(tokens) + 2
After(wanted, p) ==
  IF NextWord[p] <= Len(tokens) /\ Fits(wanted, tokens[NextWord[p]])
  THEN NextWord[p] + 1 ELSE Nowhere

\* The positions behind the first k tokens of a pattern.
Behind(pattern, at) ==
  LET behind[k \in 0 .. Len(pattern)] ==
        IF k = 0 THEN at ELSE After(pattern[k], behind[k - 1])
  IN behind

\* The number of tokens from a position on that the pattern stands for, or
\* NoMatch.
MatchLength(pattern, at) ==
  LET end == Behind(pattern, at)[Len(pattern)] IN
  IF pattern = <<>> \/ end = Nowhere THEN NoMatch ELSE end - at

\* The entries that match at a position; the first of them is used.
Matching(at) == {e \in DOMAIN Blacklist : MatchLength(Blacklist[e].pattern, at) # NoMatch}

Unused == 0
Scanned == position > Len(tokens)

\* Mutant: the scan goes on at the last token of a replaced statement.
TakeBack(length, by, entry) ==
  /\ position' = IF entry # Unused /\ length > 1 THEN position + length - 1 ELSE position + length
  /\ output' = output \o by
  /\ pieces' = Append(pieces, [from |-> position, to |-> position + length - 1, entry |-> entry])
  /\ UNCHANGED tokens

Take(length, by, entry) ==
  /\ position' = position + length
  /\ output' = output \o by
  /\ pieces' = Append(pieces, [from |-> position, to |-> position + length - 1, entry |-> entry])
  /\ UNCHANGED tokens

\* Mutant: the token after a replaced statement is skipped with it.
ReplaceStatementTooFar ==
  /\ ~Scanned
  /\ tokens[position] # Semicolon
  /\ Matching(position) # {}
  /\ LET e == FirstOf(Matching(position)) IN
     Take(MatchLength(Blacklist[e].pattern, position) + 1, Blacklist[e].by, e)

\* A statement of the list starts here and is replaced.
ReplaceStatement ==
  /\ ~Scanned
  /\ tokens[position] # Semicolon
  /\ Matching(position) # {}
  /\ LET e == FirstOf(Matching(position)) IN
     Take(MatchLength(Blacklist[e].pattern, position), Blacklist[e].by, e)

\* A semicolon, or a token no statement of the list starts with.
KeepToken ==
  /\ ~Scanned
  /\ tokens[position] = Semicolon \/ Matching(position) = {}
  /\ Take(1, <<tokens[position]>>, Unused)

TokenInit == \E message \in Messages :
  tokens = RewriteAbort(message) /\ position = 1 /\ output = <<>> /\ pieces = <<>>

TokenNext == ReplaceStatement \/ KeepToken
TokenSpec == TokenInit /\ [][TokenNext]_tokenVars

-----------------------------------------------------------------------------
PieceType == [from : Nat, to : Nat, entry : Nat]

\* Tokens are words, and the scan stays within the message and one past it.
TokenTypeOK ==
  /\ tokens \in Seq(Words)
  /\ position \in 1 .. Len(tokens) + 1
  /\ output \in Seq(Words)
  /\ pieces \in Seq(PieceType)

\* The tokens of a pattern lie at these places of a part of the message, and
\* there are only semicolons between them.
LiesAt(message, place, pattern, from, to) ==
  /\ place[1] = from /\ place[Len(pattern)] = to
  /\ \A i, j \in DOMAIN pattern : i < j => place[i] < place[j]
  /\ \A i \in DOMAIN pattern :
       message[place[i]] # Semicolon /\ Fits(pattern[i], message[place[i]])
  /\ \A p \in from .. to : message[p] = Semicolon \/ \E i \in DOMAIN pattern : p = place[i]

Stands(message, e, from, to) ==
  LET pattern == Blacklist[e].pattern IN
  /\ pattern # <<>>
  /\ \E place \in [DOMAIN pattern -> from .. to] : LiesAt(message, place, pattern, from, to)

StandsAt(message, e, from) == \E to \in from .. Len(message) : Stands(message, e, from, to)

PieceRight(message, piece) ==
  IF piece.entry = Unused
  THEN piece.to = piece.from /\ \A e \in DOMAIN Blacklist : ~StandsAt(message, e, piece.from)
  ELSE /\ Stands(message, piece.entry, piece.from, piece.to)
       /\ \A e \in 1 .. piece.entry - 1 : ~StandsAt(message, e, piece.from)

\* An entry was used exactly where it is the first that stands in the message,
\* and no token was kept where one stands (maybe_replace_tokens).
PiecesMatch == \A k \in DOMAIN pieces : PieceRight(tokens, pieces[k])

\* The pieces lie one after the other and are what was scanned: no token is
\* dropped and none is looked at twice (maybe_replace_tokens).
PiecesCover ==
  /\ \A k \in DOMAIN pieces :
       /\ pieces[k].from <= pieces[k].to
       /\ k = 1 => pieces[k].from = 1
       /\ k > 1 => pieces[k].from = pieces[k - 1].to + 1
  /\ position = IF pieces = <<>> THEN 1 ELSE pieces[Len(pieces)].to + 1
=============================================================================
