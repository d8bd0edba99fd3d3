\* A client may stop at any time.
SPECIFICATION Spec
CONSTANTS
  Words <- PreparedWords
  Placeholders = {"$"}
  Blacklist <- MCBlacklist
  Messages <- PreparedMessages
  Grammar <- PreparedGrammar
  Names <- MCNames
  MaxDepth = 20
  Nesting = 3
  Statements <- MCStatements
  Plans <- MCPlans
  Hints <- MCHints
  Values <- MCValues
  Formats = {"binary"}
  MaxBinds = 2
INVARIANTS TokenTypeOK PiecesMatch PiecesCover
INVARIANTS Fixpoint PlannableInTheEnd NamesResolve ScalarSubqueries ParametersBound
INVARIANTS DescribedByNumber ValuesArrive ReadAsDescribed RowsFaithful
PROPERTY Answered
CHECK_DEADLOCK FALSE
