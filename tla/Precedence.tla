----------------------------- MODULE Precedence -----------------------------
(***************************************************************************)
(* Parse::PrecedenceGroup: the partial order of operator precedences and   *)
(* the precedences of the leading and trailing operators.                  *)
(***************************************************************************)
PrecedenceLevel ==
  {"Highest", "TermPrefix", "IncrementDecrement", "NumericPrefix", "Modulo",
   "Multiplicative", "Additive", "BitwisePrefix", "BitwiseAnd", "BitwiseOr",
   "BitwiseXor", "BitShift", "TypePrefix", "TypePostfix", "As",
   "LogicalPrefix", "Relational", "LogicalAnd", "LogicalOr", "If",
   "Assignment", "Lowest"}

(* The <higher, lower> pairs of the MarkHigherThan calls. *)
MarkedHigher ==
  ({"Highest"} \X {"TermPrefix", "LogicalPrefix", "TypePrefix"})
  \union ({"TermPrefix"} \X {"NumericPrefix", "BitwisePrefix", "IncrementDecrement"})
  \union ({"NumericPrefix", "BitwisePrefix"} \X
            {"As", "Multiplicative", "Modulo", "BitwiseAnd", "BitwiseOr",
             "BitwiseXor", "BitShift"})
  \union ({"Multiplicative"} \X {"Additive"})
  \union ({"As", "Additive", "Modulo", "BitwiseAnd", "BitwiseOr",
           "BitwiseXor", "BitShift"} \X {"Relational"})
  \union ({"Relational", "LogicalPrefix"} \X {"LogicalAnd", "LogicalOr"})
  \union ({"LogicalAnd", "LogicalOr"} \X {"If"})
  \union ({"If"} \X {"Assignment"})
  \union ({"Assignment", "IncrementDecrement"} \X {"Lowest"})
  \union ({"TypePrefix"} \X {"TypePostfix"})
  \union ({"TypePostfix"} \X {"As"})

(* One round of MakeTransitivelyClosed; four rounds reach along the        *)
(* longest chain, and PrecedenceConsistent says that a fifth adds nothing. *)
CloseOnce(R) ==
  R \union { <<c[1][1], c[2][2]>> : c \in { d \in R \X R : d[1][2] = d[2][1] } }

HigherThan == CloseOnce(CloseOnce(CloseOnce(CloseOnce(MarkedHigher))))

RightAssociative == {"TermPrefix", "If"}

LeftAssociative ==
  {"TypePostfix", "Multiplicative", "Additive", "BitwiseAnd", "BitwiseOr",
   "BitwiseXor", "LogicalAnd", "LogicalOr"}

(* OperatorPriorityTable after MakeSymmetric and AddAssociativityRules. *)
PriorityTable ==
  [left, right \in PrecedenceLevel |->
     IF left = right
     THEN IF left \in RightAssociative THEN "RightFirst"
          ELSE IF left \in LeftAssociative THEN "LeftFirst" ELSE "Ambiguous"
     ELSE IF <<left, right>> \in HigherThan THEN "LeftFirst"
     ELSE IF <<right, left>> \in HigherThan THEN "RightFirst" ELSE "Ambiguous"]

GetPriority(left, right) == PriorityTable[left, right]

(* The CHECKs made while the table is built: the closed relation is a      *)
(* strict order, Highest is above and Lowest below every other level.      *)
ASSUME PrecedenceConsistent ==
  /\ CloseOnce(HigherThan) = HigherThan
  /\ \A p \in HigherThan : <<p[2], p[1]>> \notin HigherThan
  /\ \A l \in PrecedenceLevel \ {"Highest"} : GetPriority("Highest", l) = "LeftFirst"
  /\ \A l \in PrecedenceLevel \ {"Lowest"} : GetPriority("Lowest", l) = "RightFirst"

ForPostfixExpression   == "Highest"
ForTopLevelExpression  == "If"
ForExpressionStatement == "Lowest"
ForType                == ForTopLevelExpression

(* ForLeading as a table: its domain is the set of prefix operators. *)
ForLeading ==
  [kind \in {"Star", "Amp", "Not", "Minus", "MinusMinus", "PlusPlus",
             "Caret", "If", "Const"} |->
     CASE kind \in {"Star", "Amp"}            -> "TermPrefix"
       [] kind = "Not"                        -> "LogicalPrefix"
       [] kind = "Minus"                      -> "NumericPrefix"
       [] kind \in {"MinusMinus", "PlusPlus"} -> "IncrementDecrement"
       [] kind = "Caret"                      -> "BitwisePrefix"
       [] kind = "If"                         -> "If"
       [] kind = "Const"                      -> "TypePrefix"]

AssignmentOperators ==
  {"Equal", "PlusEqual", "MinusEqual", "StarEqual", "SlashEqual",
   "PercentEqual", "AmpEqual", "PipeEqual", "CaretEqual",
   "GreaterGreaterEqual", "LessLessEqual"}

RelationalOperators ==
  {"EqualEqual", "ExclaimEqual", "Less", "LessEqual", "Greater",
   "GreaterEqual", "LessEqualGreater"}

TrailingOperators ==
  AssignmentOperators \union RelationalOperators \union
  {"And", "Or", "Amp", "Pipe", "Caret", "GreaterGreater", "LessLess", "Plus",
   "Minus", "Slash", "Percent", "Star", "As"}

(* ForTrailing, for a kind in TrailingOperators: only `*` is not always    *)
(* binary.                                                                 *)
ForTrailing(kind, infix) ==
  [level |->
     CASE kind \in AssignmentOperators            -> "Assignment"
       [] kind \in RelationalOperators            -> "Relational"
       [] kind = "And"                            -> "LogicalAnd"
       [] kind = "Or"                             -> "LogicalOr"
       [] kind = "Amp"                            -> "BitwiseAnd"
       [] kind = "Pipe"                           -> "BitwiseOr"
       [] kind = "Caret"                          -> "BitwiseXor"
       [] kind \in {"GreaterGreater", "LessLess"} -> "BitShift"
       [] kind \in {"Plus", "Minus"}              -> "Additive"
       [] kind = "Slash"                          -> "Multiplicative"
       [] kind = "Percent"                        -> "Modulo"
       [] kind = "Star" -> IF infix THEN "Multiplicative" ELSE "TypePostfix"
       [] kind = "As"                             -> "As",
   is_binary |-> kind # "Star" \/ infix]

=============================================================================
