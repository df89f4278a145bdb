-------------------------- MODULE ParseExpressions --------------------------
(***************************************************************************)
(* The handlers of expressions: operators, postfix forms, conditional,     *)
(* parenthesised, brace and array expressions.                             *)
(***************************************************************************)
EXTENDS ParseContext

-----------------------------------------------------------------------------
(* Operators. *)

(* A prefix operator the ambient precedence forbids is diagnosed but still *)
(* parsed; neither case marks the state as erroneous.                      *)
PrefixOperatorDiagnostics(op) ==
  IF GetPriority(Top.ambient_precedence, op) # "RightFirst"
  THEN {position} ELSE DiagnoseOperatorFixity("Prefix")

HandleExpression ==
  /\ At("Expression")
  /\ \/ /\ PositionKind \in DOMAIN ForLeading
        /\ LET op == ForLeading[PositionKind] IN
           Step(nodes,
             Popped \o
             (IF PositionKind = "If"
              THEN <<Here("IfExpressionFinish"), Here("IfExpressionFinishCondition")>>
              ELSE <<StateStackEntry("ExpressionLoopForPrefix", Top.ambient_precedence,
                                     op, position, Len(nodes))>>)
             \o <<ExpressionEntry(op, position + 1, nodes)>>,
             position + 1, PrefixOperatorDiagnostics(op))
     \/ /\ PositionKind \notin DOMAIN ForLeading
        /\ Step(nodes,
             Popped \o <<StateStackEntry("ExpressionLoop", Top.ambient_precedence,
                                         ForPostfixExpression, position, Len(nodes)),
                         Here("ExpressionInPostfix")>>,
             position, {})

LiteralTokens ==
  {"False", "True", "IntegerLiteral", "RealLiteral", "StringLiteral", "Bool",
   "IntegerTypeLiteral", "UnsignedIntegerTypeLiteral",
   "FloatingPointTypeLiteral", "StringTypeLiteral", "Type"}

(* The leaf of a terminal primary expression. *)
TerminalNode ==
  [kind \in {"Identifier", "SelfValueIdentifier", "SelfTypeIdentifier"} \union LiteralTokens |->
     CASE kind = "Identifier"          -> "NameExpression"
       [] kind = "SelfValueIdentifier" -> "SelfValueName"
       [] kind = "SelfTypeIdentifier"  -> "SelfTypeNameExpression"
       [] kind \in LiteralTokens       -> "Literal"]

(* The state of a bracketed primary expression. *)
GroupState ==
  [OpenCurlyBrace |-> "BraceExpression", OpenParen |-> "ParenExpression",
   OpenSquareBracket |-> "ArrayExpression"]

HandleExpressionInPostfix ==
  /\ At("ExpressionInPostfix")
  /\ \/ /\ PositionKind \in DOMAIN TerminalNode
        /\ Step(ConsumedLeaf(TerminalNode[PositionKind]),
                Append(Popped, TopAs("ExpressionInPostfixLoop")), position + 1, {})
     \/ /\ PositionKind \in DOMAIN GroupState
        /\ Step(nodes, Popped \o <<TopAs("ExpressionInPostfixLoop"),
                                   Here(GroupState[PositionKind])>>,
                position, {})
     \/ /\ PositionKind \notin DOMAIN TerminalNode \union DOMAIN GroupState
        /\ Step(AddLeafNode(nodes, "InvalidParse", position, TRUE),
                ReturnErrorOnState(Popped), position, {position})

PostfixState ==
  [Period |-> "PeriodAsExpression", MinusGreater |-> "ArrowExpression",
   OpenParen |-> "CallExpression", OpenSquareBracket |-> "IndexExpression"]

HandleExpressionInPostfixLoop ==
  /\ At("ExpressionInPostfixLoop")
  /\ \/ /\ PositionKind \in DOMAIN PostfixState
        /\ LET again == [Top EXCEPT !.token = position] IN
           Step(nodes,
                Popped \o <<again, [again EXCEPT !.state = PostfixState[PositionKind]]>>,
                position, {})
     \/ /\ PositionKind \notin DOMAIN PostfixState
        /\ Step(nodes, ReturnErrorIf(Top.has_error, Popped), position, {})

(* Whether the token at position is an operator the ambient precedence     *)
(* accepts; if not, the enclosing expression tries it again.               *)
TrailingOperator == ForTrailing(PositionKind, IsTrailingOperatorInfix)

OperatorAccepted ==
  /\ PositionKind \in TrailingOperators
  /\ GetPriority(Top.ambient_precedence, TrailingOperator.level) = "RightFirst"

(* Mutant: operators of unrelated precedences may follow each other. *)
OperatorMayNest == GetPriority(Top.lhs_precedence, TrailingOperator.level) # "RightFirst"

(* Whether it may follow the operator that built the left-hand side.       *)
OperatorNests == GetPriority(Top.lhs_precedence, TrailingOperator.level) = "LeftFirst"

HandleExpressionLoop ==
  /\ At("ExpressionLoop")
  /\ \/ /\ ~OperatorAccepted
        /\ Step(nodes, ReturnErrorIf(Top.has_error, Popped), position, {})
     \/ /\ OperatorAccepted
        /\ TrailingOperator.is_binary
        /\ LET op    == TrailingOperator.level
               error == Top.has_error \/ ~OperatorNests
               ns    == IF PositionKind \in {"And", "Or"}
                        THEN AddTopNode("ShortCircuitOperand", position, error)
                        ELSE nodes
           IN  Step(ns,
                 Popped \o <<[TopAs("ExpressionLoopForBinary") EXCEPT
                                !.token = position, !.lhs_precedence = op,
                                !.has_error = error],
                             ExpressionEntry(op, position + 1, ns)>>,
                 position + 1,
                 IF OperatorNests THEN DiagnoseOperatorFixity("Infix") ELSE {position})
     \/ /\ OperatorAccepted
        /\ ~TrailingOperator.is_binary
        /\ Step(AddTopNode("PostfixOperator", position, Top.has_error \/ ~OperatorNests),
             Append(Popped, [Top EXCEPT !.token = position, !.has_error = FALSE,
                               !.lhs_precedence = TrailingOperator.level]),
             position + 1,
             IF OperatorNests THEN DiagnoseOperatorFixity("Postfix") ELSE {position})

(* HandleExpressionLoopForBinary and HandleExpressionLoopForPrefix. *)
OperatorNode ==
  [ExpressionLoopForBinary |-> "InfixOperator", ExpressionLoopForPrefix |-> "PrefixOperator"]

HandleExpressionLoopForOperator ==
  \E s \in DOMAIN OperatorNode :
    /\ At(s)
    /\ Step(AddTopNode(OperatorNode[s], Top.token, Top.has_error),
            Append(Popped, [TopAs("ExpressionLoop") EXCEPT !.has_error = FALSE]),
            position, {})

-----------------------------------------------------------------------------
(* if ... then ... else ... as an expression. *)

HandleIfExpressionFinishCondition ==
  /\ At("IfExpressionFinishCondition")
  /\ LET ns == AddTopNode("IfExpressionIf", Top.token, Top.has_error) IN
     IF PositionKind = "Then"
     THEN Step(ns, Popped \o <<Entry("IfExpressionFinishThen", position, ns),
                               ExpressionEntry(ForLeading["If"], position + 1, ns)>>,
               position + 1, {})
     ELSE Step(AddLeafNode(AddLeafNode(ns, "InvalidParse", position, TRUE),
                           "InvalidParse", position, TRUE),
               ReturnErrorOnState(Popped), position, DiagnosedIf(~Top.has_error))

HandleIfExpressionFinishThen ==
  /\ At("IfExpressionFinishThen")
  /\ LET ns == AddTopNode("IfExpressionThen", Top.token, Top.has_error) IN
     IF PositionKind = "Else"
     THEN Step(ns, Popped \o <<Entry("IfExpressionFinishElse", position, ns),
                               ExpressionEntry(ForLeading["If"], position + 1, ns)>>,
               position + 1, {})
     ELSE Step(AddLeafNode(ns, "InvalidParse", position, TRUE),
               ReturnErrorOnState(Popped), position, DiagnosedIf(~Top.has_error))

(* Mutant: the finish state keeps the token of the `if`. *)
IfExpressionKeepsToken ==
  /\ At("IfExpressionFinishElse")
  /\ Step(nodes, ReturnErrorIf(Top.has_error, Popped), position, {})

HandleIfExpressionFinishElse ==
  /\ At("IfExpressionFinishElse")
  /\ LET finish == Popped[Len(Popped)] IN
     Step(nodes,
       [Popped EXCEPT ![Len(Popped)] =
          [finish EXCEPT !.token = Top.token,
                         !.has_error = finish.has_error \/ Top.has_error]],
       position, {})

HandleIfExpressionFinish ==
  /\ At("IfExpressionFinish")
  /\ Step(AddTopNode("IfExpressionElse", Top.token, Top.has_error), Popped, position, {})

HandleExpressionStatementFinish ==
  /\ At("ExpressionStatementFinish")
  /\ LET skip == SkipPastLikelyEnd(position, Top.token) IN
     \/ /\ PositionKind = "Semi"
        /\ Step(AddTopNode("ExpressionStatement", position, Top.has_error),
                Popped, position + 1, {})
     \/ /\ PositionKind # "Semi"
        /\ skip.semi # 0
        /\ Step(AddTopNode("ExpressionStatement", skip.semi, TRUE), Popped,
                skip.position, DiagnosedIf(~Top.has_error))
     \/ /\ PositionKind # "Semi"
        /\ skip.semi = 0
        /\ Step(nodes, ReturnErrorOnState(Popped), skip.position,
                DiagnosedIf(~Top.has_error))

-----------------------------------------------------------------------------
(* Names after a `.` or a `->`. *)

PeriodKind ==
  { [state |-> "PeriodAsDeclaration", node |-> "QualifiedDeclaration", dot |-> "Period"],
    [state |-> "PeriodAsExpression", node |-> "MemberAccessExpression", dot |-> "Period"],
    [state |-> "PeriodAsStruct", node |-> "StructFieldDesignator", dot |-> "Period"],
    [state |-> "ArrowExpression", node |-> "PointerMemberAccessExpression",
     dot |-> "MinusGreater"] }

HandlePeriodOrArrow ==
  \E v \in PeriodKind :
    /\ At(v.state)
    /\ LET name      == position + 1
           is_name   == Kind(name) = "Identifier"
           consumed  == is_name \/ Kind(name) \in KeywordTokens
           ns        == AddLeafNode(nodes, "Name", name, ~is_name)
       IN  CheckedStep(PositionKind = v.dot,
             AddNode(ns, v.node, position, Top.subtree_start, Top.has_error),
             ReturnErrorIf(~consumed, Popped),
             IF consumed THEN name + 1 ELSE name,
             IF is_name THEN {} ELSE {name})

-----------------------------------------------------------------------------
(* Calls, indexing and arrays. *)

(* Mutant: the call does not cover its callee. *)
CallWithoutCallee ==
  /\ At("CallExpression")
  /\ LET ns == AddTopNode("CallExpressionStart", position, Top.has_error)
         finish == Here("CallExpressionFinish")
     IN  Step(ns,
           Popped \o (IF Kind(position + 1) = "CloseParen" THEN <<finish>>
                      ELSE <<finish,
                             Entry("CallExpressionParameterFinish", position + 1, ns),
                             Entry("Expression", position + 1, ns)>>),
           position + 1, {})

HandleCallExpression ==
  /\ At("CallExpression")
  /\ LET ns == AddTopNode("CallExpressionStart", position, Top.has_error)
         finish == TopAs("CallExpressionFinish")
     IN  Step(ns,
           Popped \o (IF Kind(position + 1) = "CloseParen" THEN <<finish>>
                      ELSE <<finish,
                             Entry("CallExpressionParameterFinish", position + 1, ns),
                             Entry("Expression", position + 1, ns)>>),
           position + 1, {})

HandleCallExpressionParameterFinish ==
  /\ At("CallExpressionParameterFinish")
  /\ LET error == ListError("CloseParen", Top.has_error)
         item  == ConsumeListToken("CallExpressionComma", "CloseParen", nodes)
         stack == ReturnErrorIf(Top.has_error \/ error, Popped)
     IN  CheckedStep(ListElementEnds("CloseParen"), item.nodes,
           IF item.token_kind = "Comma"
           THEN stack \o <<Entry("CallExpressionParameterFinish", item.position, item.nodes),
                           Entry("Expression", item.position, item.nodes)>>
           ELSE stack,
           item.position, DiagnosedIf(error))

HandleCallExpressionFinish ==
  /\ At("CallExpressionFinish")
  /\ Step(AddTopNode("CallExpression", position, Top.has_error), Popped, position + 1, {})

HandleIndexExpression ==
  /\ At("IndexExpression")
  /\ LET ns == AddTopNode("IndexExpressionStart", position, Top.has_error) IN
     CheckedStep(PositionKind = "OpenSquareBracket", ns,
       Popped \o <<TopAs("IndexExpressionFinish"), Entry("Expression", position + 1, ns)>>,
       position + 1, {})

HandleIndexExpressionFinish ==
  /\ At("IndexExpressionFinish")
  /\ LET close == ConsumeAndAddCloseSymbol(Top.token, "IndexExpression") IN
     CheckedStep(close.ok, close.nodes, Popped, close.position, close.diags)

HandleArrayExpression ==
  /\ At("ArrayExpression")
  /\ LET ns == AddLeafNode(nodes, "ArrayExpressionStart", position, Top.has_error) IN
     CheckedStep(PositionKind = "OpenSquareBracket", ns,
       Popped \o <<TopAs("ArrayExpressionSemi"), Entry("Expression", position + 1, ns)>>,
       position + 1, {})

HandleArrayExpressionSemi ==
  /\ At("ArrayExpressionSemi")
  /\ LET has_semi == PositionKind = "Semi"
         error    == Top.has_error \/ ~has_semi
         pos      == IF has_semi THEN position + 1 ELSE position
         ns       == AddTopNode("ArrayExpressionSemi", position, error)
         finish   == [TopAs("ArrayExpressionFinish") EXCEPT !.has_error = error]
     IN  Step(ns,
           Popped \o (IF Kind(pos) = "CloseSquareBracket" THEN <<finish>>
                      ELSE <<finish, Entry("Expression", pos, ns)>>),
           pos, DiagnosedIf(~has_semi))

HandleArrayExpressionFinish ==
  /\ At("ArrayExpressionFinish")
  /\ LET close == ConsumeAndAddCloseSymbol(Top.token, "ArrayExpression") IN
     CheckedStep(close.ok, close.nodes, Popped, close.position, close.diags)

-----------------------------------------------------------------------------
(* Parenthesised expressions and tuples. *)

HandleParenExpression ==
  /\ At("ParenExpression")
  /\ LET ns == ConsumedLeaf("ParenExpressionOrTupleLiteralStart") IN
     CheckedStep(PositionKind = "OpenParen", ns,
       Popped \o
       (IF Kind(position + 1) = "CloseParen"
        THEN <<TopAs("ParenExpressionFinishAsTuple")>>
        ELSE <<TopAs("ParenExpressionFinishAsNormal"),
               Entry("ParenExpressionParameterFinishAsUnknown", position + 1, ns),
               Entry("Expression", position + 1, ns)>>),
       position + 1, {})

ParenParameterFinishStates ==
  {"ParenExpressionParameterFinishAsUnknown", "ParenExpressionParameterFinishAsTuple"}

(* Unlike the other lists, the element's own entry, has_error included, is *)
(* pushed again for the next element.                                      *)
HandleParenExpressionParameterFinish ==
  \E s \in ParenParameterFinishStates :
    /\ At(s)
    /\ LET error    == ListError("CloseParen", Top.has_error)
           item     == ConsumeListToken("TupleLiteralComma", "CloseParen", nodes)
           stack    == ReturnErrorIf(error, Popped)
           is_first == s = "ParenExpressionParameterFinishAsUnknown"
           finish   == stack[Len(stack)]
           as_tuple == IF is_first
                       THEN [stack EXCEPT ![Len(stack)] =
                               [@ EXCEPT !.state = "ParenExpressionFinishAsTuple"]]
                       ELSE stack
       IN  CheckedStep(
             /\ ListElementEnds("CloseParen")
             /\ item.token_kind # "Close" /\ is_first =>
                  finish.state = "ParenExpressionFinishAsNormal",
             item.nodes,
             CASE item.token_kind = "Close"      -> stack
               [] item.token_kind = "CommaClose" -> as_tuple
               [] item.token_kind = "Comma"      ->
                    as_tuple \o <<TopAs("ParenExpressionParameterFinishAsTuple"),
                                  Entry("Expression", item.position, item.nodes)>>,
             item.position, DiagnosedIf(error))

ParenFinishNode ==
  [ParenExpressionFinishAsNormal |-> "ParenExpression",
   ParenExpressionFinishAsTuple  |-> "TupleLiteral"]

HandleParenExpressionFinish ==
  \E s \in DOMAIN ParenFinishNode :
    /\ At(s)
    /\ Step(AddTopNode(ParenFinishNode[s], position, Top.has_error),
            Popped, position + 1, {})

-----------------------------------------------------------------------------
(* Struct literals and struct types. *)

HandleBraceExpression ==
  /\ At("BraceExpression")
  /\ LET ns     == ConsumedLeaf("StructLiteralOrStructTypeLiteralStart")
         finish == TopAs("BraceExpressionFinishAsUnknown")
     IN  CheckedStep(PositionKind = "OpenCurlyBrace", ns,
           Popped \o (IF Kind(position + 1) = "CloseCurlyBrace" THEN <<finish>>
                      ELSE <<finish, Entry("BraceExpressionParameterAsUnknown",
                                           position + 1, ns)>>),
           position + 1, {})

BraceKind ==
  { [param |-> "BraceExpressionParameterAsType",
     after |-> "BraceExpressionParameterAfterDesignatorAsType",
     param_finish |-> "BraceExpressionParameterFinishAsType",
     finish |-> "BraceExpressionFinishAsType", sep |-> "Colon",
     field |-> "StructFieldType", node |-> "StructTypeLiteral"],
    [param |-> "BraceExpressionParameterAsValue",
     after |-> "BraceExpressionParameterAfterDesignatorAsValue",
     param_finish |-> "BraceExpressionParameterFinishAsValue",
     finish |-> "BraceExpressionFinishAsValue", sep |-> "Equal",
     field |-> "StructFieldValue", node |-> "StructLiteral"],
    [param |-> "BraceExpressionParameterAsUnknown",
     after |-> "BraceExpressionParameterAfterDesignatorAsUnknown",
     param_finish |-> "BraceExpressionParameterFinishAsUnknown",
     finish |-> "BraceExpressionFinishAsUnknown", sep |-> "none",
     field |-> "StructFieldUnknown", node |-> "StructLiteral"] }

(* HandleBraceExpressionParameterError at pos, above the stack. *)
BraceParameterError(stack, param_finish, pos) ==
  Step(nodes, Append(stack, [TopAs(param_finish) EXCEPT !.has_error = TRUE]), pos, {pos})

HandleBraceExpressionParameter ==
  \E v \in BraceKind :
    /\ At(v.param)
    /\ IF PositionKind = "Period"
       THEN Step(nodes, Popped \o <<TopAs(v.after), Here("PeriodAsStruct")>>, position, {})
       ELSE BraceParameterError(Popped, v.param_finish, position)

HandleBraceExpressionParameterAfterDesignator ==
  \E v \in BraceKind :
    /\ At(v.after)
    /\ LET recovery  == FindNextOf(position, {"Equal", "Colon", "Comma"})
           recovers  == recovery # 0 /\ Kind(recovery) # "Comma"
           give_up   == Top.has_error /\ ~recovers
           pos       == IF Top.has_error THEN recovery ELSE position
           decided   == v.sep # "none"
           finish    == Popped[Len(Popped)]
       IN
       \/ /\ give_up
          /\ Step(nodes, Append(Popped, TopAs(v.param_finish)), position, {})
       \/ /\ ~give_up
          /\ Kind(pos) \notin {"Colon", "Equal"} \/ (decided /\ Kind(pos) # v.sep)
          /\ BraceParameterError(Popped, v.param_finish, pos)
       \/ /\ ~give_up
          /\ \E w \in BraceKind :
               /\ w.sep = Kind(pos)
               /\ ~decided \/ w = v
               /\ CheckedStep(decided \/ finish.state = v.finish, nodes,
                    [Popped EXCEPT ![Len(Popped)] =
                       [finish EXCEPT !.state = IF decided THEN finish.state ELSE w.finish]]
                    \o <<[TopAs(w.param_finish) EXCEPT !.token = pos],
                         Entry("Expression", pos + 1, nodes)>>,
                    pos + 1, {})

HandleBraceExpressionParameterFinish ==
  \E v \in BraceKind :
    /\ At(v.param_finish)
    /\ LET ns    == IF Top.has_error
                    THEN AddLeafNode(nodes, "StructFieldUnknown", Top.token, TRUE)
                    ELSE AddTopNode(v.field, Top.token, FALSE)
           error == ListError("CloseCurlyBrace", Top.has_error)
           item  == ConsumeListToken("StructComma", "CloseCurlyBrace", ns)
           stack == ReturnErrorIf(error, Popped)
       IN  CheckedStep(ListElementEnds("CloseCurlyBrace"), item.nodes,
             IF item.token_kind = "Comma"
             THEN Append(stack, Entry(v.param, item.position, item.nodes))
             ELSE stack,
             item.position, DiagnosedIf(error))

HandleBraceExpressionFinish ==
  \E v \in BraceKind :
    /\ At(v.finish)
    /\ Step(AddTopNode(v.node, position, Top.has_error), Popped, position + 1, {})

=============================================================================
