-------------------------- MODULE ParseStatements --------------------------
(***************************************************************************)
(* The handlers of statements, code blocks and parenthesised conditions.   *)
(***************************************************************************)
EXTENDS ParseContext

(* HandleStatement: statements that only choose the next state... *)
StatementState ==
  [If |-> "StatementIf", Let |-> "Let", Return |-> "StatementReturn",
   Var |-> "VarAsSemicolon", While |-> "StatementWhile"]

(* ... and those that also consume their keyword as a leaf. *)
JumpKind ==
  { [token |-> "Break", state |-> "StatementBreakFinish", start |-> "BreakStatementStart"],
    [token |-> "Continue", state |-> "StatementContinueFinish",
     start |-> "ContinueStatementStart"] }

HandleStatement ==
  /\ At("Statement")
  /\ \/ \E v \in JumpKind :
          /\ PositionKind = v.token
          /\ Step(ConsumedLeaf(v.start), Append(Popped, Here(v.state)), position + 1, {})
     \/ /\ PositionKind = "For"
        /\ Step(nodes, Popped \o <<Here("StatementForFinish"), Here("StatementForHeader")>>,
                position + 1, {})
     \/ /\ PositionKind \in DOMAIN StatementState
        /\ Step(nodes, Append(Popped, Here(StatementState[PositionKind])), position, {})
     \/ /\ PositionKind \notin {"Break", "Continue", "For"} \union DOMAIN StatementState
        /\ Step(nodes, Popped \o <<Here("ExpressionStatementFinish"),
                  ExpressionEntry(ForExpressionStatement, position, nodes)>>,
                position, {})

KeywordFinishNode ==
  [StatementBreakFinish |-> "BreakStatement", StatementContinueFinish |-> "ContinueStatement",
   StatementReturnFinish |-> "ReturnStatement"]

HandleStatementKeywordFinish ==
  \E s \in DOMAIN KeywordFinishNode :
    /\ At(s)
    /\ FinishAtSemi(KeywordFinishNode[s])

HandleStatementReturn ==
  /\ At("StatementReturn")
  /\ LET ns     == ConsumedLeaf("ReturnStatementStart")
         finish == TopAs("StatementReturnFinish")
     IN  Step(ns, Popped \o (IF Kind(position + 1) = "Semi" THEN <<finish>>
                             ELSE <<finish, Entry("Expression", position + 1, ns)>>),
              position + 1, {})

HandleStatementScopeLoop ==
  /\ At("StatementScopeLoop")
  /\ IF PositionKind = "CloseCurlyBrace"
     THEN Step(nodes, ReturnErrorIf(Top.has_error, Popped), position, {})
     ELSE Step(nodes, Append(state_stack, Here("Statement")), position, {})

-----------------------------------------------------------------------------
(* for (var ... in ...) { ... } *)

HandleStatementForHeader ==
  /\ At("StatementForHeader")
  /\ LET open    == ConsumeAndAddOpenParen(Top.token, "ForHeaderStart")
         header  == [TopAs("StatementForHeaderIn") EXCEPT !.token = open.token]
         next_in == FindNextOf(open.position, {"In"})
     IN
     \/ /\ Kind(open.position) = "Var"
        /\ Step(open.nodes,
                Popped \o <<header, Entry("VarAsFor", open.position, open.nodes)>>,
                open.position, open.diags)
     \/ /\ Kind(open.position) # "Var"
        /\ Step(open.nodes, Append(Popped, [header EXCEPT !.has_error = TRUE]),
                IF next_in = 0 THEN open.position ELSE next_in + 1,
                open.diags \union {open.position})

HandleStatementForHeaderIn ==
  /\ At("StatementForHeaderIn")
  /\ Step(nodes, Popped \o <<TopAs("StatementForHeaderFinish"), Here("Expression")>>,
          position, {})

HandleStatementForHeaderFinish ==
  /\ At("StatementForHeaderFinish")
  /\ LET close == ConsumeAndAddCloseSymbol(Top.token, "ForHeader") IN
     CheckedStep(close.ok, close.nodes,
       Append(Popped, Entry("CodeBlock", close.position, close.nodes)),
       close.position, close.diags)

HandleStatementForFinish ==
  /\ At("StatementForFinish")
  /\ Step(AddTopNode("ForStatement", Top.token, Top.has_error), Popped, position, {})

-----------------------------------------------------------------------------
(* if and while: a condition, then blocks. *)

ConditionKind ==
  { [statement |-> "StatementIf", condition |-> "ParenConditionAsIf",
     paren_finish |-> "ParenConditionFinishAsIf",
     condition_finish |-> "StatementIfConditionFinish",
     block_finish |-> "StatementIfThenBlockFinish",
     start_node |-> "IfConditionStart", node |-> "IfCondition"],
    [statement |-> "StatementWhile", condition |-> "ParenConditionAsWhile",
     paren_finish |-> "ParenConditionFinishAsWhile",
     condition_finish |-> "StatementWhileConditionFinish",
     block_finish |-> "StatementWhileBlockFinish",
     start_node |-> "WhileConditionStart", node |-> "WhileCondition"] }

(* HandleStatementIf and HandleStatementWhile *)
HandleConditionalStatement ==
  \E v \in ConditionKind :
    /\ At(v.statement)
    /\ Step(nodes, Popped \o <<Here(v.condition_finish), Here(v.condition)>>,
            position + 1, {})

HandleParenCondition ==
  \E v \in ConditionKind :
    /\ At(v.condition)
    /\ LET open   == ConsumeAndAddOpenParen(Top.token, v.start_node)
           finish == [TopAs(v.paren_finish) EXCEPT !.token = open.token]
       IN
       \/ /\ ~open.found /\ PositionKind = "OpenCurlyBrace"
          /\ Step(AddLeafNode(open.nodes, "InvalidParse", open.position, TRUE),
                  Append(Popped, finish), open.position, open.diags)
       \/ /\ ~(~open.found /\ PositionKind = "OpenCurlyBrace")
          /\ Step(open.nodes,
                  Popped \o <<finish, Entry("Expression", open.position, open.nodes)>>,
                  open.position, open.diags)

HandleParenConditionFinish ==
  \E v \in ConditionKind :
    /\ At(v.paren_finish)
    /\ LET close == ConsumeAndAddCloseSymbol(Top.token, v.node) IN
       CheckedStep(close.ok, close.nodes, Popped, close.position, close.diags)

(* HandleStatementIfConditionFinish and HandleStatementWhileConditionFinish *)
HandleConditionFinish ==
  \E v \in ConditionKind :
    /\ At(v.condition_finish)
    /\ Step(nodes, Popped \o <<TopAs(v.block_finish), Here("CodeBlock")>>, position, {})

HandleStatementIfThenBlockFinish ==
  /\ At("StatementIfThenBlockFinish")
  /\ LET ns == ConsumedLeaf("IfStatementElse") IN
     \/ /\ PositionKind = "Else"
        /\ Step(ns,
             Popped \o <<TopAs("StatementIfElseBlockFinish"),
                         Entry(IF Kind(position + 1) = "If" THEN "StatementIf"
                               ELSE "CodeBlock", position + 1, ns)>>,
             position + 1, {})
     \/ /\ PositionKind # "Else"
        /\ Step(AddTopNode("IfStatement", Top.token, Top.has_error), Popped, position, {})

HandleStatementIfElseBlockFinish ==
  /\ At("StatementIfElseBlockFinish")
  /\ Step(AddTopNode("IfStatement", Top.token, Top.has_error), Popped, position, {})

HandleStatementWhileBlockFinish ==
  /\ At("StatementWhileBlockFinish")
  /\ Step(AddTopNode("WhileStatement", Top.token, Top.has_error), Popped, position, {})

-----------------------------------------------------------------------------
(* { ... } *)

HandleCodeBlock ==
  /\ At("CodeBlock")
  /\ \/ /\ PositionKind = "OpenCurlyBrace"
        /\ LET ns == ConsumedLeaf("CodeBlockStart") IN
           Step(ns, Popped \o <<Here("CodeBlockFinish"),
                                Entry("StatementScopeLoop", position + 1, ns)>>,
                position + 1, {})
     \/ /\ PositionKind # "OpenCurlyBrace"
        /\ LET ns == AddLeafNode(nodes, "CodeBlockStart", position, TRUE) IN
           Step(ns, Popped \o <<Here("CodeBlockFinish"), Entry("Statement", position, ns)>>,
                position, {position})

HandleCodeBlockFinish ==
  /\ At("CodeBlockFinish")
  /\ IF Kind(Top.token) = "OpenCurlyBrace"
     THEN Step(AddTopNode("CodeBlock", position, Top.has_error), Popped, position + 1, {})
     ELSE Step(AddTopNode("CodeBlock", Top.token, TRUE), Popped, position, {})

=============================================================================
