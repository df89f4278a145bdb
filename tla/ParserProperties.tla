-------------------------- MODULE ParserProperties --------------------------
(***************************************************************************)
(* What the parser owes its callers, stated over Parser.                   *)
(***************************************************************************)
EXTENDS Parser

(* No input makes the parser fail: every COCKTAIL_CHECK of the context and *)
(* of the handlers holds, no llvm_unreachable is reached, and Tree::Verify *)
(* accepts the tree of every token buffer, however malformed the program.  *)
NeverAborts == status # "aborted"

(* Parsing only ends at the end of the file: the declaration loop of the   *)
(* file is not left at a `}`, so no declaration is silently dropped.       *)
WholeFileParsed == status = "done" => position = End

(* "Every token has its node": in a tree without errors each token labels  *)
(* exactly the nodes its kind promises.  Tree::Verify only compares the    *)
(* totals, which a missing and a spurious node would leave equal.          *)
OneNodePerToken ==
  status = "done" /\ ~has_errors =>
    \A t \in 1 .. End :
      Cardinality({ i \in 1 .. Len(nodes) : nodes[i].token = t })
        = ExpectedParseTreeSize(Kind(t))

(* What Tree::Parse promises of its tree: it is made of every input, of    *)
(* the whole file, and with a node for every token.                        *)
TreeIsComplete == NeverAborts /\ WholeFileParsed /\ OneNodePerToken

-----------------------------------------------------------------------------
(* The tree as a postorder sequence of subtrees. *)

(* No subtree reaches across the boundary after the first c nodes. *)
IsCut(ns, c) ==
  /\ c \in 0 .. Len(ns)
  /\ \A i \in 1 .. Len(ns) : i > c => FirstNode(ns, i) > c

(* What lies in a subtree has its own subtree in there. *)
IsPostorder(ns) ==
  \A i \in 1 .. Len(ns) :
    /\ FirstNode(ns, i) \in 1 .. i
    /\ \A j \in FirstNode(ns, i) .. i : FirstNode(ns, j) >= FirstNode(ns, i)

(* AddNode takes subtree_start on trust.  While states are pushed, dropped *)
(* and re-used for other nodes, the array remains the postorder of a       *)
(* forest, so children() and postorder() walk a tree at any moment.        *)
Postorder == IsPostorder(nodes)

(* Every subtree_start on the stack can still be closed over: no node      *)
(* added since reaches back across it, and an outer state never starts     *)
(* after an inner one.  The start of a DeclarationScopeLoop is exempt: it  *)
(* is taken before the definition start is added and never used.           *)
Closeable(e) == e.state # "DeclarationScopeLoop"

StackNested ==
  LET open == { i \in 1 .. Len(state_stack) : Closeable(state_stack[i]) } IN
  /\ \A i \in open : IsCut(nodes, state_stack[i].subtree_start)
  /\ \A i, j \in open :
       i < j => state_stack[i].subtree_start <= state_stack[j].subtree_start

-----------------------------------------------------------------------------
(* Brackets. *)

(* The nodes that close a group, with the symbol that opens it. *)
NodeOpener ==
  [kind \in {"ParameterList", "DeducedParameterList", "ParenExpression",
             "TupleLiteral", "CallExpression", "IndexExpression",
             "StructLiteral", "StructTypeLiteral", "CodeBlock",
             "FunctionDefinition", "ClassDefinition", "InterfaceDefinition",
             "NamedConstraintDefinition", "IfCondition", "WhileCondition",
             "ForHeader"} |->
     CASE kind \in {"DeducedParameterList", "IndexExpression"} -> "OpenSquareBracket"
       [] kind \in {"StructLiteral", "StructTypeLiteral", "CodeBlock",
                    "FunctionDefinition", "ClassDefinition",
                    "InterfaceDefinition", "NamedConstraintDefinition"} ->
            "OpenCurlyBrace"
       [] OTHER -> "OpenParen"]

(* A node that closes a group is labelled with the very token that closes  *)
(* the group its start node opened, if it did open one.  Most of these     *)
(* handlers Consume() what comes without looking, trusting recovery never  *)
(* to leave the group.                                                     *)
GroupsClosedByTheirMatch ==
  \A i \in 1 .. Len(nodes) : nodes[i].kind \in DOMAIN NodeOpener =>
    LET starts == { j \in 1 .. (i - 1) :
                      /\ nodes[j].kind = Bracket[nodes[i].kind]
                      /\ FirstNode(nodes, j) = FirstNode(nodes, i) }
        start  == CHOOSE j \in starts : \A k \in starts : k <= j
    IN  /\ starts # {}
        /\ Kind(nodes[start].token) = NodeOpener[nodes[i].kind] =>
             nodes[i].token = tokens[nodes[start].token].closing

(* The states that will close a group, with the symbol that opens it.      *)
GroupOpener ==
  [ParameterListFinishAsDeduced   |-> "OpenSquareBracket",
   ParameterListFinishAsRegular   |-> "OpenParen",
   CallExpressionFinish           |-> "OpenParen",
   IndexExpressionFinish          |-> "OpenSquareBracket",
   ArrayExpressionSemi            |-> "OpenSquareBracket",
   ArrayExpressionFinish          |-> "OpenSquareBracket",
   ParenExpressionFinishAsNormal  |-> "OpenParen",
   ParenExpressionFinishAsTuple   |-> "OpenParen",
   BraceExpressionFinishAsType    |-> "OpenCurlyBrace",
   BraceExpressionFinishAsValue   |-> "OpenCurlyBrace",
   BraceExpressionFinishAsUnknown |-> "OpenCurlyBrace",
   CodeBlockFinish                |-> "OpenCurlyBrace",
   ParenConditionFinishAsIf       |-> "OpenParen",
   ParenConditionFinishAsWhile    |-> "OpenParen",
   StatementForHeaderIn           |-> "OpenParen",
   StatementForHeaderFinish       |-> "OpenParen"]

(* Until such a state is handled the parser is inside the group its token  *)
(* opens, unless the opener was missing: no recovery, of this or of a      *)
(* nested construct, runs past the closer.                                 *)
InsideOpenGroups ==
  \A i \in 1 .. Len(state_stack) :
    LET e == state_stack[i] IN
    e.state \in DOMAIN GroupOpener /\ Kind(e.token) = GroupOpener[e.state] =>
      position \in e.token + 1 .. tokens[e.token].closing

(* Recovery respects the groups the lexer matched: the parser stays in the *)
(* group it opened until the closer, and the closer labels the node.       *)
GroupsAreRespected == GroupsClosedByTheirMatch /\ InsideOpenGroups

-----------------------------------------------------------------------------
(* Errors and diagnostics. *)

(* An error is never invented: a node or a state is only marked once some  *)
(* diagnostic explains it to the user.                                     *)
ErrorsAreDiagnosed ==
  (has_errors \/ \E i \in 1 .. Len(state_stack) : state_stack[i].has_error) =>
    diagnosed # {}

(* An error is never lost, operators apart: when the tree is returned as   *)
(* free of errors, the only diagnostics emitted were about the precedence  *)
(* or the white space of an operator.                                      *)
OnlyOperatorErrorsUnmarked ==
  status = "done" /\ ~has_errors =>
    \A t \in diagnosed : Kind(t) \in TrailingOperators \union DOMAIN ForLeading

-----------------------------------------------------------------------------
(* Precedence. *)

OperatorNodes == {"InfixOperator", "PrefixOperator", "PostfixOperator"}

(* The precedence an operator node was parsed with. *)
NodeLevel(n) ==
  CASE n.kind = "PrefixOperator"  -> ForLeading[Kind(n.token)]
    [] n.kind = "InfixOperator"   -> ForTrailing(Kind(n.token), TRUE).level
    [] n.kind = "PostfixOperator" -> ForTrailing(Kind(n.token), FALSE).level

(* The operands of node i; the left one may be wrapped for `and` and `or`. *)
RightOperand(i) == i - 1

LeftOperand(i) ==
  LET l == FirstNode(nodes, RightOperand(i)) - 1 IN
  IF nodes[l].kind = "ShortCircuitOperand" THEN l - 1 ELSE l

(* Unparenthesised operators nest only the way OperatorPriorityTable       *)
(* allows, or the inner or outer operator was diagnosed: what binds looser *)
(* than, or ambiguously with, its parent is never accepted in silence.     *)
PrecedenceRespected ==
  \A i \in 1 .. Len(nodes) :
    /\ nodes[i].kind \in {"InfixOperator", "PrefixOperator"}
       /\ nodes[RightOperand(i)].kind \in OperatorNodes =>
         \/ GetPriority(NodeLevel(nodes[i]), NodeLevel(nodes[RightOperand(i)])) = "RightFirst"
         \/ nodes[RightOperand(i)].token \in diagnosed
    /\ nodes[i].kind = "InfixOperator" /\ nodes[LeftOperand(i)].kind \in OperatorNodes =>
         \/ GetPriority(NodeLevel(nodes[LeftOperand(i)]), NodeLevel(nodes[i])) = "LeftFirst"
         \/ nodes[i].token \in diagnosed
    /\ nodes[i].kind = "PostfixOperator" /\ nodes[i - 1].kind \in OperatorNodes =>
         \/ GetPriority(NodeLevel(nodes[i - 1]), NodeLevel(nodes[i])) = "LeftFirst"
         \/ nodes[i].token \in diagnosed

-----------------------------------------------------------------------------
(* Progress. *)

(* Every input is parsed in finitely many steps: no handler keeps its      *)
(* state without consuming, not even in error recovery at a `}` or at the  *)
(* end of the file.                                                        *)
Terminates == <>(status # "parsing")

=============================================================================
