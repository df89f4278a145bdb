------------------------------- MODULE Parser -------------------------------
(***************************************************************************)
(* Tree::Parse: the loop that runs the handler of the top state until the  *)
(* stack is empty, closes the file and verifies the tree.                  *)
(***************************************************************************)
EXTENDS ParseDeclarations, ParseExpressions, ParseStatements

(***************************************************************************)
(* Tree::Verify.  The code visits the nodes in order and keeps the stack   *)
(* of the nodes that have no parent yet.  As long as every node passed,    *)
(* these are the nodes no later subtree_size covers, and their subtrees    *)
(* are adjacent, so a node's size is right when its subtree begins where   *)
(* its first child's does.                                                 *)
(***************************************************************************)
FirstNode(ns, i) == i - ns[i].subtree_size + 1

Roots(ns, n) == { i \in 1 .. n : \A j \in i + 1 .. n : FirstNode(ns, j) > i }

(* The first child of node n: the last root of its bracket kind, or the    *)
(* child_count-th root from the end; 0 if there is none.                   *)
FirstChild(ns, n) ==
  LET roots    == Roots(ns, n - 1)
      Later(i) == Cardinality({ j \in roots : j >= i })
      brackets == { i \in roots : ns[i].kind = Bracket[ns[n].kind] }
  IN  IF ns[n].kind \in DOMAIN Bracket
      THEN FirstOf({ i \in brackets : \A j \in brackets : j <= i })
      ELSE FirstOf({ i \in roots : Later(i) = ChildCount(ns[n].kind) })

VerifyNode(ns, n) ==
  IF ns[n].kind \notin DOMAIN Bracket /\ ChildCount(ns[n].kind) = 0
  THEN ns[n].subtree_size = 1
  ELSE /\ FirstChild(ns, n) # 0
       /\ FirstNode(ns, n) = FirstNode(ns, FirstChild(ns, n))

ExpectedNodes ==
  LET count[t \in 0 .. End] ==
        IF t = 0 THEN 0 ELSE count[t - 1] + ExpectedParseTreeSize(Kind(t))
  IN  count[End]

Verify(ns) ==
  /\ \A n \in 1 .. Len(ns) :
       /\ ns[n].has_error => has_errors
       /\ VerifyNode(ns, n)
  /\ ~has_errors => Len(ns) = ExpectedNodes

-----------------------------------------------------------------------------

Init ==
  /\ tokens \in TokenBuffers
  /\ position = 2
  /\ nodes = AddLeafNode(<<>>, "FileStart", 1, FALSE)
  /\ state_stack =
       <<Entry("DeclarationScopeLoop", 2, nodes)>> \o
       (IF Kind(2) = "Package" THEN <<Entry("Package", 2, nodes)>> ELSE <<>>)
  /\ has_errors = FALSE
  /\ diagnosed = {}
  /\ status = "parsing"

(* The stack is empty: add the FileEnd node and verify the tree. *)
Finish ==
  /\ status = "parsing"
  /\ state_stack = <<>>
  /\ nodes' = AddLeafNode(nodes, "FileEnd", position, FALSE)
  /\ status' = IF Verify(nodes') THEN "done" ELSE "aborted"
  /\ UNCHANGED <<tokens, position, state_stack, has_errors, diagnosed>>

Declaration ==
  \/ HandleDeclarationScopeLoop
  \/ HandleDeclarationNameAndParams
  \/ HandleDeclarationNameAndParamsAfterName
  \/ HandleDeclarationNameAndParamsAfterDeduced
  \/ HandleParameterList
  \/ HandleParameter
  \/ HandleParameterFinish
  \/ HandleParameterListFinish
  \/ HandlePattern
  \/ HandlePatternFinish
  \/ HandleFunctionIntroducer
  \/ HandleFunctionAfterParameters
  \/ HandleFunctionReturnTypeFinish
  \/ HandleFunctionSignatureFinish
  \/ HandleFunctionDefinitionFinish
  \/ HandleTypeIntroducer
  \/ HandleTypeAfterParams
  \/ HandleTypeDefinitionFinish
  \/ HandleVar
  \/ HandleVarAfterPattern
  \/ HandleVarFinishAsSemicolon
  \/ HandleVarFinishAsFor
  \/ HandleLet
  \/ HandleLetAfterPattern
  \/ HandleLetFinish
  \/ HandleNamespace
  \/ HandleNamespaceFinish
  \/ HandlePackage

Expression ==
  \/ HandleExpression
  \/ HandleExpressionInPostfix
  \/ HandleExpressionInPostfixLoop
  \/ HandleExpressionLoop
  \/ HandleExpressionLoopForOperator
  \/ HandleIfExpressionFinishCondition
  \/ HandleIfExpressionFinishThen
  \/ HandleIfExpressionFinishElse
  \/ HandleIfExpressionFinish
  \/ HandleExpressionStatementFinish
  \/ HandlePeriodOrArrow
  \/ HandleCallExpression
  \/ HandleCallExpressionParameterFinish
  \/ HandleCallExpressionFinish
  \/ HandleIndexExpression
  \/ HandleIndexExpressionFinish
  \/ HandleArrayExpression
  \/ HandleArrayExpressionSemi
  \/ HandleArrayExpressionFinish
  \/ HandleParenExpression
  \/ HandleParenExpressionParameterFinish
  \/ HandleParenExpressionFinish
  \/ HandleBraceExpression
  \/ HandleBraceExpressionParameter
  \/ HandleBraceExpressionParameterAfterDesignator
  \/ HandleBraceExpressionParameterFinish
  \/ HandleBraceExpressionFinish

Statement ==
  \/ HandleStatement
  \/ HandleStatementKeywordFinish
  \/ HandleStatementReturn
  \/ HandleStatementScopeLoop
  \/ HandleStatementForHeader
  \/ HandleStatementForHeaderIn
  \/ HandleStatementForHeaderFinish
  \/ HandleStatementForFinish
  \/ HandleConditionalStatement
  \/ HandleParenCondition
  \/ HandleParenConditionFinish
  \/ HandleConditionFinish
  \/ HandleStatementIfThenBlockFinish
  \/ HandleStatementIfElseBlockFinish
  \/ HandleStatementWhileBlockFinish
  \/ HandleCodeBlock
  \/ HandleCodeBlockFinish

(* The caller has the tree, or the program is gone. *)
Terminated == status # "parsing" /\ UNCHANGED vars

Next == Declaration \/ Expression \/ Statement \/ Finish \/ Terminated

Spec == Init /\ [][Next]_vars

(* The loop runs in one thread that nothing holds up. *)
FairSpec == Spec /\ WF_vars(Next)

=============================================================================
