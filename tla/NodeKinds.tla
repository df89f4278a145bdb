------------------------------ MODULE NodeKinds ------------------------------
(***************************************************************************)
(* The shape NodeKind.def declares for each kind of parse tree node: its   *)
(* bracketing child kind, or its number of children (0 unless listed).     *)
(***************************************************************************)

(* NodeKind::bracket; the domain is has_bracket. *)
Bracket ==
  [PackageDirective           |-> "PackageIntroducer",
   CodeBlock                  |-> "CodeBlockStart",
   FunctionDefinitionStart    |-> "FunctionIntroducer",
   FunctionDefinition         |-> "FunctionDefinitionStart",
   FunctionDeclaration        |-> "FunctionIntroducer",
   ParameterList              |-> "ParameterListStart",
   DeducedParameterList       |-> "DeducedParameterListStart",
   ArrayExpression            |-> "ArrayExpressionSemi",
   LetDeclaration             |-> "LetIntroducer",
   VariableDeclaration        |-> "VariableIntroducer",
   ReturnStatement            |-> "ReturnStatementStart",
   ForIn                      |-> "VariableIntroducer",
   ForHeader                  |-> "ForHeaderStart",
   IfCondition                |-> "IfConditionStart",
   IfStatement                |-> "IfCondition",
   WhileCondition             |-> "WhileConditionStart",
   IndexExpression            |-> "IndexExpressionStart",
   ParenExpression            |-> "ParenExpressionOrTupleLiteralStart",
   TupleLiteral               |-> "ParenExpressionOrTupleLiteralStart",
   CallExpression             |-> "CallExpressionStart",
   StructLiteral              |-> "StructLiteralOrStructTypeLiteralStart",
   StructTypeLiteral          |-> "StructLiteralOrStructTypeLiteralStart",
   ClassDefinitionStart       |-> "ClassIntroducer",
   ClassDefinition            |-> "ClassDefinitionStart",
   ClassDeclaration           |-> "ClassIntroducer",
   InterfaceDefinitionStart   |-> "InterfaceIntroducer",
   InterfaceDefinition        |-> "InterfaceDefinitionStart",
   InterfaceDeclaration       |-> "InterfaceIntroducer",
   NamedConstraintDefinitionStart |-> "NamedConstraintIntroducer",
   NamedConstraintDefinition  |-> "NamedConstraintDefinitionStart",
   NamedConstraintDeclaration |-> "NamedConstraintIntroducer"]

(* NodeKind::child_count *)
ChildCount(kind) ==
  CASE kind \in {"PackageLibrary", "ReturnType", "Address", "Template",
                 "ExpressionStatement", "BreakStatement", "ContinueStatement",
                 "IndexExpressionStart", "CallExpressionStart",
                 "PrefixOperator", "ShortCircuitOperand", "PostfixOperator",
                 "IfExpressionIf", "IfExpressionThen",
                 "StructFieldDesignator"} -> 1
    [] kind \in {"Namespace", "ArrayExpressionSemi", "PatternBinding",
                 "GenericPatternBinding", "ForStatement", "WhileStatement",
                 "QualifiedDeclaration", "MemberAccessExpression",
                 "PointerMemberAccessExpression", "InfixOperator",
                 "StructFieldValue", "StructFieldType"} -> 2
    [] kind = "IfExpressionElse" -> 3
    [] OTHER -> 0

=============================================================================
