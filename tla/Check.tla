-------------------------------- MODULE Check --------------------------------
(***************************************************************************)
(* CheckParseTree: the checker visits the parse tree in postorder and runs *)
(* the handler of each node on the context cx.  There is one action per    *)
(* handler; the handlers that do nothing share one, and so do the ones     *)
(* that only say that the construct is not supported.                      *)
(***************************************************************************)
EXTENDS Convert

CONSTANTS
  IntBits,    (* the width of int: 32 in the code                          *)
  WordBits    (* the width of an array bound and the widest literal that   *)
              (* can be lowered: 64 in the code                            *)

VARIABLES
  tree,       (* the parse tree's nodes in postorder                       *)
  tokens,     (* the token buffer                                          *)
  texts,      (* for each token its name, or its value if it is an integer *)
  cx,         (* Check::Context                                            *)
  visited,    (* how many nodes of the tree have been visited              *)
  outcome     (* checking; done; returned early; aborted                   *)

checkVars == <<tree, tokens, texts, cx, visited, outcome>>

(* The node that is visited, with its token. *)
Parsed ==
  LET node == tree[visited + 1]
  IN  [parse_node |-> visited + 1, kind |-> node.kind,
       token |-> tokens[node.token].kind, text |-> texts[node.token]]

Visit(kinds) == outcome = "checking" /\ visited < Len(tree) /\ tree[visited + 1].kind \in kinds

(* The handler leaves the context c. *)
Handled(c) ==
  \E r \in {c} :
    /\ IF r.fatal = "" THEN /\ cx' = [r EXCEPT !.ret = Invalid]
                            /\ visited' = visited + 1
                            /\ outcome' = outcome
       ELSE /\ cx' = [cx EXCEPT !.fatal = r.fatal]
            /\ visited' = visited
            /\ outcome' = "aborted"
    /\ UNCHANGED <<tree, tokens, texts>>

(* The handler returns false after a TODO: the checker stops. *)
HandledTodo(c) ==
  \E r \in {TODO(c, Parsed.parse_node)} :
    /\ IF r.fatal = "" THEN /\ cx' = [r EXCEPT !.ret = Invalid, !.ir.has_errors = TRUE]
                            /\ outcome' = "returned"
       ELSE /\ cx' = [cx EXCEPT !.fatal = r.fatal]
            /\ outcome' = "aborted"
    /\ UNCHANGED <<tree, tokens, texts, visited>>

HandleNothing ==
  /\ Visit({"FileStart", "FileEnd", "EmptyDeclaration", "ArrayExpressionStart",
            "IfConditionStart", "IndexExpressionStart", "LetInitializer"})
  /\ Handled(cx)

(* The bracketing nodes. *)
HandleBracket ==
  /\ Visit({"ArrayExpressionSemi", "LetIntroducer", "ReturnStatementStart",
            "VariableIntroducer", "VariableInitializer"})
  /\ Handled(PushSolo(cx, Parsed))

ClassKinds ==
  {"ClassDeclaration", "ClassDefinition", "ClassDefinitionStart", "ClassIntroducer"}

InterfaceKinds ==
  {"InterfaceDeclaration", "InterfaceDefinition", "InterfaceDefinitionStart",
   "InterfaceIntroducer"}

NamedConstraintKinds ==
  {"NamedConstraintDeclaration", "NamedConstraintDefinition",
   "NamedConstraintDefinitionStart", "NamedConstraintIntroducer"}

LoopKinds ==
  {"BreakStatement", "BreakStatementStart", "ContinueStatement", "ContinueStatementStart",
   "ForHeader", "ForHeaderStart", "ForIn", "ForStatement", "WhileCondition",
   "WhileConditionStart", "WhileStatement"}

PackageKinds ==
  {"PackageApi", "PackageDirective", "PackageImpl", "PackageIntroducer", "PackageLibrary"}

(* The kinds whose handler only says that the construct is not supported. *)
TodoKinds ==
  ClassKinds \union InterfaceKinds \union NamedConstraintKinds \union LoopKinds \union
  PackageKinds \union
  {"InvalidParse", "Address", "DeducedParameterList", "DeducedParameterListStart",
   "GenericPatternBinding", "PointerMemberAccessExpression", "SelfTypeNameExpression",
   "SelfValueName", "StructFieldUnknown", "Template"}

HandleUnsupported == Visit(TodoKinds) /\ HandledTodo(cx)

-----------------------------------------------------------------------------
(* HandleArray, HandleIndex *)

IsArrayBound(bound) == bound.kind = "IntegerLiteral" /\ bound.args[1] < 2 ^ WordBits

HandleArrayExpression ==
  /\ Visit({"ArrayExpression"})
  /\ \/ /\ PeekKind(cx) = "ArrayExpressionSemi"
        /\ HandledTodo(PopEntry(PopEntry(cx)))
     \/ /\ PeekKind(cx) # "ArrayExpressionSemi"
        /\ \E n \in {Parsed} : \E c1 \in {PopExpression(cx)} :
           \E c2 \in {PopExpression(Pop(c1, "ArrayExpressionSemi"))} :
             \/ /\ IsArrayBound(GetNode(cx.ir, c1.ret.id))
                /\ \E c3 \in {ExpressionAsType(c2, n.parse_node, c2.ret.id)} :
                     Handled(AddNodeAndPush(c3, n, TypeNodeMake("ArrayType", n.parse_node,
                                                                <<c1.ret.id, c3.ret>>)))
             \/ /\ ~IsArrayBound(GetNode(cx.ir, c1.ret.id))
                /\ Handled(PushNode(Emit(c2, "InvalidArrayExpression", n.parse_node), n,
                                    BuiltinError))

(* index < size in unsigned arithmetic, where the size went through an int. *)
InBounds(index, size) ==
  LET int == size % 2 ^ IntBits IN index < int \/ int >= 2 ^ (IntBits - 1)

(* What was returned, as a value unless it is a durable reference. *)
ValueUnlessDurable(c, category) ==
  IF category = "DurableReference" THEN c ELSE ConvertToValueExpression(c, c.ret)

AccessElement(c, n, type, i) ==
  AddNode(c, Make("ArrayIndex", n.parse_node, type, <<c.ret, i>>))

(* The index was returned; a value is indexed as a reference. *)
IndexOperand(c, n, operand_id, operand, category) ==
  AccessElement(IF category # "Value" THEN Return(c, operand_id)
                ELSE AddNode(c, Make("ValueAsReference", n.parse_node, operand.type, <<operand_id>>)),
                n, TypeNode(c.ir, operand.type).args[2], c.ret)

IndexArray(c, n, operand_id, operand, category, index_id, index) ==
  LET array == TypeNode(c.ir, operand.type)
      valid == index.kind = "IntegerLiteral" =>
                 InBounds(index.args[1], GetArrayBoundValue(c.ir, array.args[1]))
  IN  ValueUnlessDurable(
        IndexOperand(ConvertToReturnedType(
                       CanonicalizeType(IF valid THEN c ELSE Emit(c, "IndexOutOfBounds", n.parse_node),
                                        BuiltinIntegerType),
                       index.parse_node, IF valid THEN index_id ELSE BuiltinError),
                     n, operand_id, operand, category),
        category)

IndexTuple(c, n, operand_id, index_id) ==
  LET operand == GetNode(c.ir, operand_id)
      index   == GetNode(c.ir, index_id)
      types   == TypeNode(c.ir, operand.type).args[1]
      literal == index.kind = "IntegerLiteral"
      valid   == literal /\ InBounds(index.args[1], Len(types))
      c1      == CASE valid -> c
                   [] literal /\ ~valid -> Emit(c, "IndexOutOfBounds", n.parse_node)
                   [] OTHER -> Emit(c, "TupleIndexIntegerLiteral", n.parse_node)
  IN  AddNodeAndPush(c1, n,
        Make("TupleIndex", n.parse_node,
             IF valid THEN types[index.args[1] + 1] ELSE ErrorType,
             <<operand_id, IF valid THEN index_id ELSE BuiltinError>>))

HandleIndexExpression ==
  /\ Visit({"IndexExpression"})
  /\ \E c1 \in {PopExpression(cx)} : \E c2 \in {PopExpression(c1)} :
     \E c3 \in {ConvertCategoryOnly(c2, c2.ret.id, "ValueOrReference")} :
       LET n    == Parsed
           type == GetNode(c3.ir, c3.ret).type
           kind == TypeNode(c3.ir, type).kind
       IN  Handled(CASE kind = "ArrayType" ->
                          PushReturned(IndexArray(c3, n, c3.ret, GetNode(c3.ir, c3.ret),
                                                  GetExpressionCategory(c3.ir, c3.ret),
                                                  c1.ret.id, GetNode(c3.ir, c1.ret.id)), n)
                     [] kind = "TupleType" -> IndexTuple(c3, n, c3.ret, c1.ret.id)
                     [] OTHER ->
                          PushNode(IF type = ErrorType THEN c3
                                   ELSE Emit(c3, "TypeNotIndexable", n.parse_node),
                                   n, BuiltinError))

-----------------------------------------------------------------------------
(* HandleCallExpression *)

HandleCallExpressionStart ==
  LET c1 == PopExpression(cx)
  IN  /\ Visit({"CallExpressionStart"})
      /\ Handled(ParamOrArgStart(PushNode(c1, Parsed, c1.ret.id)))

(* The commas of a call, of parameters, of a tuple and of a struct. *)
HandleComma ==
  /\ Visit({"CallExpressionComma", "ParameterListComma", "TupleLiteralComma", "StructComma"})
  /\ Handled(ParamOrArgComma(cx))

(* The return slot that was made is the last argument. *)
SaveReturned(c) == ParamOrArgSave(c, c.ret)

AddReturnSlot(c, start, callable) ==
  IF callable.return_slot_id = Invalid THEN c
  ELSE SaveReturned(AddNode(c, Make("TemporaryStorage", start, callable.return_type_id, <<>>)))

(* Whether the arguments in the block args were converted was returned. *)
FinishCall(c, n, start, type, args, function_id) ==
  IF c.ret THEN AddNodeAndPush(c, n, Make("Call", start, type, <<args, function_id>>))
  ELSE PushNode(c, n, BuiltinError)

(* The block of the arguments was returned. *)
CallWithArgs(c, n, start, callable, function_id, type) ==
  FinishCall(ConvertCallArgs(c, start, c.ret, callable.param_refs_id,
                             callable.return_slot_id # Invalid),
             n, start, type, c.ret, function_id)

(* The type of the call was returned. *)
CallOfType(c, n, start, callable, function_id) ==
  CallWithArgs(ParamOrArgPop(AddReturnSlot(c, start, callable)), n, start, callable, function_id, c.ret)

(* The call of a function, whose arguments are on the stack of arguments. *)
Call(c, n, start, callable, function_id) ==
  CallOfType(IF callable.return_type_id # Invalid THEN Return(c, callable.return_type_id)
             ELSE CanonicalizeTupleType(c, start, <<>>),
             n, start, callable, function_id)

HandleCallExpression ==
  /\ Visit({"CallExpression"})
  /\ \E c \in {Pop(ParamOrArgEndNoPop(cx, "CallExpressionStart"), "CallExpressionStart")} :
       LET n    == Parsed
           name == GetNode(c.ir, FollowNameReferences(c.ir, c.ret.id))
       IN  Handled(IF name.kind # "FunctionDeclaration"
                   THEN ParamOrArgPop(PushNode(TODO(c, n.parse_node), n, c.ret.id))
                   ELSE Call(c, n, c.ret.parse_node, c.ir.functions[name.args[1]], name.args[1]))

-----------------------------------------------------------------------------
(* HandleCodeBlock, HandleStatement *)

HandleCodeBlockStart ==
  Visit({"CodeBlockStart"}) /\ Handled(EnterScope(PushSolo(cx, Parsed)))

HandleCodeBlock == Visit({"CodeBlock"}) /\ Handled(Pop(LeaveScope(cx), "CodeBlockStart"))

HandleExpressionStatement ==
  LET c1 == PopExpression(cx)
  IN  /\ Visit({"ExpressionStatement"})
      /\ Handled(ConvertCategoryOnly(c1, c1.ret.id, "Discarded"))

(* The value of a return statement, converted to what the function returns. *)
ConvertReturned(c, n, function, id) ==
  IF function.return_type_id = Invalid
  THEN Return(Emit(c, "ReturnStatementDisallowExpression", n.parse_node), id)
  ELSE ConvertTo([c EXCEPT !.pending = <<>>], n.parse_node, id,
                 IF function.return_slot_id # Invalid
                 THEN InitializerTarget(c, function.return_slot_id)
                 ELSE Target("Value", function.return_type_id))

LeaveWithReturned(c, n) == AddNode(c, Make("ReturnExpression", n.parse_node, Invalid, <<c.ret>>))

ReturnPopped(c, n, function) ==
  LeaveWithReturned(ConvertReturned(Pop(c, "ReturnStatementStart"), n, function, c.ret.id), n)

ReturnValue(c, n, function) == ReturnPopped(PopExpression(c), n, function)

ReturnNothing(c, n, function) ==
  LET c1 == Pop(c, "ReturnStatementStart")
      c2 == IF function.return_type_id = Invalid THEN c1
            ELSE Emit(c1, "ReturnStatementMissingExpression", n.parse_node)
  IN  AddNode(c2, Make("Return", n.parse_node, Invalid, <<>>))

ReturnStatement(c, n) ==
  LET f == c.ir.functions[CurrentFunction(c)]
  IN  PushCodeBlock(PopCodeBlock(IF PeekKind(c) = "ReturnStatementStart"
                                 THEN ReturnNothing(c, n, f) ELSE ReturnValue(c, n, f)),
                    Unreachable)

HandleReturnStatement ==
  /\ Visit({"ReturnStatement"})
  /\ Handled(IF cx.return_scope_stack = <<>> THEN Fatal(cx, "return outside of a function")
             ELSE ReturnStatement(cx, Parsed))

-----------------------------------------------------------------------------
(* HandleFunction, HandleParameterList, HandleNamespace *)

HandleFunctionIntroducer ==
  /\ Visit({"FunctionIntroducer"})
  /\ Handled(PushName(PushSolo(PushCodeBlock(cx, Invalid), Parsed)))

HandleReturnType ==
  LET n  == Parsed
      c1 == PopExpression(cx)
      c2 == ExpressionAsType(c1, c1.ret.parse_node, c1.ret.id)
  IN  /\ Visit({"ReturnType"})
      /\ Handled(AddNodeAndPush(c2, n, Make("VarStorage", n.parse_node, c2.ret, <<"return">>)))

HandleParameterListStart ==
  /\ Visit({"ParameterListStart"})
  /\ Handled(ParamOrArgStart(PushSolo(EnterScope(cx), Parsed)))

HandleParameterList ==
  LET c1 == ParamOrArgEnd(cx, "ParameterListStart")
      c2 == Pop(LeaveScope(c1), "ParameterListStart")
  IN  Visit({"ParameterList"}) /\ Handled(Push(c2, Parsed, "NodeBlockId", c1.ret))

(* The entry point takes nothing, and returns bool or () if it returns in place. *)
CheckEntryPoint(c, fn_node, function) ==
  LET slot  == function.return_slot_id # Invalid
      ret   == function.return_type_id
      takes == c.ir.node_blocks[function.param_refs_id] # <<>>
      Bad(c1)  == Emit(c1, "InvalidMainRunSignature", fn_node)
      Unit(c1) == IF ret = c1.ret THEN c1 ELSE Bad(c1)
      Bool(c1) == IF ret = c1.ret THEN c1 ELSE Unit(CanonicalizeTupleType(c1, fn_node, <<>>))
  IN  CASE ~IsEntryPoint(function) -> c
        [] IsEntryPoint(function) /\ takes -> Bad(c)
        [] IsEntryPoint(function) /\ ~takes /\ slot -> Bool(CanonicalizeType(c, BuiltinBoolType))
        [] OTHER -> c

(* The name of the declaration that was returned is added, if there is a name. *)
AddDeclaredFunction(c, name, fn_node) ==
  Return(CheckEntryPoint(AddDeclaredName(c, name, c.ret), fn_node, Last(c.ir.functions)), c.ret)

(* fn_node is the introducer; function all of its parts but the name. *)
DeclareFunction(c, name, fn_node, function) ==
  AddDeclaredFunction(
    AddNode([c EXCEPT !.ir.functions =
               Append(@, [function EXCEPT !.name = IF name.state = "Unresolved" THEN name.ref ELSE ""])],
            Make("FunctionDeclaration", fn_node, Invalid, <<Len(c.ir.functions) + 1>>)),
    name, fn_node)

DeclareIntroduced(c, name, function) ==
  Proceed(c, DeclareFunction(c, name, c.ret.parse_node, function))

DeclareNamed(c, function) == DeclareIntroduced(Pop(c, "FunctionIntroducer"), c.ret, function)

DeclareWithParameters(c, type, slot) ==
  Proceed(c, DeclareNamed(PopName(c), [name           |-> "",
                                       param_refs_id  |-> c.ret.id,
                                       return_type_id |-> type,
                                       return_slot_id |-> slot,
                                       body_block_ids |-> <<>>]))

(* The storage of what is returned was returned, or Invalid. *)
DeclareReturning(c, type) ==
  DeclareWithParameters(Pop(c, "ParameterList"), type,
                        IF GetInitializingRepresentation(c.ir, type) = "InPlace" THEN c.ret
                        ELSE Invalid)

DeclareReturned(c) ==
  DeclareReturning(c, IF c.ret = Invalid THEN Invalid ELSE GetNode(c.ir, c.ret).type)

ReturnEntryId(c) == Return(c, c.ret.id)

(* The declaration's node is returned. *)
BuildPopped(c) ==
  DeclareReturned(IF PeekKind(c) = "ReturnType" THEN ReturnEntryId(Pop(c, "ReturnType"))
                  ELSE Return(c, Invalid))

BuildFunctionDeclaration(c) == BuildPopped(PopCodeBlock(c))

HandleFunctionDeclaration ==
  Visit({"FunctionDeclaration"}) /\ Handled(BuildFunctionDeclaration(cx))

HandleFunctionDefinitionStart ==
  /\ Visit({"FunctionDefinitionStart"})
  /\ \E c \in {BuildFunctionDeclaration(cx)} :
       LET id     == GetNode(c.ir, c.ret).args[1]
           params == c.ir.node_blocks[c.ir.functions[id].param_refs_id]
           body   == PushCodeBlock([c EXCEPT !.return_scope_stack = Append(@, c.ret)], Invalid)
           AddParameter(c1, ref) ==
             AddNameToLookup(c1, GetNode(c1.ir, ref).parse_node, GetNode(c1.ir, ref).args[1], ref)
       IN  Handled(Proceed(c, Push(FoldLeft(AddParameter,
                                            AddCurrentCodeBlockToFunction(EnterScope(body)), params),
                                   Parsed, "FunctionId", id)))

HandleFunctionDefinition ==
  LET n  == Parsed
      c1 == Pop(cx, "FunctionDefinitionStart")
      c2 == CASE ~IsCurrentPositionReachable(c1) -> c1
              [] cx.ir.functions[c1.ret.id].return_type_id # Invalid ->
                   Emit(c1, "MissingReturnStatement", n.parse_node)
              [] OTHER -> AddNode(c1, Make("Return", n.parse_node, Invalid, <<>>))
      c3 == PopCodeBlock(LeaveScope(c2))
  IN  /\ Visit({"FunctionDefinition"})
      /\ Handled([c3 EXCEPT !.return_scope_stack = Front(@)])

HandleNamespaceStart == Visit({"NamespaceStart"}) /\ Handled(PushName(cx))

HandleNamespace ==
  LET c1 == PopName(cx)
      c2 == [c1 EXCEPT !.ir.name_scopes = Append(@, [ n \in {} |-> Invalid ])]
      c3 == AddNode(c2, Make("Namespace", Parsed.parse_node, Invalid,
                             <<Len(c2.ir.name_scopes)>>))
  IN  Visit({"Namespace"}) /\ Handled(AddDeclaredName(c3, c1.ret, c3.ret))

-----------------------------------------------------------------------------
(* HandleIfExpression, HandleIfStatement *)

(* The condition, the branches on it and the start of the then block. *)
Condition(c, n) ==
  \E c1 \in {PopExpression(c)} : \E c2 \in {ConvertToBoolValue(c1, n.parse_node, c1.ret.id)} :
  \E c3 \in {AddDominatedBlockAndBranch(c2, "BranchIf", n.parse_node, <<c2.ret>>)} :
  \E c4 \in {AddDominatedBlockAndBranch(c3, "Branch", n.parse_node, <<>>)} :
    Handled(Push(AddCurrentCodeBlockToFunction(PushCodeBlock(PopCodeBlock(c4), c3.ret)),
                 n, "NodeBlockId", c4.ret))

HandleIfExpressionIf == Visit({"IfExpressionIf"}) /\ Condition(cx, Parsed)

HandleIfCondition == Visit({"IfCondition"}) /\ Condition(cx, Parsed)

HandleIfExpressionThen ==
  /\ Visit({"IfExpressionThen"})
  /\ \E c1 \in {PopExpression(cx)} : \E c2 \in {Peek(c1, "IfExpressionIf")} :
     \E c3 \in {ConvertToValueExpression(c2, c1.ret.id)} :
       Handled(PushNode(AddCurrentCodeBlockToFunction(PushCodeBlock(c3, c2.ret.id)), Parsed, c3.ret))

HandleIfExpressionElse ==
  /\ Visit({"IfExpressionElse"})
  /\ \E c1 \in {PopExpression(cx)} : \E c2 \in {Pop(c1, "IfExpressionThen")} :
     \E c3 \in {Pop(c2, "IfExpressionIf")} :
     \E c4 \in {ConvertToValueOfType(c3, Parsed.parse_node, c1.ret.id,
                                     GetNode(cx.ir, c2.ret.id).type)} :
     \E c5 \in {AddConvergenceBlockWithArgAndPush(c4, c3.ret.parse_node, c4.ret, c2.ret.id)} :
       Handled(PushNode(AddCurrentCodeBlockToFunction(c5), Parsed, c5.ret))

(* Mutant: the else block is not made a part of the function. *)
HandleIfStatementElseForgotten ==
  LET c1 == Pop(cx, "IfCondition")
  IN  Visit({"IfStatementElse"}) /\ Handled(PushSolo(PushCodeBlock(c1, c1.ret.id), Parsed))

HandleIfStatementElse ==
  LET c1 == Pop(cx, "IfCondition")
      c2 == AddCurrentCodeBlockToFunction(PushCodeBlock(c1, c1.ret.id))
  IN  Visit({"IfStatementElse"}) /\ Handled(PushSolo(c2, Parsed))

HandleIfStatement ==
  LET n    == Parsed
      c1   == Pop(cx, "IfCondition")
      c2   == AddNode(c1, Make("Branch", n.parse_node, Invalid, <<c1.ret.id>>))
      then == PushCodeBlock(PopCodeBlock(c2), c1.ret.id)
      else == AddConvergenceBlockAndPush(Pop(cx, "IfStatementElse"), n.parse_node)
  IN  /\ Visit({"IfStatement"})
      /\ Handled(CASE PeekKind(cx) = "IfCondition" -> AddCurrentCodeBlockToFunction(then)
                   [] PeekKind(cx) = "IfStatementElse" -> AddCurrentCodeBlockToFunction(else)
                   [] OTHER -> Fatal(cx, "unexpected parse node at start of if"))

-----------------------------------------------------------------------------
(* HandleLet, HandleVariable, HandlePatternBinding *)

HandlePatternBinding ==
  /\ Visit({"PatternBinding"})
  /\ \E n \in {Parsed} : \E c1 \in {PopExpression(cx)} :
     \E c2 \in {ExpressionAsType(c1, c1.ret.parse_node, c1.ret.id)} : \E c3 \in {Pop(c2, "Name")} :
     \E kind \in {PeekKind(c3)} :
       \/ /\ kind = "VariableIntroducer"
          /\ Handled(AddNodeAndPush(c3, n, Make("VarStorage", c3.ret.parse_node, c2.ret, <<c3.ret.id>>)))
       \/ /\ kind = "ParameterListStart"
          /\ Handled(AddNodeAndPush(c3, n, Make("Parameter", c3.ret.parse_node, c2.ret, <<c3.ret.id>>)))
       \/ /\ kind = "LetIntroducer"
          /\ Handled(PushReturned(AddNodeInNoBlock(c3, Make("BindName", c3.ret.parse_node, c2.ret,
                                                            <<c3.ret.id, Invalid>>)), n))
       \/ /\ kind \notin {"VariableIntroducer", "ParameterListStart", "LetIntroducer"}
          /\ Handled(Fatal(c3, "pattern binding in unexpected context"))

(* The value that was returned is bound; only then the name is in scope. *)
BindLet(c, id, pattern) ==
  AddNameToLookup(Check(AddNodeId(ReplaceNode(c, id, [pattern EXCEPT !.args[2] = c.ret]), id),
                        pattern.args[2] = Invalid, "binding has a value"),
                  pattern.parse_node, pattern.args[1], id)

ConvertLet(c, n, value_id, id, pattern) ==
  BindLet(ConvertToValueOfType(Pop(c, "LetIntroducer"), n.parse_node, value_id, pattern.type),
          id, pattern)

HandleLetDeclaration ==
  /\ Visit({"LetDeclaration"})
  /\ \E c1 \in {PopExpression(cx)} : \E c2 \in {Pop(c1, "PatternBinding")} :
       Handled(Proceed(c2, ConvertLet(c2, Parsed, c1.ret.id, c2.ret.id, GetNode(cx.ir, c2.ret.id))))

HandleVariableDeclaration ==
  /\ Visit({"VariableDeclaration"})
  /\ \E has \in {PeekKind(cx) # "PatternBinding"} : \E c1 \in {PopExpression(cx)} :
     \E c2 \in {Pop(IF has THEN Pop(c1, "VariableInitializer") ELSE cx, "PatternBinding")} :
       LET n   == Parsed
           var == GetNode(cx.ir, c2.ret.id)
           Assigned(c) == AddNode(c, Make("Assign", n.parse_node, Invalid, <<c2.ret.id, c.ret>>))
           c3  == AddNameToLookup(c2, var.parse_node, var.args[1], c2.ret.id)
       IN  Handled(Pop(IF has THEN Assigned(Initialize(c3, n.parse_node, c2.ret.id, c1.ret.id))
                       ELSE c3, "VariableIntroducer"))

-----------------------------------------------------------------------------
(* HandleLiteral, HandleName *)

TypeLiterals ==
  [Type |-> BuiltinTypeType, Bool |-> BuiltinBoolType,
   IntegerTypeLiteral |-> BuiltinIntegerType,
   FloatingPointTypeLiteral |-> BuiltinFloatingPointType,
   StringTypeLiteral |-> BuiltinStringType]

(* The builtin type of a literal, and the kind of its node. *)
ValueLiterals ==
  [True |-> <<BuiltinBoolType, "BoolLiteral">>, False |-> <<BuiltinBoolType, "BoolLiteral">>,
   IntegerLiteral |-> <<BuiltinIntegerType, "IntegerLiteral">>,
   RealLiteral |-> <<BuiltinFloatingPointType, "RealLiteral">>,
   StringLiteral |-> <<BuiltinStringType, "StringLiteral">>]

(* The widths of the type literals the checker supports. *)
Supported(token, text) ==
  /\ token = "IntegerTypeLiteral" => text = "i32"
  /\ token = "FloatingPointTypeLiteral" => text = "f64"

HandleLiteral ==
  LET n     == Parsed
      c1    == CanonicalizeType(cx, ValueLiterals[n.token][1])
      value == IF n.token \in {"True", "False"} THEN n.token ELSE n.text
  IN  /\ Visit({"Literal"})
      /\ \/ /\ n.token \in DOMAIN ValueLiterals
            /\ Handled(AddNodeAndPush(c1, n, Make(ValueLiterals[n.token][2], n.parse_node,
                                                  c1.ret, <<value>>)))
         \/ /\ n.token \in DOMAIN TypeLiterals
            /\ Supported(n.token, n.text)
            /\ Handled(PushNode(cx, n, TypeLiterals[n.token]))
         \/ /\ \/ n.token \in DOMAIN TypeLiterals /\ ~Supported(n.token, n.text)
               \/ n.token \notin DOMAIN TypeLiterals \union DOMAIN ValueLiterals
            /\ HandledTodo(cx)

HandleName == Visit({"Name"}) /\ Handled(Push(cx, Parsed, "StringId", Parsed.text))

HandleNameExpression ==
  LET n     == Parsed
      c1    == LookupName(cx, n.parse_node, n.text, Invalid, TRUE)
      value == GetNode(cx.ir, c1.ret)
      kind  == IF IsTyped(value.kind) THEN "NameReference" ELSE "NameReferenceUntyped"
  IN  /\ Visit({"NameExpression"})
      /\ Handled(AddNodeAndPush(c1, n, Make(kind, n.parse_node, value.type, <<n.text, c1.ret>>)))

AccessMember(c, n, base_id, base, name) ==
  LET type   == TypeNode(c.ir, base.type)
      fields == FieldNames(c.ir, type)
      i      == CHOOSE j \in DOMAIN fields : /\ fields[j] = name
                                             /\ \A k \in 1 .. j - 1 : fields[k] # name
      Failed(c1, kind) == PushNode(Emit(c1, kind, n.parse_node), n, BuiltinError)
      Access(c1) ==
        CASE type.kind # "StructType" /\ base.type = ErrorType -> PushNode(c1, n, BuiltinError)
          [] type.kind # "StructType" /\ base.type # ErrorType ->
               Failed(c1, "QualifiedExpressionUnsupported")
          [] OTHER -> IF name \in ToSet(fields)
                      THEN AddNodeAndPush(c1, n, Make("StructAccess", n.parse_node,
                                                      ElementTypes(c.ir, type)[i],
                                                      <<c1.ret, i - 1>>))
                      ELSE Failed(c1, "QualifiedExpressionNameNotFound")
  IN  Access(CheckTyped(ConvertCategoryOnly(c, base_id, "ValueOrReference"), base.type))

HandleMemberAccessExpression ==
  LET n    == Parsed
      c1   == Pop(cx, "Name")
      name == c1.ret.id
      c2   == PopExpression(c1)
      base == GetNode(cx.ir, FollowNameReferences(cx.ir, c2.ret.id))
      c3   == LookupName(c2, n.parse_node, name, base.args[1], TRUE)
  IN  /\ Visit({"MemberAccessExpression"})
      /\ Handled(IF base.kind = "Namespace" THEN PushNode(c3, n, c3.ret)
                 ELSE AccessMember(c2, n, c2.ret.id, base, name))

(* The first qualifier of a chain is applied; the chain is bracketed. *)
ApplyFirstQualifier(c, n) ==
  LET c1 == PopExpression(c)
      c2 == ApplyExpressionQualifier(c1, c1.ret.parse_node,
                                     FollowNameReferences(c1.ir, c1.ret.id))
  IN  IF PeekKind(c) = "QualifiedDeclaration" THEN c ELSE PushSolo(c2, n)

HandleQualifiedDeclaration ==
  LET n     == Parsed
      named == PeekKind(cx) = "Name"
      c1    == IF named THEN Pop(cx, "Name") ELSE PopExpression(cx)
      c2    == ApplyFirstQualifier(c1, n)
  IN  /\ Visit({"QualifiedDeclaration"})
      /\ Handled(IF named THEN ApplyNameQualifier(c2, c1.ret.parse_node, c1.ret.id)
                 ELSE ApplyExpressionQualifier(c2, c1.ret.parse_node, c1.ret.id))

-----------------------------------------------------------------------------
(* HandleOperator *)

Add(c, n, lhs, rhs) ==
  \E c1 \in {ConvertToValueOfType(c, n.parse_node, lhs, GetNode(c.ir, rhs).type)} :
  \E c2 \in {ConvertToValueExpression(c1, rhs)} :
    Handled(AddNodeAndPush(c2, n, Make("BinaryOperatorAdd", n.parse_node,
                                       GetNode(c1.ir, c1.ret).type, <<c1.ret, c2.ret>>)))

(* The second operand ends in its block; the enclosing one is resumed. *)
ShortCircuit(c, n, rhs) ==
  \E c1 \in {ConvertToBoolValue(c, n.parse_node, rhs)} :
  \E c2 \in {PeekOrAdd(c1, "node_block_stack", 1)} :
  \E c3 \in {AddNode(c2, Make("BranchWithArg", n.parse_node, Invalid, <<c2.ret, c1.ret>>))} :
    Handled(AddNodeAndPush(AddCurrentCodeBlockToFunction(PopCodeBlock(c3)), n,
                           Make("BlockArg", n.parse_node, GetNode(c3.ir, c1.ret).type, <<c2.ret>>)))

Assign(c, n, lhs, rhs) ==
  \E c1 \in {IF GetExpressionCategory(c.ir, lhs.id) = "DurableReference" THEN c
              ELSE Emit(c, "AssignmentToNonAssignable", lhs.parse_node)} :
  \E c2 \in {Initialize(c1, n.parse_node, lhs.id, rhs)} :
    Handled(PushNode(AddNode(c2, Make("Assign", n.parse_node, Invalid, <<lhs.id, c2.ret>>)), n, lhs.id))

HandleInfixOperator ==
  /\ Visit({"InfixOperator"})
  /\ \E n \in {Parsed} : \E c1 \in {PopExpression(cx)} : \E c2 \in {PopExpression(c1)} :
       \/ n.token = "Plus" /\ Add(c2, n, c2.ret.id, c1.ret.id)
       \/ n.token \in {"And", "Or"} /\ ShortCircuit(c2, n, c1.ret.id)
       \/ n.token = "Equal" /\ Assign(c2, n, c2.ret, c1.ret.id)
       \/ n.token \notin {"Plus", "And", "Or", "Equal"} /\ HandledTodo(c2)

(* `*` after a type, `const` before one. *)
AddTypeOfReturned(c, n, kind) == AddNodeAndPush(c, n, TypeNodeMake(kind, n.parse_node, <<c.ret>>))

QualifyType(c, n, kind) ==
  AddTypeOfReturned(ExpressionAsType(c, n.parse_node, c.ret.id), n, kind)

HandlePostfixOperator ==
  /\ Visit({"PostfixOperator"})
  /\ Handled(IF Parsed.token = "Star" THEN QualifyType(PopExpression(cx), Parsed, "PointerType")
             ELSE Fatal(cx, "unexpected postfix operator"))

AddressOf(c, n, id) ==
  \E category \in {GetExpressionCategory(c.ir, id)} :
  \E c1 \in {CASE category = "DurableReference" -> c
               [] category = "EphemeralReference" ->
                    Emit(c, "AddressOfEphemeralReference", n.parse_node)
               [] OTHER -> Emit(c, "AddressOfNonReference", n.parse_node)} :
  \E c2 \in {CanonicalizeNode(c1, TypeNodeMake("PointerType", n.parse_node,
                                               <<GetNode(c.ir, id).type>>))} :
    Handled(AddNodeAndPush(c2, n, Make("AddressOf", n.parse_node, c2.ret, <<id>>)))

ConstOf(c, n) ==
  QualifyType(IF GetNode(c.ir, c.ret.id).kind = "ConstType"
              THEN Emit(c, "RepeatedConst", n.parse_node) ELSE c, n, "ConstType")

NotOf(c, n, id) ==
  \E c1 \in {ConvertToBoolValue(c, n.parse_node, id)} :
    Handled(AddNodeAndPush(c1, n, Make("UnaryOperatorNot", n.parse_node,
                                       GetNode(c1.ir, c1.ret).type, <<c1.ret>>)))

Dereference(c, n, id) ==
  \E type \in {GetNode(c.ir, id).type} :
  \E pointer \in {TypeNode(c.ir, GetUnqualifiedType(c.ir, type))} :
  \E c1 \in {IF pointer.kind = "PointerType" THEN c
              ELSE Emit(c, "DereferenceOfNonPointer", n.parse_node)} :
  \E c2 \in {ConvertToValueExpression(CheckTyped(c1, type), id)} :
    Handled(AddNodeAndPush(c2, n, Make("Dereference", n.parse_node,
                                       IF pointer.kind = "PointerType" THEN pointer.args[1]
                                       ELSE ErrorType, <<c2.ret>>)))

HandlePrefixOperator ==
  /\ Visit({"PrefixOperator"})
  /\ \E n \in {Parsed} : \E c \in {PopExpression(cx)} :
       \/ n.token = "Amp" /\ AddressOf(c, n, c.ret.id)
       \/ n.token = "Const" /\ Handled(ConstOf(c, n))
       \/ n.token = "Not" /\ NotOf(c, n, c.ret.id)
       \/ n.token = "Star" /\ Dereference(c, n, c.ret.id)
       \/ n.token \notin {"Amp", "Const", "Not", "Star"} /\ HandledTodo(c)

(* Blocks for the second operand and for the continuation; what the        *)
(* expression is when the second operand is not evaluated is passed on.    *)
HandleShortCircuitOperand ==
  LET n == Parsed IN
  /\ Visit({"ShortCircuitOperand"})
  /\ \E c1 \in {PopExpression(cx)} :
     \E c2 \in {ConvertToBoolValue(c1, n.parse_node, c1.ret.id)} :
     \E bool \in {GetNode(c2.ir, c2.ret).type} :
     \E c3 \in {IF n.token = "And" THEN c2
                ELSE AddNode(c2, Make("UnaryOperatorNot", n.parse_node, bool, <<c2.ret>>))} :
     \E c4 \in {AddNode(c3, Make("BoolLiteral", n.parse_node, bool,
                                 <<IF n.token = "And" THEN "False" ELSE "True">>))} :
     \E c5 \in {AddDominatedBlockAndBranch(c4, "BranchIf", n.parse_node, <<c3.ret>>)} :
     \E c6 \in {AddDominatedBlockAndBranch(c5, "BranchWithArg", n.parse_node, <<c4.ret>>)} :
       LET c7 == PushCodeBlock(PushCodeBlock(PopCodeBlock(c6), c6.ret), c5.ret)
       IN  Handled(PushNode(AddCurrentCodeBlockToFunction(c7), n, c2.ret))

-----------------------------------------------------------------------------
(* HandleParen, HandleStruct *)

HandleParenExpressionOrTupleLiteralStart ==
  /\ Visit({"ParenExpressionOrTupleLiteralStart"})
  /\ Handled(ParamOrArgStart(PushSolo(cx, Parsed)))

HandleParenExpression ==
  LET start == "ParenExpressionOrTupleLiteralStart"
      c1    == PopExpression(cx)
      c2    == Pop(ParamOrArgEnd(c1, start), start)
  IN  Visit({"ParenExpression"}) /\ Handled(PushNode(c2, Parsed, c1.ret.id))

HandleTupleLiteral ==
  LET n     == Parsed
      start == "ParenExpressionOrTupleLiteralStart"
      c1    == ParamOrArgEnd(cx, start)
      refs  == c1.ir.node_blocks[c1.ret]
      c2    == CanonicalizeTupleType(Pop(c1, start), n.parse_node,
                                     [ i \in DOMAIN refs |-> GetNode(c1.ir, refs[i]).type ])
  IN  /\ Visit({"TupleLiteral"})
      /\ Handled(AddNodeAndPush(c2, n, Make("TupleLiteral", n.parse_node, c2.ret, <<c1.ret>>)))

HandleStructLiteralOrStructTypeLiteralStart ==
  /\ Visit({"StructLiteralOrStructTypeLiteralStart"})
  /\ Handled(ParamOrArgStart(PushBlock(PushSolo(EnterScope(cx), Parsed),
                                       "args_type_info_stack", Invalid)))

HandleStructFieldDesignator ==
  Visit({"StructFieldDesignator"}) /\ Handled(Check(cx, PeekKind(cx) = "Name", "no name designated"))

HandleStructFieldValue ==
  LET n  == Parsed
      c1 == PopExpression(cx)
      c2 == Pop(c1, "Name")
      c3 == AddNodeTo(c2, "args_type_info_stack",
                      Make("StructTypeField", n.parse_node, Invalid,
                           <<c2.ret.id, GetNode(cx.ir, c1.ret.id).type>>))
  IN  Visit({"StructFieldValue"}) /\ Handled(PushNode(c3, n, c1.ret.id))

HandleStructFieldType ==
  LET c1 == PopExpression(cx)
      c2 == ExpressionAsType(c1, c1.ret.parse_node, c1.ret.id)
      c3 == Pop(c2, "Name")
  IN  /\ Visit({"StructFieldType"})
      /\ Handled(AddNodeAndPush(c3, Parsed, Make("StructTypeField", c3.ret.parse_node, Invalid,
                                                 <<c3.ret.id, c2.ret>>)))

(* What both struct literals begin with. *)
StructEnd(c) ==
  LET start == "StructLiteralOrStructTypeLiteralStart"
  IN  Pop(LeaveScope(ParamOrArgEnd(c, start)), start)

HandleStructLiteral ==
  LET n    == Parsed
      refs == ParamOrArgEnd(cx, "StructLiteralOrStructTypeLiteralStart").ret
      c1   == PopBlock(StructEnd(cx), "args_type_info_stack")
      c2   == CanonicalizeNode(c1, TypeNodeMake("StructType", n.parse_node, <<c1.ret>>))
  IN  /\ Visit({"StructLiteral"})
      /\ Handled(AddNodeAndPush(c2, n, Make("StructLiteral", n.parse_node, c2.ret, <<refs>>)))

HandleStructTypeLiteral ==
  LET n    == Parsed
      refs == ParamOrArgEnd(cx, "StructLiteralOrStructTypeLiteralStart").ret
      c1   == PopBlock(StructEnd(cx), "args_type_info_stack")
  IN  /\ Visit({"StructTypeLiteral"})
      /\ Handled(AddNodeAndPush(Check(c1, refs # EmptyBlock, "{} is handled by StructLiteral"), n,
                                TypeNodeMake("StructType", n.parse_node, <<refs>>)))

-----------------------------------------------------------------------------

(* A block for the tree, and the scope of the file. *)
CheckStart == EnterScope(PushCodeBlock(NewContext, Invalid))

VerifyOnFinish(c) ==
  Check(Check(Check(Check(c, c.name_lookup = NoNames, "names are left"),
                    c.scope_stack = <<>>, "scopes are left"),
              c.node_block_stack.size = 0, "blocks are left"),
        c.params_or_args_stack.size = 0, "arguments are left")

(* The end of CheckParseTree. *)
FinishCheck(c) ==
  LET c1 == PopCodeBlock(c)
      c2 == VerifyOnFinish(LeaveScope([c1 EXCEPT !.ir.top_node_block_id = c1.ret]))
      c3 == [c2 EXCEPT !.ir.has_errors = SeenError(c2), !.ret = Invalid]
  IN  Check(c3, Verify(c3.ir), "built invalid semantics IR")

FinishChecking ==
  \E r \in {FinishCheck(cx)} :
    /\ outcome = "checking"
    /\ visited = Len(tree)
    /\ cx' = IF r.fatal = "" THEN r ELSE [cx EXCEPT !.fatal = r.fatal]
    /\ outcome' = IF r.fatal = "" THEN "done" ELSE "aborted"
    /\ UNCHANGED <<tree, tokens, texts, visited>>

CheckExpression ==
  \/ HandleArrayExpression
  \/ HandleIndexExpression
  \/ HandleCallExpressionStart
  \/ HandleCallExpression
  \/ HandleIfExpressionIf
  \/ HandleIfExpressionThen
  \/ HandleIfExpressionElse
  \/ HandleLiteral
  \/ HandleNameExpression
  \/ HandleMemberAccessExpression
  \/ HandleInfixOperator
  \/ HandlePostfixOperator
  \/ HandlePrefixOperator
  \/ HandleShortCircuitOperand
  \/ HandleParenExpressionOrTupleLiteralStart
  \/ HandleParenExpression
  \/ HandleTupleLiteral
  \/ HandleStructLiteralOrStructTypeLiteralStart
  \/ HandleStructFieldDesignator
  \/ HandleStructFieldValue
  \/ HandleStructFieldType
  \/ HandleStructLiteral
  \/ HandleStructTypeLiteral

CheckDeclaration ==
  \/ HandleName
  \/ HandleQualifiedDeclaration
  \/ HandleFunctionIntroducer
  \/ HandleReturnType
  \/ HandleParameterListStart
  \/ HandleParameterList
  \/ HandleFunctionDeclaration
  \/ HandleFunctionDefinitionStart
  \/ HandleFunctionDefinition
  \/ HandleNamespaceStart
  \/ HandleNamespace
  \/ HandlePatternBinding
  \/ HandleLetDeclaration
  \/ HandleVariableDeclaration

CheckStatement ==
  \/ HandleCodeBlockStart
  \/ HandleCodeBlock
  \/ HandleExpressionStatement
  \/ HandleReturnStatement
  \/ HandleIfCondition
  \/ HandleIfStatementElse
  \/ HandleIfStatement

CheckNext ==
  \/ HandleNothing
  \/ HandleBracket
  \/ HandleComma
  \/ HandleUnsupported
  \/ CheckDeclaration
  \/ CheckExpression
  \/ CheckStatement
  \/ FinishChecking

=============================================================================
