---------------------------- MODULE CheckContext ----------------------------
(***************************************************************************)
(* Check::Context and the stacks it owns.                                  *)
(*                                                                         *)
(* A context is a record c.  An operation is an operator from a context to *)
(* the context it leaves, with what the operation returns in ret.  A       *)
(* failed CHECK, a FATAL and a read of an entry that is not there end the  *)
(* program: the first one is kept in fatal, and whatever the handler would *)
(* have done after it is of no account.                                    *)
(***************************************************************************)
EXTENDS SemIR, ScopeTable

NoBlocks == [size |-> 0, slots |-> <<>>]

NewContext ==
  [ir                     |-> NewFile,
   node_stack             |-> <<>>,
   node_block_stack       |-> NoBlocks,
   params_or_args_stack   |-> NoBlocks,
   args_type_info_stack   |-> NoBlocks,
   return_scope_stack     |-> <<>>,
   scope_stack            |-> <<>>,
   name_lookup            |-> NoNames,
   declaration_name_stack |-> <<>>,
   canonical_types        |-> [ n \in {BuiltinTypeType, BuiltinError} |->
                                  IF n = BuiltinError THEN ErrorType ELSE TypeType ],
   canonical_type_nodes   |-> [ p \in {} |-> Invalid ],
   pending                |-> <<>>,
   diagnostics            |-> {},
   finished               |-> FALSE,
   fatal                  |-> "",
   ret                    |-> Invalid]

Return(c, value) == [c EXCEPT !.ret = value]

Fatal(c, reason) == IF c.fatal = "" THEN [c EXCEPT !.fatal = reason] ELSE c

Check(c, condition, reason) == IF condition THEN c ELSE Fatal(c, reason)

(* What follows c, unless the program ended in c. *)
Proceed(c, rest) == IF c.fatal = "" THEN rest ELSE c

(* Reading the node of a type that is not there. *)
CheckTyped(c, type) == Check(c, type # Invalid, "the type of an untyped name is read")

Emit(c, kind, parse_node) ==
  [c EXCEPT !.diagnostics = @ \union {[kind |-> kind, parse_node |-> parse_node]}]

(* The only diagnostic of the checker that is a warning. *)
Warnings == {"RepeatedConst"}

SeenError(c) == \E d \in c.diagnostics : d.kind \notin Warnings

(* TODO; a handler that returns its result makes the checker stop. *)
TODO(c, parse_node) == Emit(c, "SemanticsTodo", parse_node)

-----------------------------------------------------------------------------
(* NodeBlockStack.  f names one of the three stacks.  The slots past size  *)
(* are kept for reuse.                                                     *)

PushBlock(c, f, id) ==
  LET st   == c[f]
      slot == [id |-> id, content |-> <<>>]
  IN  [c EXCEPT ![f] =
         [size  |-> st.size + 1,
          slots |-> IF st.size = Len(st.slots) THEN Append(st.slots, slot)
                    ELSE [st.slots EXCEPT ![st.size + 1] = slot]]]

TopBlock(c, f) == c[f].slots[c[f].size]

AddNodeBlock(c, content) ==
  [c EXCEPT !.ir.node_blocks = Append(@, content),
            !.ret = Len(c.ir.node_blocks) + 1]

AddNodeBlockId(c) == AddNodeBlock(c, <<>>)

PeekOrAdd(c, f, depth) ==
  LET i == c[f].size - depth IN
  IF i < 1 THEN Fatal(c, "no such block")
  ELSE IF c[f].slots[i].id # Invalid THEN Return(c, c[f].slots[i].id)
  ELSE [AddNodeBlockId(c) EXCEPT ![f].slots[i].id = Len(c.ir.node_blocks) + 1]

(* Pop finalises the block: its content goes to the id it has, or to a new *)
(* one, unless the block is unreachable.  The slot remembers the id.       *)
PopBlock(c, f) ==
  IF c[f].size = 0 THEN Fatal(c, "no current block")
  ELSE LET back == TopBlock(c, f)
           c1   == [c EXCEPT ![f].size = @ - 1]
           c2   == AddNodeBlock(c1, back.content)
       IN  CASE back.content = <<>> \/ back.id = Unreachable ->
                  Return(c1, IF back.id = Invalid THEN EmptyBlock ELSE back.id)
             [] back.content # <<>> /\ back.id = Invalid ->
                  [c2 EXCEPT ![f].slots[c[f].size].id = c2.ret]
             [] OTHER ->
                  Return(Check([c1 EXCEPT !.ir.node_blocks[back.id] = back.content],
                               c.ir.node_blocks[back.id] = <<>>,
                               "node block content set more than once"),
                         back.id)

AddNodeInNoBlock(c, node) ==
  [c EXCEPT !.ir.nodes = Append(@, node), !.ret = Len(c.ir.nodes) + 1]

AddNodeIdTo(c, f, id) ==
  IF c[f].size = 0 THEN Fatal(c, "no current block")
  ELSE [c EXCEPT ![f].slots[c[f].size].content = Append(@, id)]

(* The node that was returned goes to a block. *)
AddReturned(c, f) == AddNodeIdTo(c, f, c.ret)

AddNodeTo(c, f, node) == AddReturned(AddNodeInNoBlock(c, node), f)

AddNodeId(c, id) == AddNodeIdTo(c, "node_block_stack", id)

AddNode(c, node) == AddNodeTo(c, "node_block_stack", node)

ReplaceNode(c, id, node) == [c EXCEPT !.ir.nodes[id] = node]

IsCurrentBlockReachable(c) ==
  c.node_block_stack.size # 0 /\ TopBlock(c, "node_block_stack").id # Unreachable

IsCurrentPositionReachable(c) ==
  LET content == TopBlock(c, "node_block_stack").content IN
  /\ IsCurrentBlockReachable(c)
  /\ content = <<>> \/ TerminatorKind(GetNode(c.ir, Last(content)).kind) # 2

PushCodeBlock(c, id) == PushBlock(c, "node_block_stack", id)

PopCodeBlock(c) == PopBlock(c, "node_block_stack")

-----------------------------------------------------------------------------
(* NodeStack.  An entry is a parse node, its kind, and an id. *)

NodeIdKinds ==
  {"ArrayExpression", "CallExpression", "CallExpressionStart", "IfExpressionThen",
   "IfExpressionElse", "IndexExpression", "InfixOperator", "Literal",
   "MemberAccessExpression", "NameExpression", "ParenExpression", "PatternBinding",
   "PostfixOperator", "PrefixOperator", "ReturnType", "ShortCircuitOperand",
   "StructFieldValue", "StructLiteral", "StructFieldType", "StructTypeLiteral",
   "TupleLiteral"}

SoloKinds ==
  {"ArrayExpressionSemi", "CodeBlockStart", "FunctionIntroducer", "IfStatementElse",
   "LetIntroducer", "ParameterListStart", "ParenExpressionOrTupleLiteralStart",
   "QualifiedDeclaration", "ReturnStatementStart",
   "StructLiteralOrStructTypeLiteralStart", "VariableInitializer",
   "VariableIntroducer"}

ParseNodeKindToIdKind(kind) ==
  CASE kind \in NodeIdKinds -> "NodeId"
    [] kind \in {"IfCondition", "IfExpressionIf", "ParameterList"} -> "NodeBlockId"
    [] kind = "FunctionDefinitionStart" -> "FunctionId"
    [] kind = "Name" -> "StringId"
    [] kind \in SoloKinds -> "SoloParseNode"
    [] OTHER -> "Unused"

(* Push a node n of the parse tree with the id of a kind. *)
Push(c, n, id_kind, id) ==
  Check([c EXCEPT !.node_stack =
           Append(@, [parse_node |-> n.parse_node, kind |-> n.kind, id |-> id])],
        /\ ParseNodeKindToIdKind(n.kind) = id_kind
        /\ id_kind \notin {"SoloParseNode", "StringId"} => id # Invalid,
        "pushed with the wrong id")

PushNode(c, n, id) == Push(c, n, "NodeId", id)

PushSolo(c, n) == Push(c, n, "SoloParseNode", Invalid)

PushReturned(c, n) == PushNode(c, n, c.ret)

AddNodeAndPush(c, n, node) == PushReturned(AddNode(c, node), n)

NoEntry == [parse_node |-> Invalid, kind |-> "none", id |-> Invalid]

(* PopAndIgnore; the entry is returned. *)
PopEntry(c) ==
  IF c.node_stack = <<>> THEN Return(Fatal(c, "empty node stack"), NoEntry)
  ELSE [c EXCEPT !.node_stack = Front(@), !.ret = Last(c.node_stack)]

(* RequireIdKind and RequireParseKind, for the entry that was popped. *)
RequireIdKind(c, id_kind) ==
  Check(c, ParseNodeKindToIdKind(c.ret.kind) = id_kind, "unexpected id kind")

RequireParseKind(c, kind) == Check(c, c.ret.kind = kind, "unexpected parse kind")

PopExpression(c) == RequireIdKind(PopEntry(c), "NodeId")

(* The Pop operations that ask for the parse kind. *)
Pop(c, kind) == RequireParseKind(PopEntry(c), kind)

PeekKind(c) == IF c.node_stack = <<>> THEN "none" ELSE Last(c.node_stack).kind

Peek(c, kind) ==
  IF c.node_stack = <<>> THEN Return(Fatal(c, "empty node stack"), NoEntry)
  ELSE Return(Check(c, PeekKind(c) = kind, "unexpected parse kind"), Last(c.node_stack))

-----------------------------------------------------------------------------
(* Names in scope. *)

EnterScope(c) == [c EXCEPT !.scope_stack = PushScope(@)]

LeaveScope(c) ==
  IF c.scope_stack = <<>> THEN Fatal(c, "no scope")
  ELSE [c EXCEPT !.name_lookup = PopNames(c.scope_stack, @), !.scope_stack = PopScope(@)]

AddNameToLookup(c, parse_node, name, target) ==
  IF name \in Innermost(c.scope_stack)
  THEN Emit(c, "NameDeclarationDuplicate", parse_node)
  ELSE [c EXCEPT !.scope_stack = DeclareName(@, name),
                 !.name_lookup = AddName(@, name, target)]

(* Mutant: only a member that is not found is reported. *)
LookupNameSilently(c, parse_node, name, scope, print_diagnostics) ==
  LET id == IF scope = Invalid THEN LookupUnqualified(c.name_lookup, name, BuiltinError)
            ELSE IF name \in DOMAIN c.ir.name_scopes[scope] THEN c.ir.name_scopes[scope][name]
            ELSE BuiltinError
  IN  Return(IF id = BuiltinError /\ print_diagnostics /\ scope # Invalid
             THEN Emit(c, "NameNotFound", parse_node) ELSE c, id)

(* LookupName; the entity is returned. *)
LookupName(c, parse_node, name, scope, print_diagnostics) ==
  LET id == IF scope = Invalid THEN LookupUnqualified(c.name_lookup, name, BuiltinError)
            ELSE IF name \in DOMAIN c.ir.name_scopes[scope] THEN c.ir.name_scopes[scope][name]
            ELSE BuiltinError
  IN  Return(IF id = BuiltinError /\ print_diagnostics
             THEN Emit(c, "NameNotFound", parse_node) ELSE c, id)

FollowNameReferences(ir, id) ==
  LET follow[n \in DOMAIN ir.nodes] ==
        IF ir.nodes[n].kind \in {"NameReference", "NameReferenceUntyped"}
        THEN follow[ir.nodes[n].args[2]] ELSE n
  IN  follow[id]

-----------------------------------------------------------------------------
(* DeclarationNameStack.  ref is the union: the resolved entity, or the    *)
(* unresolved name.                                                        *)

PushName(c) ==
  [c EXCEPT !.declaration_name_stack =
     Append(@, [state |-> "New", scope |-> Invalid, parse_node |-> Invalid, ref |-> Invalid])]

TopName(c) == Last(c.declaration_name_stack)

SetTopName(c, name_context) ==
  [c EXCEPT !.declaration_name_stack[Len(c.declaration_name_stack)] = name_context]

(* CanResolveQualifier for the states it refuses. *)
RefuseQualifier(c, parse_node) ==
  LET name == TopName(c)
      c1   == SetTopName(c, [name EXCEPT !.state = "Error"])
  IN  CASE name.state = "Error" -> c
        [] name.state = "Unresolved" -> Emit(c1, "NameNotFound", name.parse_node)
        [] name.state = "ResolvedNonScope" ->
             Emit(c1, "QualifiedDeclarationInNonScope", parse_node)

CanResolveQualifier(c) == TopName(c).state \in {"New", "Resolved"}

(* UpdateScopeIfNeeded, with the resolved entity. *)
Resolved(c, name_context, id) ==
  LET node == GetNode(c.ir, id)
      nc   == [name_context EXCEPT !.ref = id]
  IN  IF node.kind = "Namespace"
      THEN [nc EXCEPT !.state = "Resolved", !.scope = node.args[1]]
      ELSE [nc EXCEPT !.state = "ResolvedNonScope"]

ApplyExpressionQualifier(c, parse_node, id) ==
  LET nc == [TopName(c) EXCEPT !.parse_node = parse_node] IN
  CASE ~CanResolveQualifier(c) -> RefuseQualifier(c, parse_node)
    [] CanResolveQualifier(c) /\ id = BuiltinError ->
         SetTopName(c, [nc EXCEPT !.state = "Error"])
    [] OTHER -> SetTopName(c, Resolved(c, nc, id))

ApplyNameQualifier(c, parse_node, name) ==
  LET nc    == [TopName(c) EXCEPT !.parse_node = parse_node]
      found == LookupName(c, parse_node, name, nc.scope, FALSE).ret
  IN  CASE ~CanResolveQualifier(c) -> RefuseQualifier(c, parse_node)
        [] CanResolveQualifier(c) /\ found = BuiltinError ->
             SetTopName(c, [nc EXCEPT !.state = "Unresolved", !.ref = name])
        [] OTHER -> SetTopName(c, Resolved(c, nc, found))

ApplyReturnedName(c) == ApplyNameQualifier(c, c.ret.parse_node, c.ret.id)

LeaveName(c) == [c EXCEPT !.declaration_name_stack = Front(@), !.ret = TopName(c)]

(* DeclarationNameStack::Pop; the name context is returned. *)
PopName(c) ==
  LeaveName(IF PeekKind(c) = "QualifiedDeclaration" THEN Pop(c, "QualifiedDeclaration")
            ELSE ApplyReturnedName(Pop(c, "Name")))

(* DeclarationNameStack::AddNameToLookup *)
AddDeclaredName(c, name_context, target) ==
  CASE name_context.state = "Error" -> c
    [] name_context.state = "New" -> Fatal(c, "name is missing")
    [] name_context.state \in {"Resolved", "ResolvedNonScope"} ->
         Emit(c, "NameDeclarationDuplicate", name_context.parse_node)
    [] name_context.state = "Unresolved" /\ name_context.scope = Invalid ->
         AddNameToLookup(c, name_context.parse_node, name_context.ref, target)
    [] OTHER ->
         Check([c EXCEPT !.ir.name_scopes[name_context.scope] =
                  [ n \in DOMAIN @ \union {name_context.ref} |->
                      IF n \in DOMAIN @ THEN @[n] ELSE target ]],
               name_context.ref \notin DOMAIN c.ir.name_scopes[name_context.scope],
               "duplicate names should have been resolved")

-----------------------------------------------------------------------------
(* Branches and blocks. *)

(* A branch to the block that was returned, and still is. *)
BranchTo(c, kind, parse_node, args) ==
  Return(AddNode(c, Make(kind, parse_node, Invalid, <<c.ret>> \o args)), c.ret)

(* AddDominatedBlockAndBranch and its variants: args follow the target. *)
AddDominatedBlockAndBranch(c, kind, parse_node, args) ==
  IF IsCurrentBlockReachable(c) THEN BranchTo(AddNodeBlockId(c), kind, parse_node, args)
  ELSE Return(c, Unreachable)

(* The current block, if it is reachable, ends in a branch to the          *)
(* resumption block, which is made for the first of them and is returned.  *)
BranchAndPop(c, kind, parse_node, arg) ==
  Return(PopCodeBlock(IF IsCurrentBlockReachable(c) THEN BranchTo(c, kind, parse_node, arg) ELSE c),
         c.ret)

JoinBlock(c, kind, parse_node, arg) ==
  BranchAndPop(IF IsCurrentBlockReachable(c) /\ c.ret = Unreachable THEN AddNodeBlockId(c) ELSE c,
               kind, parse_node, arg)

ResumeReturned(c) == PushCodeBlock(c, c.ret)

(* The last block pushed is joined first; first and last are what the      *)
(* blocks pass on.                                                         *)
AddConvergenceBlock(c, kind, parse_node, first, last) ==
  ResumeReturned(JoinBlock(JoinBlock(Return(c, Unreachable), kind, parse_node, first),
                           kind, parse_node, last))

AddConvergenceBlockAndPush(c, parse_node) ==
  AddConvergenceBlock(c, "Branch", parse_node, <<>>, <<>>)

(* The value the block that was returned gets. *)
AddBlockArg(c, parse_node, type) == AddNode(c, Make("BlockArg", parse_node, type, <<c.ret>>))

(* Mutant: the blocks get each other's values. *)
AddConvergenceBlockSwapped(c, parse_node, first, second) ==
  AddBlockArg(AddConvergenceBlock(c, "BranchWithArg", parse_node, <<second>>, <<first>>),
              parse_node, GetNode(c.ir, first).type)

AddConvergenceBlockWithArgAndPush(c, parse_node, first, second) ==
  AddBlockArg(AddConvergenceBlock(c, "BranchWithArg", parse_node, <<first>>, <<second>>),
              parse_node, GetNode(c.ir, first).type)

(* The function that is being defined. *)
CurrentFunction(c) == GetNode(c.ir, Last(c.return_scope_stack)).args[1]

AddBodyBlock(c, f) == [c EXCEPT !.ir.functions[f].body_block_ids = Append(@, c.ret)]

AddCurrentCodeBlockToFunction(c) ==
  CASE c.node_block_stack.size = 0 -> Fatal(c, "no current code block")
    [] c.node_block_stack.size # 0 /\ c.return_scope_stack = <<>> ->
         Fatal(c, "no current function")
    [] c.node_block_stack.size # 0 /\ c.return_scope_stack # <<>>
       /\ ~IsCurrentBlockReachable(c) -> c
    [] OTHER -> AddBodyBlock(PeekOrAdd(c, "node_block_stack", 0), CurrentFunction(c))

-----------------------------------------------------------------------------
(* Parameters and arguments. *)

ParamOrArgStart(c) == PushBlock(c, "params_or_args_stack", Invalid)

ParamOrArgSave(c, id) == AddNodeIdTo(c, "params_or_args_stack", id)

ParamOrArgSaveEntry(c) == ParamOrArgSave(c, c.ret.id)

ParamOrArgComma(c) == ParamOrArgSaveEntry(PopExpression(c))

ParamOrArgEndNoPop(c, start_kind) == IF PeekKind(c) = start_kind THEN c ELSE ParamOrArgComma(c)

ParamOrArgPop(c) == PopBlock(c, "params_or_args_stack")

ParamOrArgEnd(c, start_kind) == ParamOrArgPop(ParamOrArgEndNoPop(c, start_kind))

-----------------------------------------------------------------------------
(* Types. *)

GetUnqualifiedType(ir, type) ==
  LET node == TypeNode(ir, type) IN IF node.kind = "ConstType" THEN node.args[1] ELSE type

TypeKinds ==
  {"ArrayType", "CrossReference", "ConstType", "PointerType", "StructType", "TupleType"}

(* ProfileType: what makes two type nodes the same type. *)
Profile(ir, node) ==
  <<node.kind>> \o
  CASE node.kind = "ArrayType" -> <<GetArrayBoundValue(ir, node.args[1]), node.args[2]>>
    [] node.kind = "ConstType" -> <<GetUnqualifiedType(ir, node.args[1])>>
    [] node.kind = "StructType" ->
         LET fields == ir.node_blocks[node.args[1]]
         IN  [ i \in DOMAIN fields |-> GetNode(ir, fields[i]).args ]
    [] node.kind = "TupleType" -> node.args[1]
    [] OTHER -> node.args

(* Mutant: a type is found by its node only. *)
AddTypeUnprofiled(c, profile, id) ==
  LET type == Len(c.ir.types) + 1
  IN  [c EXCEPT !.ir.types = Append(@, id), !.ret = type,
                !.canonical_types = [ n \in DOMAIN @ \union {id} |->
                                        IF n = id THEN type ELSE @[n] ]]

(* The end of CanonicalizeTypeImpl: id is the node of a new type. *)
AddType(c, profile, id) ==
  LET type == Len(c.ir.types) + 1
  IN  Check([c EXCEPT !.ir.types = Append(@, id), !.ret = type,
                      !.canonical_types = [ n \in DOMAIN @ \union {id} |->
                                              IF n = id THEN type ELSE @[n] ],
                      !.canonical_type_nodes = [ p \in DOMAIN @ \union {profile} |->
                                                   IF p = profile THEN type ELSE @[p] ]],
            id \notin DOMAIN c.canonical_types, "type inserted twice")

AddReturnedType(c, profile) == AddType(c, profile, c.ret)

(* CanonicalizeTypeImpl, for a type node that is not in the file yet.      *)
FindOrAddNewType(c, profile, node) ==
  IF profile \in DOMAIN c.canonical_type_nodes THEN Return(c, c.canonical_type_nodes[profile])
  ELSE AddReturnedType(AddNode(c, node), profile)

(* CanonicalizeTypeImpl, for the type node id. *)
FindOrAddType(c, profile, id) ==
  IF profile \in DOMAIN c.canonical_type_nodes THEN Return(c, c.canonical_type_nodes[profile])
  ELSE AddType(c, profile, id)

(* CanonicalizeTypeAndAddNodeIfNew; also CanonicalizeStructType,           *)
(* CanonicalizeTupleType and GetPointerType, by the node they make.        *)
CanonicalizeNode(c, node) == FindOrAddNewType(c, Profile(c.ir, node), node)

TypeNodeMake(kind, parse_node, args) == Make(kind, parse_node, TypeType, args)

CanonicalizeTupleType(c, parse_node, types) ==
  CanonicalizeNode(c, TypeNodeMake("TupleType", parse_node, <<types>>))

CanonicalizeType(c, id) ==
  CASE id \in DOMAIN c.canonical_types -> Return(c, c.canonical_types[id])
    [] id \notin DOMAIN c.canonical_types /\ GetNode(c.ir, id).kind \notin TypeKinds ->
         Return(Fatal(c, "unexpected type node"), ErrorType)
    [] OTHER -> FindOrAddType(c, Profile(c.ir, GetNode(c.ir, id)), id)

(* The type of the type expression that was returned. *)
CanonicalizeReturned(c) == CanonicalizeType(c, c.ret)

=============================================================================
