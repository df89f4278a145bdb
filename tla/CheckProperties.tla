--------------------------- MODULE CheckProperties ---------------------------
(***************************************************************************)
(* What the checker promises of the IR it builds, and the lowering of the  *)
(* blocks it makes of it.                                                  *)
(***************************************************************************)
EXTENDS Pipeline, FiniteSetsExt

(* The checker is done and found nothing wrong. *)
Accepted == Successful /\ lw.phase = "waiting"

ir == cx.ir

Blocks(f) == ir.functions[f].body_block_ids

(* The nodes of a block in the order they are lowered. *)
RECURSIVE Code(_)

Code(block) ==
  FlattenSeq([ i \in DOMAIN ir.node_blocks[block] |->
    LET id   == ir.node_blocks[block][i]
        node == ir.nodes[id]
    IN  IF node.kind = "SpliceBlock" THEN Append(Code(node.args[1]), id) ELSE <<id>> ])

CodeBlocks == UNION { ToSet(Blocks(f)) : f \in DOMAIN ir.functions }

CodeNodes == UNION { ToSet(Code(b)) : b \in CodeBlocks }

Type(id) == GetNode(ir, id).type

Types(ids) == [ i \in DOMAIN ids |-> Type(ids[i]) ]

-----------------------------------------------------------------------------

(* Whatever the parser accepted or refused, the checker's stacks are as    *)
(* each handler expects them and every CHECK of Context, NodeStack,        *)
(* NodeBlockStack, DeclarationNameStack and File::Verify holds; and a file *)
(* without errors is lowered, unless it holds a node whose lowering is not *)
(* written.                                                                *)
NeverAborts ==
  /\ status # "aborted"
  /\ outcome # "aborted"
  /\ lw.fatal \in {"", "not lowered yet"}

(* The scopes that scope_stack_ and name_lookup_ stand for. *)
Env == INSTANCE ScopedEnvironment WITH
         scopes <- Environment(cx.scope_stack, cx.name_lookup)

(* What looking a name up yields is what lexical scoping says it means. *)
LookupIsLexical ==
  outcome = "checking" =>
    \A n \in DOMAIN cx.name_lookup \union UNION ToSet(cx.scope_stack) :
      LookupUnqualified(cx.name_lookup, n, 0) = Env!Meaning(n, 0)

(* The names in scope change only as lexical scoping lets them: what the   *)
(* checker does to scope_stack_ and name_lookup_ implements a stack of     *)
(* environments, and a lookup finds what that stack has.                   *)
ScopesAreLexical == Env!EnvironmentSpec /\ []LookupIsLexical

-----------------------------------------------------------------------------

(* What a type id means, by structure.  const const T is const T. *)
RECURSIVE Denotation(_)

Denotation(type) ==
  LET node == TypeNode(ir, type) IN
  CASE node.kind = "CrossReference" -> node.args
    [] node.kind = "ArrayType" ->
         <<"array", GetArrayBoundValue(ir, node.args[1]), Denotation(node.args[2])>>
    [] node.kind = "ConstType" -> <<"const", Denotation(GetUnqualifiedType(ir, node.args[1]))>>
    [] node.kind = "PointerType" -> <<"pointer", Denotation(node.args[1])>>
    [] node.kind = "StructType" ->
         <<"struct", FieldNames(ir, node),
           [ i \in DOMAIN ElementTypes(ir, node) |-> Denotation(ElementTypes(ir, node)[i]) ]>>
    [] node.kind = "TupleType" ->
         <<"tuple", [ i \in DOMAIN node.args[1] |-> Denotation(node.args[1][i]) ]>>

(* CanonicalizeType gives two types one id exactly if they have the same   *)
(* structure, so that comparing ids compares types.                        *)
TypesAreCanonical ==
  outcome = "done" =>
    /\ \A t, u \in DOMAIN ir.types \union {TypeType, ErrorType} :
         Denotation(t) = Denotation(u) => t = u
    /\ \A n \in DOMAIN cx.canonical_types :
         LET t == cx.canonical_types[n]
         IN  Profile(ir, ir.nodes[n]) = Profile(ir, TypeNode(ir, t))

-----------------------------------------------------------------------------
(* The arguments of a node that are nodes, and that are blocks of nodes. *)

NodeArgs ==
  [AddressOf |-> {1}, ArrayIndex |-> {1, 2}, Assign |-> {1, 2}, BinaryOperatorAdd |-> {1, 2},
   BindName |-> {2}, BindValue |-> {1}, BranchIf |-> {2}, BranchWithArg |-> {2},
   Dereference |-> {1}, InitializeFrom |-> {1, 2}, NameReference |-> {2},
   ReturnExpression |-> {1}, SpliceBlock |-> {2}, StructAccess |-> {1}, Temporary |-> {1, 2},
   TupleAccess |-> {1}, TupleIndex |-> {1, 2}, UnaryOperatorNot |-> {1},
   ValueAsReference |-> {1}]

BlockArgs ==
  [ArrayInit |-> 2, Call |-> 1, StructInit |-> 2, StructLiteral |-> 1, StructValue |-> 2,
   TupleInit |-> 2, TupleLiteral |-> 1, TupleValue |-> 2]

Operands(id) ==
  LET node == ir.nodes[id] IN
  CASE node.kind \in DOMAIN NodeArgs -> { node.args[i] : i \in NodeArgs[node.kind] }
    [] node.kind \in DOMAIN BlockArgs -> ToSet(ir.node_blocks[node.args[BlockArgs[node.kind]]])
    [] OTHER -> {}

(* A construct the checker could not make sense of never reaches lowering  *)
(* unreported: code without errors has no operand that is the error node   *)
(* and no node of the error type.                                          *)
NoSilentErrors ==
  Accepted => \A id \in CodeNodes : BuiltinError \notin Operands(id) /\ Type(id) # ErrorType

IsBool(id) == TypeNode(ir, Type(id)).args = <<"BoolType">>

(* The node's operands have the types its kind asks for; f is its function. *)
OperandsAreTyped(f, id) ==
  LET node == ir.nodes[id]
      x    == node.args
      function  == ir.functions[f]
      Node(n)   == TypeNode(ir, Type(n))
      Elems(n)  == ElementTypes(ir, Node(n))
      Refs(i)   == ir.node_blocks[x[i]]
  IN  CASE node.kind = "Assign" ->
             /\ GetExpressionCategory(ir, x[1]) = "DurableReference"
             /\ Type(x[1]) = Type(x[2])
        [] node.kind = "InitializeFrom" -> Type(x[1]) = node.type /\ Type(x[2]) = node.type
        [] node.kind \in {"BindName", "NameReference", "SpliceBlock"} -> Type(x[2]) = node.type
        [] node.kind = "BindValue" ->
             /\ Type(x[1]) = node.type
             /\ GetExpressionCategory(ir, x[1]) \in {"DurableReference", "EphemeralReference"}
        [] node.kind = "BinaryOperatorAdd" -> Type(x[1]) = node.type /\ Type(x[2]) = node.type
        [] node.kind = "BranchIf" -> IsBool(x[2])
        [] node.kind = "BranchWithArg" ->
             \A a \in CodeNodes : ir.nodes[a].kind = "BlockArg" /\ ir.nodes[a].args = <<x[1]>>
                                    => Type(a) = Type(x[2])
        [] node.kind = "UnaryOperatorNot" -> IsBool(x[1]) /\ IsBool(id)
        [] node.kind = "Return" -> function.return_type_id = Invalid
        [] node.kind = "ReturnExpression" -> Type(x[1]) = function.return_type_id
        [] node.kind = "Temporary" ->
             /\ Type(x[1]) = node.type /\ Type(x[2]) = node.type
             /\ GetExpressionCategory(ir, x[2]) = "Initializing"
        [] node.kind = "AddressOf" ->
             /\ Node(id).kind = "PointerType" /\ Node(id).args[1] = Type(x[1])
             /\ GetExpressionCategory(ir, x[1]) = "DurableReference"
        [] node.kind = "Dereference" ->
             LET pointer == TypeNode(ir, GetUnqualifiedType(ir, Type(x[1])))
             IN  pointer.kind = "PointerType" /\ pointer.args[1] = node.type
        [] node.kind \in {"StructAccess", "TupleAccess"} -> Elems(x[1])[x[2] + 1] = node.type
        [] node.kind = "TupleIndex" -> Elems(x[1])[ir.nodes[x[2]].args[1] + 1] = node.type
        [] node.kind = "ArrayIndex" ->
             /\ Node(x[1]).args[2] = node.type
             /\ ir.nodes[x[2]].kind = "IntegerLiteral" =>
                  ir.nodes[x[2]].args[1] < GetArrayBoundValue(ir, Node(x[1]).args[1])
        [] node.kind \in {"StructInit", "StructValue", "TupleInit", "TupleValue"} ->
             Types(Refs(2)) = Elems(id)
        [] node.kind = "ArrayInit" ->
             Types(Refs(2)) = [ i \in 1 .. GetArrayBoundValue(ir, Node(id).args[1]) |->
                                  Node(id).args[2] ] \o <<node.type>>
        [] node.kind = "Call" ->
             LET callee == ir.functions[x[2]]
             IN  Types(Refs(1)) =
                   Types(ir.node_blocks[callee.param_refs_id]) \o
                   (IF callee.return_slot_id = Invalid THEN <<>> ELSE <<callee.return_type_id>>)
        [] OTHER -> TRUE

(* The operands of every node in a function have the types and categories  *)
(* that node stands for, whatever conversions made them: what is stored    *)
(* fits its place, arguments fit parameters, the values that meet in a     *)
(* block agree, and a constant index is inside its array.                  *)
WellTyped ==
  Accepted => \A f \in DOMAIN ir.functions : \A b \in ToSet(Blocks(f)) :
                \A id \in ToSet(Code(b)) : OperandsAreTyped(f, id)

-----------------------------------------------------------------------------
(* Control flow. *)

Successors(block) ==
  { ir.nodes[id].args[1] : id \in { n \in ToSet(ir.node_blocks[block]) :
      ir.nodes[n].kind \in {"Branch", "BranchIf", "BranchWithArg"} } }

(* The blocks that can be reached from those in frontier past no block of seen. *)
RECURSIVE Reachable(_, _)

Reachable(frontier, seen) ==
  IF frontier = {} THEN seen
  ELSE LET new == UNION { Successors(b) : b \in frontier } \ (seen \union frontier)
       IN  Reachable(new, seen \union frontier)

(* The blocks of a function are its own, and are exactly the ones control  *)
(* can reach from its first; each ends in one terminator.  Branches never  *)
(* leave the function, and code after a return is not part of it.          *)
BlocksAreClosed ==
  Accepted =>
    /\ \A f \in DOMAIN ir.functions : Blocks(f) # <<>> =>
         /\ Reachable({Blocks(f)[1]}, {}) = ToSet(Blocks(f))
         /\ IsInjective(Blocks(f))
         /\ \A b \in ToSet(Blocks(f)) : EndsInTerminator(ir, b)
    /\ \A f, g \in DOMAIN ir.functions : f # g => ToSet(Blocks(f)) \cap ToSet(Blocks(g)) = {}

(* No node is in two places: the nodes a pending block held are inserted   *)
(* once, or spliced in once, or dropped.                                   *)
NodesAreInOnePlace ==
  Accepted =>
    /\ \A b \in CodeBlocks : IsInjective(Code(b))
    /\ \A b, c \in CodeBlocks : b # c => ToSet(Code(b)) \cap ToSet(Code(c)) = {}

(* Every path to the block use goes through the block def. *)
Dominates(f, def, use) ==
  LET entry == Blocks(f)[1]
  IN  def = entry \/ use \notin Reachable({entry}, {def})

(* What a function's nodes may use without a definition in its blocks. *)
Given(f) ==
  1 .. Len(BuiltinKinds) \union {ir.functions[f].return_slot_id} \union
  ToSet(ir.node_blocks[ir.functions[f].param_refs_id])

(* An operand is computed before it is used, on every path. *)
OperandsDominateUses ==
  Accepted =>
    \A f \in DOMAIN ir.functions : \A use \in ToSet(Blocks(f)) :
      \A i \in DOMAIN Code(use) : \A o \in Operands(Code(use)[i]) \ Given(f) :
        \/ \E j \in 1 .. i - 1 : Code(use)[j] = o
        \/ \E def \in ToSet(Blocks(f)) \ {use} : o \in ToSet(Code(def)) /\ Dominates(f, def, use)

-----------------------------------------------------------------------------

(* Once a function is lowered, every basic block has one terminator, and a *)
(* phi has one incoming value from each of its block's predecessors: also  *)
(* when lowering made one basic block of two, or a branch left no block of *)
(* its own behind.                                                         *)
PhisMatchPredecessors ==
  lw.phase \in {"lowering", "done"} /\ lw.work = <<>> /\ lw.todo = <<>> =>
    \A b \in DOMAIN lw.llvm :
      /\ lw.llvm[b].terminators = 1
      /\ lw.llvm[b].phi => /\ IsInjective(lw.llvm[b].incoming)
                           /\ ToSet(lw.llvm[b].incoming) = Predecessors(lw, b)

=============================================================================
