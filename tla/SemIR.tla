-------------------------------- MODULE SemIR --------------------------------
(***************************************************************************)
(* SemIR::File: the semantics IR the checker builds.                       *)
(*                                                                         *)
(* Ids are indices from 1, so the six builtins are the nodes 1 .. 6 and    *)
(* the Empty node block is the block 1.  A node is its kind, its type, the *)
(* parse node it came from and its arguments.  Interned strings are named  *)
(* by themselves, and integer literals, builtins and the type block of a   *)
(* tuple type are kept in the node that refers to them.                    *)
(***************************************************************************)
EXTENDS Integers, Sequences, FiniteSets, SequencesExt

Invalid == 0

BuiltinKinds ==
  <<"TypeType", "Error", "BoolType", "IntegerType", "FloatingPointType", "StringType">>

BuiltinTypeType == 1
BuiltinError == 2
BuiltinBoolType == 3
BuiltinIntegerType == 4
BuiltinFloatingPointType == 5
BuiltinStringType == 6

(* The type ids that are not in types_. *)
ErrorType == -1
TypeType == -2

EmptyBlock == 1
Unreachable == -1

Make(kind, parse_node, type, args) ==
  [kind |-> kind, parse_node |-> parse_node, type |-> type, args |-> args]

NewFile ==
  [nodes |-> [ i \in 1 .. Len(BuiltinKinds) |->
                 Make("CrossReference", Invalid,
                      IF i = BuiltinError THEN ErrorType ELSE TypeType,
                      <<BuiltinKinds[i]>>) ],
   node_blocks |-> << <<>> >>,
   types |-> <<>>,
   functions |-> <<>>,
   name_scopes |-> <<>>,
   top_node_block_id |-> Invalid,
   has_errors |-> FALSE]

(* A node that is not there: what reading index Invalid stands for. *)
NoNode == Make("Invalid", Invalid, Invalid, <<>>)

GetNode(ir, id) == IF id \in DOMAIN ir.nodes THEN ir.nodes[id] ELSE NoNode

GetTypeAllowBuiltinTypes(ir, type) ==
  CASE type = TypeType  -> BuiltinTypeType
    [] type = ErrorType -> BuiltinError
    [] type = Invalid   -> Invalid
    [] OTHER            -> ir.types[type]

TypeNode(ir, type) == GetNode(ir, GetTypeAllowBuiltinTypes(ir, type))

GetArrayBoundValue(ir, bound_id) == GetNode(ir, bound_id).args[1]

-----------------------------------------------------------------------------
(* NodeKind.def *)

NoValueKinds ==
  {"Invalid", "Assign", "Branch", "BranchIf", "BranchWithArg", "NoOp", "Return",
   "ReturnExpression", "StructTypeField"}

UntypedKinds == {"FunctionDeclaration", "NameReferenceUntyped", "Namespace"}

IsTyped(kind) == kind \notin NoValueKinds \union UntypedKinds

(* NotTerminator, TerminatorSequence, Terminator, in the order of the enum. *)
TerminatorKind(kind) ==
  CASE kind \in {"Branch", "BranchWithArg", "Return", "ReturnExpression"} -> 2
    [] kind = "BranchIf" -> 1
    [] OTHER -> 0

-----------------------------------------------------------------------------

(* The nodes whose category is that of another one, and which. *)
CategoryOperand ==
  [NameReference |-> 2, BindName |-> 2, SpliceBlock |-> 2,
   ArrayIndex |-> 1, StructAccess |-> 1, TupleAccess |-> 1, TupleIndex |-> 1]

GetExpressionCategory(ir, id) ==
  LET category[n \in DOMAIN ir.nodes] ==
        LET node == ir.nodes[n] IN
        CASE node.kind \in DOMAIN CategoryOperand ->
               category[node.args[CategoryOperand[node.kind]]]
          [] ~IsTyped(node.kind) -> "NotExpression"
          [] node.kind \in {"StructLiteral", "TupleLiteral"} -> "Mixed"
          [] node.kind \in {"ArrayInit", "Call", "InitializeFrom", "StructInit",
                            "TupleInit"} -> "Initializing"
          [] node.kind \in {"Dereference", "VarStorage"} -> "DurableReference"
          [] node.kind \in {"Temporary", "TemporaryStorage", "ValueAsReference"} ->
               "EphemeralReference"
          [] OTHER -> "Value"
  IN  category[id]

(* The types of the fields of a struct type or the elements of a tuple type. *)
ElementTypes(ir, node) ==
  IF node.kind = "TupleType"
  THEN node.args[1]
  ELSE LET fields == ir.node_blocks[node.args[1]]
       IN  [ i \in DOMAIN fields |-> GetNode(ir, fields[i]).args[2] ]

(* GetValueRepresentation and GetInitializingRepresentation in one: None,  *)
(* ByCopy or InPlace.  NotAType stands for the FATAL.                      *)
GetInitializingRepresentation(ir, type) ==
  LET rep[n \in DOMAIN ir.nodes] ==
        LET node     == ir.nodes[n]
            Of(t)    == IF t = Invalid THEN "NotAType"
                        ELSE rep[GetTypeAllowBuiltinTypes(ir, t)]
            elements == ElementTypes(ir, node)
        IN  CASE node.kind = "CrossReference" ->
                   (CASE node.args[1] \in {"TypeType", "Error"} -> "None"
                      [] node.args[1] = "StringType" -> "InPlace"
                      [] OTHER -> "ByCopy")
              [] node.kind = "SpliceBlock" -> rep[node.args[2]]
              [] node.kind = "ArrayType" -> "InPlace"
              [] node.kind \in {"StructType", "TupleType"} ->
                   (CASE elements = <<>> -> "None"
                      [] Len(elements) = 1 -> Of(elements[1])
                      [] OTHER -> "InPlace")
              [] node.kind = "PointerType" -> "ByCopy"
              [] node.kind = "ConstType" -> Of(node.args[1])
              [] OTHER -> "NotAType"
  IN  IF type = Invalid THEN "NotAType" ELSE rep[GetTypeAllowBuiltinTypes(ir, type)]

IsEntryPoint(function) == function.name = "Run"

-----------------------------------------------------------------------------

(* A block's nodes that are no terminators, then a terminator sequence,    *)
(* then one terminator.                                                    *)
EndsInTerminator(ir, block) ==
  LET content == ir.node_blocks[block]
      kind(i) == TerminatorKind(GetNode(ir, content[i]).kind)
  IN  /\ content # <<>>
      /\ \A i \in 1 .. Len(content) - 1 : kind(i) # 2 /\ kind(i) <= kind(i + 1)
      /\ kind(Len(content)) = 2

(* File::Verify *)
Verify(ir) ==
  ir.has_errors \/
  \A f \in DOMAIN ir.functions :
    \A b \in ToSet(ir.functions[f].body_block_ids) : EndsInTerminator(ir, b)

=============================================================================
