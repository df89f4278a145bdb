------------------------------- MODULE Convert -------------------------------
(***************************************************************************)
(* Convert.cc: conversions between types and between expression            *)
(* categories, and the pending block that holds the location of an object  *)
(* until its initializer is known to need it.                              *)
(*                                                                         *)
(* A target is what is wanted: the kind of conversion, the type, and for   *)
(* an initializer the object to initialize (init_id).  The nodes that      *)
(* compute that object wait in pending; init_block tells whether there is  *)
(* such a block.                                                           *)
(***************************************************************************)
EXTENDS CheckContext

Target(kind, type) == [kind |-> kind, type |-> type, init_id |-> Invalid, init_block |-> FALSE]

IsInitializer(target) == target.kind \in {"Initializer", "FullInitializer"}

-----------------------------------------------------------------------------
(* PendingBlock *)

KeepPending(c) == [c EXCEPT !.pending = Append(@, c.ret)]

AddPending(c, node) == KeepPending(AddNodeInNoBlock(c, node))

(* Mutant: the nodes stay in the pending block. *)
InsertHereAgain(c) == FoldLeft(AddNodeId, c, c.pending)

InsertHere(c) == [FoldLeft(AddNodeId, c, c.pending) EXCEPT !.pending = <<>>]

(* The node target_id becomes the block that was returned, with a value. *)
ReplaceBySplice(c, target_id, value_id, value) ==
  ReplaceNode(c, target_id, Make("SpliceBlock", value.parse_node, value.type, <<c.ret, value_id>>))

(* MergeReplacing: the node target_id becomes the pending nodes, with the  *)
(* value value_id.                                                         *)
MergeReplacing(c, target_id, value_id) ==
  [(IF c.pending = <<value_id>> THEN ReplaceNode(c, target_id, GetNode(c.ir, value_id))
    ELSE ReplaceBySplice(IF c.pending = <<>> THEN Return(c, EmptyBlock)
                         ELSE AddNodeBlock(c, c.pending),
                         target_id, value_id, GetNode(c.ir, value_id)))
     EXCEPT !.pending = <<>>]

(* Leaving a DiscardUnusedNodesScope that was entered with this many nodes. *)
DiscardUnused(c, size) ==
  [c EXCEPT !.pending = SubSeq(@, 1, IF Len(@) > size THEN size ELSE Len(@))]

-----------------------------------------------------------------------------
(* Initializing expressions. *)

(* FindReturnSlotForInitializer; the slot is returned, Invalid if there is none. *)
FindReturnSlotForInitializer(c, init_id) ==
  LET init == GetNode(c.ir, init_id) IN
  CASE init.kind = "InitializeFrom" -> Return(c, init.args[2])
    [] init.kind = "Call" ->
         Return(c, IF c.ir.functions[init.args[2]].return_slot_id = Invalid THEN Invalid
                   ELSE Last(c.ir.node_blocks[init.args[1]]))
    [] init.kind = "ArrayInit" -> Return(c, Last(c.ir.node_blocks[init.args[2]]))
    [] OTHER -> Return(Fatal(c, "initialization from unexpected node"), Invalid)

CheckTemporary(c, slot) ==
  Check(c, GetNode(c.ir, slot).kind = "TemporaryStorage", "initialized multiple times")

ReplaceSlot(c, target_id) ==
  IF c.ret = Invalid THEN c ELSE MergeReplacing(CheckTemporary(c, c.ret), c.ret, target_id)

MarkInitializerFor(c, init_id, target_id) ==
  ReplaceSlot(FindReturnSlotForInitializer(c, init_id), target_id)

(* The storage that was returned, initialized. *)
AddTemporary(c, init_id, init) ==
  AddNode(c, Make("Temporary", init.parse_node, init.type, <<c.ret, init_id>>))

(* The slot that was returned, or a new one, holds the value of init_id. *)
FinalizeSlot(c, init_id, init, discarded) ==
  IF c.ret = Invalid /\ discarded THEN c
  ELSE AddTemporary(IF c.ret # Invalid THEN CheckTemporary(c, c.ret)
                    ELSE AddNode(c, Make("TemporaryStorage", init.parse_node, init.type, <<>>)),
                    init_id, init)

(* The temporary is returned, or Invalid if none is needed. *)
FinalizeTemporary(c, init_id, discarded) ==
  FinalizeSlot(FindReturnSlotForInitializer(c, init_id), init_id, GetNode(c.ir, init_id), discarded)

MaterializeIfInitializing(c, id) ==
  IF GetExpressionCategory(c.ir, id) = "Initializing"
  THEN FinalizeTemporary(c, id, FALSE) ELSE Return(c, id)

-----------------------------------------------------------------------------
(* Aggregates. *)

(* The AddNode of a context or of a pending block. *)
AddNodeHere(c, node, pending) == IF pending THEN AddPending(c, node) ELSE AddNode(c, node)

(* The index of the element i (from 0): a literal for an array. *)
AddIndexLiteral(c, parse_node, i, pending) ==
  AddNodeHere(c, Make("IntegerLiteral", parse_node, c.ret, <<i>>), pending)

ElementIndex(c, kind, parse_node, i, pending) ==
  IF kind # "ArrayIndex" THEN Return(c, i)
  ELSE AddIndexLiteral(CanonicalizeType(c, BuiltinIntegerType), parse_node, i, pending)

AccessReturned(c, kind, parse_node, aggregate, type, pending) ==
  AddNodeHere(c, Make(kind, parse_node, type, <<aggregate, c.ret>>), pending)

MakeElemAccessNode(c, kind, parse_node, aggregate, type, i, pending) ==
  AccessReturned(ElementIndex(c, kind, parse_node, i, pending), kind, parse_node, aggregate, type,
                 pending)

AccessKind(type_node) ==
  CASE type_node.kind = "ArrayType"  -> "ArrayIndex"
    [] type_node.kind = "StructType" -> "StructAccess"
    [] OTHER                         -> "TupleAccess"

IsLiteral(node) == node.kind \in {"TupleLiteral", "StructLiteral"}

IsValidExpressionCategory(category, kind) ==
  CASE kind = "Value" -> category = "Value"
    [] kind \in {"ValueOrReference", "Discarded"} ->
         category \in {"Value", "DurableReference", "EphemeralReference", "Initializing"}
    [] OTHER -> category = "Initializing"

FieldNames(ir, type_node) ==
  LET fields == ir.node_blocks[type_node.args[1]]
  IN  [ i \in DOMAIN fields |-> GetNode(ir, fields[i]).args[1] ]

RECURSIVE ConvertTo(_, _, _, _)

RECURSIVE ConvertElements(_, _, _, _)

(* ConvertAggregateElement: a is the conversion of the whole aggregate.    *)
(* The location of the element in the target, pending, is returned.        *)
TargetElement(c, a, i) ==
  MakeElemAccessNode(c, a.target_access, a.parse_node, a.init_id, a.target_types[i], i - 1, TRUE)

SourceElement(c, a, i) ==
  IF a.literal_elems # <<>> THEN Return(c, a.literal_elems[i])
  ELSE MakeElemAccessNode(c, a.source_access, a.parse_node, a.source, a.source_types[i], i - 1, FALSE)

(* The source element id goes to the location that was returned, if any. *)
ConvertElement(c, a, i, id) ==
  ConvertTo(c, a.parse_node, id,
            IF a.kind = "Value" THEN Target("Value", a.target_types[i])
            ELSE [kind |-> a.kind, type |-> a.target_types[i], init_id |-> c.ret, init_block |-> TRUE])

ConvertFromSource(c, a, i) ==
  ConvertElement(IF a.kind = "Value" THEN c ELSE TargetElement(c, a, i), a, i, c.ret)

(* The unused part of the location goes. *)
EndElement(c, a, size) == IF a.kind = "Value" THEN c ELSE DiscardUnused(c, size)

ConvertAggregateElement(c, a, i) ==
  EndElement(ConvertFromSource(SourceElement(c, a, i), a, i), a, Len(c.pending))

(* The elements from i on; done holds the ones before.  The converted      *)
(* elements are returned, or <<BuiltinError>> at the first that fails.     *)
ConvertRest(c, a, i, done) ==
  IF c.ret = BuiltinError THEN Return(c, <<BuiltinError>>)
  ELSE ConvertElements(c, a, i + 1, Append(done, c.ret))

ConvertElements(c, a, i, done) ==
  CASE i > Len(a.source_types) -> Return(c, done)
    [] i <= Len(a.source_types) /\ a.source_names[i] # a.target_names[i] ->
         Return(Emit(c, "StructInitFieldNameMismatch", a.parse_node), <<BuiltinError>>)
    [] OTHER -> ConvertRest(ConvertAggregateElement(c, a, i), a, i, done)

(* The node of the converted aggregate; its block was returned. *)
AddAggregate(c, a) ==
  AddNode(c, Make(a.result, a.parse_node, a.target_type, <<a.source, c.ret>>))

(* The array is the last one of the nodes of its initializer.  Any other   *)
(* aggregate keeps the block of a literal in which no element changed.     *)
ElementBlock(c, a) ==
  CASE a.result = "ArrayInit" -> AddNodeBlock(InsertHere(c), Append(c.ret, a.init_id))
    [] a.result # "ArrayInit" /\ a.literal_block # Invalid /\ a.literal_elems = c.ret ->
         Return(c, a.literal_block)
    [] OTHER -> AddNodeBlock(c, c.ret)

FinishAggregate(c, a) ==
  IF c.ret = <<BuiltinError>> THEN Return(c, BuiltinError) ELSE AddAggregate(ElementBlock(c, a), a)

(* The elements are put in the object that was returned. *)
ConvertInto(c, a) == FinishAggregate(ConvertElements(c, a, 1, <<>>), a)

ConvertIntoReturned(c, a) == ConvertInto(c, [a EXCEPT !.init_id = c.ret])

(* An array is always built in place: in a temporary if there is no target. *)
ArrayObject(c, a) ==
  IF a.result # "ArrayInit" \/ a.init_id # Invalid THEN Return(c, a.init_id)
  ELSE AddPending(c, Make("TemporaryStorage", a.parse_node, a.target_type, <<>>))

ConvertPending(c, a) == ConvertIntoReturned(ArrayObject(c, a), a)

(* ConvertTupleToArray has a pending block of its own if the target has none. *)
LeavePending(c, pending, own_block) == IF own_block THEN [c EXCEPT !.pending = pending] ELSE c

ConvertSized(c, a, own_block) ==
  LeavePending(ConvertPending(IF own_block THEN [c EXCEPT !.pending = <<>>] ELSE c, a),
               c.pending, own_block)

CountMismatch(a) ==
  CASE a.result = "ArrayInit" /\ a.literal_elems = <<>> -> "ArrayInitFromExpressionArgCountMismatch"
    [] a.result = "ArrayInit" /\ a.literal_elems # <<>> -> "ArrayInitFromLiteralArgCountMismatch"
    [] a.target_access = "StructAccess" -> "StructInitElementCountMismatch"
    [] OTHER -> "TupleInitElementCountMismatch"

ConvertFrom(c, a, own_block) ==
  IF Len(a.source_types) # Len(a.target_types)
  THEN Return(Emit(c, CountMismatch(a), a.parse_node), BuiltinError)
  ELSE ConvertSized(c, [a EXCEPT !.source = c.ret], own_block)

(* How the elements are converted, and the node of the result. *)
InnerKind(ir, target_type, target) ==
  CASE target_type.kind = "ArrayType" -> "FullInitializer"
    [] target_type.kind # "ArrayType" /\ ~IsInitializer(target) -> "Value"
    [] OTHER -> IF GetInitializingRepresentation(ir, target.type) = "InPlace"
                THEN "FullInitializer" ELSE "Initializer"

ResultKind(target_type, target) ==
  CASE target_type.kind = "ArrayType"  -> "ArrayInit"
    [] target_type.kind = "StructType" -> IF IsInitializer(target) THEN "StructInit" ELSE "StructValue"
    [] OTHER                           -> IF IsInitializer(target) THEN "TupleInit" ELSE "TupleValue"

TargetTypes(ir, target_type) ==
  IF target_type.kind # "ArrayType" THEN ElementTypes(ir, target_type)
  ELSE [ i \in 1 .. GetArrayBoundValue(ir, target_type.args[1]) |-> target_type.args[2] ]

(* The names of the fields; the elements of a tuple have none. *)
NamesToMatch(ir, type_node, size) ==
  IF type_node.kind = "StructType" THEN FieldNames(ir, type_node) ELSE [ i \in 1 .. size |-> "" ]

Aggregate(ir, value, source_type, target_type, target) ==
  [parse_node    |-> value.parse_node,
   source        |-> Invalid,
   source_types  |-> ElementTypes(ir, source_type),
   source_access |-> AccessKind(source_type),
   source_names  |-> NamesToMatch(ir, source_type, Len(ElementTypes(ir, source_type))),
   target_type   |-> target.type,
   target_types  |-> TargetTypes(ir, target_type),
   target_access |-> AccessKind(target_type),
   target_names  |-> NamesToMatch(ir, target_type, Len(ElementTypes(ir, source_type))),
   literal_block |-> IF IsLiteral(value) THEN value.args[1] ELSE Invalid,
   literal_elems |-> IF IsLiteral(value) THEN ir.node_blocks[value.args[1]] ELSE <<>>,
   kind          |-> InnerKind(ir, target_type, target),
   result        |-> ResultKind(target_type, target),
   init_id       |-> target.init_id]

(* ConvertTupleToArray, ConvertTupleToTuple and ConvertStructToStruct: a   *)
(* literal is taken apart, any other value is made to have a location, the *)
(* sizes are compared, and the elements are converted one by one.          *)
ConvertAggregate(c, value_id, value, source_type, target_type, target) ==
  ConvertFrom(IF IsLiteral(value) THEN Return(c, value_id) ELSE MaterializeIfInitializing(c, value_id),
              Aggregate(c.ir, value, source_type, target_type, target),
              target_type.kind = "ArrayType" /\ ~target.init_block)

-----------------------------------------------------------------------------

ConvertToValueOfType(c, parse_node, id, type) == ConvertTo(c, parse_node, id, Target("Value", type))

(* The type is returned. *)
ExpressionAsType(c, parse_node, id) ==
  CanonicalizeReturned(ConvertToValueOfType(c, parse_node, id, TypeType))

AppendReturned(c, types) == Return(c, Append(types, c.ret))

CanonicalizeReturnedTuple(c, parse_node) == CanonicalizeTupleType(c, parse_node, c.ret)

ReturnTypeNode(c) == Return(c, GetTypeAllowBuiltinTypes(c.ir, c.ret))

(* A tuple literal of types is a tuple type. *)
TupleLiteralAsType(c, parse_node, value) ==
  LET Element(c1, id) == AppendReturned(ExpressionAsType(c1, parse_node, id), c1.ret)
  IN  ReturnTypeNode(CanonicalizeReturnedTuple(
        FoldLeft(Element, Return(c, <<>>), c.ir.node_blocks[value.args[1]]), parse_node))

ConvertsElementwise(from, to) ==
  <<from, to>> \in {<<"TupleType", "TupleType">>, <<"StructType", "StructType">>,
                    <<"TupleType", "ArrayType">>}

(* PerformBuiltinConversion, for a value that is not of the type and the category *)
(* already.                                                                *)
ConvertBuiltin(c, parse_node, value_id, value, value_type, target_type, target) ==
  CASE ConvertsElementwise(value_type.kind, target_type.kind) ->
         ConvertAggregate(c, value_id, value, value_type, target_type, target)
    [] target.type = TypeType /\ value.kind = "TupleLiteral" ->
         TupleLiteralAsType(c, parse_node, value)
    [] target.type = TypeType /\ value.kind = "StructLiteral" /\ value.args[1] = EmptyBlock ->
         Return(c, GetTypeAllowBuiltinTypes(c.ir, value.type))
    [] OTHER -> Return(c, value_id)

PerformBuiltinConversion(c, parse_node, value_id, value, category, target) ==
  IF value.type = target.type /\ IsValidExpressionCategory(category, target.kind)
  THEN Return(c, value_id)
  ELSE ConvertBuiltin(c, parse_node, value_id, value, TypeNode(c.ir, value.type),
                      TypeNode(c.ir, target.type), target)

(* The reference that was returned is read, unless a reference will do. *)
BindIfValue(c, expr, target) ==
  IF target.kind \in {"ValueOrReference", "Discarded"} THEN c
  ELSE AddNode(c, Make("BindValue", expr.parse_node, expr.type, <<c.ret>>))

(* The category conversions of the expression id, of the right type. *)
ConvertCategory(c, id, category, orig_id, target) ==
  CASE category \in {"NotExpression", "Mixed"} ->
         Return(Fatal(c, "unexpected expression after builtin conversions"), BuiltinError)
    [] category = "Value" -> c
    [] category = "Initializing" /\ IsInitializer(target) ->
         Return(IF orig_id = id THEN MarkInitializerFor(c, id, target.init_id) ELSE c, id)
    [] OTHER -> BindIfValue(IF category # "Initializing" THEN c
                            ELSE FinalizeTemporary(c, id, target.kind = "Discarded"),
                            GetNode(c.ir, id), target)

(* The final destination store. *)
StoreIfNeeded(c, parse_node, target) ==
  IF /\ target.kind = "FullInitializer"
     /\ GetInitializingRepresentation(c.ir, target.type) = "ByCopy"
  THEN AddNode(InsertHere(c), Make("InitializeFrom", parse_node, target.type,
                                   <<c.ret, target.init_id>>))
  ELSE c

(* Mutant: the types are not compared after the builtin conversions. *)
FinishUnchecked(c, parse_node, expr_id, target) ==
  IF c.ret = BuiltinError THEN c
  ELSE StoreIfNeeded(ConvertCategory(c, c.ret, GetExpressionCategory(c.ir, c.ret), expr_id, target),
                     parse_node, target)

(* What Convert does with the result of the builtin conversion. *)
FinishConversion(c, parse_node, expr_id, target) ==
  CASE c.ret = BuiltinError -> c
    [] c.ret # BuiltinError /\ GetNode(c.ir, c.ret).type # target.type ->
         Return(Emit(c, "ImplicitAsConversionFailure", parse_node), BuiltinError)
    [] OTHER ->
         StoreIfNeeded(ConvertCategory(c, c.ret, GetExpressionCategory(c.ir, c.ret), expr_id, target),
                       parse_node, target)

ConvertExpression(c, parse_node, expr_id, expr, category, target) ==
  CASE ErrorType \in {expr.type, target.type} -> Return(c, BuiltinError)
    [] ErrorType \notin {expr.type, target.type} /\ category = "NotExpression" ->
         Return(Emit(c, "UseOfNonExpressionAsValue", expr.parse_node), BuiltinError)
    [] OTHER ->
         FinishConversion(PerformBuiltinConversion(CheckTyped(c, target.type), parse_node, expr_id,
                                                   expr, category, target),
                          parse_node, expr_id, target)

(* Convert; the converted expression is returned. *)
ConvertTo(c, parse_node, expr_id, target) ==
  IF expr_id = BuiltinError THEN Return(c, BuiltinError)
  ELSE ConvertExpression(c, parse_node, expr_id, GetNode(c.ir, expr_id),
                         GetExpressionCategory(c.ir, expr_id), target)

-----------------------------------------------------------------------------

(* The initializer of an object that is there already. *)
InitializerTarget(c, target_id) ==
  [kind |-> "Initializer", type |-> GetNode(c.ir, target_id).type, init_id |-> target_id,
   init_block |-> TRUE]

Initialize(c, parse_node, target_id, value_id) ==
  ConvertTo([c EXCEPT !.pending = <<>>], parse_node, value_id, InitializerTarget(c, target_id))

(* ConvertToValueExpression, ConvertToValueOrReferenceExpression and the   *)
(* conversion of a discarded expression, by the kind of the target.        *)
ConvertOfKind(c, id, expr, kind) == ConvertTo(c, expr.parse_node, id, Target(kind, expr.type))

ConvertCategoryOnly(c, id, kind) == ConvertOfKind(c, id, GetNode(c.ir, id), kind)

ConvertToValueExpression(c, id) == ConvertCategoryOnly(c, id, "Value")

ConvertToReturnedType(c, parse_node, id) == ConvertToValueOfType(c, parse_node, id, c.ret)

ConvertToBoolValue(c, parse_node, id) ==
  ConvertToReturnedType(CanonicalizeType(c, BuiltinBoolType), parse_node, id)

(* Whether the argument i was converted is returned; if so, it is written  *)
(* back to the block.                                                      *)
KeepArg(c, args_id, i) ==
  IF c.ret = BuiltinError THEN Return(c, FALSE)
  ELSE [c EXCEPT !.ir.node_blocks[args_id][i] = c.ret, !.ret = TRUE]

ConvertArgs(c, parse_node, args_id, params, count) ==
  LET Arg(c1, i) ==
        IF c1.ret
        THEN KeepArg(ConvertToValueOfType(c1, parse_node, c.ir.node_blocks[args_id][i],
                                          GetNode(c1.ir, params[i]).type), args_id, i)
        ELSE c1
  IN  FoldLeft(Arg, Return(c, TRUE), [ i \in 1 .. count |-> i ])

(* ConvertCallArgs; whether the call is well formed is returned.  The      *)
(* return slot is the last of the arguments.                               *)
ConvertCallArgs(c, parse_node, args_id, params_id, has_return_slot) ==
  LET params == c.ir.node_blocks[params_id]
      count  == Len(c.ir.node_blocks[args_id]) - (IF has_return_slot THEN 1 ELSE 0)
  IN  CASE args_id = EmptyBlock /\ params_id = EmptyBlock -> Return(c, TRUE)
        [] ~(args_id = EmptyBlock /\ params_id = EmptyBlock) /\ count # Len(params) ->
             Return(Emit(c, "CallArgCountMismatch", parse_node), FALSE)
        [] OTHER -> ConvertArgs(c, parse_node, args_id, params, count)

=============================================================================
