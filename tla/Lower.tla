-------------------------------- MODULE Lower --------------------------------
(***************************************************************************)
(* LowerToLLVM: types and declarations first, then the body of each        *)
(* function, block by block and node by node.                              *)
(*                                                                         *)
(* lw is the FileContext and the FunctionContext of the function at hand.  *)
(* A basic block is whether it holds an instruction, its phi's incoming    *)
(* blocks, its successors, and how many terminators it got; a lowered      *)
(* value is a constant or computed.  What the builder folds to a constant  *)
(* leaves no instruction behind.                                           *)
(***************************************************************************)
EXTENDS Check

VARIABLE lw

EmptyBasicBlock == [empty |-> TRUE, phi |-> FALSE, incoming |-> <<>>, succs |-> <<>>, terminators |-> 0]

NotLowering ==
  [phase     |-> "waiting",              (* waiting; lowering; done        *)
   fn        |-> 0,                      (* functions whose body was begun *)
   todo      |-> <<>>,                   (* its blocks that are left       *)
   work      |-> <<>>,                   (* the nodes of the block that are left *)
   locals    |-> [ n \in {} |-> "constant" ],
   blocks    |-> [ b \in {} |-> 0 ],
   llvm      |-> <<>>,
   insert    |-> 0,                      (* the builder's block, 0 if none *)
   synthetic |-> 0,                      (* the synthetic block, 0 if none *)
   fatal     |-> ""]

LowerFatal(l, reason) == IF l.fatal = "" THEN [l EXCEPT !.fatal = reason] ELSE l

LowerCheck(l, condition, reason) == IF condition THEN l ELSE LowerFatal(l, reason)

-----------------------------------------------------------------------------
(* FileContext *)

IsLowered(type) == type = TypeType \/ type > 0

(* BuildType for the type node id; "" when it succeeds. *)
BuildTypeFailure(ir, id) ==
  LET node == GetNode(ir, id) IN
  CASE id \in {BuiltinFloatingPointType, BuiltinIntegerType, BuiltinBoolType} -> ""
    [] node.kind = "ArrayType" -> IF IsLowered(node.args[2]) THEN "" ELSE "bad type"
    [] node.kind = "ConstType" -> IF IsLowered(node.args[1]) THEN "" ELSE "bad type"
    [] node.kind = "PointerType" -> ""
    [] node.kind = "StructType" ->
         IF \A i \in DOMAIN ElementTypes(ir, node) : ElementTypes(ir, node)[i] <= Len(BuiltinKinds)
         THEN "" ELSE "struct field of a late type"
    [] node.kind = "TupleType" ->
         IF \A i \in DOMAIN ElementTypes(ir, node) : IsLowered(ElementTypes(ir, node)[i])
         THEN "" ELSE "bad type"
    [] OTHER -> "cannot use node as type"

LowerTypes(ir, l) ==
  LET Build(acc, id) == LowerCheck(acc, BuildTypeFailure(ir, id) = "", BuildTypeFailure(ir, id))
  IN  FoldLeft(Build, l, ir.types)

(* The check BuildFunctionDeclaration makes of the return slot. *)
LowerDeclarations(ir, l) ==
  LET Declare(acc, f) ==
        LowerCheck(acc,
          (f.return_slot_id # Invalid) <=>
          (f.return_type_id # Invalid /\
           GetInitializingRepresentation(ir, f.return_type_id) = "InPlace"),
          "return slot without in-place return")
  IN  FoldLeft(Declare, l, ir.functions)

ReturnsVoid(ir, f) ==
  f.return_type_id = Invalid \/ GetInitializingRepresentation(ir, f.return_type_id) # "ByCopy"

-----------------------------------------------------------------------------
(* FunctionContext *)

GetLocal(l, id) ==
  LowerCheck(l, id \in 1 .. Len(BuiltinKinds) \/ id \in DOMAIN l.locals, "missing local")

IsConstant(l, id) ==
  id \in 1 .. Len(BuiltinKinds) \/ (id \in DOMAIN l.locals /\ l.locals[id] = "constant")

SetLocal(l, id, value) ==
  LowerCheck([l EXCEPT !.locals = [ n \in DOMAIN @ \union {id} |->
                                      IF n = id THEN value ELSE @[n] ]],
             id \notin DOMAIN l.locals, "duplicate local insert")

(* The node's value is that of another one. *)
SameLocal(l, id, of) ==
  SetLocal(GetLocal(l, of), id, IF IsConstant(l, of) THEN "constant" ELSE "computed")

GetLocals(l, ids) == FoldLeft(GetLocal, l, ids)

CreateBlock(l) == [l EXCEPT !.llvm = Append(@, EmptyBasicBlock)]

(* GetBlock; the block is l.blocks[id] afterwards. *)
GetBlock(l, id) ==
  IF id \in DOMAIN l.blocks THEN l
  ELSE LET l1 == CreateBlock(l)
       IN  [l1 EXCEPT !.blocks = [ b \in DOMAIN @ \union {id} |->
                                     IF b = id THEN Len(l1.llvm) ELSE @[b] ]]

CanReuseBlock(l, id) == id \notin DOMAIN l.blocks

(* TryToReuseBlock when it succeeds. *)
ReuseBlock(l, id) ==
  [l EXCEPT !.blocks = [ b \in DOMAIN @ \union {id} |-> IF b = id THEN l.insert ELSE @[b] ],
            !.synthetic = IF @ = l.insert THEN 0 ELSE @]

Emit1(l) == IF l.insert = 0 THEN LowerFatal(l, "no insertion point")
            ELSE [l EXCEPT !.llvm[l.insert].empty = FALSE]

Terminate(l, succs) ==
  IF l.insert = 0 THEN LowerFatal(l, "no insertion point")
  ELSE [l EXCEPT !.llvm[l.insert].empty = FALSE, !.llvm[l.insert].succs = succs,
                 !.llvm[l.insert].terminators = @ + 1]

(* GetBlockArg *)
AddPhi(l, id) ==
  LET l1 == GetBlock(l, id)
  IN  [l1 EXCEPT !.llvm[l1.blocks[id]].phi = TRUE, !.llvm[l1.blocks[id]].empty = FALSE]

Predecessors(l, block) == { p \in DOMAIN l.llvm : block \in ToSet(l.llvm[p].succs) }

(* FinishInitialization with CopyValue. *)
FinishInitialization(ir, l, type, dest, source) ==
  IF GetInitializingRepresentation(ir, type) = "ByCopy"
  THEN Emit1(GetLocals(l, <<source, dest>>)) ELSE l

-----------------------------------------------------------------------------
(* The handlers. *)

Constant(l, id) == SetLocal(l, id, "constant")

Computed(l, id) == SetLocal(Emit1(l), id, "computed")

(* Handlers that do nothing, that copy a value, that emit one instruction  *)
(* for their operand, and that are not written yet.                        *)
SilentKinds == {"NameReferenceUntyped", "Namespace", "NoOp", "StructTypeField"}

ConstantKinds ==
  {"BoolLiteral", "RealLiteral", "StructLiteral", "TupleLiteral",
   "ArrayType", "ConstType", "PointerType", "StructType", "TupleType"}

CopiedOperand ==
  [AddressOf |-> 1, BindName |-> 2, Dereference |-> 1, NameReference |-> 2]

UnsupportedKinds ==
  {"Invalid", "CrossReference", "BinaryOperatorAdd", "Builtin", "FunctionDeclaration",
   "Parameter", "StringLiteral"}

(* getZExtValue asserts that the value of an integer literal fits a word.  *)
LowerSimple(l, id, node) ==
  CASE node.kind \in SilentKinds -> l
    [] node.kind \in ConstantKinds -> Constant(l, id)
    [] node.kind = "IntegerLiteral" ->
         Constant(LowerCheck(l, node.args[1] < 2 ^ WordBits, "literal wider than a word"), id)
    [] node.kind \in DOMAIN CopiedOperand -> SameLocal(l, id, node.args[CopiedOperand[node.kind]])
    [] node.kind \in {"VarStorage", "TemporaryStorage"} -> Computed(l, id)
    [] node.kind = "ArrayIndex" -> Computed(GetLocals(l, node.args), id)
    [] node.kind = "UnaryOperatorNot" ->
         IF IsConstant(l, node.args[1]) THEN SameLocal(l, id, node.args[1])
         ELSE Computed(GetLocal(l, node.args[1]), id)

SimpleKinds ==
  SilentKinds \union ConstantKinds \union DOMAIN CopiedOperand \union
  {"IntegerLiteral", "VarStorage", "TemporaryStorage", "ArrayIndex", "UnaryOperatorNot"}

HandleBranch(l, node) ==
  LET target == node.args[1]
      l1     == GetBlock(l, target)
  IN  IF l.insert # 0 /\ l.llvm[l.insert].empty /\ CanReuseBlock(l, target)
      THEN [ReuseBlock(l, target) EXCEPT !.insert = 0]
      ELSE [Terminate(l1, <<l1.blocks[target]>>) EXCEPT !.insert = 0]

HandleBranchIf(l, node) ==
  LET l1 == CreateBlock(GetBlock(GetLocal(l, node.args[2]), node.args[1]))
      l2 == Terminate(l1, <<l1.blocks[node.args[1]], Len(l1.llvm)>>)
  IN  [l2 EXCEPT !.synthetic = Len(l1.llvm), !.insert = Len(l1.llvm)]

(* Mutant: the phi's value comes from the reused block itself. *)
HandleBranchWithArgFromItself(l, node) ==
  LET target == node.args[1]
      block  == l.insert
      reuse  == /\ block # 0 /\ l.llvm[block].empty /\ block = l.synthetic
                /\ CanReuseBlock(l, target)
      l1     == GetLocal(l, node.args[2])
      l2     == GetBlock(l1, target)
      l3     == AddPhi(IF reuse THEN ReuseBlock(l1, target)
                       ELSE Terminate(l2, <<l2.blocks[target]>>), target)
  IN  [l3 EXCEPT !.llvm[l3.blocks[target]].incoming = Append(@, block), !.insert = 0]

(* A synthetic block that is still empty becomes the target, and the value *)
(* then comes from its one predecessor.                                    *)
HandleBranchWithArg(l, node) ==
  LET target == node.args[1]
      block  == l.insert
      reuse  == /\ block # 0 /\ l.llvm[block].empty /\ block = l.synthetic
                /\ CanReuseBlock(l, target)
      preds  == Predecessors(l, block)
      l1     == GetLocal(l, node.args[2])
      l2     == GetBlock(l1, target)
      l3     == AddPhi(IF reuse
                       THEN LowerCheck(ReuseBlock(l1, target), Cardinality(preds) = 1,
                                       "synthetic block without a single predecessor")
                       ELSE Terminate(l2, <<l2.blocks[target]>>), target)
  IN  [l3 EXCEPT !.llvm[l3.blocks[target]].incoming =
                    Append(@, IF reuse THEN CHOOSE p \in preds : TRUE ELSE block),
                 !.insert = 0]

HandleBlockArg(l, id, node) == SetLocal(AddPhi(l, node.args[1]), id, "computed")

(* The return slot first, then the arguments that have a representation. *)
HandleCall(ir, l, id, node) ==
  LET f     == ir.functions[node.args[2]]
      refs  == ir.node_blocks[node.args[1]]
      slot  == f.return_slot_id # Invalid
      args  == IF slot THEN Front(refs) ELSE refs
      used  == SelectSeq(args, LAMBDA a : GetInitializingRepresentation(ir, GetNode(ir, a).type) # "None")
      l1    == Emit1(GetLocals(l, (IF slot THEN <<Last(refs)>> ELSE <<>>) \o used))
  IN  SetLocal(l1, id, IF ReturnsVoid(ir, f) THEN "constant" ELSE "computed")

HandleReturn(l) == Terminate(l, <<>>)

HandleReturnExpression(ir, l, node) ==
  Terminate(IF GetInitializingRepresentation(ir, GetNode(ir, node.args[1]).type) = "ByCopy"
            THEN GetLocal(l, node.args[1]) ELSE l, <<>>)

(* GetStructOrTupleElement *)
HandleAccess(ir, l, id, node) ==
  LET aggr == node.args[1]
      copy == /\ GetExpressionCategory(ir, aggr) = "Value"
              /\ GetInitializingRepresentation(ir, GetNode(ir, aggr).type) = "ByCopy"
  IN  IF copy /\ IsConstant(l, aggr) THEN SameLocal(l, id, aggr)
      ELSE Computed(GetLocal(l, aggr), id)

(* EmitStructOrTupleValueRepresentation *)
AggregateValue(ir, l, id, node) ==
  LET rep  == GetInitializingRepresentation(ir, node.type)
      refs == ir.node_blocks[node.args[2]]
      l1   == LowerCheck(GetLocals(l, refs), rep # "ByCopy" \/ Len(refs) = 1,
                         "unexpected size of a by-copy aggregate")
  IN  CASE rep = "None" -> Constant(l, id)
        [] rep = "ByCopy" -> IF refs # <<>> /\ IsConstant(l, refs[1]) THEN Constant(l1, id)
                             ELSE Computed(l1, id)
        [] OTHER -> Computed(l1, id)

HandleAggregate(ir, l, id, node) ==
  IF /\ node.kind \in {"StructInit", "TupleInit"}
     /\ GetInitializingRepresentation(ir, node.type) # "ByCopy"
  THEN Constant(l, id) ELSE AggregateValue(ir, l, id, node)

HandleInitialization(ir, l, id, node) ==
  LET Type(n) == GetNode(ir, n).type IN
  CASE node.kind = "Assign" ->
         FinishInitialization(ir, l, Type(node.args[1]), node.args[1], node.args[2])
    [] node.kind = "InitializeFrom" ->
         FinishInitialization(ir, l, Type(node.args[2]), node.args[2], node.args[1])
    [] node.kind = "ArrayInit" -> SameLocal(l, id, Last(ir.node_blocks[node.args[2]]))
    [] node.kind = "Temporary" ->
         SameLocal(FinishInitialization(ir, l, node.type, node.args[1], node.args[2]), id,
                   node.args[1])

HandleValueCategory(ir, l, id, node) ==
  LET rep == GetInitializingRepresentation(ir, node.type) IN
  CASE node.kind = "BindValue" /\ rep = "None" -> Constant(l, id)
    [] node.kind = "BindValue" /\ rep = "ByCopy" -> Computed(GetLocal(l, node.args[1]), id)
    [] node.kind = "ValueAsReference" /\ ~(/\ rep = "InPlace"
                                           /\ GetExpressionCategory(ir, node.args[1]) = "Value") ->
         LowerFatal(l, "not a value held by pointer")
    [] OTHER -> SameLocal(l, id, node.args[1])

-----------------------------------------------------------------------------
(* The steps of FileContext::Run, BuildFunctionDefinition and LowerBlock. *)

Lowered(l) ==
  \E r \in {l} : lw' = IF r.fatal = "" THEN r ELSE [lw EXCEPT !.fatal = r.fatal, !.phase = "aborted"]

(* The next node of the block is of one of these kinds. *)
Lowering(kinds) ==
  /\ lw.phase = "lowering"
  /\ lw.work # <<>>
  /\ Head(lw.work) > 0
  /\ GetNode(cx.ir, Head(lw.work)).kind \in kinds

Here == Head(lw.work)

HereNode == GetNode(cx.ir, Head(lw.work))

(* lw after the node was taken. *)
Taken == [lw EXCEPT !.work = Tail(@)]

StartLowering ==
  /\ lw.phase = "waiting"
  /\ Lowered(LowerDeclarations(cx.ir, LowerTypes(cx.ir, [lw EXCEPT !.phase = "lowering"])))

(* The parameters and the return slot are the first locals. *)
BuildFunctionDefinition ==
  /\ lw.phase = "lowering" /\ lw.work = <<>> /\ lw.todo = <<>>
  /\ lw.fn < Len(cx.ir.functions)
  /\ LET f      == cx.ir.functions[lw.fn + 1]
         params == cx.ir.node_blocks[f.param_refs_id]
         AddParam(l, p) ==
           SetLocal(l, p, IF GetInitializingRepresentation(cx.ir, GetNode(cx.ir, p).type) = "None"
                          THEN "constant" ELSE "computed")
         l1     == [NotLowering EXCEPT !.phase = "lowering", !.fn = lw.fn + 1,
                                       !.todo = f.body_block_ids]
         l2     == IF f.return_slot_id = Invalid THEN l1
                   ELSE SetLocal(l1, f.return_slot_id, "computed")
     IN  Lowered(IF f.body_block_ids = <<>> THEN l1 ELSE FoldLeft(AddParam, l2, params))

StartBlock ==
  /\ lw.phase = "lowering" /\ lw.work = <<>> /\ lw.todo # <<>>
  /\ LET id == Head(lw.todo)
         l1 == GetBlock(lw, id)
     IN  Lowered([l1 EXCEPT !.insert = l1.blocks[id], !.todo = Tail(@),
                            !.work = cx.ir.node_blocks[id]])

FinishLowering ==
  /\ lw.phase = "lowering" /\ lw.work = <<>> /\ lw.todo = <<>>
  /\ lw.fn = Len(cx.ir.functions)
  /\ lw' = [lw EXCEPT !.phase = "done"]

LowerSimpleNode == Lowering(SimpleKinds) /\ Lowered(LowerSimple(Taken, Here, HereNode))

LowerBranch ==
  /\ Lowering({"Branch", "BranchIf", "BranchWithArg"})
  /\ Lowered(CASE HereNode.kind = "Branch" -> HandleBranch(Taken, HereNode)
               [] HereNode.kind = "BranchIf" -> HandleBranchIf(Taken, HereNode)
               [] OTHER -> HandleBranchWithArg(Taken, HereNode))

LowerBlockArg == Lowering({"BlockArg"}) /\ Lowered(HandleBlockArg(Taken, Here, HereNode))

LowerCall == Lowering({"Call"}) /\ Lowered(HandleCall(cx.ir, Taken, Here, HereNode))

LowerReturn ==
  /\ Lowering({"Return", "ReturnExpression"})
  /\ Lowered(IF HereNode.kind = "Return" THEN HandleReturn(Taken)
             ELSE HandleReturnExpression(cx.ir, Taken, HereNode))

LowerAccess ==
  /\ Lowering({"StructAccess", "TupleAccess", "TupleIndex"})
  /\ Lowered(HandleAccess(cx.ir, Taken, Here, HereNode))

LowerAggregate ==
  /\ Lowering({"StructInit", "StructValue", "TupleInit", "TupleValue"})
  /\ Lowered(HandleAggregate(cx.ir, Taken, Here, HereNode))

LowerInitialization ==
  /\ Lowering({"Assign", "InitializeFrom", "ArrayInit", "Temporary"})
  /\ Lowered(HandleInitialization(cx.ir, Taken, Here, HereNode))

LowerCategory ==
  /\ Lowering({"BindValue", "ValueAsReference"})
  /\ Lowered(HandleValueCategory(cx.ir, Taken, Here, HereNode))

(* The spliced nodes come next; a negative entry ends the splice. *)
LowerSpliceBlock ==
  /\ Lowering({"SpliceBlock"})
  /\ Lowered([lw EXCEPT !.work = cx.ir.node_blocks[HereNode.args[1]] \o <<-Here>> \o Tail(@)])

EndSpliceBlock ==
  /\ lw.phase = "lowering" /\ lw.work # <<>> /\ Here < 0
  /\ Lowered(SameLocal(Taken, -Here, GetNode(cx.ir, -Here).args[2]))

LowerUnsupported == Lowering(UnsupportedKinds) /\ Lowered(LowerFatal(lw, "not lowered yet"))

LowerNext ==
  \/ StartLowering
  \/ BuildFunctionDefinition
  \/ StartBlock
  \/ FinishLowering
  \/ LowerSimpleNode
  \/ LowerBranch
  \/ LowerBlockArg
  \/ LowerCall
  \/ LowerReturn
  \/ LowerAccess
  \/ LowerAggregate
  \/ LowerInitialization
  \/ LowerCategory
  \/ LowerSpliceBlock
  \/ EndSpliceBlock
  \/ LowerUnsupported

=============================================================================
