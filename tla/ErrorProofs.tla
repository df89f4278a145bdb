----------------------------- MODULE ErrorProofs -----------------------------
(***************************************************************************)
(* No error is lost, operators apart, for every token buffer.  A handler   *)
(* that diagnoses something either adds an erroneous node at once or marks *)
(* a state, its own or the one below, as erroneous.  The argument: such a  *)
(* state always lies directly on one whose handler turns the mark into an  *)
(* erroneous node, or passes it to another such state.                     *)
(***************************************************************************)
EXTENDS ParserProofs

(* The states whose handlers never drop a mark. *)
Carriers ==
  {"FunctionAfterParameters", "FunctionSignatureFinish", "FunctionDefinitionFinish",
   "TypeAfterParamsAsClass", "TypeAfterParamsAsInterface",
   "TypeAfterParamsAsNamedConstraint", "NamespaceFinish",
   "ParameterListFinishAsDeduced", "ParameterListFinishAsRegular", "LetFinish",
   "StatementForHeaderIn", "StatementForHeaderFinish", "StatementScopeLoop",
   "CodeBlockFinish", "CallExpressionFinish", "ParenExpressionFinishAsNormal",
   "ParenExpressionFinishAsTuple", "BraceExpressionFinishAsType",
   "BraceExpressionFinishAsValue", "BraceExpressionFinishAsUnknown",
   "BraceExpressionParameterFinishAsType", "BraceExpressionParameterFinishAsValue",
   "BraceExpressionParameterFinishAsUnknown"}

(* The states whose handlers mark the state below for what they diagnose. *)
Passing ==
  {"DeclarationNameAndParamsAsNone", "DeclarationNameAndParamsAsOptional",
   "DeclarationNameAndParamsAsRequired", "DeclarationNameAndParamsAfterNameAsNone",
   "DeclarationNameAndParamsAfterNameAsOptional",
   "DeclarationNameAndParamsAfterNameAsRequired",
   "DeclarationNameAndParamsAfterDeduced", "ParameterAsDeduced", "ParameterAsRegular",
   "ParameterFinishAsDeduced", "ParameterFinishAsRegular", "LetAfterPattern",
   "StatementScopeLoop", "Statement", "ExpressionStatementFinish",
   "CallExpressionParameterFinish", "ParenExpressionParameterFinishAsUnknown",
   "ParenExpressionParameterFinishAsTuple", "BraceExpressionParameterAsType",
   "BraceExpressionParameterAsValue", "BraceExpressionParameterAsUnknown",
   "BraceExpressionParameterAfterDesignatorAsType",
   "BraceExpressionParameterAfterDesignatorAsValue",
   "BraceExpressionParameterAfterDesignatorAsUnknown",
   "BraceExpressionParameterFinishAsType", "BraceExpressionParameterFinishAsValue",
   "BraceExpressionParameterFinishAsUnknown"}

(* An entry that holds an error for its handler to act upon. *)
Bears(e) == e.has_error /\ e.state \in Carriers

Carried(b) == \E i \in 1 .. Len(b) : Bears(b[i])

(* Every state that marks the one below lies on a carrier. *)
Resting(b) ==
  \A i \in 1 .. Len(b) : b[i].state \in Passing => i > 1 /\ b[i - 1].state \in Carriers

Placed(b) == IsSeq(b) /\ (\A i \in 1 .. Len(b) : IsEntry(b[i])) /\ Resting(b)

(* Only the precedence or the white space of operators was diagnosed. *)
Excused(ds) == \A t \in ds : Kind(t) \in TrailingOperators \union DOMAIN ForLeading

(***************************************************************************)
(* The inductive invariant: a diagnostic about anything else has left a    *)
(* mark in the tree or in a state that will put it there.                  *)
(***************************************************************************)
Kept ==
  /\ Placed(state_stack)
  /\ has_errors \/ Carried(state_stack) \/ Excused(diagnosed)
  /\ status = "done" => state_stack = <<>>

(***************************************************************************)
(* Kept, followed through a handler.  Marked: the handler has added an     *)
(* erroneous node.  Safe: with the stack b, the tree ns and the            *)
(* diagnostics ds nothing is lost: an error is in the new nodes or on the  *)
(* stack, unless none was on the stack before and ds needs none.           *)
(***************************************************************************)
Marked(ns) == \E i \in (Len(nodes) + 1) .. Len(ns) : ns[i].has_error

Grown(ns) == IsSeq(ns) /\ IsSeq(nodes) /\ Len(ns) >= Len(nodes)

Safe(b, ns, ds) ==
  /\ Placed(b) /\ Grown(ns)
  /\ Marked(ns) \/ Carried(b) \/ (Excused(ds) /\ ~Carried(state_stack))

(* The last state of b takes over the errors of the one above it. *)
Based(b) == b # <<>> /\ b[Len(b)].state \in Carriers

(* Entry e may be pushed on b, and entry f directly on e. *)
Sits(e, b) == IsEntry(e) /\ (e.state \in Passing => Based(b))

SitsOn(f, e) == IsEntry(f) /\ (f.state \in Passing => e.state \in Carriers)

-----------------------------------------------------------------------------
(* Nodes. *)

(* A node is added: the tree grows, keeps the errors it has and gets the   *)
(* error of the node.                                                      *)
LEMMA MarkedGrows ==
  ASSUME NEW ns, NEW n, Grown(ns)
  PROVE  /\ Grown(Append(ns, n))
         /\ Marked(ns) => Marked(Append(ns, n))
         /\ n.has_error => Marked(Append(ns, n))
<1>1. /\ IsSeq(Append(ns, n)) /\ Len(Append(ns, n)) = Len(ns) + 1
      /\ \A i \in 1 .. Len(ns) : Append(ns, n)[i] = ns[i]
      /\ Append(ns, n)[Len(ns) + 1] = n
  BY SeqAppend DEF Grown
<1>2. Len(ns) \in Nat /\ Len(nodes) \in Nat /\ Len(ns) >= Len(nodes) BY SeqLen DEF Grown
<1>3. Grown(Append(ns, n)) BY <1>1, <1>2 DEF Grown
<1>4. ASSUME Marked(ns) PROVE Marked(Append(ns, n))
  <2>1. PICK i \in (Len(nodes) + 1) .. Len(ns) : ns[i].has_error BY <1>4 DEF Marked
  <2>2. /\ i \in 1 .. Len(ns)
        /\ i \in (Len(nodes) + 1) .. Len(Append(ns, n))
    BY <1>1, <1>2, <2>1
  <2> QED BY <1>1, <2>1, <2>2 DEF Marked
<1>5. ASSUME n.has_error PROVE Marked(Append(ns, n))
  <2>1. Len(ns) + 1 \in (Len(nodes) + 1) .. Len(Append(ns, n)) BY <1>1, <1>2
  <2> QED BY <1>1, <1>5, <2>1 DEF Marked
<1> QED BY <1>3, <1>4, <1>5

(* The same for the nodes the handlers add. *)
LEMMA NodeMarks ==
  ASSUME NEW ns, Grown(ns), NEW kind, NEW token, NEW start, NEW h
  PROVE  /\ Grown(AddLeafNode(ns, kind, token, h))
         /\ Grown(AddNode(ns, kind, token, start, h))
         /\ Marked(ns) => /\ Marked(AddLeafNode(ns, kind, token, h))
                          /\ Marked(AddNode(ns, kind, token, start, h))
         /\ h => /\ Marked(AddLeafNode(ns, kind, token, h))
                 /\ Marked(AddNode(ns, kind, token, start, h))
<1> DEFINE leaf == [kind |-> kind, has_error |-> h, token |-> token, subtree_size |-> 1]
           node == [kind |-> kind, has_error |-> h, token |-> token,
                    subtree_size |-> Len(ns) - start + 1]
<1>1. leaf.has_error = h /\ node.has_error = h OBVIOUS
<1>2. /\ AddLeafNode(ns, kind, token, h) = Append(ns, leaf)
      /\ AddNode(ns, kind, token, start, h) = Append(ns, node)
  BY DEF AddLeafNode, AddNode
<1> HIDE DEF leaf, node
<1> QED BY <1>1, <1>2, MarkedGrows

(* Nothing is lost when a node is added. *)
LEMMA SafeNode ==
  ASSUME NEW b, NEW ns, NEW ds, NEW kind, NEW token, NEW start, NEW h, Safe(b, ns, ds)
  PROVE  /\ Safe(b, AddLeafNode(ns, kind, token, h), ds)
         /\ Safe(b, AddNode(ns, kind, token, start, h), ds)
BY NodeMarks DEF Safe

(* An erroneous node makes every diagnostic good. *)
LEMMA SafeError ==
  ASSUME NEW b, NEW ns, NEW ds, NEW kind, NEW token, NEW start, NEW h, h,
         Placed(b), Grown(ns)
  PROVE  /\ Safe(b, AddLeafNode(ns, kind, token, h), ds)
         /\ Safe(b, AddNode(ns, kind, token, start, h), ds)
BY NodeMarks DEF Safe

-----------------------------------------------------------------------------
(* The stack. *)

(* An entry is pushed. *)
LEMMA PlacedPush ==
  ASSUME NEW b, NEW e, Placed(b), Sits(e, b)
  PROVE  /\ Placed(Append(b, e))
         /\ Carried(b) \/ Bears(e) => Carried(Append(b, e))
         /\ Append(b, e) # <<>> /\ Append(b, e)[Len(Append(b, e))] = e
<1> DEFINE p == Append(b, e)
<1>1. /\ IsSeq(p) /\ Len(p) = Len(b) + 1
      /\ \A i \in 1 .. Len(b) : p[i] = b[i]
      /\ p[Len(b) + 1] = e
  BY SeqAppend DEF Placed
<1>2. Len(b) \in Nat BY SeqLen DEF Placed
<1> HIDE DEF p
<1>3. \A i \in 1 .. Len(p) : i \in 1 .. Len(b) \/ i = Len(b) + 1 BY <1>1, <1>2
<1>4. \A i \in 1 .. Len(p) : IsEntry(p[i]) BY <1>1, <1>3 DEF Placed, Sits
<1>5. Resting(p)
  <2> SUFFICES ASSUME NEW i \in 1 .. Len(p), p[i].state \in Passing
               PROVE  i > 1 /\ p[i - 1].state \in Carriers
    BY DEF Resting
  <2>1. CASE i \in 1 .. Len(b)
    <3>1. i > 1 /\ b[i - 1].state \in Carriers BY <1>1, <2>1 DEF Placed, Resting
    <3>2. i - 1 \in 1 .. Len(b) BY <1>2, <2>1, <3>1
    <3> QED BY <1>1, <3>1, <3>2
  <2>2. CASE i = Len(b) + 1
    <3>1. Based(b) BY <1>1, <2>2 DEF Sits
    <3>2. Len(b) >= 1
      <4>1. Len(b) # 0 BY <3>1, EmptySeq DEF Based, Placed, IsSeq
      <4> QED BY <1>2, <4>1
    <3>3. Len(b) \in 1 .. Len(b) /\ i - 1 = Len(b) /\ i > 1 BY <1>2, <2>2, <3>2
    <3> QED BY <1>1, <3>1, <3>3 DEF Based
  <2> QED BY <1>3, <2>1, <2>2
<1>6. ASSUME Carried(b) PROVE Carried(p)
  <2>1. PICK i \in 1 .. Len(b) : Bears(b[i]) BY <1>6 DEF Carried
  <2>2. i \in 1 .. Len(p) BY <1>1, <1>2
  <2> QED BY <1>1, <2>1, <2>2 DEF Carried
<1>7. ASSUME Bears(e) PROVE Carried(p)
  <2>1. Len(b) + 1 \in 1 .. Len(p) BY <1>1, <1>2
  <2> QED BY <1>1, <1>7, <2>1 DEF Carried
<1>8. p # <<>> BY <1>1, <1>2
<1> QED BY <1>1, <1>4, <1>5, <1>6, <1>7, <1>8 DEF Placed, p

(* The top entry is popped. *)
LEMMA PlacedPop ==
  ASSUME NEW b, Placed(b), b # <<>>
  PROVE  LET p == SubSeq(b, 1, Len(b) - 1)
             e == b[Len(b)]
         IN  /\ IsEntry(e) /\ Placed(p)
             /\ e.state \in Passing => Based(p)
             /\ Carried(b) => Carried(p) \/ Bears(e)
<1> DEFINE p == SubSeq(b, 1, Len(b) - 1)
           e == b[Len(b)]
<1>1. /\ Len(b) >= 1 /\ IsSeq(p) /\ Len(p) = Len(b) - 1
      /\ \A i \in 1 .. Len(p) : p[i] = b[i]
  BY SeqPop DEF Placed
<1>2. Len(b) \in Nat /\ Len(b) \in 1 .. Len(b) BY <1>1, SeqLen DEF Placed
<1> HIDE DEF p
<1>3. \A i \in 1 .. Len(p) : i \in 1 .. Len(b) BY <1>1, <1>2
<1>4. \A i \in 1 .. Len(p) : IsEntry(p[i]) BY <1>1, <1>3 DEF Placed
<1>5. Resting(p)
  <2> SUFFICES ASSUME NEW i \in 1 .. Len(p), p[i].state \in Passing
               PROVE  i > 1 /\ p[i - 1].state \in Carriers
    BY DEF Resting
  <2>1. i > 1 /\ b[i - 1].state \in Carriers BY <1>1, <1>3 DEF Placed, Resting
  <2>2. i - 1 \in 1 .. Len(p) BY <1>1, <1>2, <2>1
  <2> QED BY <1>1, <2>1, <2>2
<1>6. ASSUME e.state \in Passing PROVE Based(p)
  <2>1. Len(b) > 1 /\ b[Len(b) - 1].state \in Carriers
    BY <1>2, <1>6 DEF Placed, Resting
  <2>2. Len(p) \in 1 .. Len(p) /\ p[Len(p)] = b[Len(b) - 1] BY <1>1, <1>2, <2>1
  <2>3. p # <<>> BY <2>2
  <2> QED BY <2>1, <2>2, <2>3 DEF Based
<1>7. ASSUME Carried(b), ~Bears(e) PROVE Carried(p)
  <2>1. PICK i \in 1 .. Len(b) : Bears(b[i]) BY <1>7 DEF Carried
  <2>2. i # Len(b) BY <1>7, <2>1
  <2>3. i \in 1 .. Len(p) BY <1>1, <1>2, <2>2
  <2> QED BY <1>1, <2>1, <2>3 DEF Carried
<1>8. IsEntry(e) BY <1>2 DEF Placed
<1> QED BY <1>1, <1>4, <1>5, <1>6, <1>7, <1>8 DEF Placed, p, e

(* The last entry is replaced by one with as much of an error, whose state *)
(* is the same or as good a carrier.                                       *)
LEMMA PlacedReplace ==
  ASSUME NEW b, NEW e, Placed(b),
         b # <<>> => /\ IsEntry(e)
                     /\ b[Len(b)].has_error => e.has_error
                     /\ \/ e.state = b[Len(b)].state
                        \/ e.state \in Carriers \ Passing
  PROVE  LET p == [b EXCEPT ![Len(b)] = e]
         IN  /\ Placed(p)
             /\ Carried(b) => Carried(p)
             /\ Based(b) => Based(p)
             /\ b # <<>> => p # <<>> /\ p[Len(p)] = e
             /\ b # <<>> /\ Bears(e) => Carried(p)
<1> DEFINE p == [b EXCEPT ![Len(b)] = e]
<1>1. /\ IsSeq(p) /\ Len(p) = Len(b)
      /\ \A j \in 1 .. Len(b) : p[j] = IF j = Len(b) THEN e ELSE b[j]
  BY SeqReplaceLast DEF Placed
<1>2. Len(b) \in Nat BY SeqLen DEF Placed
<1> HIDE DEF p
<1>3. ASSUME Len(b) = 0 PROVE b = <<>>
  BY <1>3, EmptySeq DEF Placed, IsSeq
<1>4. CASE Len(b) = 0
  <2>1. b = <<>> /\ ~Based(b) BY <1>3, <1>4 DEF Based
  <2>2. \A i : i \notin 1 .. Len(b) BY <1>4
  <2> QED BY <1>1, <2>1, <2>2 DEF Placed, Resting, Carried, p
<1>5. CASE Len(b) # 0
  <2>1. Len(b) \in 1 .. Len(b) /\ p # <<>> /\ b # <<>> BY <1>1, <1>2, <1>5
  <2>2. /\ IsEntry(e) /\ p[Len(b)] = e
        /\ b[Len(b)].has_error => e.has_error
        /\ e.state = b[Len(b)].state \/ e.state \in Carriers \ Passing
    BY <1>1, <2>1
  <2>3. \A i \in 1 .. Len(p) : IsEntry(p[i]) BY <1>1, <2>2 DEF Placed
  <2>4. \A i \in 1 .. Len(b) : b[i].state \in Carriers => p[i].state \in Carriers
    BY <1>1, <2>2
  <2>5. \A i \in 1 .. Len(b) : p[i].state \in Passing => b[i].state \in Passing
    BY <1>1, <2>2
  <2>6. Resting(p)
    <3> SUFFICES ASSUME NEW i \in 1 .. Len(p), p[i].state \in Passing
                 PROVE  i > 1 /\ p[i - 1].state \in Carriers
      BY DEF Resting
    <3>1. i > 1 /\ b[i - 1].state \in Carriers BY <1>1, <2>5 DEF Placed, Resting
    <3>2. i - 1 \in 1 .. Len(b) BY <1>1, <1>2, <3>1
    <3> QED BY <2>4, <3>1, <3>2
  <2>7. \A i \in 1 .. Len(b) : Bears(b[i]) => Bears(p[i])
    BY <1>1, <2>2 DEF Bears
  <2>8. Carried(b) => Carried(p) BY <1>1, <2>7 DEF Carried
  <2>9. Bears(e) => Carried(p) BY <1>1, <2>1, <2>2 DEF Carried
  <2>10. Based(b) => Based(p) BY <1>1, <2>1, <2>4 DEF Based
  <2> QED BY <1>1, <2>1, <2>2, <2>3, <2>6, <2>8, <2>9, <2>10 DEF Placed, p
<1> QED BY <1>4, <1>5

(* One entry is pushed. *)
LEMMA SafePush ==
  ASSUME NEW b, NEW ns, NEW ds, NEW e, Safe(b, ns, ds), Sits(e, b)
  PROVE  Safe(Append(b, e), ns, ds)
BY PlacedPush DEF Safe

(* More entries are pushed over one. *)
LEMMA SafeOver ==
  ASSUME NEW b, NEW ns, NEW ds, NEW e, NEW f, NEW g, IsSeq(b), Safe(Append(b, e), ns, ds)
  PROVE  /\ Safe(b \o <<e>>, ns, ds)
         /\ SitsOn(f, e) => Safe(b \o <<e, f>>, ns, ds)
         /\ SitsOn(f, e) /\ SitsOn(g, f) => Safe(b \o <<e, f, g>>, ns, ds)
<1> DEFINE p == Append(b, e)
           q == Append(p, f)
           r == Append(q, g)
<1>1. b \o <<e>> = p /\ b \o <<e, f>> = q /\ b \o <<e, f, g>> = r
  BY ConcatOne, ConcatTwo, ConcatThree
<1>2. p # <<>> /\ p[Len(p)] = e
  <2>1. Len(p) = Len(b) + 1 /\ p[Len(b) + 1] = e /\ Len(b) \in Nat BY SeqAppend, SeqLen
  <2> QED BY <2>1
<1> HIDE DEF p
<1>3. Safe(p, ns, ds) BY DEF p
<1>4. SitsOn(f, e) => Sits(f, p) BY <1>2 DEF SitsOn, Sits, Based
<1>5. SitsOn(f, e) => Safe(q, ns, ds) /\ q # <<>> /\ q[Len(q)] = f
  BY <1>3, <1>4, SafePush, PlacedPush DEF Safe
<1> HIDE DEF q
<1>6. SitsOn(f, e) /\ SitsOn(g, f) => Sits(g, q) BY <1>5 DEF SitsOn, Sits, Based
<1>7. SitsOn(f, e) /\ SitsOn(g, f) => Safe(r, ns, ds) BY <1>5, <1>6, SafePush
<1> QED BY <1>1, <1>3, <1>5, <1>7

(* Entries are pushed at once. *)
LEMMA SafePushMore ==
  ASSUME NEW b, NEW ns, NEW ds, NEW e, NEW f, NEW g, Safe(b, ns, ds), Sits(e, b)
  PROVE  /\ Safe(b \o <<e>>, ns, ds)
         /\ SitsOn(f, e) => Safe(b \o <<e, f>>, ns, ds)
         /\ SitsOn(f, e) /\ SitsOn(g, f) => Safe(b \o <<e, f, g>>, ns, ds)
<1>1. Safe(Append(b, e), ns, ds) /\ IsSeq(b) BY SafePush DEF Safe, Placed
<1> QED BY <1>1, SafeOver

(* An entry that bears an error makes every diagnostic good. *)
LEMMA SafeBearer ==
  ASSUME NEW b, NEW ns, NEW ds, NEW e, Placed(b), Grown(ns), Sits(e, b), Bears(e)
  PROVE  Safe(Append(b, e), ns, ds)
BY PlacedPush DEF Safe

(* The last entry is marked: nothing is lost, and an error that the state  *)
(* takes over is on the stack.                                             *)
LEMMA PlacedMark ==
  ASSUME NEW b, Placed(b)
  PROVE  /\ Placed(ReturnErrorOnState(b))
         /\ Carried(b) => Carried(ReturnErrorOnState(b))
         /\ Based(b) => Based(ReturnErrorOnState(b)) /\ Carried(ReturnErrorOnState(b))
<1> DEFINE x == TRUE
           e == [b[Len(b)] EXCEPT !.has_error = x]
<1>1. x OBVIOUS
<1>2. ReturnErrorOnState(b) = [b EXCEPT ![Len(b)] = e] BY DEF ReturnErrorOnState
<1> HIDE DEF x
<1>3. ASSUME b # <<>>
      PROVE  IsEntry(e) /\ e.state = b[Len(b)].state /\ e.has_error
  <2>1. IsEntry(b[Len(b)]) BY <1>3, PlacedPop
  <2>2. IsEntry(e) /\ e.state = b[Len(b)].state BY <2>1, EntryUpdate, Zenon
  <2>3. e.has_error = x BY <2>1, EntryMarks, Zenon
  <2> QED BY <1>1, <2>2, <2>3
<1> HIDE DEF e
<1>4. b # <<>> => (b[Len(b)].has_error => e.has_error) BY <1>3
<1>5. Based(b) => b # <<>> /\ Bears(e) BY <1>3 DEF Based, Bears
<1>6. b # <<>> => /\ IsEntry(e)
                  /\ b[Len(b)].has_error => e.has_error
                  /\ e.state = b[Len(b)].state \/ e.state \in Carriers \ Passing
  BY <1>3, <1>4
<1> DEFINE p == [b EXCEPT ![Len(b)] = e]
<1>7. /\ Placed(p)
      /\ Carried(b) => Carried(p)
      /\ Based(b) => Based(p)
      /\ b # <<>> /\ Bears(e) => Carried(p)
  BY <1>6, PlacedReplace
<1> HIDE DEF p
<1>8. ReturnErrorOnState(b) = p BY <1>2 DEF p
<1> QED BY <1>5, <1>7, <1>8

(* The same when a handler may still add nodes. *)
LEMMA SafeMark ==
  ASSUME NEW b, NEW ns, NEW ds
  PROVE  /\ Safe(b, ns, ds) => Safe(ReturnErrorOnState(b), ns, ds)
         /\ \A c : Safe(b, ns, ds) => Safe(ReturnErrorIf(c, b), ns, ds)
         /\ Placed(b) /\ Grown(ns) /\ Based(b) => Safe(ReturnErrorOnState(b), ns, ds)
         /\ \A c : Placed(b) /\ Based(b) => Based(ReturnErrorIf(c, b))
BY PlacedMark DEF Safe, ReturnErrorIf

-----------------------------------------------------------------------------
(* Entries. *)

(* The entries that handlers push. *)
LEMMA Fresh ==
  ASSUME NEW s, NEW ambient, NEW lhs, NEW token, NEW n, NEW ns
  PROVE  /\ IsEntry(StateStackEntry(s, ambient, lhs, token, n))
         /\ StateStackEntry(s, ambient, lhs, token, n).state = s
         /\ IsEntry(Entry(s, token, ns)) /\ Entry(s, token, ns).state = s
         /\ IsEntry(Here(s)) /\ Here(s).state = s
         /\ IsEntry(ExpressionEntry(ambient, token, ns))
         /\ ExpressionEntry(ambient, token, ns).state = "Expression"
BY EntryRecord DEF StateStackEntry, Entry, Here, ExpressionEntry

(* The popped entry pushed back as another state. *)
LEMMA Returned ==
  ASSUME IsEntry(Top), NEW s
  PROVE  /\ IsEntry(TopAs(s)) /\ TopAs(s).state = s
         /\ TopAs(s).has_error = Top.has_error
BY EntryUpdate, EntryMarks DEF TopAs

(* Another field of an entry is updated. *)
LEMMA Updated ==
  ASSUME NEW e, NEW x, IsEntry(e)
  PROVE  /\ IsEntry([e EXCEPT !.token = x]) /\ [e EXCEPT !.token = x].state = e.state
         /\ [e EXCEPT !.token = x].has_error = e.has_error
         /\ IsEntry([e EXCEPT !.has_error = x]) /\ [e EXCEPT !.has_error = x].state = e.state
         /\ [e EXCEPT !.has_error = x].has_error = x
         /\ IsEntry([e EXCEPT !.lhs_precedence = x])
         /\ [e EXCEPT !.lhs_precedence = x].state = e.state
         /\ [e EXCEPT !.lhs_precedence = x].has_error = e.has_error
BY EntryUpdate, EntryMarks

(* The popped entry pushed back with another token or mark. *)
LEMMA TopSet ==
  ASSUME IsEntry(Top), NEW s, NEW x
  PROVE  /\ IsEntry([TopAs(s) EXCEPT !.token = x])
         /\ [TopAs(s) EXCEPT !.token = x].state = s
         /\ [TopAs(s) EXCEPT !.token = x].has_error = Top.has_error
         /\ IsEntry([TopAs(s) EXCEPT !.has_error = x])
         /\ [TopAs(s) EXCEPT !.has_error = x].state = s
         /\ [TopAs(s) EXCEPT !.has_error = x].has_error = x
<1> DEFINE e == TopAs(s)
<1>1. IsEntry(e) /\ e.state = s /\ e.has_error = Top.has_error BY Returned
<1> HIDE DEF e
<1>2. /\ IsEntry([e EXCEPT !.token = x]) /\ [e EXCEPT !.token = x].state = e.state
      /\ [e EXCEPT !.token = x].has_error = e.has_error
      /\ IsEntry([e EXCEPT !.has_error = x]) /\ [e EXCEPT !.has_error = x].state = e.state
      /\ [e EXCEPT !.has_error = x].has_error = x
  BY <1>1, Updated
<1> QED BY <1>1, <1>2, Zenon DEF e

-----------------------------------------------------------------------------
(* Handlers. *)

(* What a handler finds when it has popped its entry. *)
Taken ==
  /\ status = "parsing" /\ IsEntry(Top) /\ IsSeq(nodes)
  /\ has_errors \/ Carried(state_stack) \/ Excused(diagnosed)
  /\ Placed(Popped) /\ Grown(nodes)
  /\ Safe(state_stack, nodes, {})
  /\ ~Bears(Top) => Safe(Popped, nodes, {})
  /\ Top.state \in Passing => Based(Popped)

(* A handler may rely on Taken. *)
LEMMA Taking ==
  ASSUME Inductive, Kept, NEW s, At(s)
  PROVE  /\ Taken
         /\ Top.state = s
         /\ s \in Passing => Based(Popped)
         /\ s \notin Carriers \/ ~Top.has_error => Safe(Popped, nodes, {})
<1>1. status = "parsing" /\ state_stack # <<>> /\ Top.state = s BY DEF At
<1>2. /\ IsEntry(Top) /\ Placed(Popped)
      /\ Top.state \in Passing => Based(Popped)
      /\ Carried(state_stack) => Carried(Popped) \/ Bears(Top)
  BY <1>1, PlacedPop DEF Kept, Top, Popped
<1>3. IsSeq(nodes) /\ Len(nodes) >= Len(nodes) BY SeqLen DEF Inductive, Sound
<1>4. Grown(nodes) BY <1>3 DEF Grown
<1>5. Excused({}) BY DEF Excused
<1>6. Safe(state_stack, nodes, {}) /\ (~Bears(Top) => Safe(Popped, nodes, {}))
  BY <1>2, <1>4, <1>5 DEF Safe, Kept
<1> QED BY <1>1, <1>2, <1>3, <1>4, <1>6 DEF Taken, Kept, Bears

(* Only the tokens can change what is excused, and they never change. *)
LEMMA StillExcused ==
  ASSUME tokens' = tokens, NEW ds, Excused(ds)
  PROVE  Excused(ds)'
<1>1. \A t : Kind(t)' = Kind(t) BY DEF Kind
<1> QED BY <1>1 DEF Excused

(* What a handler leaves. *)
LEMMA KeptStep ==
  ASSUME Taken, NEW ns, NEW stack, NEW pos, NEW diags, Step(ns, stack, pos, diags),
         Safe(stack, ns, diags)
  PROVE  Kept'
<1>1. /\ state_stack' = stack /\ status' = status /\ tokens' = tokens
      /\ diagnosed' = diagnosed \union diags
      /\ has_errors' = (has_errors \/ Marked(ns))
  BY DEF Step, CheckedStep, Marked
<1>2. Placed(state_stack)' BY <1>1 DEF Safe, Placed, Resting
<1>3. Carried(stack) => Carried(state_stack)' BY <1>1 DEF Carried, Bears
<1>4. ASSUME ~Marked(ns), ~Carried(stack), ~has_errors PROVE Excused(diagnosed)'
  <2>1. Excused(diags) /\ ~Carried(state_stack) BY <1>4 DEF Safe
  <2>2. Excused(diagnosed) BY <1>4, <2>1 DEF Taken
  <2>3. Excused(diagnosed \union diags) BY <2>1, <2>2 DEF Excused
  <2>4. Excused(diagnosed \union diags)' BY <1>1, <2>3, StillExcused
  <2> QED BY <1>1, <2>4 DEF Excused
<1> QED BY <1>1, <1>2, <1>3, <1>4 DEF Kept, Taken

(* What a handler leaves when its CHECK holds; otherwise nothing changes. *)
LEMMA KeptChecked ==
  ASSUME Taken, Kept, NEW ok, NEW ns, NEW stack, NEW pos, NEW diags,
         CheckedStep(ok, ns, stack, pos, diags), ok => Safe(stack, ns, diags)
  PROVE  Kept'
<1>1. CASE ok
  <2>1. Step(ns, stack, pos, diags) BY <1>1 DEF Step, CheckedStep
  <2> QED BY <1>1, <2>1, KeptStep
<1>2. CASE ~ok
  <2>1. /\ state_stack' = state_stack /\ diagnosed' = diagnosed /\ tokens' = tokens
        /\ has_errors' = has_errors /\ status' = "aborted"
    BY <1>2 DEF CheckedStep
  <2>2. Excused(diagnosed) => Excused(diagnosed)' BY <2>1 DEF Excused, Kind
  <2>3. Placed(state_stack)' BY <2>1 DEF Kept, Placed, Resting
  <2>4. Carried(state_stack) => Carried(state_stack)' BY <2>1 DEF Carried, Bears
  <2> QED BY <2>1, <2>2, <2>3, <2>4 DEF Kept
<1> QED BY <1>1, <1>2

(* A handler that pushes nothing, or entries where they may lie. *)
LEMMA SafeStep ==
  ASSUME Taken, NEW b, NEW ns, NEW pos, NEW ds, Safe(b, ns, ds)
  PROVE  /\ Step(ns, b, pos, ds) => Kept'
         /\ \A e : Step(ns, Append(b, e), pos, ds) /\ Sits(e, b) => Kept'
         /\ \A e, f : Step(ns, b \o <<e, f>>, pos, ds) /\ Sits(e, b) /\ SitsOn(f, e) => Kept'
         /\ \A e, f, g : /\ Step(ns, b \o <<e, f, g>>, pos, ds)
                         /\ Sits(e, b) /\ SitsOn(f, e) /\ SitsOn(g, f)
                         => Kept'
<1>1. \A e : Sits(e, b) => Safe(Append(b, e), ns, ds) BY SafePush
<1>2. \A e, f : Sits(e, b) /\ SitsOn(f, e) => Safe(b \o <<e, f>>, ns, ds)
  BY SafePushMore
<1>3. \A e, f, g : Sits(e, b) /\ SitsOn(f, e) /\ SitsOn(g, f) =>
        Safe(b \o <<e, f, g>>, ns, ds)
  BY SafePushMore
<1> QED BY <1>1, <1>2, <1>3, KeptStep

(* A node with the error of the popped entry: nothing is lost. *)
LEMMA SafeClose ==
  ASSUME Taken, NEW kind, NEW token, NEW h, Top.has_error => h
  PROVE  /\ Safe(Popped, AddTopNode(kind, token, h), {})
         /\ Safe(Popped, AddLeafNode(nodes, kind, token, h), {})
<1>1. CASE Top.has_error
  BY <1>1, SafeError DEF Taken, AddTopNode
<1>2. CASE ~Top.has_error
  <2>1. Safe(Popped, nodes, {}) BY <1>2 DEF Taken, Bears
  <2> QED BY <2>1, SafeNode DEF AddTopNode
<1> QED BY <1>1, <1>2

(* The same for the error itself. *)
LEMMA SafeCloseTop ==
  ASSUME Taken, NEW kind, NEW token
  PROVE  Safe(Popped, AddTopNode(kind, token, Top.has_error), {})
BY SafeClose

(* An erroneous node over the popped entry. *)
LEMMA SafeFault ==
  ASSUME Taken, NEW kind, NEW token, NEW ds, NEW h, h
  PROVE  /\ Safe(Popped, AddTopNode(kind, token, h), ds)
         /\ Safe(Popped, AddLeafNode(nodes, kind, token, h), ds)
         /\ Safe(ReturnErrorOnState(Popped), AddLeafNode(nodes, kind, token, h), ds)
         /\ Safe(state_stack, AddLeafNode(nodes, kind, token, h), ds)
BY SafeError, PlacedMark DEF Taken, AddTopNode, Safe

(* A leaf without an error. *)
LEMMA SafeLeaf ==
  ASSUME NEW b, NEW ds, NEW kind, Safe(b, nodes, ds)
  PROVE  Safe(b, ConsumedLeaf(kind), ds)
BY SafeNode DEF ConsumedLeaf

(* A statement or declaration that ends at a `;`. *)
LEMMA KeptFinish ==
  ASSUME Taken, NEW kind, FinishAtSemi(kind)
  PROVE  Kept'
<1>1. \/ \E t, p : Step(AddTopNode(kind, t, Top.has_error), Popped, p, {})
      \/ \E t, p, ds : Step(AddTopNode(kind, t, TRUE), Popped, p, ds)
  BY DEF FinishAtSemi
<1>2. ASSUME NEW t, NEW p, Step(AddTopNode(kind, t, Top.has_error), Popped, p, {})
      PROVE  Kept'
  BY <1>2, SafeCloseTop, KeptStep
<1>3. ASSUME NEW t, NEW p, NEW ds, Step(AddTopNode(kind, t, TRUE), Popped, p, ds)
      PROVE  Kept'
  BY <1>3, SafeFault, KeptStep
<1> QED BY <1>1, <1>2, <1>3

(* A declaration given up after an error. *)
LEMMA KeptRecovery ==
  ASSUME Taken, NEW kind, NEW skip, NEW diags, RecoverFromDeclarationError(kind, skip, diags)
  PROVE  Kept'
<1>1. \E t, p : Step(AddTopNode(kind, t, TRUE), Popped, p, diags)
  BY DEF RecoverFromDeclarationError
<1> QED BY <1>1, SafeFault, KeptStep

(* A list element's end: at most a comma is added. *)
LEMMA SafeListItem ==
  ASSUME NEW b, NEW ns, NEW ds, NEW comma_kind, NEW close_kind, Safe(b, ns, ds)
  PROVE  Safe(b, ConsumeListToken(comma_kind, close_kind, ns).nodes, ds)
<1> DEFINE item == ConsumeListToken(comma_kind, close_kind, ns)
<1>1. \/ item.nodes = ns
      \/ item.nodes = AddLeafNode(ns, comma_kind, ListElementEnd(close_kind), FALSE)
  BY DEF ConsumeListToken
<1> HIDE DEF item
<1> QED BY <1>1, SafeNode DEF item

(* An element of a list whose end is missing marks the state below. *)
LEMMA SafeListError ==
  ASSUME Taken, NEW ns, NEW c, NEW d, d => c, Based(Popped), Safe(Popped, ns, {})
  PROVE  /\ Safe(ReturnErrorIf(c, Popped), ns, DiagnosedIf(d))
         /\ Based(ReturnErrorIf(c, Popped))
<1>1. Placed(Popped) /\ Grown(ns) BY DEF Safe
<1>2. Safe(ReturnErrorIf(c, Popped), ns, DiagnosedIf(d))
  <2>1. CASE c
    <3>1. Safe(ReturnErrorOnState(Popped), ns, DiagnosedIf(d)) BY <1>1, SafeMark
    <3> QED BY <2>1, <3>1 DEF ReturnErrorIf
  <2>2. CASE ~c
    <3>1. DiagnosedIf(d) = {} BY <2>2 DEF DiagnosedIf
    <3>2. ReturnErrorIf(c, Popped) = Popped BY <2>2 DEF ReturnErrorIf
    <3> QED BY <3>1, <3>2
  <2> QED BY <2>1, <2>2
<1> QED BY <1>1, <1>2, SafeMark

(* A start node, of the `(` or of its absence. *)
LEMMA SafeStart ==
  ASSUME Taken, Safe(Popped, nodes, {}), NEW default_token, NEW kind
  PROVE  LET open == ConsumeAndAddOpenParen(default_token, kind)
         IN  Safe(Popped, open.nodes, open.diags)
<1> DEFINE open == ConsumeAndAddOpenParen(default_token, kind)
<1>1. \/ open.nodes = AddLeafNode(nodes, kind, position, FALSE) /\ open.diags = {}
      \/ open.nodes = AddLeafNode(nodes, kind, default_token, TRUE)
  BY DEF ConsumeAndAddOpenParen
<1> HIDE DEF open
<1> QED BY <1>1, SafeNode, SafeFault DEF open

(* A group is closed, or was never opened. *)
LEMMA SafeEnd ==
  ASSUME Taken, NEW expected_open, NEW kind
  PROVE  LET close == ConsumeAndAddCloseSymbol(expected_open, kind)
         IN  Safe(Popped, close.nodes, close.diags)
<1> DEFINE close == ConsumeAndAddCloseSymbol(expected_open, kind)
<1>1. \/ \E t : close.nodes = AddTopNode(kind, t, Top.has_error) /\ close.diags = {}
      \/ \E t : close.nodes = AddTopNode(kind, t, TRUE)
  BY DEF ConsumeAndAddCloseSymbol
<1> HIDE DEF close
<1> QED BY <1>1, SafeCloseTop, SafeFault DEF close

(* A pattern keyword adds at most one entry. *)
LEMMA SafeKeyword ==
  ASSUME NEW b, NEW pos, NEW keyword, NEW s, s \notin Passing, Safe(b, nodes, {})
  PROVE  Safe(b \o PatternKeyword(pos, keyword, s), nodes, {})
<1> DEFINE e == StateStackEntry(s, ForTopLevelExpression, ForTopLevelExpression,
                                pos, Top.subtree_start)
<1>1. PatternKeyword(pos, keyword, s) = <<e>> \/ PatternKeyword(pos, keyword, s) = <<>>
  BY DEF PatternKeyword
<1>2. Sits(e, b) BY Fresh DEF Sits
<1> HIDE DEF e
<1>3. Safe(b \o <<e>>, nodes, {}) BY <1>2, SafePushMore
<1>4. b \o <<>> = b BY ConcatNone DEF Safe, Placed
<1> QED BY <1>1, <1>3, <1>4

(* The package directive is given up. *)
LEMMA KeptExit ==
  ASSUME Taken, NEW ns, NEW pos, Grown(ns), ExitPackage(ns, pos)
  PROVE  Kept'
<1>1. \E t, p : Step(AddNode(ns, "PackageDirective", t, Top.subtree_start, TRUE),
                     Popped, p, {pos})
  BY DEF ExitPackage
<1>2. PICK t, p : Step(AddNode(ns, "PackageDirective", t, Top.subtree_start, TRUE),
                       Popped, p, {pos})
  BY <1>1
<1>3. Safe(Popped, AddNode(ns, "PackageDirective", t, Top.subtree_start, TRUE), {pos})
  BY SafeError DEF Taken
<1> QED BY <1>2, <1>3, KeptStep

(* Entries whose states mark nothing may lie anywhere. *)
LEMMA Anywhere ==
  ASSUME NEW s, s \notin Passing
  PROVE  /\ \A token, ns, b : Sits(Entry(s, token, ns), b) /\ Sits(Here(s), b)
         /\ \A token, ns, e : SitsOn(Entry(s, token, ns), e) /\ SitsOn(Here(s), e)
         /\ IsEntry(Top) => \A b, e : Sits(TopAs(s), b) /\ SitsOn(TopAs(s), e)
BY Fresh, Returned DEF Sits, SitsOn

(* So may an operand. *)
LEMMA OperandAnywhere ==
  /\ \A ambient, token, ns, e : SitsOn(ExpressionEntry(ambient, token, ns), e)
  /\ \A ambient, token, ns, b : Sits(ExpressionEntry(ambient, token, ns), b)
BY Fresh DEF Sits, SitsOn, Passing

(* The popped entry pushed back as a carrier keeps its error. *)
LEMMA SafeAgain ==
  ASSUME Taken, NEW s, s \in Carriers \ Passing
  PROVE  Safe(Append(Popped, TopAs(s)), nodes, {})
<1>1. Sits(TopAs(s), Popped) BY Anywhere DEF Taken
<1>2. CASE Bears(Top)
  <2>1. Bears(TopAs(s)) BY <1>2, Returned DEF Taken, Bears
  <2> QED BY <1>1, <2>1, SafeBearer DEF Taken
<1>3. CASE ~Bears(Top)
  BY <1>1, <1>3, SafePush DEF Taken
<1> QED BY <1>2, <1>3

(* The states of the tables of declarations. *)
LEMMA DeclarationPlaces ==
  /\ \A v \in NameAndParams :
       v.state \in Passing \ Carriers /\ v.after \in Passing \ Carriers
  /\ \A v \in ParameterKind :
       /\ v.list \notin Passing \union Carriers /\ v.finish \in Carriers \ Passing
       /\ v.param \in Passing \ Carriers /\ v.param_finish \in Passing \ Carriers
       /\ v.pattern \notin Passing
  /\ \A s \in PatternStates : s \notin Passing \union Carriers
  /\ \A s \in DOMAIN PatternNode : s \notin Passing \union Carriers
  /\ \A v \in TypeKind :
       /\ v.introducer \notin Passing \union Carriers /\ v.after \in Carriers \ Passing
       /\ v.finish \notin Passing \union Carriers
  /\ \A k \in DOMAIN IntroducerState : IntroducerState[k] \notin Passing
  /\ \A s \in DOMAIN VarFinishState :
       s \notin Passing \union Carriers /\ VarFinishState[s] \notin Passing
<1> USE DEF Passing, Carriers
<1>1. \A v \in NameAndParams :
        v.state \in Passing \ Carriers /\ v.after \in Passing \ Carriers
  BY DEF NameAndParams
<1>2. \A v \in ParameterKind :
        /\ v.list \notin Passing \union Carriers /\ v.finish \in Carriers \ Passing
        /\ v.param \in Passing \ Carriers /\ v.param_finish \in Passing \ Carriers
        /\ v.pattern \notin Passing
  BY DEF ParameterKind
<1>3. \A s \in PatternStates : s \notin Passing \union Carriers BY DEF PatternStates
<1>4. \A s \in DOMAIN PatternNode : s \notin Passing \union Carriers BY DEF PatternNode
<1>5. \A v \in TypeKind :
        /\ v.introducer \notin Passing \union Carriers /\ v.after \in Carriers \ Passing
        /\ v.finish \notin Passing \union Carriers
  BY DEF TypeKind
<1>6. \A k \in DOMAIN IntroducerState : IntroducerState[k] \notin Passing
  BY DEF IntroducerState
<1>7. \A s \in DOMAIN VarFinishState :
        s \notin Passing \union Carriers /\ VarFinishState[s] \notin Passing
  BY DEF VarFinishState
<1> HIDE DEF Passing, Carriers
<1> QED BY <1>1, <1>2, <1>3, <1>4, <1>5, <1>6, <1>7

(* An introducer: a leaf, and a name over a state that carries its errors. *)
LEMMA KeptIntroducer ==
  ASSUME Taken, Safe(Popped, nodes, {}), NEW kind, NEW s \in Carriers \ Passing, NEW n,
         NEW pos, LET ns == ConsumedLeaf(kind)
                  IN  Step(ns, Popped \o <<TopAs(s), Entry(n, Top.token, ns)>>, pos, {})
  PROVE  Kept'
<1> DEFINE ns == ConsumedLeaf(kind)
           e  == TopAs(s)
           f  == Entry(n, Top.token, ns)
<1>1. Safe(Popped, ns, {}) BY SafeLeaf
<1>2. Sits(e, Popped) /\ e.state = s BY Anywhere, Returned DEF Taken
<1> HIDE DEF e
<1>3. SitsOn(f, e) BY <1>2, Fresh DEF SitsOn
<1>4. Step(ns, Popped \o <<e, f>>, pos, {}) BY DEF e
<1> HIDE DEF ns, f
<1> QED BY <1>1, <1>2, <1>3, <1>4, SafeStep

-----------------------------------------------------------------------------
(* One step per handler. *)

(* The handlers of declarations. *)
LEMMA DeclarationKept ==
  ASSUME Inductive, Kept, Declaration
  PROVE  Kept'
<1>1. ASSUME HandleDeclarationScopeLoop PROVE Kept'
  <2>1. Taken /\ Safe(Popped, nodes, {}) /\ Safe(state_stack, nodes, {})
    BY <1>1, Taking DEF HandleDeclarationScopeLoop, Carriers, Taken
  <2>2. CASE Step(nodes, Popped, position, {}) BY <2>1, <2>2, KeptStep
  <2>3. CASE /\ PositionKind \in DOMAIN IntroducerState
             /\ Step(nodes, Append(state_stack, Here(IntroducerState[PositionKind])),
                     position, {})
    <3>1. Sits(Here(IntroducerState[PositionKind]), state_stack)
      BY <2>3, DeclarationPlaces, Anywhere
    <3> QED BY <2>1, <2>3, <3>1, SafeStep
  <2>4. CASE Step(ConsumedLeaf("EmptyDeclaration"), state_stack, position + 1, {})
    BY <2>1, <2>4, SafeLeaf, KeptStep
  <2>5. CASE HandleUnrecognizedDeclaration
    <3>1. PICK t, p : Step(AddLeafNode(nodes, "EmptyDeclaration", t, TRUE),
                           state_stack, p, {position})
      BY <2>5 DEF HandleUnrecognizedDeclaration
    <3>2. Safe(state_stack, AddLeafNode(nodes, "EmptyDeclaration", t, TRUE), {position})
      BY <2>1, SafeFault
    <3> QED BY <2>1, <3>1, <3>2, KeptStep
  <2> QED BY <1>1, <2>2, <2>3, <2>4, <2>5 DEF HandleDeclarationScopeLoop
<1>2. ASSUME HandleDeclarationNameAndParams PROVE Kept'
  <2>1. PICK v \in NameAndParams : HandleDeclarationNameAndParams!(v)
    BY <1>2 DEF HandleDeclarationNameAndParams
  <2>2. Taken /\ Based(Popped) /\ Safe(Popped, nodes, {}) /\ IsEntry(Top)
    BY <2>1, DeclarationPlaces, Taking DEF Taken
  <2>3. Sits(TopAs(v.after), Popped) BY <2>2, Returned DEF Sits
  <2>4. \A e : SitsOn(TopAs("PeriodAsDeclaration"), e)
    BY <2>2, Anywhere DEF Passing
  <2>5. CASE Step(ConsumedLeaf("NameExpression"),
                  Popped \o <<TopAs(v.after), TopAs("PeriodAsDeclaration")>>,
                  position + 1, {})
    BY <2>2, <2>3, <2>4, <2>5, SafeLeaf, SafeStep
  <2>6. CASE Step(ConsumedLeaf("Name"), Append(Popped, TopAs(v.after)), position + 1, {})
    BY <2>2, <2>3, <2>6, SafeLeaf, SafeStep
  <2>7. CASE Step(AddLeafNode(nodes, "InvalidParse", position, FALSE),
                  ReturnErrorOnState(Popped), position, {position})
    <3> DEFINE ns == AddLeafNode(nodes, "InvalidParse", position, FALSE)
    <3>1. Safe(Popped, ns, {}) BY <2>2, SafeNode
    <3> HIDE DEF ns
    <3>2. Safe(ReturnErrorOnState(Popped), ns, {position})
      BY <2>2, <3>1, SafeMark DEF Safe
    <3> QED BY <2>2, <2>7, <3>2, KeptStep DEF ns
  <2> QED BY <2>1, <2>5, <2>6, <2>7
<1>3. ASSUME HandleDeclarationNameAndParamsAfterName PROVE Kept'
  <2>1. Taken /\ Based(Popped) /\ Safe(Popped, nodes, {}) /\ IsEntry(Top)
    BY <1>3, DeclarationPlaces, Taking DEF HandleDeclarationNameAndParamsAfterName, Taken
  <2>2. CASE Step(nodes, Append(state_stack, TopAs("PeriodAsDeclaration")), position, {})
    <3>1. Sits(TopAs("PeriodAsDeclaration"), state_stack) BY <2>1, Anywhere DEF Passing
    <3> QED BY <2>1, <2>2, <3>1, SafeStep DEF Taken
  <2>3. CASE Step(nodes, Popped \o <<Here("DeclarationNameAndParamsAfterDeduced"),
                                     Here("ParameterListAsDeduced")>>, position, {})
    <3>1. Sits(Here("DeclarationNameAndParamsAfterDeduced"), Popped)
      BY <2>1, Fresh DEF Sits
    <3>2. SitsOn(Here("ParameterListAsDeduced"), Here("DeclarationNameAndParamsAfterDeduced"))
      BY Anywhere DEF Passing
    <3> QED BY <2>1, <2>3, <3>1, <3>2, SafeStep
  <2>4. CASE Step(nodes, Append(Popped, Here("ParameterListAsRegular")), position, {})
    <3>1. Sits(Here("ParameterListAsRegular"), Popped) BY Anywhere DEF Passing
    <3> QED BY <2>1, <2>4, <3>1, SafeStep
  <2>5. CASE Step(nodes, Popped, position, {})
    BY <2>1, <2>5, KeptStep
  <2>6. CASE Step(nodes, ReturnErrorOnState(Popped), position, {position})
    BY <2>1, <2>6, SafeMark, KeptStep DEF Taken
  <2> QED
    BY <1>3, <2>2, <2>3, <2>4, <2>5, <2>6 DEF HandleDeclarationNameAndParamsAfterName
<1>4. ASSUME HandleDeclarationNameAndParamsAfterDeduced PROVE Kept'
  <2>1. Taken /\ Based(Popped) /\ Safe(Popped, nodes, {})
    BY <1>4, Taking DEF HandleDeclarationNameAndParamsAfterDeduced, Passing, Carriers
  <2>2. CASE Step(nodes, Append(Popped, Here("ParameterListAsRegular")), position, {})
    <3>1. Sits(Here("ParameterListAsRegular"), Popped) BY Anywhere DEF Passing
    <3> QED BY <2>1, <2>2, <3>1, SafeStep
  <2>3. CASE Step(nodes, ReturnErrorOnState(Popped), position, {position})
    BY <2>1, <2>3, SafeMark, KeptStep DEF Taken
  <2> QED BY <1>4, <2>2, <2>3 DEF HandleDeclarationNameAndParamsAfterDeduced
<1>5. ASSUME HandleParameterList PROVE Kept'
  <2>1. PICK v \in ParameterKind : HandleParameterList!(v) BY <1>5 DEF HandleParameterList
  <2>2. Taken /\ Safe(Popped, nodes, {}) BY <2>1, DeclarationPlaces, Taking
  <2> DEFINE ns == ConsumedLeaf(v.start_node)
             e  == Entry(v.param, position + 1, ns)
             f  == Here(v.finish)
  <2>3. Safe(Popped, ns, {}) BY <2>2, SafeLeaf
  <2>4. Sits(f, Popped) /\ f.state \in Carriers BY DeclarationPlaces, Fresh DEF Sits
  <2>5. IsEntry(e) BY Fresh
  <2> HIDE DEF ns, e, f
  <2>6. Safe(Popped \o <<f>>, ns, {}) BY <2>3, <2>4, SafePushMore
  <2>7. Based(Popped \o <<f>>)
    <3>1. Popped \o <<f>> = Append(Popped, f) BY <2>3, ConcatOne DEF Safe, Placed
    <3> QED BY <2>3, <2>4, <3>1, PlacedPush DEF Safe, Based
  <2>8. /\ Safe((Popped \o <<f>>) \o <<e>>, ns, {})
        /\ Safe((Popped \o <<f>>) \o <<>>, ns, {})
    BY <2>5, <2>6, <2>7, SafePushMore, ConcatNone DEF Sits, Safe, Placed
  <2> QED BY <2>1, <2>2, <2>8, KeptChecked DEF ns, e, f
<1>6. ASSUME HandleParameter PROVE Kept'
  <2>1. PICK v \in ParameterKind : HandleParameter!(v) BY <1>6 DEF HandleParameter
  <2>2. Taken /\ Based(Popped) /\ Safe(Popped, nodes, {})
    BY <2>1, DeclarationPlaces, Taking
  <2>3. Sits(Here(v.param_finish), Popped) BY <2>2, Fresh DEF Sits
  <2>4. \A e : SitsOn(Here(v.pattern), e) BY DeclarationPlaces, Anywhere
  <2> QED BY <2>1, <2>2, <2>3, <2>4, SafeStep
<1>7. ASSUME HandleParameterFinish PROVE Kept'
  <2>1. PICK v \in ParameterKind : HandleParameterFinish!(v)
    BY <1>7 DEF HandleParameterFinish
  <2>2. Taken /\ Based(Popped) /\ Safe(Popped, nodes, {})
    BY <2>1, DeclarationPlaces, Taking
  <2> DEFINE error == ListError(ClosingSymbol(v.open), Top.has_error)
             item  == ConsumeListToken("ParameterListComma", ClosingSymbol(v.open), nodes)
             e     == Entry(v.param, item.position, item.nodes)
             stack == ReturnErrorIf(Top.has_error \/ error, Popped)
  <2>3. Safe(Popped, item.nodes, {}) BY <2>2, SafeListItem
  <2> HIDE DEF item, error
  <2>4. Safe(stack, item.nodes, DiagnosedIf(error)) /\ Based(stack)
    BY <2>2, <2>3, SafeListError
  <2>5. IsEntry(e) BY Fresh
  <2> HIDE DEF e, stack
  <2>6. Safe(Append(stack, e), item.nodes, DiagnosedIf(error))
    BY <2>4, <2>5, SafePush DEF Sits
  <2> QED BY <2>1, <2>2, <2>4, <2>6, KeptChecked DEF item, e, stack, error
<1>8. ASSUME HandleParameterListFinish PROVE Kept'
  <2>1. PICK v \in ParameterKind : HandleParameterListFinish!(v)
    BY <1>8 DEF HandleParameterListFinish
  <2>2. Taken BY <2>1, Taking
  <2>3. Safe(Popped, AddTopNode(v.node, position, Top.has_error), {})
    BY <2>2, SafeCloseTop
  <2> QED BY <2>1, <2>2, <2>3, KeptChecked
<1>9. ASSUME HandlePattern PROVE Kept'
  <2>1. PICK s \in PatternStates : HandlePattern!(s) BY <1>9 DEF HandlePattern
  <2>2. Taken /\ Safe(Popped, nodes, {}) /\ IsEntry(Top)
    BY <2>1, DeclarationPlaces, Taking DEF Taken
  <2> DEFINE template == IF s = "PatternAsVariable" THEN <<>>
                         ELSE PatternKeyword(position, "Template", "PatternTemplate")
             addr     == IF s = "PatternAsVariable" THEN <<>>
                         ELSE PatternKeyword(position + Len(template), "Addr",
                                             "PatternAddress")
             stack    == Popped \o template \o addr
             name     == position + Len(template) + Len(addr)
             is_name  == \/ Kind(name) = "Identifier"
                         \/ /\ s = "PatternAsDeducedParameter"
                            /\ Kind(name) = "SelfValueIdentifier"
             after    == IF is_name THEN name + 1 ELSE name
             name_kind == IF Kind(name) = "SelfValueIdentifier" /\ is_name
                          THEN "SelfValueName" ELSE "Name"
             name_ns  == AddLeafNode(nodes, name_kind, name, ~is_name)
             last_ns  == AddLeafNode(name_ns, "InvalidParse", after, TRUE)
             bound    == IF Kind(after) = "Colon" THEN "PatternFinishAsRegular"
                         ELSE "PatternFinishAsGeneric"
             finish   == [TopAs(bound) EXCEPT !.token = after]
             failed   == [TopAs("PatternFinishAsRegular") EXCEPT !.has_error = TRUE]
             operand  == ExpressionEntry(ForType, after + 1, name_ns)
  <2>3. "PatternTemplate" \notin Passing /\ "PatternAddress" \notin Passing BY DEF Passing
  <2>4. Safe(Popped \o template, nodes, {})
    BY <2>2, <2>3, SafeKeyword, ConcatNone DEF Safe, Placed
  <2>5. Safe(stack, nodes, {})
    <3> HIDE DEF template
    <3>1. addr = <<>> \/ addr = PatternKeyword(position + Len(template), "Addr",
                                             "PatternAddress")
      OBVIOUS
    <3> HIDE DEF addr
    <3>2. (Popped \o template) \o <<>> = Popped \o template
      BY <2>4, ConcatNone DEF Safe, Placed
    <3> QED BY <2>3, <2>4, <3>1, <3>2, SafeKeyword
  <2>6. \/ Step(name_ns, stack \o <<finish, operand>>, after + 1, {})
        \/ Step(last_ns, Append(stack, failed), after, {after})
    BY <2>1
  <2> HIDE DEF stack
  <2>7. Safe(stack, name_ns, {}) BY <2>5, SafeNode
  <2> HIDE DEF name_ns
  <2>8. bound \notin Passing BY DEF Passing
  <2> HIDE DEF after, bound
  <2>9. Sits(finish, stack)
    <3>1. IsEntry(finish) /\ finish.state = bound BY <2>2, TopSet, Zenon
    <3> QED BY <2>8, <3>1 DEF Sits
  <2>10. Sits(failed, stack)
    <3>1. IsEntry(failed) /\ failed.state = "PatternFinishAsRegular"
      BY <2>2, TopSet, Zenon
    <3> HIDE DEF failed
    <3> QED BY <3>1 DEF Sits, Passing
  <2>11. SitsOn(operand, finish) BY OperandAnywhere
  <2>12. Safe(stack, last_ns, {after}) BY <2>7, SafeError DEF Safe
  <2> HIDE DEF finish, failed, operand, last_ns
  <2> QED BY <2>2, <2>6, <2>7, <2>9, <2>10, <2>11, <2>12, SafeStep
<1>10. ASSUME HandlePatternFinish PROVE Kept'
  <2>1. PICK s \in DOMAIN PatternNode : HandlePatternFinish!(s) BY <1>10 DEF HandlePatternFinish
  <2>2. Taken BY <2>1, Taking
  <2> DEFINE ns == AddTopNode(PatternNode[s], Top.token, Top.has_error)
  <2>3. Safe(Popped, ns, {}) BY <2>2, SafeCloseTop
  <2> HIDE DEF ns
  <2>4. Safe(ReturnErrorIf(Top.has_error, Popped), ns, {}) BY <2>3, SafeMark
  <2> QED BY <2>1, <2>2, <2>4, KeptStep DEF ns
<1>11. ASSUME HandleFunctionIntroducer PROVE Kept'
  <2>1. Taken /\ Safe(Popped, nodes, {})
    BY <1>11, Taking DEF HandleFunctionIntroducer, Carriers
  <2>2. "FunctionAfterParameters" \in Carriers \ Passing BY DEF Carriers, Passing
  <2> QED BY <1>11, <2>1, <2>2, KeptIntroducer DEF HandleFunctionIntroducer
<1>12. ASSUME HandleFunctionAfterParameters PROVE Kept'
  <2>1. Taken BY <1>12, Taking DEF HandleFunctionAfterParameters
  <2> DEFINE e == TopAs("FunctionSignatureFinish")
             f == Here("FunctionReturnTypeFinish")
             g == ExpressionEntry(ForType, position + 1, nodes)
  <2>2. "FunctionSignatureFinish" \in Carriers \ Passing BY DEF Carriers, Passing
  <2>3. Safe(Append(Popped, e), nodes, {}) /\ IsSeq(Popped)
    BY <2>1, <2>2, SafeAgain DEF Taken, Placed
  <2>4. SitsOn(f, e) BY Anywhere DEF Passing
  <2>5. SitsOn(g, f) BY OperandAnywhere
  <2>6. \/ Step(nodes, Popped \o <<e, f, g>>, position + 1, {})
        \/ Step(nodes, Append(Popped, e), position, {})
    BY <1>12 DEF HandleFunctionAfterParameters
  <2> HIDE DEF e, f, g
  <2>7. Safe(Popped \o <<e, f, g>>, nodes, {}) BY <2>3, <2>4, <2>5, SafeOver
  <2> QED BY <2>1, <2>3, <2>6, <2>7, KeptStep
<1>13. ASSUME HandleFunctionReturnTypeFinish PROVE Kept'
  <2>1. Taken BY <1>13, Taking DEF HandleFunctionReturnTypeFinish
  <2> QED BY <1>13, <2>1, SafeCloseTop, KeptStep DEF HandleFunctionReturnTypeFinish
<1>14. ASSUME HandleFunctionSignatureFinish PROVE Kept'
  <2>1. Taken BY <1>14, Taking DEF HandleFunctionSignatureFinish
  <2>2. CASE Step(AddTopNode("FunctionDeclaration", position, Top.has_error),
                  Popped, position + 1, {})
    BY <2>1, <2>2, SafeCloseTop, KeptStep
  <2>3. CASE \E skip, diags : RecoverFromDeclarationError("FunctionDeclaration", skip, diags)
    BY <2>1, <2>3, KeptRecovery
  <2> DEFINE ns == AddTopNode("FunctionDefinitionStart", position, Top.has_error)
             e  == [TopAs("FunctionDefinitionFinish") EXCEPT !.has_error = FALSE]
             f  == Entry("StatementScopeLoop", position + 1, ns)
             ok == GetDeclarationContext # "unreachable"
  <2>4. CASE CheckedStep(ok, ns, Popped \o <<e, f>>, position + 1, {})
    <3>1. Safe(Popped, ns, {}) BY <2>1, SafeCloseTop
    <3>2. IsEntry(e) /\ e.state = "FunctionDefinitionFinish"
      <4>1. IsEntry(Top) BY <2>1 DEF Taken
      <4> QED BY <4>1, TopSet, Zenon
    <3>3. IsEntry(f) /\ f.state = "StatementScopeLoop" BY Fresh
    <3> HIDE DEF ns, e, f, ok
    <3>4. Sits(e, Popped) /\ SitsOn(f, e) BY <3>2, <3>3 DEF Sits, SitsOn, Carriers, Passing
    <3>5. Safe(Popped \o <<e, f>>, ns, {}) BY <3>1, <3>4, SafePushMore
    <3> QED BY <2>1, <2>4, <3>5, KeptChecked
  <2> QED BY <1>14, <2>2, <2>3, <2>4 DEF HandleFunctionSignatureFinish
<1>15. ASSUME HandleFunctionDefinitionFinish PROVE Kept'
  <2>1. Taken BY <1>15, Taking DEF HandleFunctionDefinitionFinish
  <2> QED BY <1>15, <2>1, SafeCloseTop, KeptStep DEF HandleFunctionDefinitionFinish
<1>16. ASSUME HandleTypeIntroducer PROVE Kept'
  <2>1. PICK v \in TypeKind : HandleTypeIntroducer!(v) BY <1>16 DEF HandleTypeIntroducer
  <2>2. Taken /\ Safe(Popped, nodes, {}) /\ v.after \in Carriers \ Passing
    BY <2>1, DeclarationPlaces, Taking
  <2> QED BY <2>1, <2>2, KeptIntroducer
<1>17. ASSUME HandleTypeAfterParams PROVE Kept'
  <2>1. PICK v \in TypeKind : HandleTypeAfterParams!(v) BY <1>17 DEF HandleTypeAfterParams
  <2>2. Taken BY <2>1, Taking
  <2>3. CASE \E skip, diags : RecoverFromDeclarationError(v.declaration, skip, diags)
    BY <2>2, <2>3, KeptRecovery
  <2>4. CASE /\ ~Top.has_error
             /\ Step(AddTopNode(v.declaration, position, FALSE), Popped, position + 1, {})
    <3>1. Safe(Popped, AddTopNode(v.declaration, position, FALSE), {})
      BY <2>2, <2>4, SafeClose
    <3> QED BY <2>2, <2>4, <3>1, KeptStep
  <2>5. CASE /\ ~Top.has_error
             /\ Step(AddTopNode(v.start, position, FALSE),
                     Popped \o <<TopAs(v.finish), Here("DeclarationScopeLoop")>>,
                     position + 1, {})
    <3>1. Safe(Popped, AddTopNode(v.start, position, FALSE), {})
      BY <2>2, <2>5, SafeClose
    <3>2. Sits(TopAs(v.finish), Popped) BY <2>2, DeclarationPlaces, Anywhere DEF Taken
    <3>3. SitsOn(Here("DeclarationScopeLoop"), TopAs(v.finish)) BY Anywhere DEF Passing
    <3> QED BY <2>2, <2>5, <3>1, <3>2, <3>3, SafeStep
  <2> QED BY <2>1, <2>3, <2>4, <2>5
<1>18. ASSUME HandleTypeDefinitionFinish PROVE Kept'
  <2>1. PICK v \in TypeKind : HandleTypeDefinitionFinish!(v)
    BY <1>18 DEF HandleTypeDefinitionFinish
  <2>2. Taken BY <2>1, Taking
  <2> QED BY <2>1, <2>2, SafeCloseTop, KeptStep
<1>19. ASSUME HandleVar PROVE Kept'
  <2>1. PICK s \in DOMAIN VarFinishState : HandleVar!(s) BY <1>19 DEF HandleVar
  <2>2. Taken /\ Safe(Popped, nodes, {}) BY <2>1, DeclarationPlaces, Taking
  <2> DEFINE ns == ConsumedLeaf("VariableIntroducer")
             e  == Here(VarFinishState[s])
             f  == Here("VarAfterPattern")
             g  == Entry("PatternAsVariable", position + 1, ns)
  <2>3. Safe(Popped, ns, {}) BY <2>2, SafeLeaf
  <2>4. Sits(e, Popped) BY DeclarationPlaces, Anywhere
  <2>5. SitsOn(f, e) /\ SitsOn(g, f) BY Anywhere DEF Passing
  <2> HIDE DEF ns, e, f, g
  <2> QED BY <2>1, <2>2, <2>3, <2>4, <2>5, SafeStep DEF ns, e, f, g
<1>20. ASSUME HandleVarAfterPattern PROVE Kept'
  <2>1. Taken /\ Safe(Popped, nodes, {})
    BY <1>20, Taking DEF HandleVarAfterPattern, Carriers
  <2>2. CASE \E pos : Step(nodes, Popped, pos, {}) BY <2>1, <2>2, KeptStep
  <2> DEFINE ns == AddLeafNode(nodes, "VariableInitializer", AfterPattern, FALSE)
             e  == Entry("Expression", AfterPattern + 1, ns)
  <2>3. CASE Step(ns, Append(Popped, e), AfterPattern + 1, {})
    <3>1. Safe(Popped, ns, {}) BY <2>1, SafeNode
    <3>2. Sits(e, Popped) BY Anywhere DEF Passing
    <3> HIDE DEF ns, e
    <3> QED BY <2>1, <2>3, <3>1, <3>2, SafeStep
  <2> QED BY <1>20, <2>2, <2>3 DEF HandleVarAfterPattern
<1>21. ASSUME HandleVarFinishAsSemicolon PROVE Kept'
  <2>1. Taken BY <1>21, Taking DEF HandleVarFinishAsSemicolon
  <2> QED BY <1>21, <2>1, KeptFinish DEF HandleVarFinishAsSemicolon
<1>22. ASSUME HandleVarFinishAsFor PROVE Kept'
  <2>1. Taken BY <1>22, Taking DEF HandleVarFinishAsFor
  <2>2. CASE Step(AddTopNode("ForIn", position, Top.has_error), Popped, position + 1, {})
    BY <2>1, <2>2, SafeCloseTop, KeptStep
  <2>3. CASE \E t, p : Step(AddTopNode("ForIn", t, TRUE), Popped, p, {position})
    <3>1. PICK t, p : Step(AddTopNode("ForIn", t, TRUE), Popped, p, {position}) BY <2>3
    <3>2. Safe(Popped, AddTopNode("ForIn", t, TRUE), {position}) BY <2>1, SafeFault
    <3> QED BY <2>1, <3>1, <3>2, KeptStep
  <2> QED BY <1>22, <2>2, <2>3 DEF HandleVarFinishAsFor
<1>23. ASSUME HandleLet PROVE Kept'
  <2>1. Taken /\ Safe(Popped, nodes, {}) BY <1>23, Taking DEF HandleLet, Carriers
  <2> DEFINE ns == ConsumedLeaf("LetIntroducer")
             e  == Here("LetFinish")
             f  == Here("LetAfterPattern")
             g  == Entry("PatternAsLet", position + 1, ns)
  <2>2. Safe(Popped, ns, {}) BY <2>1, SafeLeaf
  <2>3. Sits(e, Popped) /\ SitsOn(g, f) BY Anywhere DEF Passing
  <2>4. SitsOn(f, e) BY Fresh DEF SitsOn, Carriers
  <2>5. Step(ns, Popped \o <<e, f, g>>, position + 1, {}) BY <1>23 DEF HandleLet
  <2> HIDE DEF ns, e, f, g
  <2> QED BY <2>1, <2>2, <2>3, <2>4, <2>5, SafeStep
<1>24. ASSUME HandleLetAfterPattern PROVE Kept'
  <2>1. Taken /\ Safe(Popped, nodes, {}) /\ Based(Popped)
    BY <1>24, Taking DEF HandleLetAfterPattern, Carriers, Passing
  <2>2. CASE \E pos : Step(nodes, Popped, pos, {}) BY <2>1, <2>2, KeptStep
  <2> DEFINE ns == AddLeafNode(nodes, "LetInitializer", AfterPattern, FALSE)
             e  == Entry("Expression", AfterPattern + 1, ns)
  <2>3. CASE Step(ns, Append(Popped, e), AfterPattern + 1, {})
    <3>1. Safe(Popped, ns, {}) BY <2>1, SafeNode
    <3>2. Sits(e, Popped) BY Anywhere DEF Passing
    <3> HIDE DEF ns, e
    <3> QED BY <2>1, <2>3, <3>1, <3>2, SafeStep
  <2>4. CASE Step(nodes, ReturnErrorOnState(Popped), position, {position})
    BY <2>1, <2>4, SafeMark, KeptStep DEF Taken
  <2> QED BY <1>24, <2>2, <2>3, <2>4 DEF HandleLetAfterPattern
<1>25. ASSUME HandleLetFinish PROVE Kept'
  <2>1. Taken BY <1>25, Taking DEF HandleLetFinish
  <2> QED BY <1>25, <2>1, KeptFinish DEF HandleLetFinish
<1>26. ASSUME HandleNamespace PROVE Kept'
  <2>1. Taken /\ Safe(Popped, nodes, {}) BY <1>26, Taking DEF HandleNamespace, Carriers
  <2>2. "NamespaceFinish" \in Carriers \ Passing BY DEF Carriers, Passing
  <2> QED BY <1>26, <2>1, <2>2, KeptIntroducer DEF HandleNamespace
<1>27. ASSUME HandleNamespaceFinish PROVE Kept'
  <2>1. Taken BY <1>27, Taking DEF HandleNamespaceFinish
  <2>2. CASE /\ ~Top.has_error
             /\ Step(AddTopNode("Namespace", position, FALSE), Popped, position + 1, {})
    <3>1. Safe(Popped, AddTopNode("Namespace", position, FALSE), {})
      BY <2>1, <2>2, SafeClose
    <3> QED BY <2>1, <2>2, <3>1, KeptStep
  <2>3. CASE \E skip, diags : RecoverFromDeclarationError("Namespace", skip, diags)
    BY <2>1, <2>3, KeptRecovery
  <2> QED BY <1>27, <2>2, <2>3 DEF HandleNamespaceFinish
<1>28. ASSUME HandlePackage PROVE Kept'
  <2>1. Taken /\ Safe(Popped, nodes, {}) BY <1>28, Taking DEF HandlePackage, Carriers
  <2> DEFINE name        == position + 1
             intro_ns    == ConsumedLeaf("PackageIntroducer")
             name_ns     == AddLeafNode(intro_ns, "Name", name, FALSE)
             has_library == Kind(name + 1) = "Library"
             literal_ns  == AddLeafNode(name_ns, "Literal", name + 2, FALSE)
             library_ns  == AddNode(literal_ns, "PackageLibrary", name + 1,
                                    Len(name_ns), FALSE)
             api         == IF has_library THEN name + 3 ELSE name + 1
             before_api  == IF has_library THEN library_ns ELSE name_ns
             api_kind    == IF Kind(api) = "Api" THEN "PackageApi" ELSE "PackageImpl"
             api_ns      == AddLeafNode(before_api, api_kind, api, FALSE)
             done_ns     == AddNode(api_ns, "PackageDirective", api + 1,
                                    Top.subtree_start, FALSE)
  <2>2. \/ \E p : \/ ExitPackage(intro_ns, p)  \/ ExitPackage(name_ns, p)
                  \/ ExitPackage(before_api, p) \/ ExitPackage(api_ns, p)
        \/ Step(done_ns, Popped, api + 2, {})
    BY <1>28 DEF HandlePackage
  <2>3. Safe(Popped, intro_ns, {}) BY <2>1, SafeLeaf
  <2> HIDE DEF intro_ns
  <2>4. Safe(Popped, name_ns, {}) BY <2>3, SafeNode
  <2> HIDE DEF name_ns
  <2>5. Safe(Popped, literal_ns, {}) BY <2>4, SafeNode
  <2> HIDE DEF literal_ns
  <2>6. Safe(Popped, library_ns, {}) BY <2>5, SafeNode
  <2> HIDE DEF library_ns
  <2>7. Safe(Popped, before_api, {}) BY <2>4, <2>6
  <2> HIDE DEF before_api, api_kind
  <2>8. Safe(Popped, api_ns, {}) BY <2>7, SafeNode
  <2> HIDE DEF api_ns
  <2>9. Safe(Popped, done_ns, {}) BY <2>8, SafeNode
  <2> HIDE DEF done_ns
  <2>10. Grown(intro_ns) /\ Grown(name_ns) /\ Grown(before_api) /\ Grown(api_ns)
    BY <2>3, <2>4, <2>7, <2>8 DEF Safe
  <2> QED BY <2>1, <2>2, <2>9, <2>10, KeptExit, KeptStep
<1> QED
  BY <1>1, <1>2, <1>3, <1>4, <1>5, <1>6, <1>7, <1>8, <1>9, <1>10, <1>11,
     <1>12, <1>13, <1>14, <1>15, <1>16, <1>17, <1>18, <1>19, <1>20, <1>21,
     <1>22, <1>23, <1>24, <1>25, <1>26, <1>27, <1>28 DEF Declaration

(* The states of the tables of statements. *)
LEMMA StatementPlaces ==
  /\ \A k \in DOMAIN StatementState : StatementState[k] \notin Passing
  /\ \A v \in JumpKind : v.state \notin Passing
  /\ \A v \in ConditionKind :
       /\ v.statement \notin Passing \union Carriers
       /\ v.condition \notin Passing \union Carriers
       /\ v.paren_finish \notin Passing \union Carriers
       /\ v.condition_finish \notin Passing \union Carriers
       /\ v.block_finish \notin Passing \union Carriers
<1> USE DEF Passing, Carriers
<1>1. \A k \in DOMAIN StatementState : StatementState[k] \notin Passing
  BY DEF StatementState
<1>2. \A v \in JumpKind : v.state \notin Passing BY DEF JumpKind
<1>3. \A v \in ConditionKind :
        /\ v.statement \notin Passing \union Carriers
        /\ v.condition \notin Passing \union Carriers
        /\ v.paren_finish \notin Passing \union Carriers
        /\ v.condition_finish \notin Passing \union Carriers
        /\ v.block_finish \notin Passing \union Carriers
  BY DEF ConditionKind
<1> HIDE DEF Passing, Carriers
<1> QED BY <1>1, <1>2, <1>3

(* The handlers of statements. *)
LEMMA StatementKept ==
  ASSUME Inductive, Kept, Statement
  PROVE  Kept'
<1>1. ASSUME HandleStatement PROVE Kept'
  <2>1. Taken /\ Safe(Popped, nodes, {}) /\ Based(Popped)
    BY <1>1, Taking DEF HandleStatement, Carriers, Passing
  <2>2. CASE \E v \in JumpKind :
               Step(ConsumedLeaf(v.start), Append(Popped, Here(v.state)), position + 1, {})
    <3>1. PICK v \in JumpKind :
            Step(ConsumedLeaf(v.start), Append(Popped, Here(v.state)), position + 1, {})
      BY <2>2
    <3>2. Sits(Here(v.state), Popped) BY StatementPlaces, Anywhere
    <3>3. Safe(Popped, ConsumedLeaf(v.start), {}) BY <2>1, SafeLeaf
    <3> QED BY <2>1, <3>1, <3>2, <3>3, SafeStep
  <2>3. CASE Step(nodes, Popped \o <<Here("StatementForFinish"), Here("StatementForHeader")>>,
                  position + 1, {})
    <3>1. /\ Sits(Here("StatementForFinish"), Popped)
          /\ SitsOn(Here("StatementForHeader"), Here("StatementForFinish"))
      BY Anywhere DEF Passing
    <3> QED BY <2>1, <2>3, <3>1, SafeStep
  <2>4. CASE /\ PositionKind \in DOMAIN StatementState
             /\ Step(nodes, Append(Popped, Here(StatementState[PositionKind])), position, {})
    <3>1. Sits(Here(StatementState[PositionKind]), Popped)
      BY <2>4, StatementPlaces, Anywhere
    <3> QED BY <2>1, <2>4, <3>1, SafeStep
  <2> DEFINE f == ExpressionEntry(ForExpressionStatement, position, nodes)
  <2>5. CASE Step(nodes, Popped \o <<Here("ExpressionStatementFinish"), f>>, position, {})
    <3>1. Sits(Here("ExpressionStatementFinish"), Popped) BY <2>1, Fresh DEF Sits
    <3>2. SitsOn(f, Here("ExpressionStatementFinish")) BY OperandAnywhere
    <3> HIDE DEF f
    <3> QED BY <2>1, <2>5, <3>1, <3>2, SafeStep
  <2> QED BY <1>1, <2>2, <2>3, <2>4, <2>5 DEF HandleStatement
<1>2. ASSUME HandleStatementKeywordFinish PROVE Kept'
  <2>1. PICK s \in DOMAIN KeywordFinishNode : HandleStatementKeywordFinish!(s)
    BY <1>2 DEF HandleStatementKeywordFinish
  <2>2. Taken BY <2>1, Taking
  <2> QED BY <2>1, <2>2, KeptFinish
<1>3. ASSUME HandleStatementReturn PROVE Kept'
  <2>1. Taken /\ Safe(Popped, nodes, {}) BY <1>3, Taking DEF HandleStatementReturn, Carriers
  <2> DEFINE ns == ConsumedLeaf("ReturnStatementStart")
             e  == TopAs("StatementReturnFinish")
             f  == Entry("Expression", position + 1, ns)
  <2>2. Safe(Popped, ns, {}) BY <2>1, SafeLeaf
  <2>3. Sits(e, Popped) BY <2>1, Anywhere DEF Passing, Taken
  <2>4. SitsOn(f, e) BY Anywhere DEF Passing
  <2>5. \/ Step(ns, Popped \o <<e>>, position + 1, {})
        \/ Step(ns, Popped \o <<e, f>>, position + 1, {})
    BY <1>3 DEF HandleStatementReturn
  <2> HIDE DEF ns, e, f
  <2>6. Safe(Popped \o <<e>>, ns, {}) /\ Safe(Popped \o <<e, f>>, ns, {})
    BY <2>2, <2>3, <2>4, SafePushMore
  <2> QED BY <2>1, <2>5, <2>6, KeptStep
<1>4. ASSUME HandleStatementScopeLoop PROVE Kept'
  <2>1. /\ Taken /\ Based(Popped) /\ Top.state = "StatementScopeLoop"
        /\ ~Top.has_error => Safe(Popped, nodes, {})
        /\ state_stack # <<>>
    BY <1>4, Taking DEF HandleStatementScopeLoop, Passing, At
  <2>2. CASE Step(nodes, ReturnErrorIf(Top.has_error, Popped), position, {})
    <3>1. Safe(ReturnErrorIf(Top.has_error, Popped), nodes, {})
      BY <2>1, SafeMark DEF Taken, ReturnErrorIf
    <3> QED BY <2>1, <2>2, <3>1, KeptStep
  <2>3. CASE Step(nodes, Append(state_stack, Here("Statement")), position, {})
    <3>1. Based(state_stack) BY <2>1 DEF Based, Top, Carriers
    <3>2. Sits(Here("Statement"), state_stack) BY <3>1, Fresh DEF Sits
    <3> QED BY <2>1, <2>3, <3>2, SafeStep DEF Taken
  <2> QED BY <1>4, <2>2, <2>3 DEF HandleStatementScopeLoop
<1>5. ASSUME HandleStatementForHeader PROVE Kept'
  <2>1. Taken /\ Safe(Popped, nodes, {}) /\ IsEntry(Top)
    BY <1>5, Taking DEF HandleStatementForHeader, Carriers, Taken
  <2> DEFINE open   == ConsumeAndAddOpenParen(Top.token, "ForHeaderStart")
             header == [TopAs("StatementForHeaderIn") EXCEPT !.token = open.token]
             failed == [header EXCEPT !.has_error = TRUE]
             v      == Entry("VarAsFor", open.position, open.nodes)
  <2>2. Safe(Popped, open.nodes, open.diags) BY <2>1, SafeStart
  <2>3. \/ Step(open.nodes, Popped \o <<header, v>>, open.position, open.diags)
        \/ \E p, ds : Step(open.nodes, Append(Popped, failed), p, ds)
    BY <1>5 DEF HandleStatementForHeader
  <2> HIDE DEF open
  <2>4. IsEntry(header) /\ header.state = "StatementForHeaderIn"
    BY <2>1, TopSet, Zenon
  <2>5. SitsOn(v, header) BY Anywhere DEF Passing
  <2> HIDE DEF header, v
  <2>6. Sits(header, Popped) BY <2>4 DEF Sits, Passing
  <2>7. IsEntry(failed) /\ failed.state = "StatementForHeaderIn" /\ failed.has_error
    <3> DEFINE x == TRUE
    <3>1. x OBVIOUS
    <3> HIDE DEF x
    <3>2. /\ IsEntry([header EXCEPT !.has_error = x])
          /\ [header EXCEPT !.has_error = x].state = header.state
          /\ [header EXCEPT !.has_error = x].has_error = x
      BY <2>4, Updated, Zenon
    <3>3. failed = [header EXCEPT !.has_error = x] BY DEF x
    <3> HIDE DEF failed
    <3> QED BY <2>4, <3>1, <3>2, <3>3
  <2> HIDE DEF failed
  <2>8. Sits(failed, Popped) /\ Bears(failed) BY <2>7 DEF Sits, Bears, Passing, Carriers
  <2>9. \A ds : Safe(Append(Popped, failed), open.nodes, ds)
    BY <2>2, <2>8, SafeBearer DEF Safe
  <2> QED BY <2>1, <2>2, <2>3, <2>5, <2>6, <2>9, SafeStep, KeptStep
<1>6. ASSUME HandleStatementForHeaderIn PROVE Kept'
  <2>1. Taken BY <1>6, Taking DEF HandleStatementForHeaderIn
  <2> DEFINE e == TopAs("StatementForHeaderFinish")
             f == Here("Expression")
  <2>2. "StatementForHeaderFinish" \in Carriers \ Passing BY DEF Carriers, Passing
  <2>3. Safe(Append(Popped, e), nodes, {}) /\ IsSeq(Popped)
    BY <2>1, <2>2, SafeAgain DEF Taken, Placed
  <2>4. SitsOn(f, e) BY Anywhere DEF Passing
  <2>5. Step(nodes, Popped \o <<e, f>>, position, {}) BY <1>6 DEF HandleStatementForHeaderIn
  <2> HIDE DEF e, f
  <2>6. Safe(Popped \o <<e, f>>, nodes, {}) BY <2>3, <2>4, SafeOver
  <2> QED BY <2>1, <2>5, <2>6, KeptStep
<1>7. ASSUME HandleStatementForHeaderFinish PROVE Kept'
  <2>1. Taken BY <1>7, Taking DEF HandleStatementForHeaderFinish
  <2> DEFINE close == ConsumeAndAddCloseSymbol(Top.token, "ForHeader")
             e     == Entry("CodeBlock", close.position, close.nodes)
  <2>2. Safe(Popped, close.nodes, close.diags) BY <2>1, SafeEnd
  <2>3. CheckedStep(close.ok, close.nodes, Append(Popped, e), close.position, close.diags)
    BY <1>7 DEF HandleStatementForHeaderFinish
  <2> HIDE DEF close
  <2>4. Sits(e, Popped) BY Anywhere DEF Passing
  <2> HIDE DEF e
  <2>5. Safe(Append(Popped, e), close.nodes, close.diags) BY <2>2, <2>4, SafePush
  <2> QED BY <2>1, <2>3, <2>5, KeptChecked
<1>8. ASSUME HandleStatementForFinish PROVE Kept'
  <2>1. Taken BY <1>8, Taking DEF HandleStatementForFinish
  <2> QED BY <1>8, <2>1, SafeCloseTop, KeptStep DEF HandleStatementForFinish
<1>9. ASSUME HandleConditionalStatement PROVE Kept'
  <2>1. PICK v \in ConditionKind : HandleConditionalStatement!(v)
    BY <1>9 DEF HandleConditionalStatement
  <2>2. Taken /\ Safe(Popped, nodes, {}) BY <2>1, StatementPlaces, Taking
  <2>3. /\ Sits(Here(v.condition_finish), Popped)
        /\ SitsOn(Here(v.condition), Here(v.condition_finish))
    BY StatementPlaces, Anywhere
  <2> QED BY <2>1, <2>2, <2>3, SafeStep
<1>10. ASSUME HandleParenCondition PROVE Kept'
  <2>1. PICK v \in ConditionKind : HandleParenCondition!(v) BY <1>10 DEF HandleParenCondition
  <2>2. Taken /\ Safe(Popped, nodes, {}) /\ IsEntry(Top)
    BY <2>1, StatementPlaces, Taking DEF Taken
  <2> DEFINE open   == ConsumeAndAddOpenParen(Top.token, v.start_node)
             finish == [TopAs(v.paren_finish) EXCEPT !.token = open.token]
             f      == Entry("Expression", open.position, open.nodes)
             ns     == AddLeafNode(open.nodes, "InvalidParse", open.position, TRUE)
  <2>3. Safe(Popped, open.nodes, open.diags) BY <2>2, SafeStart
  <2>4. \/ Step(ns, Append(Popped, finish), open.position, open.diags)
        \/ Step(open.nodes, Popped \o <<finish, f>>, open.position, open.diags)
    BY <2>1
  <2> HIDE DEF open
  <2>5. IsEntry(finish) /\ finish.state = v.paren_finish BY <2>2, TopSet, Zenon
  <2>6. SitsOn(f, finish) BY Anywhere DEF Passing
  <2>7. Safe(Popped, ns, open.diags) BY <2>3, SafeNode
  <2> HIDE DEF finish, f, ns
  <2>8. Sits(finish, Popped) BY <2>5, StatementPlaces DEF Sits
  <2> QED BY <2>2, <2>3, <2>4, <2>6, <2>7, <2>8, SafeStep
<1>11. ASSUME HandleParenConditionFinish PROVE Kept'
  <2>1. PICK v \in ConditionKind : HandleParenConditionFinish!(v)
    BY <1>11 DEF HandleParenConditionFinish
  <2>2. Taken BY <2>1, Taking
  <2> DEFINE close == ConsumeAndAddCloseSymbol(Top.token, v.node)
  <2>3. Safe(Popped, close.nodes, close.diags) BY <2>2, SafeEnd
  <2> HIDE DEF close
  <2> QED BY <2>1, <2>2, <2>3, KeptChecked DEF close
<1>12. ASSUME HandleConditionFinish PROVE Kept'
  <2>1. PICK v \in ConditionKind : HandleConditionFinish!(v) BY <1>12 DEF HandleConditionFinish
  <2>2. Taken /\ Safe(Popped, nodes, {}) BY <2>1, StatementPlaces, Taking
  <2>3. Sits(TopAs(v.block_finish), Popped) BY <2>2, StatementPlaces, Anywhere DEF Taken
  <2>4. SitsOn(Here("CodeBlock"), TopAs(v.block_finish)) BY Anywhere DEF Passing
  <2> QED BY <2>1, <2>2, <2>3, <2>4, SafeStep
<1>13. ASSUME HandleStatementIfThenBlockFinish PROVE Kept'
  <2>1. Taken /\ Safe(Popped, nodes, {})
    BY <1>13, Taking DEF HandleStatementIfThenBlockFinish, Carriers
  <2> DEFINE ns == ConsumedLeaf("IfStatementElse")
             e  == TopAs("StatementIfElseBlockFinish")
             s  == IF Kind(position + 1) = "If" THEN "StatementIf" ELSE "CodeBlock"
             f  == Entry(s, position + 1, ns)
  <2>2. \/ Step(ns, Popped \o <<e, f>>, position + 1, {})
        \/ Step(AddTopNode("IfStatement", Top.token, Top.has_error), Popped, position, {})
    BY <1>13 DEF HandleStatementIfThenBlockFinish
  <2>3. Safe(Popped, ns, {}) BY <2>1, SafeLeaf
  <2>4. Sits(e, Popped) BY <2>1, Anywhere DEF Passing, Taken
  <2>5. s \notin Passing BY DEF Passing
  <2> HIDE DEF s
  <2>6. SitsOn(f, e) BY <2>5, Anywhere
  <2> HIDE DEF ns, e, f
  <2> QED BY <2>1, <2>2, <2>3, <2>4, <2>6, SafeStep, SafeCloseTop, KeptStep
<1>14. ASSUME HandleStatementIfElseBlockFinish PROVE Kept'
  <2>1. Taken BY <1>14, Taking DEF HandleStatementIfElseBlockFinish
  <2> QED BY <1>14, <2>1, SafeCloseTop, KeptStep DEF HandleStatementIfElseBlockFinish
<1>15. ASSUME HandleStatementWhileBlockFinish PROVE Kept'
  <2>1. Taken BY <1>15, Taking DEF HandleStatementWhileBlockFinish
  <2> QED BY <1>15, <2>1, SafeCloseTop, KeptStep DEF HandleStatementWhileBlockFinish
<1>16. ASSUME HandleCodeBlock PROVE Kept'
  <2>1. Taken /\ Safe(Popped, nodes, {}) BY <1>16, Taking DEF HandleCodeBlock, Carriers
  <2> DEFINE ns == ConsumedLeaf("CodeBlockStart")
             ms == AddLeafNode(nodes, "CodeBlockStart", position, TRUE)
             e  == Here("CodeBlockFinish")
             f  == Entry("StatementScopeLoop", position + 1, ns)
             g  == Entry("Statement", position, ms)
  <2>2. \/ Step(ns, Popped \o <<e, f>>, position + 1, {})
        \/ Step(ms, Popped \o <<e, g>>, position, {position})
    BY <1>16 DEF HandleCodeBlock
  <2>3. Safe(Popped, ns, {}) BY <2>1, SafeLeaf
  <2>4. Safe(Popped, ms, {position}) BY <2>1, SafeFault
  <2>5. IsEntry(e) /\ IsEntry(f) /\ IsEntry(g) /\ e.state = "CodeBlockFinish" BY Fresh
  <2> HIDE DEF ns, ms, e, f, g
  <2>6. Sits(e, Popped) /\ SitsOn(f, e) /\ SitsOn(g, e)
    BY <2>5 DEF Sits, SitsOn, Carriers, Passing
  <2> QED BY <2>1, <2>2, <2>3, <2>4, <2>6, SafeStep
<1>17. ASSUME HandleCodeBlockFinish PROVE Kept'
  <2>1. Taken BY <1>17, Taking DEF HandleCodeBlockFinish
  <2>2. CASE Step(AddTopNode("CodeBlock", position, Top.has_error), Popped, position + 1, {})
    BY <2>1, <2>2, SafeCloseTop, KeptStep
  <2>3. CASE Step(AddTopNode("CodeBlock", Top.token, TRUE), Popped, position, {})
    <3>1. Safe(Popped, AddTopNode("CodeBlock", Top.token, TRUE), {}) BY <2>1, SafeFault
    <3> QED BY <2>1, <2>3, <3>1, KeptStep
  <2> QED BY <1>17, <2>2, <2>3 DEF HandleCodeBlockFinish
<1> QED
  BY <1>1, <1>2, <1>3, <1>4, <1>5, <1>6, <1>7, <1>8, <1>9, <1>10, <1>11,
     <1>12, <1>13, <1>14, <1>15, <1>16, <1>17 DEF Statement

-----------------------------------------------------------------------------
(* Expressions. *)

(* A field of a state is set. *)
WithState(e, x) == [e EXCEPT !.state = x]

WithError(e, x) == [e EXCEPT !.has_error = x]

WithToken(e, x) == [e EXCEPT !.token = x]

WithLevel(e, x) == [e EXCEPT !.lhs_precedence = x]

(* What setting a field leaves. *)
LEMMA FieldSet ==
  ASSUME NEW e, NEW x, IsEntry(e)
  PROVE  /\ IsEntry(WithState(e, x)) /\ WithState(e, x).state = x
         /\ WithState(e, x).has_error = e.has_error
         /\ IsEntry(WithError(e, x)) /\ WithError(e, x).state = e.state
         /\ WithError(e, x).has_error = x
         /\ IsEntry(WithToken(e, x)) /\ WithToken(e, x).state = e.state
         /\ WithToken(e, x).has_error = e.has_error
         /\ IsEntry(WithLevel(e, x)) /\ WithLevel(e, x).state = e.state
<1>1. /\ IsEntry([e EXCEPT !.state = x]) /\ [e EXCEPT !.state = x].state = x
      /\ [e EXCEPT !.state = x].has_error = e.has_error
  BY EntryUpdate, EntryMarks
<1> QED BY <1>1, Updated DEF WithState, WithError, WithToken, WithLevel

(* Diagnostics about operators need no mark. *)
LEMMA SafeExcuse ==
  ASSUME NEW b, NEW ns, NEW ds, Safe(b, ns, {}), Excused(ds)
  PROVE  Safe(b, ns, ds)
BY DEF Safe

(* Diagnostics at an operator. *)
LEMMA OperatorExcused ==
  ASSUME PositionKind \in TrailingOperators \union DOMAIN ForLeading
  PROVE  /\ Excused({position})
         /\ \A fixity : Excused(DiagnoseOperatorFixity(fixity))
         /\ \A op : Excused(PrefixOperatorDiagnostics(op))
<1>1. Excused({position}) /\ Excused({}) BY DEF Excused, PositionKind
<1>2. \A fixity : DiagnoseOperatorFixity(fixity) \in {{position}, {}}
  BY DEF DiagnoseOperatorFixity
<1>3. \A op : PrefixOperatorDiagnostics(op) \in {{position}, {}}
  BY <1>2 DEF PrefixOperatorDiagnostics
<1> QED BY <1>1, <1>2, <1>3

(* The last entry is replaced. *)
LEMMA SafeReplace ==
  ASSUME NEW b, NEW ns, NEW ds, NEW e, Safe(b, ns, ds),
         b # <<>> => /\ IsEntry(e)
                     /\ b[Len(b)].has_error => e.has_error
                     /\ \/ e.state = b[Len(b)].state
                        \/ e.state \in Carriers \ Passing
  PROVE  /\ Safe([b EXCEPT ![Len(b)] = e], ns, ds)
         /\ Based(b) => Based([b EXCEPT ![Len(b)] = e])
<1> DEFINE p == [b EXCEPT ![Len(b)] = e]
<1>1. Placed(p) /\ (Carried(b) => Carried(p)) /\ (Based(b) => Based(p))
  BY PlacedReplace DEF Safe
<1> HIDE DEF p
<1>2. Safe(p, ns, ds) BY <1>1 DEF Safe
<1> QED BY <1>1, <1>2 DEF p

(* The states of the tables of expressions. *)
LEMMA ExpressionPlaces ==
  /\ \A k \in DOMAIN GroupState : GroupState[k] \notin Passing
  /\ \A k \in DOMAIN PostfixState : PostfixState[k] \notin Passing
  /\ \A s \in DOMAIN OperatorNode : s \notin Carriers
  /\ \A v \in PeriodKind : v.state \notin Carriers
  /\ \A s \in ParenParameterFinishStates : s \in Passing \ Carriers
  /\ \A v \in BraceKind :
       /\ v.param \in Passing \ Carriers /\ v.after \in Passing \ Carriers
       /\ v.param_finish \in Passing \intersect Carriers
       /\ v.finish \in Carriers \ Passing
<1> USE DEF Passing, Carriers
<1>1. \A k \in DOMAIN GroupState : GroupState[k] \notin Passing BY DEF GroupState
<1>2. \A k \in DOMAIN PostfixState : PostfixState[k] \notin Passing BY DEF PostfixState
<1>3. \A s \in DOMAIN OperatorNode : s \notin Carriers BY DEF OperatorNode
<1>4. \A v \in PeriodKind : v.state \notin Carriers BY DEF PeriodKind
<1>5. \A s \in ParenParameterFinishStates : s \in Passing \ Carriers
  BY DEF ParenParameterFinishStates
<1>6. \A v \in BraceKind :
        /\ v.param \in Passing \ Carriers /\ v.after \in Passing \ Carriers
        /\ v.param_finish \in Passing \intersect Carriers
        /\ v.finish \in Carriers \ Passing
  BY DEF BraceKind
<1> HIDE DEF Passing, Carriers
<1> QED BY <1>1, <1>2, <1>3, <1>4, <1>5, <1>6

(* An error in a field of a struct is held by the state that ends it. *)
LEMMA BraceErrorKept ==
  ASSUME Taken, Based(Popped), NEW s \in Carriers, NEW pos,
         BraceParameterError(Popped, s, pos)
  PROVE  Kept'
<1> DEFINE x == TRUE
           e == WithError(TopAs(s), x)
<1>1. x OBVIOUS
<1>2. Step(nodes, Append(Popped, e), pos, {pos}) BY DEF BraceParameterError, WithError
<1> HIDE DEF x
<1>3. IsEntry(e) /\ e.state = s /\ e.has_error
  <2>1. IsEntry(TopAs(s)) /\ TopAs(s).state = s BY Returned DEF Taken
  <2> QED BY <1>1, <2>1, FieldSet
<1> HIDE DEF e
<1>4. Sits(e, Popped) /\ Bears(e) BY <1>3 DEF Sits, Bears
<1>5. Safe(Append(Popped, e), nodes, {pos}) BY <1>4, SafeBearer DEF Taken
<1> QED BY <1>2, <1>5, KeptStep

(* An operand, or a prefix operator: only the operator is diagnosed. *)
LEMMA OperandKept ==
  ASSUME Inductive, Kept, HandleExpression
  PROVE  Kept'
<1>1. Taken /\ Safe(Popped, nodes, {}) BY Taking DEF HandleExpression, Carriers
<1> DEFINE op == ForLeading[PositionKind]
           a  == Here("IfExpressionFinish")
           b  == Here("IfExpressionFinishCondition")
           c  == StateStackEntry("ExpressionLoopForPrefix", Top.ambient_precedence,
                                 op, position, Len(nodes))
           d  == StateStackEntry("ExpressionLoop", Top.ambient_precedence,
                                 ForPostfixExpression, position, Len(nodes))
           e  == Here("ExpressionInPostfix")
           g  == ExpressionEntry(op, position + 1, nodes)
           ds == PrefixOperatorDiagnostics(op)
<1>2. \/ /\ PositionKind \in DOMAIN ForLeading
         /\ \/ Step(nodes, Popped \o <<a, b>> \o <<g>>, position + 1, ds)
            \/ Step(nodes, Popped \o <<c>> \o <<g>>, position + 1, ds)
      \/ Step(nodes, Popped \o <<d, e>>, position, {})
  BY DEF HandleExpression
<1>3. Sits(a, Popped) /\ SitsOn(b, a) /\ SitsOn(e, d)
  BY Anywhere DEF Passing
<1>4. Sits(c, Popped) /\ Sits(d, Popped) BY Fresh DEF Sits, Passing
<1>5. \A p : Sits(g, p) BY OperandAnywhere
<1>6. PositionKind \in DOMAIN ForLeading => Excused(ds) BY OperatorExcused
<1> HIDE DEF a, b, c, d, e, g, ds
<1>7. CASE /\ PositionKind \in DOMAIN ForLeading
           /\ Step(nodes, Popped \o <<a, b>> \o <<g>>, position + 1, ds)
  <2>1. Safe(Popped \o <<a, b>>, nodes, {}) BY <1>1, <1>3, SafePushMore
  <2>2. Safe(Popped \o <<a, b>> \o <<g>>, nodes, {}) BY <1>5, <2>1, SafePushMore
  <2>3. Safe(Popped \o <<a, b>> \o <<g>>, nodes, ds) BY <1>6, <1>7, <2>2, SafeExcuse
  <2> QED BY <1>1, <1>7, <2>3, KeptStep
<1>8. CASE /\ PositionKind \in DOMAIN ForLeading
           /\ Step(nodes, Popped \o <<c>> \o <<g>>, position + 1, ds)
  <2>1. Safe(Popped \o <<c>>, nodes, {}) BY <1>1, <1>4, SafePushMore
  <2>2. Safe(Popped \o <<c>> \o <<g>>, nodes, {}) BY <1>5, <2>1, SafePushMore
  <2>3. Safe(Popped \o <<c>> \o <<g>>, nodes, ds) BY <1>6, <1>8, <2>2, SafeExcuse
  <2> QED BY <1>1, <1>8, <2>3, KeptStep
<1>9. CASE Step(nodes, Popped \o <<d, e>>, position, {})
  BY <1>1, <1>3, <1>4, <1>9, SafeStep
<1> QED BY <1>2, <1>7, <1>8, <1>9

(* A primary expression, or none. *)
LEMMA PostfixKept ==
  ASSUME Inductive, Kept, HandleExpressionInPostfix
  PROVE  Kept'
<1>1. Taken /\ Safe(Popped, nodes, {}) BY Taking DEF HandleExpressionInPostfix, Carriers
<1> DEFINE e == TopAs("ExpressionInPostfixLoop")
           f == Here(GroupState[PositionKind])
           bad == AddLeafNode(nodes, "InvalidParse", position, TRUE)
<1>2. \/ \E k : Step(ConsumedLeaf(k), Append(Popped, e), position + 1, {})
      \/ /\ PositionKind \in DOMAIN GroupState
         /\ Step(nodes, Popped \o <<e, f>>, position, {})
      \/ Step(bad, ReturnErrorOnState(Popped), position, {position})
  BY DEF HandleExpressionInPostfix
<1>3. Sits(e, Popped) BY <1>1, Anywhere DEF Taken, Passing
<1>4. PositionKind \in DOMAIN GroupState => SitsOn(f, e) BY ExpressionPlaces, Anywhere
<1>5. Safe(ReturnErrorOnState(Popped), bad, {position}) BY <1>1, SafeFault
<1> HIDE DEF e, f, bad
<1>6. CASE \E k : Step(ConsumedLeaf(k), Append(Popped, e), position + 1, {})
  BY <1>1, <1>3, <1>6, SafeLeaf, SafeStep
<1>7. CASE PositionKind \in DOMAIN GroupState /\ Step(nodes, Popped \o <<e, f>>, position, {})
  BY <1>1, <1>3, <1>4, <1>7, SafeStep
<1>8. CASE Step(bad, ReturnErrorOnState(Popped), position, {position})
  BY <1>1, <1>5, <1>8, KeptStep
<1> QED BY <1>2, <1>6, <1>7, <1>8

(* A postfix form, or the end of them. *)
LEMMA PostfixLoopKept ==
  ASSUME Inductive, Kept, HandleExpressionInPostfixLoop
  PROVE  Kept'
<1>1. /\ Taken /\ Safe(Popped, nodes, {}) /\ IsEntry(Top)
      /\ Top.state = "ExpressionInPostfixLoop"
  BY Taking DEF HandleExpressionInPostfixLoop, Carriers, Taken
<1> DEFINE again == WithToken(Top, position)
           s     == PostfixState[PositionKind]
           f     == WithState(again, s)
<1>2. \/ /\ PositionKind \in DOMAIN PostfixState
         /\ Step(nodes, Popped \o <<again, f>>, position, {})
      \/ Step(nodes, ReturnErrorIf(Top.has_error, Popped), position, {})
  BY DEF HandleExpressionInPostfixLoop, WithToken, WithState
<1>3. PositionKind \in DOMAIN PostfixState => s \notin Passing BY ExpressionPlaces
<1> HIDE DEF s
<1>4. IsEntry(again) /\ again.state = "ExpressionInPostfixLoop" BY <1>1, FieldSet
<1> HIDE DEF again
<1>5. IsEntry(f) /\ f.state = s BY <1>4, FieldSet
<1> HIDE DEF f
<1>6. Sits(again, Popped) BY <1>4 DEF Sits, Passing
<1>7. PositionKind \in DOMAIN PostfixState => SitsOn(f, again) BY <1>3, <1>5 DEF SitsOn
<1>8. Safe(ReturnErrorIf(Top.has_error, Popped), nodes, {}) BY <1>1, SafeMark
<1> QED BY <1>1, <1>2, <1>6, <1>7, <1>8, SafeStep, KeptStep

(* A trailing operator: only the operator is diagnosed. *)
LEMMA LoopKept ==
  ASSUME Inductive, Kept, HandleExpressionLoop
  PROVE  Kept'
<1>1. /\ Taken /\ Safe(Popped, nodes, {}) /\ IsEntry(Top) /\ Top.state = "ExpressionLoop"
  BY Taking DEF HandleExpressionLoop, Carriers, Taken
<1> DEFINE op     == TrailingOperator.level
           error  == Top.has_error \/ ~OperatorNests
           ns     == IF PositionKind \in {"And", "Or"}
                     THEN AddTopNode("ShortCircuitOperand", position, error) ELSE nodes
           ms     == AddTopNode("PostfixOperator", position, error)
           binary == WithError(WithLevel(WithToken(TopAs("ExpressionLoopForBinary"),
                                                   position), op), error)
           no     == FALSE
           after  == WithLevel(WithError(WithToken(Top, position), no), op)
           f      == ExpressionEntry(op, position + 1, ns)
           ds(x)  == IF OperatorNests THEN DiagnoseOperatorFixity(x) ELSE {position}
<1>2. \/ Step(nodes, ReturnErrorIf(Top.has_error, Popped), position, {})
      \/ /\ OperatorAccepted
         /\ \/ Step(ns, Popped \o <<binary, f>>, position + 1, ds("Infix"))
            \/ Step(ms, Append(Popped, after), position + 1, ds("Postfix"))
  BY DEF HandleExpressionLoop, WithError, WithLevel, WithToken
<1>3. OperatorAccepted => \A x : Excused(ds(x))
  BY OperatorExcused DEF OperatorAccepted
<1>4. Safe(Popped, ns, {}) /\ Safe(Popped, ms, {}) BY <1>1, SafeNode DEF AddTopNode
<1> HIDE DEF op, error, no, ns, ms
<1>5. Sits(binary, Popped)
  <2>1. IsEntry(TopAs("ExpressionLoopForBinary"))
        /\ TopAs("ExpressionLoopForBinary").state = "ExpressionLoopForBinary"
    BY <1>1, Returned
  <2>2. IsEntry(binary) /\ binary.state = "ExpressionLoopForBinary" BY <2>1, FieldSet
  <2> HIDE DEF binary
  <2> QED BY <2>2 DEF Sits, Passing
<1>6. Sits(after, Popped)
  <2>1. IsEntry(after) /\ after.state = "ExpressionLoop" BY <1>1, FieldSet
  <2> HIDE DEF after
  <2> QED BY <2>1 DEF Sits, Passing
<1> HIDE DEF after
<1>7. SitsOn(f, binary) BY OperandAnywhere
<1> HIDE DEF binary, f, ds
<1>8. CASE Step(nodes, ReturnErrorIf(Top.has_error, Popped), position, {})
  BY <1>1, <1>8, SafeMark, KeptStep
<1>9. CASE OperatorAccepted /\ Step(ns, Popped \o <<binary, f>>, position + 1, ds("Infix"))
  <2>1. Safe(Popped, ns, ds("Infix")) BY <1>3, <1>4, <1>9, SafeExcuse
  <2> QED BY <1>1, <1>5, <1>7, <1>9, <2>1, SafeStep
<1>10. CASE OperatorAccepted /\ Step(ms, Append(Popped, after), position + 1, ds("Postfix"))
  <2>1. Safe(Popped, ms, ds("Postfix")) BY <1>3, <1>4, <1>10, SafeExcuse
  <2> QED BY <1>1, <1>6, <1>10, <2>1, SafeStep
<1> QED BY <1>2, <1>8, <1>9, <1>10

(* The element of a tuple: its state is marked, or the one below. *)
LEMMA ParenParameterKept ==
  ASSUME Inductive, Kept, HandleParenExpressionParameterFinish
  PROVE  Kept'
<1>1. PICK s \in ParenParameterFinishStates : HandleParenExpressionParameterFinish!(s)
  BY DEF HandleParenExpressionParameterFinish
<1>2. Taken /\ Safe(Popped, nodes, {}) /\ Based(Popped) BY <1>1, ExpressionPlaces, Taking
<1> DEFINE error    == ListError("CloseParen", Top.has_error)
           item     == ConsumeListToken("TupleLiteralComma", "CloseParen", nodes)
           stack    == ReturnErrorIf(error, Popped)
           is_first == s = "ParenExpressionParameterFinishAsUnknown"
           last     == stack[Len(stack)]
           tuple    == WithState(last, "ParenExpressionFinishAsTuple")
           as_tuple == IF is_first THEN [stack EXCEPT ![Len(stack)] = tuple] ELSE stack
           ok       == /\ ListElementEnds("CloseParen")
                       /\ item.token_kind # "Close" /\ is_first =>
                            last.state = "ParenExpressionFinishAsNormal"
           e        == TopAs("ParenExpressionParameterFinishAsTuple")
           f        == Entry("Expression", item.position, item.nodes)
           ds       == DiagnosedIf(error)
<1>3. \/ \E p : CheckedStep(ok, item.nodes, stack, p, ds)
      \/ \E p : CheckedStep(ok, item.nodes, as_tuple, p, ds)
      \/ \E p : CheckedStep(ok, item.nodes, as_tuple \o <<e, f>>, p, ds)
  <2>1. CheckedStep(ok, item.nodes,
          CASE item.token_kind = "Close"      -> stack
            [] item.token_kind = "CommaClose" -> as_tuple
            [] item.token_kind = "Comma"      -> as_tuple \o <<e, f>>,
          item.position, ds)
    BY <1>1 DEF WithState
  <2>2. item.token_kind \in {"Close", "CommaClose", "Comma"} BY DEF ConsumeListToken
  <2> HIDE DEF item, stack, as_tuple, e, f, ok, error, ds
  <2>3. CASE item.token_kind = "Close" BY <2>1, <2>3
  <2>4. CASE item.token_kind = "CommaClose" BY <2>1, <2>4
  <2>5. CASE item.token_kind = "Comma" BY <2>1, <2>5
  <2> QED BY <2>2, <2>3, <2>4, <2>5
<1>4. Safe(Popped, item.nodes, {}) BY <1>2, SafeListItem
<1>5. IsEntry(e) /\ IsEntry(f) /\ f.state = "Expression" BY <1>2, Returned, Fresh DEF Taken
<1> HIDE DEF item, e, f
<1>6. Safe(stack, item.nodes, ds) /\ Based(stack) BY <1>2, <1>4, SafeListError
<1> HIDE DEF stack, ds, error
<1>7. Safe(as_tuple, item.nodes, ds) /\ Based(as_tuple)
  <2>1. CASE ~is_first BY <1>6, <2>1
  <2>2. CASE is_first
    <3>1. stack # <<>> => /\ IsEntry(tuple) /\ tuple.state = "ParenExpressionFinishAsTuple"
                          /\ tuple.has_error = last.has_error
      <4>1. stack # <<>> => IsEntry(last) BY <1>6, PlacedPop DEF Safe
      <4> HIDE DEF last
      <4> QED BY <4>1, FieldSet
    <3>2. "ParenExpressionFinishAsTuple" \in Carriers \ Passing BY DEF Carriers, Passing
    <3> HIDE DEF tuple
    <3>3. /\ Safe([stack EXCEPT ![Len(stack)] = tuple], item.nodes, ds)
          /\ Based([stack EXCEPT ![Len(stack)] = tuple])
      BY <1>6, <3>1, <3>2, SafeReplace
    <3> QED BY <2>2, <3>3
  <2> QED BY <2>1, <2>2
<1> HIDE DEF as_tuple, ok
<1>8. Sits(e, as_tuple) /\ SitsOn(f, e) BY <1>5, <1>7 DEF Sits, SitsOn, Passing
<1>9. Safe(as_tuple \o <<e, f>>, item.nodes, ds) BY <1>7, <1>8, SafePushMore
<1> QED BY <1>2, <1>3, <1>6, <1>7, <1>9, KeptChecked

(* A field of a struct after its name. *)
LEMMA AfterDesignatorKept ==
  ASSUME Inductive, Kept, HandleBraceExpressionParameterAfterDesignator
  PROVE  Kept'
<1>1. PICK v \in BraceKind : HandleBraceExpressionParameterAfterDesignator!(v)
  BY DEF HandleBraceExpressionParameterAfterDesignator
<1>2. Taken /\ Safe(Popped, nodes, {}) /\ Based(Popped) BY <1>1, ExpressionPlaces, Taking
<1> DEFINE last     == Popped[Len(Popped)]
           state(w) == IF v.sep # "none" THEN last.state ELSE w.finish
           marked(w) == WithState(last, state(w))
           stack(w) == [Popped EXCEPT ![Len(Popped)] = marked(w)]
           e(w, p)  == WithToken(TopAs(w.param_finish), p)
           f(p)     == Entry("Expression", p + 1, nodes)
           ok       == v.sep # "none" \/ last.state = v.finish
<1>3. \/ Step(nodes, Append(Popped, TopAs(v.param_finish)), position, {})
      \/ \E p : BraceParameterError(Popped, v.param_finish, p)
      \/ \E w \in BraceKind : \E p :
           CheckedStep(ok, nodes, stack(w) \o <<e(w, p), f(p)>>, p + 1, {})
  BY <1>1 DEF WithState, WithToken
<1>4. CASE Step(nodes, Append(Popped, TopAs(v.param_finish)), position, {})
  <2>1. Sits(TopAs(v.param_finish), Popped) BY <1>2, Returned DEF Sits, Taken
  <2> QED BY <1>2, <1>4, <2>1, SafeStep
<1>5. CASE \E p : BraceParameterError(Popped, v.param_finish, p)
  BY <1>2, <1>5, ExpressionPlaces, BraceErrorKept
<1>6. ASSUME NEW w \in BraceKind, NEW p,
             CheckedStep(ok, nodes, stack(w) \o <<e(w, p), f(p)>>, p + 1, {})
      PROVE  Kept'
  <2>1. Popped # <<>> => /\ IsEntry(marked(w)) /\ marked(w).state = state(w)
                         /\ marked(w).has_error = last.has_error
    <3>1. Popped # <<>> => IsEntry(last) BY <1>2, PlacedPop DEF Safe
    <3> HIDE DEF last, state
    <3> QED BY <3>1, FieldSet
  <2>2. state(w) = last.state \/ state(w) \in Carriers \ Passing BY ExpressionPlaces
  <2> HIDE DEF marked
  <2>3. Safe(stack(w), nodes, {}) /\ Based(stack(w)) BY <1>2, <2>1, <2>2, SafeReplace
  <2>4. IsEntry(e(w, p)) /\ IsEntry(f(p)) /\ f(p).state = "Expression"
    BY <1>2, Returned, FieldSet, Fresh DEF Taken
  <2> HIDE DEF stack, e, f, ok
  <2>5. Sits(e(w, p), stack(w)) /\ SitsOn(f(p), e(w, p))
    BY <2>3, <2>4 DEF Sits, SitsOn, Passing
  <2>6. Safe(stack(w) \o <<e(w, p), f(p)>>, nodes, {}) BY <2>3, <2>5, SafePushMore
  <2> QED BY <1>2, <1>6, <2>6, KeptChecked
<1> QED BY <1>3, <1>4, <1>5, <1>6

(* A field of a struct ends: its error becomes an erroneous node. *)
LEMMA BraceParameterKept ==
  ASSUME Inductive, Kept, HandleBraceExpressionParameterFinish
  PROVE  Kept'
<1>1. PICK v \in BraceKind : HandleBraceExpressionParameterFinish!(v)
  BY DEF HandleBraceExpressionParameterFinish
<1>2. Taken /\ Based(Popped) BY <1>1, ExpressionPlaces, Taking
<1> DEFINE ns    == IF Top.has_error
                    THEN AddLeafNode(nodes, "StructFieldUnknown", Top.token, TRUE)
                    ELSE AddTopNode(v.field, Top.token, FALSE)
           error == ListError("CloseCurlyBrace", Top.has_error)
           item  == ConsumeListToken("StructComma", "CloseCurlyBrace", ns)
           stack == ReturnErrorIf(error, Popped)
           e     == Entry(v.param, item.position, item.nodes)
           ok    == ListElementEnds("CloseCurlyBrace")
           ds    == DiagnosedIf(error)
<1>3. \/ \E p : CheckedStep(ok, item.nodes, Append(stack, e), p, ds)
      \/ \E p : CheckedStep(ok, item.nodes, stack, p, ds)
  BY <1>1
<1>4. Safe(Popped, ns, {})
  <2>1. CASE Top.has_error
    <3>1. Safe(Popped, AddLeafNode(nodes, "StructFieldUnknown", Top.token, TRUE), {})
      BY <1>2, SafeFault
    <3> QED BY <2>1, <3>1
  <2>2. CASE ~Top.has_error
    <3>1. Safe(Popped, AddTopNode(v.field, Top.token, FALSE), {}) BY <1>2, <2>2, SafeClose
    <3> QED BY <2>2, <3>1
  <2> QED BY <2>1, <2>2
<1>5. IsEntry(e) BY Fresh
<1> HIDE DEF ns, ok, e
<1>6. Safe(Popped, item.nodes, {}) BY <1>4, SafeListItem
<1> HIDE DEF item
<1>7. Safe(stack, item.nodes, ds) /\ Based(stack) BY <1>2, <1>6, SafeListError
<1> HIDE DEF stack, ds, error
<1>8. Safe(Append(stack, e), item.nodes, ds) BY <1>5, <1>7, SafePush DEF Sits
<1> QED BY <1>2, <1>3, <1>7, <1>8, KeptChecked

(* The handlers of expressions. *)
LEMMA ExpressionKept ==
  ASSUME Inductive, Kept, Expression
  PROVE  Kept'
<1>1. ASSUME HandleExpressionLoopForOperator PROVE Kept'
  <2>1. PICK s \in DOMAIN OperatorNode : HandleExpressionLoopForOperator!(s)
    BY <1>1 DEF HandleExpressionLoopForOperator
  <2>2. Taken /\ IsEntry(Top) BY <2>1, Taking DEF Taken
  <2> DEFINE no == FALSE
             e  == [TopAs("ExpressionLoop") EXCEPT !.has_error = no]
             ns == AddTopNode(OperatorNode[s], Top.token, Top.has_error)
  <2>3. Step(ns, Append(Popped, e), position, {}) BY <2>1
  <2>4. Safe(Popped, ns, {}) BY <2>2, SafeCloseTop
  <2> HIDE DEF no, ns
  <2>5. IsEntry(e) /\ e.state = "ExpressionLoop" BY <2>2, TopSet, Zenon
  <2> HIDE DEF e
  <2>6. Sits(e, Popped) BY <2>5 DEF Sits, Passing
  <2> QED BY <2>2, <2>3, <2>4, <2>6, SafeStep
<1>2. ASSUME HandleIfExpressionFinishCondition PROVE Kept'
  <2>1. Taken BY <1>2, Taking DEF HandleIfExpressionFinishCondition
  <2> DEFINE ns == AddTopNode("IfExpressionIf", Top.token, Top.has_error)
             e  == Entry("IfExpressionFinishThen", position, ns)
             f  == ExpressionEntry(ForLeading["If"], position + 1, ns)
             ms == AddLeafNode(ns, "InvalidParse", position, TRUE)
             ls == AddLeafNode(ms, "InvalidParse", position, TRUE)
  <2>2. \/ Step(ns, Popped \o <<e, f>>, position + 1, {})
        \/ \E ds : Step(ls, ReturnErrorOnState(Popped), position, ds)
    BY <1>2 DEF HandleIfExpressionFinishCondition
  <2>3. Safe(Popped, ns, {}) BY <2>1, SafeCloseTop
  <2>4. Sits(e, Popped) /\ SitsOn(f, e) BY Anywhere, OperandAnywhere DEF Passing
  <2> HIDE DEF ns, e, f
  <2>5. \A ds : Safe(Popped, ms, ds) BY <2>3, SafeError DEF Safe
  <2> HIDE DEF ms
  <2>6. \A ds : Safe(Popped, ls, ds) BY <2>5, SafeNode
  <2> HIDE DEF ls
  <2>7. \A ds : Safe(ReturnErrorOnState(Popped), ls, ds) BY <2>6, SafeMark
  <2> QED BY <2>1, <2>2, <2>3, <2>4, <2>7, SafeStep, KeptStep
<1>3. ASSUME HandleIfExpressionFinishThen PROVE Kept'
  <2>1. Taken BY <1>3, Taking DEF HandleIfExpressionFinishThen
  <2> DEFINE ns == AddTopNode("IfExpressionThen", Top.token, Top.has_error)
             e  == Entry("IfExpressionFinishElse", position, ns)
             f  == ExpressionEntry(ForLeading["If"], position + 1, ns)
             ms == AddLeafNode(ns, "InvalidParse", position, TRUE)
  <2>2. \/ Step(ns, Popped \o <<e, f>>, position + 1, {})
        \/ \E ds : Step(ms, ReturnErrorOnState(Popped), position, ds)
    BY <1>3 DEF HandleIfExpressionFinishThen
  <2>3. Safe(Popped, ns, {}) BY <2>1, SafeCloseTop
  <2>4. Sits(e, Popped) /\ SitsOn(f, e) BY Anywhere, OperandAnywhere DEF Passing
  <2> HIDE DEF ns, e, f
  <2>5. \A ds : Safe(Popped, ms, ds) BY <2>3, SafeError DEF Safe
  <2> HIDE DEF ms
  <2>6. \A ds : Safe(ReturnErrorOnState(Popped), ms, ds) BY <2>5, SafeMark
  <2> QED BY <2>1, <2>2, <2>3, <2>4, <2>6, SafeStep, KeptStep
<1>4. ASSUME HandleIfExpressionFinishElse PROVE Kept'
  <2>1. Taken /\ Safe(Popped, nodes, {})
    BY <1>4, Taking DEF HandleIfExpressionFinishElse, Carriers
  <2> DEFINE finish == Popped[Len(Popped)]
             error  == finish.has_error \/ Top.has_error
             e      == WithError(WithToken(finish, Top.token), error)
  <2>2. Step(nodes, [Popped EXCEPT ![Len(Popped)] = e], position, {})
    BY <1>4 DEF HandleIfExpressionFinishElse, WithError, WithToken
  <2>3. Popped # <<>> => IsEntry(finish) BY <2>1, PlacedPop DEF Safe
  <2>4. finish.has_error => error OBVIOUS
  <2> HIDE DEF finish, error
  <2>5. Popped # <<>> => IsEntry(e) /\ e.state = finish.state /\ e.has_error = error
    BY <2>3, FieldSet
  <2> HIDE DEF e
  <2>6. Safe([Popped EXCEPT ![Len(Popped)] = e], nodes, {})
    BY <2>1, <2>4, <2>5, SafeReplace DEF finish
  <2> QED BY <2>1, <2>2, <2>6, KeptStep
<1>5. ASSUME HandleIfExpressionFinish PROVE Kept'
  <2>1. Taken BY <1>5, Taking DEF HandleIfExpressionFinish
  <2> QED BY <1>5, <2>1, SafeCloseTop, KeptStep DEF HandleIfExpressionFinish
<1>6. ASSUME HandleExpressionStatementFinish PROVE Kept'
  <2>1. Taken /\ Based(Popped) BY <1>6, Taking DEF HandleExpressionStatementFinish, Passing
  <2>2. CASE Step(AddTopNode("ExpressionStatement", position, Top.has_error), Popped,
                  position + 1, {})
    BY <2>1, <2>2, SafeCloseTop, KeptStep
  <2>3. CASE \E t, p, ds : Step(AddTopNode("ExpressionStatement", t, TRUE), Popped, p, ds)
    <3>1. PICK t, p, ds : Step(AddTopNode("ExpressionStatement", t, TRUE), Popped, p, ds)
      BY <2>3
    <3>2. Safe(Popped, AddTopNode("ExpressionStatement", t, TRUE), ds) BY <2>1, SafeFault
    <3> QED BY <2>1, <3>1, <3>2, KeptStep
  <2>4. CASE \E p, ds : Step(nodes, ReturnErrorOnState(Popped), p, ds)
    BY <2>1, <2>4, SafeMark, KeptStep DEF Taken
  <2> QED BY <1>6, <2>2, <2>3, <2>4 DEF HandleExpressionStatementFinish
<1>7. ASSUME HandlePeriodOrArrow PROVE Kept'
  <2>1. PICK v \in PeriodKind : HandlePeriodOrArrow!(v) BY <1>7 DEF HandlePeriodOrArrow
  <2>2. Taken /\ Safe(Popped, nodes, {}) BY <2>1, ExpressionPlaces, Taking
  <2> DEFINE name     == position + 1
             is_name  == Kind(name) = "Identifier"
             consumed == is_name \/ Kind(name) \in KeywordTokens
             leaf     == AddLeafNode(nodes, "Name", name, ~is_name)
             ns       == AddNode(leaf, v.node, position, Top.subtree_start, Top.has_error)
             ds       == IF is_name THEN {} ELSE {name}
  <2>3. \E p : CheckedStep(PositionKind = v.dot, ns, ReturnErrorIf(~consumed, Popped), p, ds)
    BY <2>1
  <2>4. Safe(Popped, leaf, ds)
    <3>1. CASE is_name BY <2>2, <3>1, SafeNode
    <3>2. CASE ~is_name BY <2>2, <3>2, SafeFault
    <3> QED BY <3>1, <3>2
  <2> HIDE DEF leaf, ds, consumed
  <2>5. Safe(Popped, ns, ds) BY <2>4, SafeNode
  <2> HIDE DEF ns
  <2>6. Safe(ReturnErrorIf(~consumed, Popped), ns, ds) BY <2>5, SafeMark
  <2> QED BY <2>2, <2>3, <2>6, KeptChecked
<1>8. ASSUME HandleCallExpression PROVE Kept'
  <2>1. Taken BY <1>8, Taking DEF HandleCallExpression
  <2> DEFINE ns == AddTopNode("CallExpressionStart", position, Top.has_error)
             e  == TopAs("CallExpressionFinish")
             f  == Entry("CallExpressionParameterFinish", position + 1, ns)
             g  == Entry("Expression", position + 1, ns)
  <2>2. \/ Step(ns, Popped \o <<e>>, position + 1, {})
        \/ Step(ns, Popped \o <<e, f, g>>, position + 1, {})
    BY <1>8 DEF HandleCallExpression
  <2>3. Safe(Popped, ns, {}) BY <2>1, SafeCloseTop
  <2>4. /\ IsEntry(e) /\ IsEntry(f) /\ IsEntry(g)
        /\ e.state = "CallExpressionFinish" /\ g.state = "Expression"
    BY <2>1, Returned, Fresh DEF Taken
  <2> HIDE DEF ns, e, f, g
  <2>5. Sits(e, Popped) /\ SitsOn(f, e) /\ SitsOn(g, f)
    BY <2>4 DEF Sits, SitsOn, Passing, Carriers
  <2>6. Safe(Popped \o <<e>>, ns, {}) /\ Safe(Popped \o <<e, f, g>>, ns, {})
    BY <2>3, <2>5, SafePushMore
  <2> QED BY <2>1, <2>2, <2>6, KeptStep
<1>9. ASSUME HandleCallExpressionParameterFinish PROVE Kept'
  <2>1. Taken /\ Safe(Popped, nodes, {}) /\ Based(Popped)
    BY <1>9, Taking DEF HandleCallExpressionParameterFinish, Passing, Carriers
  <2> DEFINE error == ListError("CloseParen", Top.has_error)
             item  == ConsumeListToken("CallExpressionComma", "CloseParen", nodes)
             stack == ReturnErrorIf(Top.has_error \/ error, Popped)
             e     == Entry("CallExpressionParameterFinish", item.position, item.nodes)
             f     == Entry("Expression", item.position, item.nodes)
             ok    == ListElementEnds("CloseParen")
             ds    == DiagnosedIf(error)
  <2>2. \/ \E p : CheckedStep(ok, item.nodes, stack \o <<e, f>>, p, ds)
        \/ \E p : CheckedStep(ok, item.nodes, stack, p, ds)
    BY <1>9 DEF HandleCallExpressionParameterFinish
  <2>3. IsEntry(e) /\ IsEntry(f) /\ f.state = "Expression" BY Fresh
  <2>4. Safe(Popped, item.nodes, {}) BY <2>1, SafeListItem
  <2> HIDE DEF item, e, f, ok
  <2>5. Safe(stack, item.nodes, ds) /\ Based(stack) BY <2>1, <2>4, SafeListError
  <2> HIDE DEF stack, ds, error
  <2>6. Sits(e, stack) /\ SitsOn(f, e) BY <2>3, <2>5 DEF Sits, SitsOn, Passing
  <2>7. Safe(stack \o <<e, f>>, item.nodes, ds) BY <2>5, <2>6, SafePushMore
  <2> QED BY <2>1, <2>2, <2>5, <2>7, KeptChecked
<1>10. ASSUME HandleCallExpressionFinish PROVE Kept'
  <2>1. Taken BY <1>10, Taking DEF HandleCallExpressionFinish
  <2> QED BY <1>10, <2>1, SafeCloseTop, KeptStep DEF HandleCallExpressionFinish
<1>11. ASSUME HandleIndexExpression PROVE Kept'
  <2>1. Taken BY <1>11, Taking DEF HandleIndexExpression
  <2> DEFINE ns == AddTopNode("IndexExpressionStart", position, Top.has_error)
             e  == TopAs("IndexExpressionFinish")
             f  == Entry("Expression", position + 1, ns)
  <2>2. CheckedStep(PositionKind = "OpenSquareBracket", ns, Popped \o <<e, f>>,
                    position + 1, {})
    BY <1>11 DEF HandleIndexExpression
  <2>3. Safe(Popped, ns, {}) BY <2>1, SafeCloseTop
  <2>4. Sits(e, Popped) /\ SitsOn(f, e) BY <2>1, Anywhere DEF Taken, Passing
  <2> HIDE DEF ns, e, f
  <2>5. Safe(Popped \o <<e, f>>, ns, {}) BY <2>3, <2>4, SafePushMore
  <2> QED BY <2>1, <2>2, <2>5, KeptChecked
<1>12. ASSUME HandleIndexExpressionFinish PROVE Kept'
  <2>1. Taken BY <1>12, Taking DEF HandleIndexExpressionFinish
  <2> DEFINE close == ConsumeAndAddCloseSymbol(Top.token, "IndexExpression")
  <2>2. Safe(Popped, close.nodes, close.diags) BY <2>1, SafeEnd
  <2> HIDE DEF close
  <2> QED BY <1>12, <2>1, <2>2, KeptChecked DEF close, HandleIndexExpressionFinish
<1>13. ASSUME HandleArrayExpression PROVE Kept'
  <2>1. Taken BY <1>13, Taking DEF HandleArrayExpression
  <2> DEFINE ns == AddLeafNode(nodes, "ArrayExpressionStart", position, Top.has_error)
             e  == TopAs("ArrayExpressionSemi")
             f  == Entry("Expression", position + 1, ns)
  <2>2. CheckedStep(PositionKind = "OpenSquareBracket", ns, Popped \o <<e, f>>,
                    position + 1, {})
    BY <1>13 DEF HandleArrayExpression
  <2>3. Safe(Popped, ns, {}) BY <2>1, SafeClose
  <2>4. Sits(e, Popped) /\ SitsOn(f, e) BY <2>1, Anywhere DEF Taken, Passing
  <2> HIDE DEF ns, e, f
  <2>5. Safe(Popped \o <<e, f>>, ns, {}) BY <2>3, <2>4, SafePushMore
  <2> QED BY <2>1, <2>2, <2>5, KeptChecked
<1>14. ASSUME HandleArrayExpressionSemi PROVE Kept'
  <2>1. Taken /\ IsEntry(Top) BY <1>14, Taking DEF HandleArrayExpressionSemi, Taken
  <2> DEFINE has_semi == PositionKind = "Semi"
             error    == Top.has_error \/ ~has_semi
             pos      == IF has_semi THEN position + 1 ELSE position
             ns       == AddTopNode("ArrayExpressionSemi", position, error)
             e        == [TopAs("ArrayExpressionFinish") EXCEPT !.has_error = error]
             f        == Entry("Expression", pos, ns)
             ds       == DiagnosedIf(~has_semi)
  <2>2. \/ Step(ns, Popped \o <<e>>, pos, ds)
        \/ Step(ns, Popped \o <<e, f>>, pos, ds)
    BY <1>14 DEF HandleArrayExpressionSemi
  <2>3. Safe(Popped, ns, ds)
    <3>1. CASE has_semi
      <4>1. Safe(Popped, ns, {}) BY <2>1, SafeClose
      <4> QED BY <3>1, <4>1 DEF DiagnosedIf
    <3>2. CASE ~has_semi BY <2>1, <3>2, SafeFault
    <3> QED BY <3>1, <3>2
  <2> HIDE DEF error, ns, ds
  <2>4. IsEntry(e) /\ e.state = "ArrayExpressionFinish" BY <2>1, TopSet, Zenon
  <2>5. SitsOn(f, e) BY Anywhere DEF Passing
  <2> HIDE DEF e, f, pos
  <2>6. Sits(e, Popped) BY <2>4 DEF Sits, Passing
  <2>7. Safe(Popped \o <<e>>, ns, ds) /\ Safe(Popped \o <<e, f>>, ns, ds)
    BY <2>3, <2>5, <2>6, SafePushMore
  <2> QED BY <2>1, <2>2, <2>7, KeptStep
<1>15. ASSUME HandleArrayExpressionFinish PROVE Kept'
  <2>1. Taken BY <1>15, Taking DEF HandleArrayExpressionFinish
  <2> DEFINE close == ConsumeAndAddCloseSymbol(Top.token, "ArrayExpression")
  <2>2. Safe(Popped, close.nodes, close.diags) BY <2>1, SafeEnd
  <2> HIDE DEF close
  <2> QED BY <1>15, <2>1, <2>2, KeptChecked DEF close, HandleArrayExpressionFinish
<1>16. ASSUME HandleParenExpression PROVE Kept'
  <2>1. Taken /\ Safe(Popped, nodes, {}) BY <1>16, Taking DEF HandleParenExpression, Carriers
  <2> DEFINE ns == ConsumedLeaf("ParenExpressionOrTupleLiteralStart")
             t  == TopAs("ParenExpressionFinishAsTuple")
             e  == TopAs("ParenExpressionFinishAsNormal")
             f  == Entry("ParenExpressionParameterFinishAsUnknown", position + 1, ns)
             g  == Entry("Expression", position + 1, ns)
  <2>2. \/ CheckedStep(PositionKind = "OpenParen", ns, Popped \o <<t>>, position + 1, {})
        \/ CheckedStep(PositionKind = "OpenParen", ns, Popped \o <<e, f, g>>,
                       position + 1, {})
    BY <1>16 DEF HandleParenExpression
  <2>3. Safe(Popped, ns, {}) BY <2>1, SafeLeaf
  <2>4. /\ IsEntry(t) /\ IsEntry(e) /\ IsEntry(f) /\ IsEntry(g)
        /\ t.state = "ParenExpressionFinishAsTuple"
        /\ e.state = "ParenExpressionFinishAsNormal" /\ g.state = "Expression"
    BY <2>1, Returned, Fresh DEF Taken
  <2> HIDE DEF ns, t, e, f, g
  <2>5. Sits(t, Popped) /\ Sits(e, Popped) /\ SitsOn(f, e) /\ SitsOn(g, f)
    BY <2>4 DEF Sits, SitsOn, Passing, Carriers
  <2>6. Safe(Popped \o <<t>>, ns, {}) /\ Safe(Popped \o <<e, f, g>>, ns, {})
    BY <2>3, <2>5, SafePushMore
  <2> QED BY <2>1, <2>2, <2>6, KeptChecked
<1>17. ASSUME HandleParenExpressionFinish PROVE Kept'
  <2>1. PICK s \in DOMAIN ParenFinishNode : HandleParenExpressionFinish!(s)
    BY <1>17 DEF HandleParenExpressionFinish
  <2>2. Taken BY <2>1, Taking
  <2> QED BY <2>1, <2>2, SafeCloseTop, KeptStep
<1>18. ASSUME HandleBraceExpression PROVE Kept'
  <2>1. Taken /\ Safe(Popped, nodes, {}) BY <1>18, Taking DEF HandleBraceExpression, Carriers
  <2> DEFINE ns == ConsumedLeaf("StructLiteralOrStructTypeLiteralStart")
             e  == TopAs("BraceExpressionFinishAsUnknown")
             f  == Entry("BraceExpressionParameterAsUnknown", position + 1, ns)
  <2>2. \/ CheckedStep(PositionKind = "OpenCurlyBrace", ns, Popped \o <<e>>, position + 1, {})
        \/ CheckedStep(PositionKind = "OpenCurlyBrace", ns, Popped \o <<e, f>>,
                       position + 1, {})
    BY <1>18 DEF HandleBraceExpression
  <2>3. Safe(Popped, ns, {}) BY <2>1, SafeLeaf
  <2>4. IsEntry(e) /\ IsEntry(f) /\ e.state = "BraceExpressionFinishAsUnknown"
    BY <2>1, Returned, Fresh DEF Taken
  <2> HIDE DEF ns, e, f
  <2>5. Sits(e, Popped) /\ SitsOn(f, e) BY <2>4 DEF Sits, SitsOn, Passing, Carriers
  <2>6. Safe(Popped \o <<e>>, ns, {}) /\ Safe(Popped \o <<e, f>>, ns, {})
    BY <2>3, <2>5, SafePushMore
  <2> QED BY <2>1, <2>2, <2>6, KeptChecked
<1>19. ASSUME HandleBraceExpressionParameter PROVE Kept'
  <2>1. PICK v \in BraceKind : HandleBraceExpressionParameter!(v)
    BY <1>19 DEF HandleBraceExpressionParameter
  <2>2. Taken /\ Safe(Popped, nodes, {}) /\ Based(Popped) BY <2>1, ExpressionPlaces, Taking
  <2>3. CASE BraceParameterError(Popped, v.param_finish, position)
    BY <2>2, <2>3, ExpressionPlaces, BraceErrorKept
  <2> DEFINE e == TopAs(v.after)
             f == Here("PeriodAsStruct")
  <2>4. CASE Step(nodes, Popped \o <<e, f>>, position, {})
    <3>1. Sits(e, Popped) BY <2>2, Returned DEF Sits, Taken
    <3>2. SitsOn(f, e) BY Anywhere DEF Passing
    <3> HIDE DEF e, f
    <3> QED BY <2>2, <2>4, <3>1, <3>2, SafeStep
  <2> QED BY <2>1, <2>3, <2>4
<1>20. ASSUME HandleBraceExpressionFinish PROVE Kept'
  <2>1. PICK v \in BraceKind : HandleBraceExpressionFinish!(v)
    BY <1>20 DEF HandleBraceExpressionFinish
  <2>2. Taken BY <2>1, Taking
  <2> QED BY <2>1, <2>2, SafeCloseTop, KeptStep
<1> QED
  BY <1>1, <1>2, <1>3, <1>4, <1>5, <1>6, <1>7, <1>8, <1>9, <1>10, <1>11, <1>12,
     <1>13, <1>14, <1>15, <1>16, <1>17, <1>18, <1>19, <1>20, OperandKept, PostfixKept,
     PostfixLoopKept, LoopKept, ParenParameterKept, AfterDesignatorKept, BraceParameterKept
     DEF Expression

-----------------------------------------------------------------------------
(* The specification. *)

(* Tree::Parse starts with no diagnostic and no error. *)
LEMMA InitKept == Init => Kept
<1> SUFFICES ASSUME Init PROVE Kept OBVIOUS
<1> DEFINE scope == Entry("DeclarationScopeLoop", 2, nodes)
           pack  == Entry("Package", 2, nodes)
<1>1. Placed(<<>>)
  <2>1. IsSeq(<<>>) /\ Len(<<>>) = 0
    <3>1. <<>> \in Seq({}) OBVIOUS
    <3> QED BY <3>1 DEF IsSeq
  <2> QED BY <2>1 DEF Placed, Resting
<1>2. \A b : Sits(scope, b) /\ Sits(pack, b) BY Anywhere DEF Passing
<1>3. \/ state_stack = <<scope>> \o <<pack>>
      \/ state_stack = <<scope>> \o <<>>
  BY DEF Init
<1> HIDE DEF scope, pack
<1> DEFINE one == Append(<<>>, scope)
<1>4. Placed(one) BY <1>1, <1>2, PlacedPush
<1>5. Placed(Append(one, pack)) BY <1>2, <1>4, PlacedPush
<1>6. one = <<scope>> OBVIOUS
<1> HIDE DEF one
<1>7. one \o <<pack>> = Append(one, pack) /\ one \o <<>> = one
  BY <1>4, ConcatOne, ConcatNone DEF Placed
<1>8. Placed(state_stack) BY <1>3, <1>4, <1>5, <1>6, <1>7
<1>9. Excused(diagnosed) /\ status # "done" BY DEF Init, Excused
<1> QED BY <1>8, <1>9 DEF Kept

(* Every handler, the end of the file and a stutter keep the invariant. *)
LEMMA NextKept == Kept /\ Inductive /\ [Next]_vars => Kept'
<1> SUFFICES ASSUME Kept, Inductive, [Next]_vars PROVE Kept' OBVIOUS
<1>1. CASE Declaration BY <1>1, DeclarationKept
<1>2. CASE Expression BY <1>2, ExpressionKept
<1>3. CASE Statement BY <1>3, StatementKept
<1>4. CASE Finish \/ Terminated \/ UNCHANGED vars
  <2>1. /\ UNCHANGED <<tokens, state_stack, has_errors, diagnosed>>
        /\ status' = "done" => state_stack = <<>>
    BY <1>4 DEF Finish, Terminated, vars, Kept
  <2>2. Excused(diagnosed) => Excused(diagnosed)' BY <2>1 DEF Excused, Kind
  <2>3. Placed(state_stack)' BY <2>1 DEF Kept, Placed, Resting
  <2>4. Carried(state_stack) => Carried(state_stack)' BY <2>1 DEF Carried, Bears
  <2> QED BY <2>1, <2>2, <2>3, <2>4 DEF Kept
<1> QED BY <1>1, <1>2, <1>3, <1>4 DEF Next

(* The inductive invariant holds in every reachable state. *)
THEOREM ErrorsAreKept == Spec => []Kept
BY InitKept, NextKept, Soundness, PTL DEF Spec

(* For every token buffer, however malformed: when Tree::Parse returns a   *)
(* tree without an erroneous node, nothing was diagnosed but operators     *)
(* whose precedence or white space is wrong.                               *)
THEOREM NoErrorIsLost == Spec => []OnlyOperatorErrorsUnmarked
<1>1. Kept => OnlyOperatorErrorsUnmarked
  <2> SUFFICES ASSUME Kept, status = "done", ~has_errors PROVE Excused(diagnosed)
    BY DEF OnlyOperatorErrorsUnmarked, Excused
  <2>1. state_stack = <<>> /\ Len(<<>>) = 0 BY DEF Kept
  <2>2. ~Carried(state_stack) BY <2>1 DEF Carried
  <2> QED BY <2>2 DEF Kept
<1> QED BY <1>1, ErrorsAreKept, PTL
=============================================================================
