-------------------------- MODULE PrecedenceProofs --------------------------
(***************************************************************************)
(* Operators nest as OperatorPriorityTable allows, for every token buffer. *)
(* The argument: the precedences that the states of an expression carry    *)
(* are those of the operators in the tree, a state that waits for an       *)
(* operand knows that its left-hand side fits, and what is parsed as an    *)
(* operand is a single subtree.                                            *)
(***************************************************************************)
EXTENDS ParserProofs

(* The states that wait for an operand: of an operator, or of a postfix    *)
(* expression.  About the other states nothing has to be known.            *)
OperatorStates == {"ExpressionLoopForBinary", "ExpressionLoopForPrefix"}

OperandStates == {"Expression", "ExpressionInPostfix"}

LoopStates == {"ExpressionLoop", "ExpressionInPostfixLoop"}

ExpressionStates ==
  {"Expression", "ExpressionInPostfix", "ExpressionLoop", "ExpressionInPostfixLoop",
   "ExpressionLoopForBinary", "ExpressionLoopForPrefix"}

(* The states that end in a primary or postfix expression. *)
PrimaryStates ==
  {"PeriodAsExpression", "ArrowExpression", "CallExpression", "CallExpressionFinish",
   "IndexExpression", "IndexExpressionFinish", "ArrayExpression", "ArrayExpressionSemi",
   "ArrayExpressionFinish", "ParenExpression", "ParenExpressionFinishAsNormal",
   "ParenExpressionFinishAsTuple", "BraceExpression", "BraceExpressionFinishAsType",
   "BraceExpressionFinishAsValue", "BraceExpressionFinishAsUnknown"}

(* The states that may lie on an expression state. *)
InnerStates == ExpressionStates \union PrimaryStates \union {"IfExpressionFinish"}

IsOperator(n) == n.kind \in OperatorNodes

(* The operator at token, of precedence level, was accepted or diagnosed   *)
(* where ambient is the precedence of the enclosing operator.              *)
Fits(ambient, level, token, dg) ==
  GetPriority(ambient, level) = "RightFirst" \/ token \in dg

(* An operator of precedence level at token was accepted or diagnosed      *)
(* after the node left.                                                    *)
Follows(left, level, token, dg) ==
  IsOperator(left) => GetPriority(NodeLevel(left), level) = "LeftFirst" \/ token \in dg

(* What ends at node m may be the left operand of such an operator. *)
LeftFits(level, token, m, ns, dg) ==
  LET l == IF ns[m].kind = "ShortCircuitOperand" THEN m - 1 ELSE m IN
  m \in 1 .. Len(ns) /\ l \in 1 .. Len(ns) /\ Follows(ns[l], level, token, dg)

(* The operands of node i fit, and there are some. *)
NodeFits(ns, i, dg) ==
  /\ IsOperator(ns[i]) => i - 1 \in 1 .. Len(ns)
  /\ ns[i].kind \in {"InfixOperator", "PrefixOperator"} /\ IsOperator(ns[i - 1]) =>
       Fits(NodeLevel(ns[i]), NodeLevel(ns[i - 1]), ns[i - 1].token, dg)
  /\ ns[i].kind = "InfixOperator" =>
       LeftFits(NodeLevel(ns[i]), ns[i].token, FirstNode(ns, i - 1) - 1, ns, dg)
  /\ ns[i].kind = "PostfixOperator" =>
       Follows(ns[i - 1], NodeLevel(ns[i]), ns[i].token, dg)

(* A state that waits for an operand knows its operator. *)
KnowsOperator(e, dg) ==
  /\ e.state = "ExpressionLoopForPrefix" => e.lhs_precedence = ForLeading[Kind(e.token)]
  /\ e.state = "ExpressionLoopForBinary" =>
       e.lhs_precedence = ForTrailing(Kind(e.token), TRUE).level
  /\ e.state \in OperatorStates =>
       Fits(e.ambient_precedence, e.lhs_precedence, e.token, dg)

(* Entry e may lie on entry a. *)
LiesOn(e, a, ns, dg) ==
  /\ a.state \notin OperandStates
  /\ a.state \in OperatorStates =>
       /\ e.state \in {"Expression", "ExpressionLoop", "IfExpressionFinish"}
                        \union OperatorStates
       /\ e.state # "IfExpressionFinish" => e.ambient_precedence = a.lhs_precedence
       /\ a.state = "ExpressionLoopForBinary" =>
            LeftFits(a.lhs_precedence, a.token, e.subtree_start, ns, dg)
  /\ a.state = "ExpressionLoop" =>
       /\ e.state \in {"ExpressionInPostfix", "ExpressionInPostfixLoop"}
       /\ e.subtree_start = a.subtree_start
  /\ a.state = "ExpressionInPostfixLoop" =>
       e.state \in PrimaryStates /\ e.subtree_start = a.subtree_start

(* The last node is the whole of what was parsed since start. *)
OneSubtree(ns, start) == Len(ns) >= 1 /\ FirstNode(ns, Len(ns)) = start + 1

(* What is known of the tree when entry e is the top. *)
TopFits(e, ns, dg) ==
  LET last == ns[Len(ns)] IN
  /\ e.state \in OperandStates => e.subtree_start = Len(ns)
  /\ e.state \in LoopStates =>
       OneSubtree(ns, e.subtree_start) /\ last.kind # "ShortCircuitOperand"
  /\ e.state = "ExpressionInPostfixLoop" => ~IsOperator(last)
  /\ e.state = "ExpressionLoop" /\ IsOperator(last) =>
       /\ NodeLevel(last) = e.lhs_precedence
       /\ Fits(e.ambient_precedence, e.lhs_precedence, last.token, dg)
  /\ e.state \in OperatorStates =>
       /\ Len(ns) >= 1
       /\ IsOperator(last) => Fits(e.lhs_precedence, NodeLevel(last), last.token, dg)
  /\ e.state = "ExpressionLoopForBinary" =>
       LeftFits(e.lhs_precedence, e.token, FirstNode(ns, Len(ns)) - 1, ns, dg)

(***************************************************************************)
(* The inductive invariant, with the stack, the tree and the diagnosed     *)
(* tokens as parameters so that it can be followed through a handler.      *)
(***************************************************************************)
Ordered(b, ns, dg) ==
  /\ IsSeq(ns) /\ \A i \in 1 .. Len(ns) : NodeFits(ns, i, dg)
  /\ IsSeq(b) /\ \A i \in 1 .. Len(b) : IsEntry(b[i]) /\ KnowsOperator(b[i], dg)
  /\ \A i \in 2 .. Len(b) : LiesOn(b[i], b[i - 1], ns, dg)

Settled(b, ns, dg) ==
  Ordered(b, ns, dg) /\ (b # <<>> => TopFits(b[Len(b)], ns, dg))

Operators == Settled(state_stack, nodes, diagnosed)

(* Anything may be pushed. *)
Open(b, ns, dg) ==
  Ordered(b, ns, dg) /\ (b # <<>> => b[Len(b)].state \notin ExpressionStates)

(* An entry about which nothing has to be known. *)
Plain(e) == IsEntry(e) /\ e.state \notin ExpressionStates

(* An entry for an expression that starts where the tree ends. *)
Operand(e, ns) ==
  IsEntry(e) /\ e.state = "Expression" /\ e.subtree_start = Len(ns)

-----------------------------------------------------------------------------
(* The tree grows, and so do the diagnostics. *)

(* More nodes and diagnostics do not make a left operand unfit. *)
LEMMA LeftGrows ==
  ASSUME NEW level, NEW token, NEW m, NEW ns, NEW ms, NEW dg, NEW ds,
         Len(ns) \in Nat, Len(ms) \in Nat, Len(ns) <= Len(ms),
         \A i \in 1 .. Len(ns) : ms[i] = ns[i],
         dg \subseteq ds, LeftFits(level, token, m, ns, dg)
  PROVE  LeftFits(level, token, m, ms, ds)
<1> DEFINE l == IF ns[m].kind = "ShortCircuitOperand" THEN m - 1 ELSE m
<1>1. m \in 1 .. Len(ns) /\ l \in 1 .. Len(ns) /\ Follows(ns[l], level, token, dg)
  BY DEF LeftFits
<1>2. ms[m] = ns[m] /\ ms[l] = ns[l] BY <1>1
<1>3. m \in 1 .. Len(ms) /\ l \in 1 .. Len(ms) BY <1>1
<1>4. Follows(ms[l], level, token, ds) BY <1>1, <1>2 DEF Follows
<1> QED BY <1>2, <1>3, <1>4 DEF LeftFits

(* Nor do they disturb a node. *)
LEMMA NodeGrows ==
  ASSUME NEW i, NEW ns, NEW ms, NEW dg, NEW ds,
         Len(ns) \in Nat, Len(ms) \in Nat, Len(ns) <= Len(ms),
         \A j \in 1 .. Len(ns) : ms[j] = ns[j],
         dg \subseteq ds, i \in 1 .. Len(ns), NodeFits(ns, i, dg)
  PROVE  NodeFits(ms, i, ds)
<1>1. ms[i] = ns[i] OBVIOUS
<1>2. CASE IsOperator(ns[i])
  <2>1. i - 1 \in 1 .. Len(ns) /\ ms[i - 1] = ns[i - 1] BY <1>2 DEF NodeFits
  <2>2. i - 1 \in 1 .. Len(ms) BY <2>1
  <2>3. ns[i].kind \in {"InfixOperator", "PrefixOperator"} /\ IsOperator(ns[i - 1]) =>
          Fits(NodeLevel(ns[i]), NodeLevel(ns[i - 1]), ns[i - 1].token, ds)
    BY DEF NodeFits, Fits
  <2>4. ns[i].kind = "InfixOperator" =>
          LeftFits(NodeLevel(ns[i]), ns[i].token, FirstNode(ns, i - 1) - 1, ms, ds)
    BY LeftGrows DEF NodeFits
  <2>5. ns[i].kind = "PostfixOperator" =>
          Follows(ns[i - 1], NodeLevel(ns[i]), ns[i].token, ds)
    BY DEF NodeFits, Follows
  <2>6. FirstNode(ms, i - 1) = FirstNode(ns, i - 1) BY <2>1 DEF FirstNode
  <2> QED BY <1>1, <2>1, <2>2, <2>3, <2>4, <2>5, <2>6 DEF NodeFits
<1>3. CASE ~IsOperator(ns[i])
  BY <1>1, <1>3 DEF NodeFits, IsOperator, OperatorNodes
<1> QED BY <1>2, <1>3

(* Nor a state. *)
LEMMA StateGrows ==
  ASSUME NEW e, NEW a, NEW ns, NEW ms, NEW dg, NEW ds,
         Len(ns) \in Nat, Len(ms) \in Nat, Len(ns) <= Len(ms),
         \A j \in 1 .. Len(ns) : ms[j] = ns[j], dg \subseteq ds
  PROVE  /\ KnowsOperator(e, dg) => KnowsOperator(e, ds)
         /\ LiesOn(e, a, ns, dg) => LiesOn(e, a, ms, ds)
<1>1. KnowsOperator(e, dg) => KnowsOperator(e, ds) BY DEF KnowsOperator, Fits
<1>2. LeftFits(a.lhs_precedence, a.token, e.subtree_start, ns, dg) =>
        LeftFits(a.lhs_precedence, a.token, e.subtree_start, ms, ds)
  BY LeftGrows
<1>3. LiesOn(e, a, ns, dg) => LiesOn(e, a, ms, ds) BY <1>2 DEF LiesOn
<1> QED BY <1>1, <1>3

(* A node that fits is added, and more is diagnosed. *)
LEMMA OrderedGrows ==
  ASSUME NEW b, NEW ns, NEW n, NEW dg, NEW ds, Ordered(b, ns, dg), dg \subseteq ds,
         NodeFits(Append(ns, n), Len(ns) + 1, ds)
  PROVE  /\ Ordered(b, Append(ns, n), ds)
         /\ Ordered(b, ns, ds)
         /\ Len(Append(ns, n)) = Len(ns) + 1
         /\ Append(ns, n)[Len(ns) + 1] = n
<1> DEFINE ms == Append(ns, n)
<1>1. /\ IsSeq(ns) /\ IsSeq(ms) /\ Len(ns) \in Nat /\ Len(ms) = Len(ns) + 1
      /\ \A j \in 1 .. Len(ns) : ms[j] = ns[j]
      /\ ms[Len(ns) + 1] = n
  BY SeqAppend, SeqLen DEF Ordered
<1>2. NodeFits(ms, Len(ns) + 1, ds) OBVIOUS
<1> HIDE DEF ms
<1>3. \A i \in 1 .. Len(ns) : NodeFits(ms, i, ds) /\ NodeFits(ns, i, ds)
  <2> SUFFICES ASSUME NEW i \in 1 .. Len(ns)
               PROVE  NodeFits(ms, i, ds) /\ NodeFits(ns, i, ds)
    OBVIOUS
  <2>1. NodeFits(ns, i, dg) BY DEF Ordered
  <2> QED BY <1>1, <2>1, NodeGrows
<1>4. \A i \in 1 .. Len(ms) : NodeFits(ms, i, ds) BY <1>1, <1>2, <1>3
<1>5. \A i \in 1 .. Len(b) : IsEntry(b[i]) /\ KnowsOperator(b[i], ds)
  <2> SUFFICES ASSUME NEW i \in 1 .. Len(b)
               PROVE  IsEntry(b[i]) /\ KnowsOperator(b[i], ds)
    OBVIOUS
  <2>1. IsEntry(b[i]) /\ KnowsOperator(b[i], dg) BY DEF Ordered
  <2> QED BY <2>1 DEF KnowsOperator, Fits
<1>6. \A i \in 2 .. Len(b) :
        LiesOn(b[i], b[i - 1], ns, ds) /\ LiesOn(b[i], b[i - 1], ms, ds)
  <2> SUFFICES ASSUME NEW i \in 2 .. Len(b)
               PROVE  LiesOn(b[i], b[i - 1], ns, ds) /\ LiesOn(b[i], b[i - 1], ms, ds)
    OBVIOUS
  <2>1. LiesOn(b[i], b[i - 1], ns, dg) BY DEF Ordered
  <2> QED BY <1>1, <2>1, StateGrows
<1> QED BY <1>1, <1>3, <1>4, <1>5, <1>6 DEF Ordered, ms

(* A node that is no operator fits anywhere. *)
LEMMA OtherNode ==
  ASSUME NEW b, NEW ns, NEW n, NEW dg, Ordered(b, ns, dg), n.kind \notin OperatorNodes
  PROVE  /\ Ordered(b, Append(ns, n), dg)
         /\ Len(Append(ns, n)) = Len(ns) + 1
         /\ Append(ns, n)[Len(ns) + 1] = n
<1>1. Append(ns, n)[Len(ns) + 1] = n BY SeqAppend DEF Ordered
<1>2. NodeFits(Append(ns, n), Len(ns) + 1, dg)
  BY <1>1 DEF NodeFits, IsOperator, OperatorNodes
<1> QED BY <1>2, OrderedGrows

(* More is diagnosed. *)
LEMMA MoreDiagnosed ==
  ASSUME NEW b, NEW ns, NEW dg, NEW ds, dg \subseteq ds
  PROVE  /\ Ordered(b, ns, dg) => Ordered(b, ns, ds)
         /\ Open(b, ns, dg) => Open(b, ns, ds)
         /\ Settled(b, ns, dg) => Settled(b, ns, ds)
<1>1. ASSUME Ordered(b, ns, dg) PROVE Ordered(b, ns, ds)
  <2> DEFINE n == [kind |-> "FileEnd"]
  <2>1. n.kind \notin OperatorNodes BY DEF OperatorNodes
  <2>2. Append(ns, n)[Len(ns) + 1] = n BY <1>1, SeqAppend DEF Ordered
  <2>3. NodeFits(Append(ns, n), Len(ns) + 1, ds)
    BY <2>1, <2>2 DEF NodeFits, IsOperator, OperatorNodes
  <2> HIDE DEF n
  <2> QED BY <1>1, <2>3, OrderedGrows
<1>2. ASSUME NEW e, TopFits(e, ns, dg), Len(ns) \in Nat PROVE TopFits(e, ns, ds)
  <2>1. \A level, token, m : LeftFits(level, token, m, ns, dg) =>
                               LeftFits(level, token, m, ns, ds)
    BY <1>2, LeftGrows
  <2> QED BY <1>2, <2>1 DEF TopFits, Fits
<1>3. Ordered(b, ns, dg) => Len(ns) \in Nat BY SeqLen DEF Ordered
<1> QED BY <1>1, <1>2, <1>3 DEF Open, Settled

-----------------------------------------------------------------------------
(* The stack. *)

(* An entry is pushed. *)
LEMMA OrderedPush ==
  ASSUME NEW b, NEW ns, NEW dg, NEW e, Ordered(b, ns, dg), IsEntry(e),
         KnowsOperator(e, dg), b # <<>> => LiesOn(e, b[Len(b)], ns, dg)
  PROVE  /\ Ordered(Append(b, e), ns, dg)
         /\ Append(b, e) # <<>>
         /\ Append(b, e)[Len(Append(b, e))] = e
         /\ b \o <<e>> = Append(b, e)
<1> DEFINE a == Append(b, e)
<1>1. /\ IsSeq(b) /\ IsSeq(a) /\ Len(b) \in Nat /\ Len(a) = Len(b) + 1
      /\ \A i \in 1 .. Len(b) : a[i] = b[i]
      /\ a[Len(b) + 1] = e
  BY SeqAppend, SeqLen DEF Ordered
<1>2. b \o <<e>> = a BY <1>1, ConcatOne
<1>3. Len(b) # 0 => b # <<>> OBVIOUS
<1> HIDE DEF a
<1>4. \A i \in 1 .. Len(a) : IsEntry(a[i]) /\ KnowsOperator(a[i], dg)
  BY <1>1 DEF Ordered
<1>5. \A i \in 2 .. Len(a) : LiesOn(a[i], a[i - 1], ns, dg)
  <2> SUFFICES ASSUME NEW i \in 2 .. Len(a)
               PROVE  LiesOn(a[i], a[i - 1], ns, dg)
    OBVIOUS
  <2>1. CASE i \in 2 .. Len(b)
    <3>1. a[i] = b[i] /\ a[i - 1] = b[i - 1] BY <1>1, <2>1
    <3> QED BY <2>1, <3>1 DEF Ordered
  <2>2. CASE i = Len(b) + 1
    <3>1. a[i] = e /\ a[i - 1] = b[Len(b)] /\ b # <<>> BY <1>1, <1>3, <2>2
    <3> QED BY <3>1
  <2> QED BY <1>1, <2>1, <2>2
<1>6. a # <<>> BY <1>1
<1> QED BY <1>1, <1>2, <1>4, <1>5, <1>6 DEF Ordered, a

(* The top is popped. *)
LEMMA OrderedPop ==
  ASSUME NEW b, NEW ns, NEW dg, Ordered(b, ns, dg), b # <<>>
  PROVE  LET e == b[Len(b)]
             p == SubSeq(b, 1, Len(b) - 1)
         IN  /\ IsEntry(e) /\ KnowsOperator(e, dg)
             /\ Ordered(p, ns, dg)
             /\ p # <<>> => LiesOn(e, p[Len(p)], ns, dg)
<1> DEFINE e == b[Len(b)]
           p == SubSeq(b, 1, Len(b) - 1)
<1>1. /\ Len(b) >= 1 /\ Len(b) \in Nat /\ IsSeq(p) /\ Len(p) = Len(b) - 1
      /\ \A i \in 1 .. Len(p) : p[i] = b[i]
  BY SeqPop, SeqLen DEF Ordered
<1> HIDE DEF p
<1>2. IsEntry(e) /\ KnowsOperator(e, dg) BY <1>1 DEF Ordered
<1>3. \A i \in 1 .. Len(p) : IsEntry(p[i]) /\ KnowsOperator(p[i], dg)
  BY <1>1 DEF Ordered
<1>4. \A i \in 2 .. Len(p) : LiesOn(p[i], p[i - 1], ns, dg)
  <2> SUFFICES ASSUME NEW i \in 2 .. Len(p)
               PROVE  LiesOn(p[i], p[i - 1], ns, dg)
    OBVIOUS
  <2>1. p[i] = b[i] /\ p[i - 1] = b[i - 1] /\ i \in 2 .. Len(b) BY <1>1
  <2> QED BY <2>1 DEF Ordered
<1>5. Ordered(p, ns, dg) BY <1>1, <1>3, <1>4 DEF Ordered
<1>6. ASSUME p # <<>> PROVE LiesOn(e, p[Len(p)], ns, dg)
  <2>1. Len(p) # 0
    <3>1. PICK S : p \in Seq(S) BY <1>1 DEF IsSeq
    <3> QED BY <1>6, <3>1
  <2>2. Len(b) \in 2 .. Len(b) /\ p[Len(p)] = b[Len(b) - 1] BY <1>1, <2>1
  <2> QED BY <2>2 DEF Ordered
<1> QED BY <1>2, <1>5, <1>6 DEF p

(* The last entry is replaced by one that lies on whatever it lay on. *)
LEMMA OrderedReplace ==
  ASSUME NEW b, NEW ns, NEW dg, NEW e, Ordered(b, ns, dg),
         b # <<>> => /\ IsEntry(e) /\ KnowsOperator(e, dg)
                     /\ \A a : LiesOn(b[Len(b)], a, ns, dg) => LiesOn(e, a, ns, dg)
  PROVE  LET p == [b EXCEPT ![Len(b)] = e] IN
         /\ Ordered(p, ns, dg)
         /\ Len(p) = Len(b)
         /\ p # <<>> => b # <<>> /\ p[Len(p)] = e
<1> DEFINE p == [b EXCEPT ![Len(b)] = e]
<1>1. /\ IsSeq(p) /\ Len(p) = Len(b) /\ Len(b) \in Nat
      /\ \A j \in 1 .. Len(b) : p[j] = IF j = Len(b) THEN e ELSE b[j]
  BY SeqReplaceLast, SeqLen DEF Ordered
<1> HIDE DEF p
<1>2. Len(b) # 0 => b # <<>> OBVIOUS
<1>3. p # <<>> => Len(p) # 0
  <2>1. PICK S : p \in Seq(S) BY <1>1 DEF IsSeq
  <2> QED BY <2>1
<1>4. \A i \in 1 .. Len(p) : IsEntry(p[i]) /\ KnowsOperator(p[i], dg)
  BY <1>1, <1>2 DEF Ordered
<1>5. \A i \in 2 .. Len(p) : LiesOn(p[i], p[i - 1], ns, dg)
  <2> SUFFICES ASSUME NEW i \in 2 .. Len(p)
               PROVE  LiesOn(p[i], p[i - 1], ns, dg)
    OBVIOUS
  <2>1. LiesOn(b[i], b[i - 1], ns, dg) /\ p[i - 1] = b[i - 1] BY <1>1 DEF Ordered
  <2>2. CASE i = Len(b) BY <1>1, <1>2, <2>1, <2>2
  <2>3. CASE i # Len(b) BY <1>1, <2>1, <2>3
  <2> QED BY <2>2, <2>3
<1> QED BY <1>1, <1>2, <1>3, <1>4, <1>5 DEF Ordered, p

(* Anything may be settled for where anything may be pushed. *)
LEMMA OpenSettled ==
  ASSUME NEW b, NEW ns, NEW dg, Open(b, ns, dg)
  PROVE  Settled(b, ns, dg)
BY DEF Open, Settled, TopFits, ExpressionStates, OperandStates, LoopStates, OperatorStates

(* A plain entry is pushed. *)
LEMMA PushPlain ==
  ASSUME NEW b, NEW ns, NEW dg, NEW e, Open(b, ns, dg), Plain(e)
  PROVE  Open(Append(b, e), ns, dg) /\ Open(b \o <<e>>, ns, dg)
<1>1. KnowsOperator(e, dg) BY DEF Plain, KnowsOperator, ExpressionStates, OperatorStates
<1>2. b # <<>> => LiesOn(e, b[Len(b)], ns, dg)
  BY DEF Open, LiesOn, ExpressionStates, OperandStates, LoopStates, OperatorStates
<1>3. /\ Ordered(Append(b, e), ns, dg)
      /\ Append(b, e)[Len(Append(b, e))] = e
      /\ b \o <<e>> = Append(b, e)
  BY <1>1, <1>2, OrderedPush DEF Open, Plain
<1> QED BY <1>3 DEF Open, Plain

(* An expression is to be parsed next. *)
LEMMA PushOperand ==
  ASSUME NEW b, NEW ns, NEW dg, NEW e, Open(b, ns, dg), Operand(e, ns)
  PROVE  Settled(Append(b, e), ns, dg) /\ Settled(b \o <<e>>, ns, dg)
<1>1. KnowsOperator(e, dg) BY DEF Operand, KnowsOperator, OperatorStates
<1>2. b # <<>> => LiesOn(e, b[Len(b)], ns, dg)
  BY DEF Open, LiesOn, ExpressionStates, OperandStates, LoopStates, OperatorStates
<1>3. /\ Ordered(Append(b, e), ns, dg)
      /\ Append(b, e)[Len(Append(b, e))] = e
      /\ b \o <<e>> = Append(b, e)
  BY <1>1, <1>2, OrderedPush DEF Open, Operand
<1>4. TopFits(e, ns, dg) BY DEF Operand, TopFits, LoopStates, OperatorStates
<1> QED BY <1>3, <1>4 DEF Settled

(* Two entries are pushed; the second may be an expression. *)
LEMMA PushPair ==
  ASSUME NEW b, NEW ns, NEW dg, NEW e, NEW f, Open(b, ns, dg), Plain(e)
  PROVE  /\ Plain(f) => Open(b \o <<e, f>>, ns, dg)
         /\ Plain(f) \/ Operand(f, ns) => Settled(b \o <<e, f>>, ns, dg)
<1>1. Open(Append(b, e), ns, dg) BY PushPlain
<1>2. b \o <<e, f>> = Append(Append(b, e), f) BY ConcatTwo DEF Open, Ordered
<1>3. Plain(f) => Open(Append(Append(b, e), f), ns, dg) BY <1>1, PushPlain
<1>4. Operand(f, ns) => Settled(Append(Append(b, e), f), ns, dg) BY <1>1, PushOperand
<1> QED BY <1>2, <1>3, <1>4, OpenSettled

(* Three entries are pushed; the last may be an expression. *)
LEMMA PushTriple ==
  ASSUME NEW b, NEW ns, NEW dg, NEW e, NEW f, NEW g, Open(b, ns, dg), Plain(e), Plain(f)
  PROVE  Plain(g) \/ Operand(g, ns) => Settled(b \o <<e, f, g>>, ns, dg)
<1>1. Open(Append(b, e), ns, dg) BY PushPlain
<1>2. Open(Append(Append(b, e), f), ns, dg) BY <1>1, PushPlain
<1>3. b \o <<e, f, g>> = Append(Append(Append(b, e), f), g) BY ConcatThree DEF Open, Ordered
<1> QED BY <1>2, <1>3, PushPlain, PushOperand, OpenSettled

(* Fields of an entry that are left alone by an update. *)
LEMMA EntryKeeps ==
  ASSUME NEW e, NEW x, IsEntry(e)
  PROVE  /\ [e EXCEPT !.state = x].ambient_precedence = e.ambient_precedence
         /\ [e EXCEPT !.state = x].lhs_precedence = e.lhs_precedence
         /\ [e EXCEPT !.state = x].token = e.token
         /\ [e EXCEPT !.has_error = x].ambient_precedence = e.ambient_precedence
         /\ [e EXCEPT !.has_error = x].lhs_precedence = e.lhs_precedence
         /\ [e EXCEPT !.has_error = x].token = e.token
         /\ [e EXCEPT !.token = x].ambient_precedence = e.ambient_precedence
         /\ [e EXCEPT !.token = x].lhs_precedence = e.lhs_precedence
         /\ [e EXCEPT !.token = x].token = x
         /\ [e EXCEPT !.lhs_precedence = x].ambient_precedence = e.ambient_precedence
         /\ [e EXCEPT !.lhs_precedence = x].lhs_precedence = x
         /\ [e EXCEPT !.lhs_precedence = x].token = e.token
<1>1. ASSUME NEW s, NEW h, NEW a, NEW l, NEW t, NEW n,
             e = [state |-> s, has_error |-> h, ambient_precedence |-> a,
                  lhs_precedence |-> l, token |-> t, subtree_start |-> n]
      PROVE  /\ [e EXCEPT !.state = x] =
                [state |-> x, has_error |-> h, ambient_precedence |-> a,
                  lhs_precedence |-> l, token |-> t, subtree_start |-> n]
             /\ [e EXCEPT !.has_error = x] =
                [state |-> s, has_error |-> x, ambient_precedence |-> a,
                  lhs_precedence |-> l, token |-> t, subtree_start |-> n]
             /\ [e EXCEPT !.token = x] =
                [state |-> s, has_error |-> h, ambient_precedence |-> a,
                  lhs_precedence |-> l, token |-> x, subtree_start |-> n]
             /\ [e EXCEPT !.lhs_precedence = x] =
                [state |-> s, has_error |-> h, ambient_precedence |-> a,
                  lhs_precedence |-> x, token |-> t, subtree_start |-> n]
  BY <1>1
<1>2. PICK s, h, a, l, t, n :
        e = [state |-> s, has_error |-> h, ambient_precedence |-> a,
             lhs_precedence |-> l, token |-> t, subtree_start |-> n]
  BY Zenon DEF IsEntry
<1>3. e.ambient_precedence = a /\ e.lhs_precedence = l /\ e.token = t BY <1>2
<1> QED BY <1>1, <1>2, <1>3

(* The last entry is marked as erroneous. *)
LEMMA MarkLast ==
  ASSUME NEW b, NEW ns, NEW dg
  PROVE  /\ Open(b, ns, dg) => Open(ReturnErrorOnState(b), ns, dg)
         /\ Settled(b, ns, dg) => Settled(ReturnErrorOnState(b), ns, dg)
<1> SUFFICES ASSUME Ordered(b, ns, dg)
             PROVE  /\ Open(b, ns, dg) => Open(ReturnErrorOnState(b), ns, dg)
                    /\ Settled(b, ns, dg) => Settled(ReturnErrorOnState(b), ns, dg)
  BY DEF Open, Settled
<1> DEFINE l == b[Len(b)]
           e == [l EXCEPT !.has_error = TRUE]
           p == [b EXCEPT ![Len(b)] = e]
<1>1. ASSUME b # <<>>
      PROVE  /\ IsEntry(e) /\ e.state = l.state /\ e.subtree_start = l.subtree_start
             /\ e.ambient_precedence = l.ambient_precedence
             /\ e.lhs_precedence = l.lhs_precedence /\ e.token = l.token
             /\ KnowsOperator(l, dg)
  <2>1. IsEntry(l) /\ KnowsOperator(l, dg) BY <1>1, OrderedPop
  <2> HIDE DEF l
  <2> QED BY <2>1, EntryUpdate, EntryKeeps
<1> HIDE DEF e, l
<1>2. ASSUME b # <<>>
      PROVE  /\ KnowsOperator(e, dg)
             /\ \A a : LiesOn(l, a, ns, dg) => LiesOn(e, a, ns, dg)
             /\ TopFits(l, ns, dg) => TopFits(e, ns, dg)
  BY <1>1, <1>2 DEF KnowsOperator, LiesOn, TopFits
<1>3. /\ Ordered(p, ns, dg)
      /\ p # <<>> => b # <<>> /\ p[Len(p)] = e
  BY <1>1, <1>2, OrderedReplace DEF l
<1>4. ReturnErrorOnState(b) = p BY DEF ReturnErrorOnState, e, l
<1> HIDE DEF p
<1> QED BY <1>1, <1>2, <1>3, <1>4 DEF Open, Settled, l

(* The last entry, a plain one, is replaced by another for the same        *)
(* expression.                                                             *)
LEMMA ReplacePlain ==
  ASSUME NEW b, NEW ns, NEW dg, NEW e, Open(b, ns, dg),
         b # <<>> => /\ Plain(e)
                     /\ e.subtree_start = b[Len(b)].subtree_start
                     /\ e.ambient_precedence = b[Len(b)].ambient_precedence
                     /\ \/ e.state = b[Len(b)].state
                        \/ e.state \in PrimaryStates /\ b[Len(b)].state \in PrimaryStates
  PROVE  Open([b EXCEPT ![Len(b)] = e], ns, dg)
<1> DEFINE p == [b EXCEPT ![Len(b)] = e]
<1>1. b # <<>> => KnowsOperator(e, dg)
  BY DEF Plain, KnowsOperator, ExpressionStates, OperatorStates
<1>2. b # <<>> => \A a : LiesOn(b[Len(b)], a, ns, dg) => LiesOn(e, a, ns, dg)
  BY DEF LiesOn, PrimaryStates, OperatorStates
<1>3. Ordered(p, ns, dg) /\ (p # <<>> => b # <<>> /\ p[Len(p)] = e)
  BY <1>1, <1>2, OrderedReplace DEF Open, Plain
<1> QED BY <1>3 DEF Open, Plain

-----------------------------------------------------------------------------
(* Handlers. *)

(* The entries that handlers push. *)
LEMMA NewEntries ==
  ASSUME NEW s, NEW token, NEW ns, NEW ambient
  PROVE  /\ s \notin ExpressionStates => Plain(Entry(s, token, ns)) /\ Plain(Here(s))
         /\ Operand(Entry("Expression", token, ns), ns)
         /\ Operand(ExpressionEntry(ambient, token, ns), ns)
         /\ Operand(Here("Expression"), nodes)
BY EntryRecord DEF Plain, Operand, Entry, Here, ExpressionEntry, StateStackEntry

(* The popped entry pushed back. *)
LEMMA PlainAs ==
  ASSUME IsEntry(Top), NEW s, s \notin ExpressionStates
  PROVE  /\ Plain(TopAs(s)) /\ TopAs(s).state = s
         /\ TopAs(s).subtree_start = Top.subtree_start
         /\ TopAs(s).ambient_precedence = Top.ambient_precedence
BY EntryUpdate, EntryKeeps DEF TopAs, Plain

(* An update of another field. *)
LEMMA PlainUpdate ==
  ASSUME NEW e, NEW x, Plain(e)
  PROVE  /\ Plain([e EXCEPT !.has_error = x])
         /\ Plain([e EXCEPT !.token = x])
         /\ [e EXCEPT !.has_error = x].state = e.state
         /\ [e EXCEPT !.token = x].state = e.state
         /\ [e EXCEPT !.has_error = x].subtree_start = e.subtree_start
         /\ [e EXCEPT !.token = x].subtree_start = e.subtree_start
         /\ [e EXCEPT !.has_error = x].ambient_precedence = e.ambient_precedence
         /\ [e EXCEPT !.token = x].ambient_precedence = e.ambient_precedence
BY EntryUpdate, EntryKeeps DEF Plain

(* A leaf, or a node over what was parsed since start, is added. *)
LEMMA AddOther ==
  ASSUME NEW b, NEW ns, NEW dg, NEW kind, NEW token, NEW start, NEW has_error,
         kind \notin OperatorNodes
  PROVE  /\ Ordered(b, ns, dg) =>
              /\ Ordered(b, AddLeafNode(ns, kind, token, has_error), dg)
              /\ Ordered(b, AddNode(ns, kind, token, start, has_error), dg)
         /\ Open(b, ns, dg) =>
              /\ Open(b, AddLeafNode(ns, kind, token, has_error), dg)
              /\ Open(b, AddNode(ns, kind, token, start, has_error), dg)
<1> DEFINE n == [kind |-> kind, has_error |-> has_error, token |-> token,
                 subtree_size |-> 1]
           m == [kind |-> kind, has_error |-> has_error, token |-> token,
                 subtree_size |-> Len(ns) - start + 1]
<1>1. n.kind = kind /\ m.kind = kind OBVIOUS
<1>2. AddLeafNode(ns, kind, token, has_error) = Append(ns, n) BY DEF AddLeafNode
<1>3. AddNode(ns, kind, token, start, has_error) = Append(ns, m) BY DEF AddNode
<1> HIDE DEF n, m
<1>4. Ordered(b, ns, dg) => Ordered(b, Append(ns, n), dg) /\ Ordered(b, Append(ns, m), dg)
  BY <1>1, OtherNode
<1> QED BY <1>2, <1>3, <1>4 DEF Open

(* The same on the tree as the handler finds it. *)
LEMMA AddOtherHere ==
  ASSUME NEW b, NEW kind, NEW token, NEW has_error, Open(b, nodes, diagnosed),
         kind \notin OperatorNodes
  PROVE  /\ Open(b, AddLeafNode(nodes, kind, token, has_error), diagnosed)
         /\ Open(b, ConsumedLeaf(kind), diagnosed)
         /\ Open(b, AddTopNode(kind, token, has_error), diagnosed)
BY AddOther DEF ConsumedLeaf, AddTopNode

(* The tokens are all that the invariant depends on besides its            *)
(* parameters, and they never change.                                      *)
LEMMA SameTokens ==
  ASSUME tokens' = tokens
  PROVE  \A b, ns, dg : Settled(b, ns, dg) => Settled(b, ns, dg)'
<1>1. \A t : Kind(t)' = Kind(t) BY DEF Kind
<1>2. \A n : NodeLevel(n)' = NodeLevel(n) BY <1>1 DEF NodeLevel
<1>3. \A n, level, t, dg : Follows(n, level, t, dg)' <=> Follows(n, level, t, dg)
  BY <1>2 DEF Follows
<1>4. \A level, t, m, ns, dg : LeftFits(level, t, m, ns, dg)' <=> LeftFits(level, t, m, ns, dg)
  BY <1>3 DEF LeftFits
<1>5. \A ns, i, dg : NodeFits(ns, i, dg)' <=> NodeFits(ns, i, dg)
  BY <1>2, <1>3, <1>4 DEF NodeFits
<1>6. \A e, dg : KnowsOperator(e, dg)' <=> KnowsOperator(e, dg)
  BY <1>1 DEF KnowsOperator
<1>7. \A e, a, ns, dg : LiesOn(e, a, ns, dg)' <=> LiesOn(e, a, ns, dg)
  BY <1>4 DEF LiesOn
<1>8. \A e, ns, dg : TopFits(e, ns, dg)' <=> TopFits(e, ns, dg)
  BY <1>2, <1>4 DEF TopFits
<1>9. \A b, ns, dg : Ordered(b, ns, dg)' <=> Ordered(b, ns, dg)
  BY <1>5, <1>6, <1>7 DEF Ordered
<1> QED BY <1>8, <1>9 DEF Settled

(* What a handler leaves. *)
LEMMA SettledStep ==
  ASSUME NEW ns, NEW stack, NEW pos, NEW diags, Step(ns, stack, pos, diags),
         Settled(stack, ns, diagnosed) \/ Settled(stack, ns, diagnosed \union diags)
  PROVE  Operators'
<1>1. Settled(stack, ns, diagnosed \union diags) BY MoreDiagnosed
<1>2. /\ nodes' = ns /\ state_stack' = stack /\ diagnosed' = diagnosed \union diags
      /\ tokens' = tokens
  BY DEF Step, CheckedStep
<1> QED BY <1>1, <1>2, SameTokens DEF Operators

(* What a handler leaves when its CHECK holds; otherwise nothing changes. *)
LEMMA SettledChecked ==
  ASSUME Operators, NEW ok, NEW ns, NEW stack, NEW pos, NEW diags,
         CheckedStep(ok, ns, stack, pos, diags), ok => Settled(stack, ns, diagnosed)
  PROVE  Operators'
<1>1. CASE ok
  <2>1. Step(ns, stack, pos, diags) BY <1>1 DEF Step, CheckedStep
  <2> QED BY <1>1, <2>1, SettledStep
<1>2. CASE ~ok
  <2>1. /\ nodes' = nodes /\ state_stack' = state_stack /\ diagnosed' = diagnosed
        /\ tokens' = tokens
    BY <1>2 DEF CheckedStep
  <2> QED BY <2>1, SameTokens DEF Operators
<1> QED BY <1>1, <1>2

(* A handler that pushes nothing, or plain entries, or at last an operand. *)
LEMMA OpenStep ==
  ASSUME NEW b, NEW ns, NEW pos, NEW diags, Open(b, ns, diagnosed)
  PROVE  /\ Step(ns, b, pos, diags) => Operators'
         /\ \A e : Step(ns, Append(b, e), pos, diags) /\ (Plain(e) \/ Operand(e, ns)) =>
              Operators'
         /\ \A e, f : Step(ns, b \o <<e, f>>, pos, diags) /\ Plain(e)
                       /\ (Plain(f) \/ Operand(f, ns)) => Operators'
         /\ \A e, f, g : Step(ns, b \o <<e, f, g>>, pos, diags) /\ Plain(e) /\ Plain(f)
                          /\ (Plain(g) \/ Operand(g, ns)) => Operators'
<1>1. Settled(b, ns, diagnosed) BY OpenSettled
<1>2. \A e : Plain(e) \/ Operand(e, ns) => Settled(Append(b, e), ns, diagnosed)
  BY PushPlain, PushOperand, OpenSettled
<1>3. \A e, f : Plain(e) /\ (Plain(f) \/ Operand(f, ns)) =>
        Settled(b \o <<e, f>>, ns, diagnosed)
  BY PushPair
<1>4. \A e, f, g : Plain(e) /\ Plain(f) /\ (Plain(g) \/ Operand(g, ns)) =>
        Settled(b \o <<e, f, g>>, ns, diagnosed)
  BY PushTriple
<1> QED BY <1>1, <1>2, <1>3, <1>4, SettledStep

(* The states and nodes of the tables of handlers. *)
LEMMA Tables ==
  /\ \A v \in NameAndParams : v.state \notin InnerStates /\ v.after \notin InnerStates
  /\ \A v \in ParameterKind :
       /\ v.list \notin InnerStates /\ v.finish \notin InnerStates
       /\ v.param \notin InnerStates /\ v.param_finish \notin InnerStates
       /\ v.pattern \notin InnerStates
       /\ v.start_node \notin OperatorNodes /\ v.node \notin OperatorNodes
  /\ \A s \in PatternStates : s \notin InnerStates
  /\ \A s \in DOMAIN PatternNode : s \notin InnerStates /\ PatternNode[s] \notin OperatorNodes
  /\ \A v \in TypeKind :
       /\ v.introducer \notin InnerStates /\ v.after \notin InnerStates
       /\ v.finish \notin InnerStates
       /\ v.introducer_node \notin OperatorNodes /\ v.declaration \notin OperatorNodes
       /\ v.start \notin OperatorNodes /\ v.definition \notin OperatorNodes
  /\ \A k \in DOMAIN IntroducerState : IntroducerState[k] \notin InnerStates
  /\ \A s \in DOMAIN VarFinishState :
       s \notin InnerStates /\ VarFinishState[s] \notin InnerStates
  /\ \A k \in DOMAIN StatementState : StatementState[k] \notin InnerStates
  /\ \A v \in JumpKind : v.state \notin InnerStates /\ v.start \notin OperatorNodes
  /\ \A s \in DOMAIN KeywordFinishNode :
       s \notin InnerStates /\ KeywordFinishNode[s] \notin OperatorNodes
  /\ \A v \in ConditionKind :
       /\ v.statement \notin InnerStates /\ v.condition \notin InnerStates
       /\ v.paren_finish \notin InnerStates /\ v.condition_finish \notin InnerStates
       /\ v.block_finish \notin InnerStates
       /\ v.start_node \notin OperatorNodes /\ v.node \notin OperatorNodes
<1> USE DEF InnerStates, ExpressionStates, PrimaryStates, OperatorNodes
<1>1. \A v \in NameAndParams : v.state \notin InnerStates /\ v.after \notin InnerStates
  BY DEF NameAndParams
<1>2. \A v \in ParameterKind :
        /\ v.list \notin InnerStates /\ v.finish \notin InnerStates
        /\ v.param \notin InnerStates /\ v.param_finish \notin InnerStates
        /\ v.pattern \notin InnerStates
        /\ v.start_node \notin OperatorNodes /\ v.node \notin OperatorNodes
  BY DEF ParameterKind
<1>3. \A s \in PatternStates : s \notin InnerStates BY DEF PatternStates
<1>4. \A s \in DOMAIN PatternNode : s \notin InnerStates /\ PatternNode[s] \notin OperatorNodes
  BY DEF PatternNode
<1>5. \A v \in TypeKind :
        /\ v.introducer \notin InnerStates /\ v.after \notin InnerStates
        /\ v.finish \notin InnerStates
        /\ v.introducer_node \notin OperatorNodes /\ v.declaration \notin OperatorNodes
        /\ v.start \notin OperatorNodes /\ v.definition \notin OperatorNodes
  BY DEF TypeKind
<1>6. \A k \in DOMAIN IntroducerState : IntroducerState[k] \notin InnerStates
  BY DEF IntroducerState
<1>7. \A s \in DOMAIN VarFinishState :
        s \notin InnerStates /\ VarFinishState[s] \notin InnerStates
  BY DEF VarFinishState
<1>8. \A k \in DOMAIN StatementState : StatementState[k] \notin InnerStates
  BY DEF StatementState
<1>9. \A v \in JumpKind : v.state \notin InnerStates /\ v.start \notin OperatorNodes
  BY DEF JumpKind
<1>10. \A s \in DOMAIN KeywordFinishNode :
         s \notin InnerStates /\ KeywordFinishNode[s] \notin OperatorNodes
  BY DEF KeywordFinishNode
<1>11. \A v \in ConditionKind :
         /\ v.statement \notin InnerStates /\ v.condition \notin InnerStates
         /\ v.paren_finish \notin InnerStates /\ v.condition_finish \notin InnerStates
         /\ v.block_finish \notin InnerStates
         /\ v.start_node \notin OperatorNodes /\ v.node \notin OperatorNodes
  BY DEF ConditionKind
<1> QED
  BY <1>1, <1>2, <1>3, <1>4, <1>5, <1>6, <1>7, <1>8, <1>9, <1>10, <1>11

(* What a handler of a state that lies on no expression state may rely on. *)
Steady ==
  /\ IsEntry(Top)
  /\ Open(Popped, nodes, diagnosed)
  /\ Open(state_stack, nodes, diagnosed)

(* Such a handler is outside of any expression. *)
LEMMA Steadying ==
  ASSUME Operators, NEW s, At(s), s \notin InnerStates
  PROVE  Steady
<1>1. state_stack # <<>> /\ Top.state = s BY DEF At
<1>2. /\ IsEntry(Top) /\ Ordered(Popped, nodes, diagnosed)
      /\ Popped # <<>> => LiesOn(Top, Popped[Len(Popped)], nodes, diagnosed)
  BY <1>1, OrderedPop DEF Operators, Settled, Top, Popped
<1>3. Popped # <<>> => Popped[Len(Popped)].state \notin ExpressionStates
  BY <1>1, <1>2 DEF LiesOn, InnerStates, ExpressionStates, OperandStates, OperatorStates
<1>4. Top.state \notin ExpressionStates BY <1>1 DEF InnerStates
<1> QED BY <1>2, <1>3, <1>4 DEF Steady, Open, Operators, Settled, Top

(* InnerStates are what ExpressionStates are part of. *)
LEMMA Outer == \A s : s \notin InnerStates => s \notin ExpressionStates
BY DEF InnerStates

(* The entry below is marked, or not. *)
LEMMA OpenMarked ==
  ASSUME NEW b, NEW ns, NEW cond, Open(b, ns, diagnosed)
  PROVE  /\ Open(ReturnErrorOnState(b), ns, diagnosed)
         /\ Open(ReturnErrorIf(cond, b), ns, diagnosed)
BY MarkLast DEF ReturnErrorIf

(* A statement or declaration that ends at a `;`. *)
LEMMA SteadyFinish ==
  ASSUME Steady, NEW kind, kind \notin OperatorNodes, FinishAtSemi(kind)
  PROVE  Operators'
<1>1. \E t, h, p, ds : Step(AddTopNode(kind, t, h), Popped, p, ds)
  BY DEF FinishAtSemi
<1> QED BY <1>1, AddOtherHere, OpenStep DEF Steady

(* A declaration given up after an error. *)
LEMMA SteadyRecovery ==
  ASSUME Steady, NEW kind, kind \notin OperatorNodes, NEW skip, NEW diags,
         RecoverFromDeclarationError(kind, skip, diags)
  PROVE  Operators'
<1>1. \E t, p : Step(AddTopNode(kind, t, TRUE), Popped, p, diags)
  BY DEF RecoverFromDeclarationError
<1> QED BY <1>1, AddOtherHere, OpenStep DEF Steady

(* A list element's end: at most a comma is added. *)
LEMMA OpenListItem ==
  ASSUME NEW b, NEW ns, NEW comma_kind, NEW close_kind, Open(b, ns, diagnosed),
         comma_kind \notin OperatorNodes
  PROVE  Open(b, ConsumeListToken(comma_kind, close_kind, ns).nodes, diagnosed)
<1> DEFINE item == ConsumeListToken(comma_kind, close_kind, ns)
<1>1. \/ item.nodes = ns
      \/ item.nodes = AddLeafNode(ns, comma_kind, ListElementEnd(close_kind), FALSE)
  BY DEF ConsumeListToken
<1> HIDE DEF item
<1> QED BY <1>1, AddOther DEF item

(* A start node, of the `(` or of its absence. *)
LEMMA OpenStart ==
  ASSUME NEW b, NEW default_token, NEW kind, Open(b, nodes, diagnosed),
         kind \notin OperatorNodes
  PROVE  Open(b, ConsumeAndAddOpenParen(default_token, kind).nodes, diagnosed)
<1> DEFINE open == ConsumeAndAddOpenParen(default_token, kind)
<1>1. \/ open.nodes = AddLeafNode(nodes, kind, position, FALSE)
      \/ open.nodes = AddLeafNode(nodes, kind, default_token, TRUE)
  BY DEF ConsumeAndAddOpenParen
<1> HIDE DEF open
<1> QED BY <1>1, AddOther DEF open

(* A group is closed, or was never opened. *)
LEMMA OpenClose ==
  ASSUME NEW b, NEW expected_open, NEW kind, Open(b, nodes, diagnosed),
         kind \notin OperatorNodes
  PROVE  Open(b, ConsumeAndAddCloseSymbol(expected_open, kind).nodes, diagnosed)
<1> DEFINE close == ConsumeAndAddCloseSymbol(expected_open, kind)
<1>1. \E t, h : close.nodes = AddTopNode(kind, t, h)
  BY DEF ConsumeAndAddCloseSymbol
<1> HIDE DEF close
<1> QED BY <1>1, AddOtherHere DEF close

(* A pattern keyword adds at most one entry. *)
LEMMA OpenKeyword ==
  ASSUME NEW b, NEW pos, NEW keyword, NEW s, s \notin ExpressionStates,
         Open(b, nodes, diagnosed)
  PROVE  Open(b \o PatternKeyword(pos, keyword, s), nodes, diagnosed)
<1> DEFINE e == StateStackEntry(s, ForTopLevelExpression, ForTopLevelExpression,
                                pos, Top.subtree_start)
<1>1. PatternKeyword(pos, keyword, s) = <<e>> \/ PatternKeyword(pos, keyword, s) = <<>>
  BY DEF PatternKeyword
<1>2. Plain(e) BY EntryRecord DEF Plain, StateStackEntry
<1> HIDE DEF e
<1>3. Open(b \o <<e>>, nodes, diagnosed) BY <1>2, PushPlain
<1>4. b \o <<>> = b BY ConcatNone DEF Open, Ordered
<1> QED BY <1>1, <1>3, <1>4

(* The package directive is given up. *)
LEMMA SteadyExit ==
  ASSUME NEW ns, NEW pos, Open(Popped, ns, diagnosed), ExitPackage(ns, pos)
  PROVE  Operators'
<1>1. \E t, p : Step(AddNode(ns, "PackageDirective", t, Top.subtree_start, TRUE),
                     Popped, p, {pos})
  BY DEF ExitPackage
<1>2. "PackageDirective" \notin OperatorNodes BY DEF OperatorNodes
<1> QED BY <1>1, <1>2, AddOther, OpenStep

-----------------------------------------------------------------------------
(* One step per handler. *)

(* The handlers of declarations. *)
LEMMA DeclarationOperators ==
  ASSUME Operators, Declaration
  PROVE  Operators'
<1> USE DEF OperatorNodes, ExpressionStates
<1>1. ASSUME HandleDeclarationScopeLoop PROVE Operators'
  <2>1. Steady BY <1>1, Steadying DEF HandleDeclarationScopeLoop, InnerStates, PrimaryStates
  <2>2. CASE Step(nodes, Popped, position, {}) BY <2>1, <2>2, OpenStep DEF Steady
  <2>3. CASE /\ PositionKind \in DOMAIN IntroducerState
             /\ Step(nodes, Append(state_stack, Here(IntroducerState[PositionKind])),
                     position, {})
    <3>1. Plain(Here(IntroducerState[PositionKind])) BY <2>3, Tables, Outer, NewEntries
    <3> QED BY <2>1, <2>3, <3>1, OpenStep DEF Steady
  <2>4. CASE Step(ConsumedLeaf("EmptyDeclaration"), state_stack, position + 1, {})
    BY <2>1, <2>4, AddOtherHere, OpenStep DEF Steady
  <2>5. CASE HandleUnrecognizedDeclaration
    BY <2>1, <2>5, AddOtherHere, OpenStep DEF Steady, HandleUnrecognizedDeclaration
  <2> QED BY <1>1, <2>2, <2>3, <2>4, <2>5 DEF HandleDeclarationScopeLoop
<1>2. ASSUME HandleDeclarationNameAndParams PROVE Operators'
  <2>1. PICK v \in NameAndParams : HandleDeclarationNameAndParams!(v)
    BY <1>2 DEF HandleDeclarationNameAndParams
  <2>2. Steady /\ Plain(TopAs(v.after)) /\ Plain(TopAs("PeriodAsDeclaration"))
    BY <2>1, Tables, Outer, Steadying, PlainAs DEF Steady
  <2>3. CASE Step(ConsumedLeaf("NameExpression"),
                  Popped \o <<TopAs(v.after), TopAs("PeriodAsDeclaration")>>,
                  position + 1, {})
    BY <2>2, <2>3, AddOtherHere, OpenStep DEF Steady
  <2>4. CASE Step(ConsumedLeaf("Name"), Append(Popped, TopAs(v.after)), position + 1, {})
    BY <2>2, <2>4, AddOtherHere, OpenStep DEF Steady
  <2>5. CASE Step(AddLeafNode(nodes, "InvalidParse", position, FALSE),
                  ReturnErrorOnState(Popped), position, {position})
    BY <2>2, <2>5, AddOtherHere, OpenMarked, OpenStep DEF Steady
  <2> QED BY <2>1, <2>3, <2>4, <2>5
<1>3. ASSUME HandleDeclarationNameAndParamsAfterName PROVE Operators'
  <2>1. Steady BY <1>3, Tables, Steadying DEF HandleDeclarationNameAndParamsAfterName
  <2>2. CASE Step(nodes, Append(state_stack, TopAs("PeriodAsDeclaration")), position, {})
    BY <2>1, <2>2, PlainAs, OpenStep DEF Steady
  <2>3. CASE Step(nodes, Popped \o <<Here("DeclarationNameAndParamsAfterDeduced"),
                                     Here("ParameterListAsDeduced")>>, position, {})
    BY <2>1, <2>3, NewEntries, OpenStep DEF Steady
  <2>4. CASE Step(nodes, Append(Popped, Here("ParameterListAsRegular")), position, {})
    BY <2>1, <2>4, NewEntries, OpenStep DEF Steady
  <2>5. CASE Step(nodes, Popped, position, {})
    BY <2>1, <2>5, OpenStep DEF Steady
  <2>6. CASE Step(nodes, ReturnErrorOnState(Popped), position, {position})
    BY <2>1, <2>6, OpenMarked, OpenStep DEF Steady
  <2> QED
    BY <1>3, <2>2, <2>3, <2>4, <2>5, <2>6 DEF HandleDeclarationNameAndParamsAfterName
<1>4. ASSUME HandleDeclarationNameAndParamsAfterDeduced PROVE Operators'
  <2>1. Steady
    BY <1>4, Steadying DEF HandleDeclarationNameAndParamsAfterDeduced, InnerStates,
       PrimaryStates
  <2> QED
    BY <1>4, <2>1, NewEntries, OpenMarked, OpenStep DEF
       HandleDeclarationNameAndParamsAfterDeduced, Steady
<1>5. ASSUME HandleParameterList PROVE Operators'
  <2>1. PICK v \in ParameterKind : HandleParameterList!(v) BY <1>5 DEF HandleParameterList
  <2>2. Steady BY <2>1, Tables, Steadying
  <2> DEFINE ns == ConsumedLeaf(v.start_node)
             e  == Entry(v.param, position + 1, ns)
             f  == Here(v.finish)
  <2>3. Open(Popped, ns, diagnosed) BY <2>2, Tables, AddOtherHere DEF Steady
  <2>4. Plain(e) /\ Plain(f) BY Tables, Outer, NewEntries
  <2> HIDE DEF ns, e, f
  <2>5. Open(Popped \o <<f>>, ns, diagnosed) BY <2>3, <2>4, PushPlain
  <2>6. /\ Settled((Popped \o <<f>>) \o <<e>>, ns, diagnosed)
        /\ Settled((Popped \o <<f>>) \o <<>>, ns, diagnosed)
    BY <2>4, <2>5, PushPlain, OpenSettled, ConcatNone DEF Open, Ordered
  <2> QED BY <2>1, <2>6, SettledChecked DEF ns, e, f
<1>6. ASSUME HandleParameter PROVE Operators'
  <2>1. PICK v \in ParameterKind : HandleParameter!(v) BY <1>6 DEF HandleParameter
  <2>2. Steady /\ Plain(Here(v.param_finish)) /\ Plain(Here(v.pattern))
    BY <2>1, Tables, Outer, Steadying, NewEntries
  <2> QED BY <2>1, <2>2, OpenStep DEF Steady
<1>7. ASSUME HandleParameterFinish PROVE Operators'
  <2>1. PICK v \in ParameterKind : HandleParameterFinish!(v)
    BY <1>7 DEF HandleParameterFinish
  <2>2. Steady BY <2>1, Tables, Steadying
  <2> DEFINE item  == ConsumeListToken("ParameterListComma", ClosingSymbol(v.open), nodes)
             e     == Entry(v.param, item.position, item.nodes)
             stack == ReturnErrorIf(Top.has_error
                        \/ ListError(ClosingSymbol(v.open), Top.has_error), Popped)
  <2>3. Open(Popped, item.nodes, diagnosed) BY <2>2, OpenListItem DEF Steady
  <2> HIDE DEF item
  <2>4. Open(stack, item.nodes, diagnosed) BY <2>3, OpenMarked
  <2>5. Plain(e) BY Tables, Outer, NewEntries
  <2> HIDE DEF e, stack
  <2>6. /\ Settled(stack, item.nodes, diagnosed)
        /\ Settled(Append(stack, e), item.nodes, diagnosed)
    BY <2>4, <2>5, PushPlain, OpenSettled
  <2> QED BY <2>1, <2>6, SettledChecked DEF item, e, stack
<1>8. ASSUME HandleParameterListFinish PROVE Operators'
  <2>1. PICK v \in ParameterKind : HandleParameterListFinish!(v)
    BY <1>8 DEF HandleParameterListFinish
  <2>2. Steady BY <2>1, Tables, Steadying
  <2>3. Settled(Popped, AddTopNode(v.node, position, Top.has_error), diagnosed)
    BY <2>2, Tables, AddOtherHere, OpenSettled DEF Steady
  <2> QED BY <2>1, <2>3, SettledChecked
<1>9. ASSUME HandlePattern PROVE Operators'
  <2>1. PICK s \in PatternStates : HandlePattern!(s) BY <1>9 DEF HandlePattern
  <2>2. Steady BY <2>1, Tables, Steadying
  <2> DEFINE template == IF s = "PatternAsVariable" THEN <<>>
                         ELSE PatternKeyword(position, "Template", "PatternTemplate")
             addr     == IF s = "PatternAsVariable" THEN <<>>
                         ELSE PatternKeyword(position + Len(template), "Addr",
                                             "PatternAddress")
             stack    == Popped \o template \o addr
             name     == position + Len(template) + Len(addr)
             is_name  == \/ Kind(name) = "Identifier"
                         \/ /\ s = "PatternAsDeducedParameter"
                            /\ Kind(name) = "SelfValueIdentifier"
             after    == IF is_name THEN name + 1 ELSE name
             name_kind == IF Kind(name) = "SelfValueIdentifier" /\ is_name
                          THEN "SelfValueName" ELSE "Name"
             name_ns  == AddLeafNode(nodes, name_kind, name, ~is_name)
             finish   == TopAs(IF Kind(after) = "Colon" THEN "PatternFinishAsRegular"
                               ELSE "PatternFinishAsGeneric")
  <2>3. Open(Popped \o template, nodes, diagnosed)
    BY <2>2, OpenKeyword, ConcatNone DEF Steady, Open, Ordered
  <2>4. Open(stack, nodes, diagnosed)
    <3> HIDE DEF template
    <3>1. addr = <<>> \/ addr = PatternKeyword(position + Len(template), "Addr",
                                             "PatternAddress")
      OBVIOUS
    <3> HIDE DEF addr
    <3>2. (Popped \o template) \o <<>> = Popped \o template
      BY <2>3, ConcatNone DEF Open, Ordered
    <3> QED BY <2>3, <3>1, <3>2, OpenKeyword
  <2>5. \/ Step(name_ns, stack \o <<[finish EXCEPT !.token = after],
                                    ExpressionEntry(ForType, after + 1, name_ns)>>,
                after + 1, {})
        \/ Step(AddLeafNode(name_ns, "InvalidParse", after, TRUE),
                Append(stack, [TopAs("PatternFinishAsRegular") EXCEPT !.has_error = TRUE]),
                after, {after})
    BY <2>1
  <2> HIDE DEF stack
  <2>6. name_kind \notin OperatorNodes OBVIOUS
  <2> HIDE DEF name_kind
  <2>7. Open(stack, name_ns, diagnosed) BY <2>4, <2>6, AddOther
  <2>8. Plain(finish) /\ Plain(TopAs("PatternFinishAsRegular"))
    BY <2>2, PlainAs DEF Steady
  <2> HIDE DEF name_ns, finish, after
  <2>9. /\ Plain([finish EXCEPT !.token = after])
        /\ Plain([TopAs("PatternFinishAsRegular") EXCEPT !.has_error = TRUE])
    BY <2>8, PlainUpdate
  <2>10. Operand(ExpressionEntry(ForType, after + 1, name_ns), name_ns) BY NewEntries
  <2>11. Open(stack, AddLeafNode(name_ns, "InvalidParse", after, TRUE), diagnosed)
    BY <2>7, AddOther
  <2> QED BY <2>5, <2>7, <2>9, <2>10, <2>11, OpenStep
<1>10. ASSUME HandlePatternFinish PROVE Operators'
  <2>1. PICK s \in DOMAIN PatternNode : HandlePatternFinish!(s) BY <1>10 DEF HandlePatternFinish
  <2>2. Steady /\ PatternNode[s] \notin OperatorNodes BY <2>1, Tables, Steadying
  <2> QED BY <2>1, <2>2, AddOtherHere, OpenMarked, OpenStep DEF Steady
<1>11. ASSUME HandleFunctionIntroducer PROVE Operators'
  <2>1. Steady BY <1>11, Steadying DEF HandleFunctionIntroducer, InnerStates, PrimaryStates
  <2> DEFINE ns == ConsumedLeaf("FunctionIntroducer")
             e  == TopAs("FunctionAfterParameters")
             f  == Entry("DeclarationNameAndParamsAsRequired", Top.token, ns)
  <2>2. Open(Popped, ns, diagnosed) /\ Plain(e) BY <2>1, AddOtherHere, PlainAs DEF Steady
  <2>3. Plain(f) BY NewEntries
  <2>4. Step(ns, Popped \o <<e, f>>, position + 1, {}) BY <1>11 DEF HandleFunctionIntroducer
  <2> HIDE DEF ns, e, f
  <2> QED BY <2>2, <2>3, <2>4, OpenStep
<1>12. ASSUME HandleFunctionAfterParameters PROVE Operators'
  <2>1. Steady BY <1>12, Steadying DEF HandleFunctionAfterParameters, InnerStates, PrimaryStates
  <2>2. Plain(TopAs("FunctionSignatureFinish")) BY <2>1, PlainAs DEF Steady
  <2>3. /\ Plain(Here("FunctionReturnTypeFinish"))
        /\ Operand(ExpressionEntry(ForType, position + 1, nodes), nodes)
    BY NewEntries
  <2> QED
    BY <1>12, <2>1, <2>2, <2>3, OpenStep DEF HandleFunctionAfterParameters, Steady
<1>13. ASSUME HandleFunctionReturnTypeFinish PROVE Operators'
  <2>1. Steady BY <1>13, Steadying DEF HandleFunctionReturnTypeFinish, InnerStates, PrimaryStates
  <2> QED
    BY <1>13, <2>1, AddOtherHere, OpenStep DEF HandleFunctionReturnTypeFinish, Steady
<1>14. ASSUME HandleFunctionSignatureFinish PROVE Operators'
  <2>1. Steady BY <1>14, Steadying DEF HandleFunctionSignatureFinish, InnerStates, PrimaryStates
  <2>2. CASE Step(AddTopNode("FunctionDeclaration", position, Top.has_error),
                  Popped, position + 1, {})
    BY <2>1, <2>2, AddOtherHere, OpenStep DEF Steady
  <2>3. CASE \E skip, diags : RecoverFromDeclarationError("FunctionDeclaration", skip, diags)
    BY <2>1, <2>3, SteadyRecovery
  <2> DEFINE ns == AddTopNode("FunctionDefinitionStart", position, Top.has_error)
             e  == [TopAs("FunctionDefinitionFinish") EXCEPT !.has_error = FALSE]
             f  == Entry("StatementScopeLoop", position + 1, ns)
             ok == GetDeclarationContext # "unreachable"
  <2>4. CASE CheckedStep(ok, ns, Popped \o <<e, f>>, position + 1, {})
    <3>1. Open(Popped, ns, diagnosed) /\ Plain(e)
      BY <2>1, AddOtherHere, PlainAs, PlainUpdate DEF Steady
    <3>2. Plain(f) BY NewEntries
    <3> HIDE DEF ns, e, f, ok
    <3> QED BY <2>4, <3>1, <3>2, PushPair, SettledChecked
  <2> QED BY <1>14, <2>2, <2>3, <2>4 DEF HandleFunctionSignatureFinish
<1>15. ASSUME HandleFunctionDefinitionFinish PROVE Operators'
  <2>1. Steady BY <1>15, Steadying DEF HandleFunctionDefinitionFinish, InnerStates, PrimaryStates
  <2> QED
    BY <1>15, <2>1, AddOtherHere, OpenStep DEF HandleFunctionDefinitionFinish, Steady
<1>16. ASSUME HandleTypeIntroducer PROVE Operators'
  <2>1. PICK v \in TypeKind : HandleTypeIntroducer!(v) BY <1>16 DEF HandleTypeIntroducer
  <2>2. Steady BY <2>1, Tables, Steadying
  <2> DEFINE ns == ConsumedLeaf(v.introducer_node)
             e  == TopAs(v.after)
             f  == Entry("DeclarationNameAndParamsAsOptional", Top.token, ns)
  <2>3. Open(Popped, ns, diagnosed) /\ Plain(e)
    BY <2>2, Tables, Outer, AddOtherHere, PlainAs DEF Steady
  <2>4. Plain(f) BY NewEntries
  <2> HIDE DEF ns, e, f
  <2> QED BY <2>1, <2>3, <2>4, OpenStep DEF ns, e, f
<1>17. ASSUME HandleTypeAfterParams PROVE Operators'
  <2>1. PICK v \in TypeKind : HandleTypeAfterParams!(v) BY <1>17 DEF HandleTypeAfterParams
  <2>2. Steady BY <2>1, Tables, Steadying
  <2>3. CASE \E skip, diags : RecoverFromDeclarationError(v.declaration, skip, diags)
    BY <2>2, <2>3, Tables, SteadyRecovery
  <2>4. CASE Step(AddTopNode(v.declaration, position, FALSE), Popped, position + 1, {})
    BY <2>2, <2>4, Tables, AddOtherHere, OpenStep DEF Steady
  <2>5. CASE Step(AddTopNode(v.start, position, FALSE),
                  Popped \o <<TopAs(v.finish), Here("DeclarationScopeLoop")>>,
                  position + 1, {})
    <3>1. Open(Popped, AddTopNode(v.start, position, FALSE), diagnosed) /\ Plain(TopAs(v.finish))
      BY <2>2, Tables, Outer, AddOtherHere, PlainAs DEF Steady
    <3>2. Plain(Here("DeclarationScopeLoop")) BY NewEntries
    <3> QED BY <2>5, <3>1, <3>2, OpenStep
  <2> QED BY <2>1, <2>3, <2>4, <2>5
<1>18. ASSUME HandleTypeDefinitionFinish PROVE Operators'
  <2>1. PICK v \in TypeKind : HandleTypeDefinitionFinish!(v)
    BY <1>18 DEF HandleTypeDefinitionFinish
  <2>2. Steady /\ v.definition \notin OperatorNodes BY <2>1, Tables, Steadying
  <2> QED BY <2>1, <2>2, AddOtherHere, OpenStep DEF Steady
<1>19. ASSUME HandleVar PROVE Operators'
  <2>1. PICK s \in DOMAIN VarFinishState : HandleVar!(s) BY <1>19 DEF HandleVar
  <2>2. Steady BY <2>1, Tables, Steadying
  <2> DEFINE ns == ConsumedLeaf("VariableIntroducer")
             e  == Here(VarFinishState[s])
             f  == Here("VarAfterPattern")
             g  == Entry("PatternAsVariable", position + 1, ns)
  <2>3. Open(Popped, ns, diagnosed) BY <2>2, AddOtherHere DEF Steady
  <2>4. Plain(e) /\ Plain(f) /\ Plain(g) BY Tables, Outer, NewEntries
  <2> HIDE DEF ns, e, f, g
  <2> QED BY <2>1, <2>3, <2>4, OpenStep DEF ns, e, f, g
<1>20. ASSUME HandleVarAfterPattern PROVE Operators'
  <2>1. Steady BY <1>20, Steadying DEF HandleVarAfterPattern, InnerStates, PrimaryStates
  <2>2. CASE \E pos : Step(nodes, Popped, pos, {}) BY <2>1, <2>2, OpenStep DEF Steady
  <2> DEFINE ns == AddLeafNode(nodes, "VariableInitializer", AfterPattern, FALSE)
             e  == Entry("Expression", AfterPattern + 1, ns)
  <2>3. CASE Step(ns, Append(Popped, e), AfterPattern + 1, {})
    <3>1. Open(Popped, ns, diagnosed) BY <2>1, AddOtherHere DEF Steady
    <3>2. Operand(e, ns) BY NewEntries
    <3> HIDE DEF ns, e
    <3> QED BY <2>3, <3>1, <3>2, OpenStep
  <2> QED BY <1>20, <2>2, <2>3 DEF HandleVarAfterPattern
<1>21. ASSUME HandleVarFinishAsSemicolon PROVE Operators'
  <2>1. Steady BY <1>21, Steadying DEF HandleVarFinishAsSemicolon, InnerStates, PrimaryStates
  <2> QED BY <1>21, <2>1, SteadyFinish DEF HandleVarFinishAsSemicolon
<1>22. ASSUME HandleVarFinishAsFor PROVE Operators'
  <2>1. Steady BY <1>22, Steadying DEF HandleVarFinishAsFor, InnerStates, PrimaryStates
  <2> QED BY <1>22, <2>1, AddOtherHere, OpenStep DEF HandleVarFinishAsFor, Steady
<1>23. ASSUME HandleLet PROVE Operators'
  <2>1. Steady BY <1>23, Steadying DEF HandleLet, InnerStates, PrimaryStates
  <2> DEFINE ns == ConsumedLeaf("LetIntroducer")
             e  == Here("LetFinish")
             f  == Here("LetAfterPattern")
             g  == Entry("PatternAsLet", position + 1, ns)
  <2>2. Open(Popped, ns, diagnosed) BY <2>1, AddOtherHere DEF Steady
  <2>3. Plain(e) /\ Plain(f) /\ Plain(g) BY NewEntries
  <2>4. Step(ns, Popped \o <<e, f, g>>, position + 1, {}) BY <1>23 DEF HandleLet
  <2> HIDE DEF ns, e, f, g
  <2> QED BY <2>2, <2>3, <2>4, OpenStep
<1>24. ASSUME HandleLetAfterPattern PROVE Operators'
  <2>1. Steady BY <1>24, Steadying DEF HandleLetAfterPattern, InnerStates, PrimaryStates
  <2>2. CASE \E pos : Step(nodes, Popped, pos, {}) BY <2>1, <2>2, OpenStep DEF Steady
  <2> DEFINE ns == AddLeafNode(nodes, "LetInitializer", AfterPattern, FALSE)
             e  == Entry("Expression", AfterPattern + 1, ns)
  <2>3. CASE Step(ns, Append(Popped, e), AfterPattern + 1, {})
    <3>1. Open(Popped, ns, diagnosed) BY <2>1, AddOtherHere DEF Steady
    <3>2. Operand(e, ns) BY NewEntries
    <3> HIDE DEF ns, e
    <3> QED BY <2>3, <3>1, <3>2, OpenStep
  <2>4. CASE Step(nodes, ReturnErrorOnState(Popped), position, {position})
    BY <2>1, <2>4, OpenMarked, OpenStep DEF Steady
  <2> QED BY <1>24, <2>2, <2>3, <2>4 DEF HandleLetAfterPattern
<1>25. ASSUME HandleLetFinish PROVE Operators'
  <2>1. Steady BY <1>25, Steadying DEF HandleLetFinish, InnerStates, PrimaryStates
  <2> QED BY <1>25, <2>1, SteadyFinish DEF HandleLetFinish
<1>26. ASSUME HandleNamespace PROVE Operators'
  <2>1. Steady BY <1>26, Steadying DEF HandleNamespace, InnerStates, PrimaryStates
  <2> DEFINE ns == ConsumedLeaf("NamespaceStart")
             e  == TopAs("NamespaceFinish")
             f  == Entry("DeclarationNameAndParamsAsNone", Top.token, ns)
  <2>2. Open(Popped, ns, diagnosed) /\ Plain(e) BY <2>1, AddOtherHere, PlainAs DEF Steady
  <2>3. Plain(f) BY NewEntries
  <2>4. Step(ns, Popped \o <<e, f>>, position + 1, {}) BY <1>26 DEF HandleNamespace
  <2> HIDE DEF ns, e, f
  <2> QED BY <2>2, <2>3, <2>4, OpenStep
<1>27. ASSUME HandleNamespaceFinish PROVE Operators'
  <2>1. Steady BY <1>27, Steadying DEF HandleNamespaceFinish, InnerStates, PrimaryStates
  <2>2. CASE Step(AddTopNode("Namespace", position, FALSE), Popped, position + 1, {})
    BY <2>1, <2>2, AddOtherHere, OpenStep DEF Steady
  <2>3. CASE \E skip, diags : RecoverFromDeclarationError("Namespace", skip, diags)
    BY <2>1, <2>3, SteadyRecovery
  <2> QED BY <1>27, <2>2, <2>3 DEF HandleNamespaceFinish
<1>28. ASSUME HandlePackage PROVE Operators'
  <2>1. Steady BY <1>28, Steadying DEF HandlePackage, InnerStates, PrimaryStates
  <2> DEFINE name        == position + 1
             intro_ns    == ConsumedLeaf("PackageIntroducer")
             name_ns     == AddLeafNode(intro_ns, "Name", name, FALSE)
             has_library == Kind(name + 1) = "Library"
             literal_ns  == AddLeafNode(name_ns, "Literal", name + 2, FALSE)
             library_ns  == AddNode(literal_ns, "PackageLibrary", name + 1,
                                    Len(name_ns), FALSE)
             api         == IF has_library THEN name + 3 ELSE name + 1
             before_api  == IF has_library THEN library_ns ELSE name_ns
             api_kind    == IF Kind(api) = "Api" THEN "PackageApi" ELSE "PackageImpl"
             api_ns      == AddLeafNode(before_api, api_kind, api, FALSE)
             done_ns     == AddNode(api_ns, "PackageDirective", api + 1,
                                    Top.subtree_start, FALSE)
  <2>2. \/ \E p : \/ ExitPackage(intro_ns, p)  \/ ExitPackage(name_ns, p)
                  \/ ExitPackage(before_api, p) \/ ExitPackage(api_ns, p)
        \/ Step(done_ns, Popped, api + 2, {})
    BY <1>28 DEF HandlePackage
  <2>3. Open(Popped, intro_ns, diagnosed) BY <2>1, AddOtherHere DEF Steady
  <2> HIDE DEF intro_ns
  <2>4. Open(Popped, name_ns, diagnosed) BY <2>3, AddOther
  <2> HIDE DEF name_ns
  <2>5. Open(Popped, literal_ns, diagnosed) BY <2>4, AddOther
  <2> HIDE DEF literal_ns
  <2>6. Open(Popped, library_ns, diagnosed) BY <2>5, AddOther
  <2> HIDE DEF library_ns
  <2>7. Open(Popped, before_api, diagnosed) BY <2>4, <2>6
  <2> HIDE DEF before_api
  <2>8. api_kind \notin OperatorNodes OBVIOUS
  <2> HIDE DEF api_kind
  <2>9. Open(Popped, api_ns, diagnosed) BY <2>7, <2>8, AddOther
  <2> HIDE DEF api_ns
  <2>10. Open(Popped, done_ns, diagnosed) BY <2>9, AddOther
  <2> HIDE DEF done_ns
  <2> QED BY <2>2, <2>3, <2>4, <2>7, <2>9, <2>10, SteadyExit, OpenStep
<1> QED
  BY <1>1, <1>2, <1>3, <1>4, <1>5, <1>6, <1>7, <1>8, <1>9, <1>10, <1>11,
     <1>12, <1>13, <1>14, <1>15, <1>16, <1>17, <1>18, <1>19, <1>20, <1>21,
     <1>22, <1>23, <1>24, <1>25, <1>26, <1>27, <1>28 DEF Declaration

(* The handlers of statements. *)
LEMMA StatementOperators ==
  ASSUME Operators, Statement
  PROVE  Operators'
<1> USE DEF OperatorNodes, ExpressionStates
<1>1. ASSUME HandleStatement PROVE Operators'
  <2>1. Steady BY <1>1, Steadying DEF HandleStatement, InnerStates, PrimaryStates
  <2>2. CASE \E v \in JumpKind :
               Step(ConsumedLeaf(v.start), Append(Popped, Here(v.state)), position + 1, {})
    <3>1. PICK v \in JumpKind :
            Step(ConsumedLeaf(v.start), Append(Popped, Here(v.state)), position + 1, {})
      BY <2>2
    <3>2. Plain(Here(v.state)) /\ v.start \notin OperatorNodes BY Tables, Outer, NewEntries
    <3> QED BY <2>1, <3>1, <3>2, AddOtherHere, OpenStep DEF Steady
  <2>3. CASE Step(nodes, Popped \o <<Here("StatementForFinish"), Here("StatementForHeader")>>,
                  position + 1, {})
    BY <2>1, <2>3, NewEntries, OpenStep DEF Steady
  <2>4. CASE /\ PositionKind \in DOMAIN StatementState
             /\ Step(nodes, Append(Popped, Here(StatementState[PositionKind])), position, {})
    <3>1. Plain(Here(StatementState[PositionKind])) BY <2>4, Tables, Outer, NewEntries
    <3> QED BY <2>1, <2>4, <3>1, OpenStep DEF Steady
  <2>5. CASE Step(nodes, Popped \o <<Here("ExpressionStatementFinish"),
                    ExpressionEntry(ForExpressionStatement, position, nodes)>>, position, {})
    <3>1. /\ Plain(Here("ExpressionStatementFinish"))
          /\ Operand(ExpressionEntry(ForExpressionStatement, position, nodes), nodes)
      BY NewEntries
    <3> QED BY <2>1, <2>5, <3>1, OpenStep DEF Steady
  <2> QED BY <1>1, <2>2, <2>3, <2>4, <2>5 DEF HandleStatement
<1>2. ASSUME HandleStatementKeywordFinish PROVE Operators'
  <2>1. PICK s \in DOMAIN KeywordFinishNode : HandleStatementKeywordFinish!(s)
    BY <1>2 DEF HandleStatementKeywordFinish
  <2>2. Steady /\ KeywordFinishNode[s] \notin OperatorNodes BY <2>1, Tables, Steadying
  <2> QED BY <2>1, <2>2, SteadyFinish
<1>3. ASSUME HandleStatementReturn PROVE Operators'
  <2>1. Steady BY <1>3, Steadying DEF HandleStatementReturn, InnerStates, PrimaryStates
  <2> DEFINE ns     == ConsumedLeaf("ReturnStatementStart")
             finish == TopAs("StatementReturnFinish")
             e      == Entry("Expression", position + 1, ns)
  <2>2. Open(Popped, ns, diagnosed) /\ Plain(finish) BY <2>1, AddOtherHere, PlainAs DEF Steady
  <2>3. Operand(e, ns) BY NewEntries
  <2>4. \/ Step(ns, Popped \o <<finish>>, position + 1, {})
        \/ Step(ns, Popped \o <<finish, e>>, position + 1, {})
    BY <1>3 DEF HandleStatementReturn
  <2> HIDE DEF ns, finish, e
  <2>5. Open(Popped \o <<finish>>, ns, diagnosed) BY <2>2, PushPlain
  <2> QED BY <2>2, <2>3, <2>4, <2>5, OpenStep
<1>4. ASSUME HandleStatementScopeLoop PROVE Operators'
  <2>1. Steady BY <1>4, Steadying DEF HandleStatementScopeLoop, InnerStates, PrimaryStates
  <2> QED
    BY <1>4, <2>1, OpenMarked, NewEntries, OpenStep DEF HandleStatementScopeLoop, Steady
<1>5. ASSUME HandleStatementForHeader PROVE Operators'
  <2>1. Steady BY <1>5, Steadying DEF HandleStatementForHeader, InnerStates, PrimaryStates
  <2> DEFINE open   == ConsumeAndAddOpenParen(Top.token, "ForHeaderStart")
             header == [TopAs("StatementForHeaderIn") EXCEPT !.token = open.token]
             e      == Entry("VarAsFor", open.position, open.nodes)
             bad    == [header EXCEPT !.has_error = TRUE]
  <2>2. Open(Popped, open.nodes, diagnosed) BY <2>1, OpenStart DEF Steady
  <2>3. \/ \E pos, diags : Step(open.nodes, Popped \o <<header, e>>, pos, diags)
        \/ \E pos, diags : Step(open.nodes, Append(Popped, bad), pos, diags)
    BY <1>5 DEF HandleStatementForHeader
  <2>4. Plain(e) BY NewEntries
  <2> HIDE DEF open, e
  <2>5. Plain(header) BY <2>1, PlainAs, PlainUpdate DEF Steady
  <2> HIDE DEF header
  <2>6. Plain(bad) BY <2>5, PlainUpdate
  <2> HIDE DEF bad
  <2> QED BY <2>2, <2>3, <2>4, <2>5, <2>6, OpenStep
<1>6. ASSUME HandleStatementForHeaderIn PROVE Operators'
  <2>1. Steady BY <1>6, Steadying DEF HandleStatementForHeaderIn, InnerStates, PrimaryStates
  <2>2. /\ Plain(TopAs("StatementForHeaderFinish"))
        /\ Operand(Here("Expression"), nodes)
    BY <2>1, PlainAs, NewEntries DEF Steady
  <2> QED BY <1>6, <2>1, <2>2, OpenStep DEF HandleStatementForHeaderIn, Steady
<1>7. ASSUME HandleStatementForHeaderFinish PROVE Operators'
  <2>1. Steady BY <1>7, Steadying DEF HandleStatementForHeaderFinish, InnerStates, PrimaryStates
  <2> DEFINE close == ConsumeAndAddCloseSymbol(Top.token, "ForHeader")
             e     == Entry("CodeBlock", close.position, close.nodes)
  <2>2. Open(Popped, close.nodes, diagnosed) BY <2>1, OpenClose DEF Steady
  <2>3. CheckedStep(close.ok, close.nodes, Append(Popped, e), close.position, close.diags)
    BY <1>7 DEF HandleStatementForHeaderFinish
  <2> HIDE DEF close
  <2>4. Plain(e) BY NewEntries
  <2> HIDE DEF e
  <2> QED BY <2>2, <2>3, <2>4, PushPlain, OpenSettled, SettledChecked
<1>8. ASSUME HandleStatementForFinish PROVE Operators'
  <2>1. Steady BY <1>8, Steadying DEF HandleStatementForFinish, InnerStates, PrimaryStates
  <2> QED BY <1>8, <2>1, AddOtherHere, OpenStep DEF HandleStatementForFinish, Steady
<1>9. ASSUME HandleConditionalStatement PROVE Operators'
  <2>1. PICK v \in ConditionKind : HandleConditionalStatement!(v)
    BY <1>9 DEF HandleConditionalStatement
  <2>2. Steady /\ Plain(Here(v.condition_finish)) /\ Plain(Here(v.condition))
    BY <2>1, Tables, Outer, Steadying, NewEntries
  <2> QED BY <2>1, <2>2, OpenStep DEF Steady
<1>10. ASSUME HandleParenCondition PROVE Operators'
  <2>1. PICK v \in ConditionKind : HandleParenCondition!(v) BY <1>10 DEF HandleParenCondition
  <2>2. Steady BY <2>1, Tables, Steadying
  <2> DEFINE open   == ConsumeAndAddOpenParen(Top.token, v.start_node)
             finish == [TopAs(v.paren_finish) EXCEPT !.token = open.token]
             e      == Entry("Expression", open.position, open.nodes)
             ns     == AddLeafNode(open.nodes, "InvalidParse", open.position, TRUE)
  <2>3. \/ Step(ns, Append(Popped, finish), open.position, open.diags)
        \/ Step(open.nodes, Popped \o <<finish, e>>, open.position, open.diags)
    BY <2>1
  <2>4. Open(Popped, open.nodes, diagnosed) BY <2>2, Tables, OpenStart DEF Steady
  <2>5. Operand(e, open.nodes) BY NewEntries
  <2> HIDE DEF open, e
  <2>6. Open(Popped, ns, diagnosed) BY <2>4, AddOther
  <2>7. Plain(finish) BY <2>2, Tables, Outer, PlainAs, PlainUpdate DEF Steady
  <2> HIDE DEF finish, ns
  <2> QED BY <2>3, <2>4, <2>5, <2>6, <2>7, OpenStep
<1>11. ASSUME HandleParenConditionFinish PROVE Operators'
  <2>1. PICK v \in ConditionKind : HandleParenConditionFinish!(v)
    BY <1>11 DEF HandleParenConditionFinish
  <2>2. Steady BY <2>1, Tables, Steadying
  <2>3. Open(Popped, ConsumeAndAddCloseSymbol(Top.token, v.node).nodes, diagnosed)
    BY <2>2, Tables, OpenClose DEF Steady
  <2> QED BY <2>1, <2>3, OpenSettled, SettledChecked
<1>12. ASSUME HandleConditionFinish PROVE Operators'
  <2>1. PICK v \in ConditionKind : HandleConditionFinish!(v) BY <1>12 DEF HandleConditionFinish
  <2>2. Steady BY <2>1, Tables, Steadying
  <2>3. Plain(TopAs(v.block_finish)) /\ Plain(Here("CodeBlock"))
    BY <2>2, Tables, Outer, PlainAs, NewEntries DEF Steady
  <2> QED BY <2>1, <2>2, <2>3, OpenStep DEF Steady
<1>13. ASSUME HandleStatementIfThenBlockFinish PROVE Operators'
  <2>1. Steady BY <1>13, Steadying DEF HandleStatementIfThenBlockFinish, InnerStates, PrimaryStates
  <2> DEFINE ns == ConsumedLeaf("IfStatementElse")
             e  == TopAs("StatementIfElseBlockFinish")
             s  == IF Kind(position + 1) = "If" THEN "StatementIf" ELSE "CodeBlock"
             f  == Entry(s, position + 1, ns)
  <2>2. Open(Popped, ns, diagnosed) /\ Plain(e) BY <2>1, AddOtherHere, PlainAs DEF Steady
  <2>3. Plain(f) BY NewEntries
  <2>4. CASE Step(ns, Popped \o <<e, f>>, position + 1, {})
    <3> HIDE DEF ns, e, f
    <3> QED BY <2>2, <2>3, <2>4, OpenStep
  <2>5. CASE Step(AddTopNode("IfStatement", Top.token, Top.has_error), Popped, position, {})
    BY <2>1, <2>5, AddOtherHere, OpenStep DEF Steady
  <2> QED BY <1>13, <2>4, <2>5 DEF HandleStatementIfThenBlockFinish
<1>14. ASSUME HandleStatementIfElseBlockFinish PROVE Operators'
  <2>1. Steady BY <1>14, Steadying DEF HandleStatementIfElseBlockFinish, InnerStates, PrimaryStates
  <2> QED BY <1>14, <2>1, AddOtherHere, OpenStep DEF HandleStatementIfElseBlockFinish, Steady
<1>15. ASSUME HandleStatementWhileBlockFinish PROVE Operators'
  <2>1. Steady BY <1>15, Steadying DEF HandleStatementWhileBlockFinish, InnerStates, PrimaryStates
  <2> QED BY <1>15, <2>1, AddOtherHere, OpenStep DEF HandleStatementWhileBlockFinish, Steady
<1>16. ASSUME HandleCodeBlock PROVE Operators'
  <2>1. Steady BY <1>16, Steadying DEF HandleCodeBlock, InnerStates, PrimaryStates
  <2> DEFINE here == ConsumedLeaf("CodeBlockStart")
             none == AddLeafNode(nodes, "CodeBlockStart", position, TRUE)
             e    == Here("CodeBlockFinish")
             f    == Entry("StatementScopeLoop", position + 1, here)
             g    == Entry("Statement", position, none)
  <2>2. Open(Popped, here, diagnosed) /\ Open(Popped, none, diagnosed)
    BY <2>1, AddOtherHere DEF Steady
  <2>3. Plain(e) /\ Plain(f) /\ Plain(g) BY NewEntries
  <2>4. \/ Step(here, Popped \o <<e, f>>, position + 1, {})
        \/ Step(none, Popped \o <<e, g>>, position, {position})
    BY <1>16 DEF HandleCodeBlock
  <2> HIDE DEF here, none, e, f, g
  <2> QED BY <2>2, <2>3, <2>4, OpenStep
<1>17. ASSUME HandleCodeBlockFinish PROVE Operators'
  <2>1. Steady BY <1>17, Steadying DEF HandleCodeBlockFinish, InnerStates, PrimaryStates
  <2> QED BY <1>17, <2>1, AddOtherHere, OpenStep DEF HandleCodeBlockFinish, Steady
<1> QED
  BY <1>1, <1>2, <1>3, <1>4, <1>5, <1>6, <1>7, <1>8, <1>9, <1>10, <1>11,
     <1>12, <1>13, <1>14, <1>15, <1>16, <1>17 DEF Statement

-----------------------------------------------------------------------------
(* Expressions. *)

(* The entry under the top. *)
Below == Popped[Len(Popped)]

(* What a handler of an expression state may rely on, over any tree that   *)
(* keeps the order.                                                        *)
LEMMA Inside ==
  ASSUME Operators, NEW s, At(s), NEW ns, NEW dg, Ordered(state_stack, ns, dg)
  PROVE  /\ state_stack # <<>> /\ Top.state = s
         /\ IsEntry(Top) /\ KnowsOperator(Top, dg)
         /\ Ordered(Popped, ns, dg)
         /\ Popped # <<>> => LiesOn(Top, Below, ns, dg)
         /\ TopFits(Top, nodes, diagnosed)
         /\ Ordered(state_stack, nodes, diagnosed)
         /\ Len(nodes) \in Nat /\ Len(ns) \in Nat
<1>1. state_stack # <<>> /\ Top.state = s BY DEF At
<1>2. /\ IsEntry(Top) /\ KnowsOperator(Top, dg)
      /\ Ordered(Popped, ns, dg)
      /\ Popped # <<>> => LiesOn(Top, Below, ns, dg)
  BY <1>1, OrderedPop DEF Top, Popped, Below
<1>3. TopFits(Top, nodes, diagnosed) /\ Ordered(state_stack, nodes, diagnosed)
  BY <1>1 DEF Operators, Settled, Top
<1> QED BY <1>1, <1>2, <1>3, SeqLen DEF Ordered

(* The first node of what AddNode adds. *)
LEMMA NodeAdded ==
  ASSUME NEW ns, NEW kind, NEW token, NEW start, NEW has_error, IsSeq(ns), start \in Int
  PROVE  LET ms == AddNode(ns, kind, token, start, has_error) IN
         /\ Len(ms) = Len(ns) + 1 /\ Len(ns) \in Nat
         /\ \A i \in 1 .. Len(ns) : ms[i] = ns[i]
         /\ OneSubtree(ms, start)
         /\ ms[Len(ms)].kind = kind /\ ms[Len(ms)].token = token
<1> DEFINE n == [kind |-> kind, has_error |-> has_error, token |-> token,
                 subtree_size |-> Len(ns) - start + 1]
<1>1. /\ Len(Append(ns, n)) = Len(ns) + 1 /\ Len(ns) \in Nat
      /\ \A i \in 1 .. Len(ns) : Append(ns, n)[i] = ns[i]
      /\ Append(ns, n)[Len(ns) + 1] = n
  BY SeqAppend, SeqLen
<1>2. n.kind = kind /\ n.token = token /\ n.subtree_size = Len(ns) - start + 1 OBVIOUS
<1> HIDE DEF n
<1>3. OneSubtree(Append(ns, n), start) BY <1>1, <1>2 DEF OneSubtree, FirstNode
<1> QED BY <1>1, <1>2, <1>3 DEF AddNode, n

(* The subtree of a state that is closed starts somewhere. *)
LEMMA StartIsInt ==
  ASSUME Inductive, NEW s, At(s), s # "DeclarationScopeLoop"
  PROVE  Top.subtree_start \in Int
BY Popping, SeqLen DEF Ready, IsCut, Sound

(* A primary or conditional expression ends in a node over all of it. *)
LEMMA FinishPrimary ==
  ASSUME Operators, NEW s, At(s), s \notin ExpressionStates,
         NEW ns, Ordered(state_stack, ns, diagnosed), Top.subtree_start \in Int,
         NEW kind, kind \notin OperatorNodes \union {"ShortCircuitOperand"},
         NEW token, NEW has_error
  PROVE  LET ms == AddNode(ns, kind, token, Top.subtree_start, has_error) IN
         /\ Settled(Popped, ms, diagnosed)
         /\ Settled(ReturnErrorOnState(Popped), ms, diagnosed)
<1> DEFINE ms == AddNode(ns, kind, token, Top.subtree_start, has_error)
<1>1. Ordered(state_stack, ms, diagnosed) BY AddOther
<1>2. /\ OneSubtree(ms, Top.subtree_start) /\ ms[Len(ms)].kind = kind
      /\ Len(ms) = Len(ns) + 1 /\ Len(ns) \in Nat
  BY NodeAdded DEF Ordered
<1> HIDE DEF ms
<1>3. /\ Top.state = s /\ Ordered(Popped, ms, diagnosed)
      /\ Popped # <<>> => LiesOn(Top, Below, ms, diagnosed)
  BY <1>1, Inside
<1>4. ~IsOperator(ms[Len(ms)]) BY <1>2 DEF IsOperator
<1>5. ASSUME Popped # <<>> PROVE TopFits(Below, ms, diagnosed)
  <2>1. LiesOn(Top, Below, ms, diagnosed) BY <1>3, <1>5
  <2>2. CASE Below.state \in OperatorStates
    <3>1. Below.state = "ExpressionLoopForBinary" =>
            LeftFits(Below.lhs_precedence, Below.token, Top.subtree_start, ms, diagnosed)
      BY <2>1, <2>2 DEF LiesOn
    <3>2. FirstNode(ms, Len(ms)) - 1 = Top.subtree_start /\ Len(ms) >= 1
      BY <1>2 DEF OneSubtree
    <3> QED BY <1>4, <2>2, <3>1, <3>2 DEF TopFits, OperandStates, LoopStates, OperatorStates
  <2>3. CASE Below.state \in LoopStates
    BY <1>2, <1>3, <1>4, <2>1, <2>3 DEF TopFits, LiesOn, OperandStates, LoopStates,
       OperatorStates, ExpressionStates
  <2>4. CASE Below.state \notin OperatorStates \union LoopStates
    BY <2>1, <2>4 DEF TopFits, LiesOn, LoopStates, OperatorStates
  <2> QED BY <2>2, <2>3, <2>4
<1>6. Settled(Popped, ms, diagnosed) BY <1>3, <1>5 DEF Settled, Below
<1> QED BY <1>6, MarkLast DEF ms

(* A part of a primary expression is followed by the next. *)
LEMMA PushPrimary ==
  ASSUME Operators, NEW s, At(s), s \in PrimaryStates,
         NEW ns, Ordered(state_stack, ns, diagnosed),
         NEW e, IsEntry(e), e.state \in PrimaryStates,
         e.subtree_start = Top.subtree_start
  PROVE  Open(Append(Popped, e), ns, diagnosed) /\ Open(Popped \o <<e>>, ns, diagnosed)
<1>1. /\ Top.state = s /\ Ordered(Popped, ns, diagnosed)
      /\ Popped # <<>> => LiesOn(Top, Below, ns, diagnosed)
  BY Inside
<1>2. KnowsOperator(e, diagnosed) BY DEF KnowsOperator, PrimaryStates, OperatorStates
<1>3. Popped # <<>> => LiesOn(e, Below, ns, diagnosed)
  BY <1>1 DEF LiesOn, PrimaryStates, OperatorStates
<1>4. e.state \notin ExpressionStates BY DEF PrimaryStates, ExpressionStates
<1>5. /\ Ordered(Append(Popped, e), ns, diagnosed)
      /\ Append(Popped, e)[Len(Append(Popped, e))] = e
      /\ Popped \o <<e>> = Append(Popped, e)
  BY <1>1, <1>2, <1>3, OrderedPush DEF Below
<1> QED BY <1>4, <1>5 DEF Open

(* The precedence of a trailing operator, once it is known to be infix or  *)
(* postfix.                                                                *)
LEMMA TrailingLevel ==
  ASSUME NEW k \in TrailingOperators, NEW infix \in BOOLEAN
  PROVE  /\ ForTrailing(k, infix).is_binary =>
              ForTrailing(k, infix).level = ForTrailing(k, TRUE).level
         /\ ~ForTrailing(k, infix).is_binary =>
              ForTrailing(k, infix).level = ForTrailing(k, FALSE).level
<1>1. CASE infix = TRUE BY <1>1 DEF ForTrailing
<1>2. CASE infix = FALSE
  <2>1. CASE k = "Star" BY <1>2, <2>1 DEF ForTrailing
  <2>2. CASE k # "Star"
    BY <1>2, <2>2 DEF ForTrailing, TrailingOperators, AssignmentOperators,
       RelationalOperators
  <2> QED BY <2>1, <2>2
<1> QED BY <1>1, <1>2

(* The operand of an operator, or any other expression, begins. *)
LEMMA ExpressionOrdered ==
  ASSUME Operators, HandleExpression
  PROVE  Operators'
<1>1. At("Expression") BY DEF HandleExpression
<1>2. Ordered(state_stack, nodes, diagnosed) BY DEF Operators, Settled
<1>3. /\ Top.state = "Expression" /\ IsEntry(Top) /\ Ordered(Popped, nodes, diagnosed)
      /\ Popped # <<>> => LiesOn(Top, Below, nodes, diagnosed)
      /\ TopFits(Top, nodes, diagnosed)
  BY <1>1, <1>2, Inside
<1>4. Top.subtree_start = Len(nodes) BY <1>3 DEF TopFits, OperandStates
<1> DEFINE op == ForLeading[PositionKind]
           dg == diagnosed \union PrefixOperatorDiagnostics(op)
           finish == Here("IfExpressionFinish")
           cond   == Here("IfExpressionFinishCondition")
           prefix == StateStackEntry("ExpressionLoopForPrefix", Top.ambient_precedence,
                                     op, position, Len(nodes))
           operand == ExpressionEntry(op, position + 1, nodes)
           loop   == StateStackEntry("ExpressionLoop", Top.ambient_precedence,
                                     ForPostfixExpression, position, Len(nodes))
           inner  == Here("ExpressionInPostfix")
<1>5. /\ IsEntry(finish) /\ finish.state = "IfExpressionFinish"
      /\ finish.subtree_start = Len(nodes)
      /\ IsEntry(prefix) /\ prefix.state = "ExpressionLoopForPrefix"
      /\ prefix.subtree_start = Len(nodes)
      /\ IsEntry(loop) /\ loop.state = "ExpressionLoop" /\ loop.subtree_start = Len(nodes)
      /\ IsEntry(inner) /\ inner.state = "ExpressionInPostfix"
      /\ inner.subtree_start = Len(nodes)
      /\ IsEntry(operand) /\ operand.state = "Expression"
      /\ operand.subtree_start = Len(nodes)
  BY EntryRecord DEF Here, Entry, ExpressionEntry, StateStackEntry
<1>6. /\ prefix.ambient_precedence = Top.ambient_precedence
      /\ prefix.lhs_precedence = op /\ prefix.token = position
      /\ loop.ambient_precedence = Top.ambient_precedence
      /\ operand.ambient_precedence = op
  BY DEF StateStackEntry, ExpressionEntry
<1>7. Plain(cond) BY NewEntries DEF ExpressionStates
<1>8. IsSeq(Popped) BY <1>3 DEF Ordered
<1>9. Ordered(Popped, nodes, dg) /\ (Popped # <<>> => LiesOn(Top, Below, nodes, dg))
  <2>1. Ordered(state_stack, nodes, dg) BY <1>2, MoreDiagnosed
  <2> HIDE DEF dg
  <2> QED BY <1>1, <2>1, Inside
<1>10. \/ /\ PositionKind = "If"
          /\ Step(nodes, (Popped \o <<finish, cond>>) \o <<operand>>, position + 1,
                  PrefixOperatorDiagnostics(op))
       \/ /\ PositionKind \in DOMAIN ForLeading
          /\ Step(nodes, (Popped \o <<prefix>>) \o <<operand>>, position + 1,
                  PrefixOperatorDiagnostics(op))
       \/ Step(nodes, Popped \o <<loop, inner>>, position, {})
  BY DEF HandleExpression
<1>11. GetPriority(Top.ambient_precedence, op) = "RightFirst" \/ position \in dg
  BY DEF PrefixOperatorDiagnostics
<1>12. op = ForLeading[Kind(position)] BY DEF PositionKind
<1> HIDE DEF finish, cond, prefix, operand, loop, inner, op, dg
<1>13. CASE Step(nodes, (Popped \o <<finish, cond>>) \o <<operand>>, position + 1,
                 PrefixOperatorDiagnostics(op))
  <2>1. KnowsOperator(finish, diagnosed) BY <1>5 DEF KnowsOperator, OperatorStates
  <2>2. Popped # <<>> => LiesOn(finish, Below, nodes, diagnosed)
    BY <1>3, <1>4, <1>5 DEF LiesOn, OperatorStates, PrimaryStates
  <2>3. /\ Ordered(Append(Popped, finish), nodes, diagnosed)
        /\ Append(Popped, finish)[Len(Append(Popped, finish))] = finish
    BY <1>3, <1>5, <2>1, <2>2, OrderedPush DEF Below
  <2>4. Open(Append(Popped, finish), nodes, diagnosed)
    BY <1>5, <2>3 DEF Open, ExpressionStates
  <2>5. Open(Append(Append(Popped, finish), cond), nodes, diagnosed)
    BY <1>7, <2>4, PushPlain
  <2>6. Popped \o <<finish, cond>> = Append(Append(Popped, finish), cond)
    BY <1>8, ConcatTwo
  <2>7. Operand(operand, nodes) BY <1>5 DEF Operand
  <2>8. Settled((Popped \o <<finish, cond>>) \o <<operand>>, nodes, diagnosed)
    BY <2>5, <2>6, <2>7, PushOperand
  <2> QED BY <1>13, <2>8, SettledStep
<1>14. CASE /\ PositionKind \in DOMAIN ForLeading
            /\ Step(nodes, (Popped \o <<prefix>>) \o <<operand>>, position + 1,
                    PrefixOperatorDiagnostics(op))
  <2>1. KnowsOperator(prefix, dg)
    BY <1>5, <1>6, <1>11, <1>12 DEF KnowsOperator, OperatorStates, Fits
  <2>2. Popped # <<>> => LiesOn(prefix, Below, nodes, dg)
    BY <1>3, <1>9, <1>4, <1>5, <1>6 DEF LiesOn, OperatorStates, PrimaryStates
  <2>3. /\ Ordered(Append(Popped, prefix), nodes, dg)
        /\ Append(Popped, prefix)[Len(Append(Popped, prefix))] = prefix
        /\ Append(Popped, prefix) # <<>>
        /\ Popped \o <<prefix>> = Append(Popped, prefix)
    BY <1>5, <1>9, <2>1, <2>2, OrderedPush DEF Below
  <2>4. KnowsOperator(operand, dg) BY <1>5 DEF KnowsOperator, OperatorStates
  <2>5. LiesOn(operand, prefix, nodes, dg)
    BY <1>5, <1>6 DEF LiesOn, OperatorStates, OperandStates
  <2> DEFINE b     == Append(Popped, prefix)
             stack == Append(b, operand)
  <2>6. /\ Ordered(stack, nodes, dg) /\ stack[Len(stack)] = operand
        /\ (Popped \o <<prefix>>) \o <<operand>> = stack
    <3>1. Ordered(b, nodes, dg) /\ b[Len(b)] = prefix /\ Popped \o <<prefix>> = b BY <2>3
    <3> HIDE DEF b
    <3>2. b # <<>> => LiesOn(operand, b[Len(b)], nodes, dg) BY <2>5, <3>1
    <3> QED BY <1>5, <2>4, <3>1, <3>2, OrderedPush
  <2>7. TopFits(operand, nodes, dg)
    BY <1>5 DEF TopFits, LoopStates, OperatorStates
  <2>8. Settled(stack, nodes, dg) BY <2>6, <2>7 DEF Settled
  <2> HIDE DEF stack
  <2> QED BY <1>14, <2>6, <2>8, SettledStep DEF dg
<1>15. CASE Step(nodes, Popped \o <<loop, inner>>, position, {})
  <2>1. KnowsOperator(loop, diagnosed) /\ KnowsOperator(inner, diagnosed)
    BY <1>5 DEF KnowsOperator, OperatorStates
  <2>2. Popped # <<>> => LiesOn(loop, Below, nodes, diagnosed)
    BY <1>3, <1>4, <1>5, <1>6 DEF LiesOn, OperatorStates, PrimaryStates
  <2>3. /\ Ordered(Append(Popped, loop), nodes, diagnosed)
        /\ Append(Popped, loop)[Len(Append(Popped, loop))] = loop
    BY <1>3, <1>5, <2>1, <2>2, OrderedPush DEF Below
  <2>4. LiesOn(inner, loop, nodes, diagnosed)
    BY <1>5 DEF LiesOn, OperatorStates, OperandStates
  <2> DEFINE b     == Append(Popped, loop)
             stack == Append(b, inner)
  <2>5. Ordered(stack, nodes, diagnosed) /\ stack[Len(stack)] = inner
    <3>1. Ordered(b, nodes, diagnosed) /\ b[Len(b)] = loop BY <2>3
    <3> HIDE DEF b
    <3>2. b # <<>> => LiesOn(inner, b[Len(b)], nodes, diagnosed) BY <2>4, <3>1
    <3> QED BY <1>5, <2>1, <3>1, <3>2, OrderedPush
  <2>6. TopFits(inner, nodes, diagnosed) BY <1>5 DEF TopFits, LoopStates, OperatorStates
  <2>7. Settled(stack, nodes, diagnosed) BY <2>5, <2>6 DEF Settled
  <2>8. Popped \o <<loop, inner>> = stack BY <1>8, ConcatTwo
  <2> HIDE DEF stack
  <2> QED BY <1>15, <2>7, <2>8, SettledStep
<1> QED BY <1>10, <1>13, <1>14, <1>15

(* One more entry, on one that it may lie on. *)
LEMMA PushOn ==
  ASSUME NEW b, NEW ns, NEW dg, NEW e, NEW f, Ordered(b, ns, dg),
         IsEntry(e), KnowsOperator(e, dg), b # <<>> => LiesOn(e, b[Len(b)], ns, dg),
         IsEntry(f), KnowsOperator(f, dg), LiesOn(f, e, ns, dg), TopFits(f, ns, dg)
  PROVE  Settled(b \o <<e, f>>, ns, dg)
<1> DEFINE a == Append(b, e)
           c == Append(a, f)
<1>1. Ordered(a, ns, dg) /\ a[Len(a)] = e BY OrderedPush
<1>2. b \o <<e, f>> = c BY ConcatTwo DEF Ordered
<1> HIDE DEF a
<1>3. a # <<>> => LiesOn(f, a[Len(a)], ns, dg) BY <1>1
<1>4. Ordered(c, ns, dg) /\ c[Len(c)] = f BY <1>1, <1>3, OrderedPush
<1> HIDE DEF c
<1> QED BY <1>2, <1>4 DEF Settled

(* A terminal or a bracketed expression, or neither. *)
LEMMA PostfixOrdered ==
  ASSUME Operators, HandleExpressionInPostfix
  PROVE  Operators'
<1>1. At("ExpressionInPostfix") BY DEF HandleExpressionInPostfix
<1>2. Ordered(state_stack, nodes, diagnosed) BY DEF Operators, Settled
<1>3. /\ Top.state = "ExpressionInPostfix" /\ IsEntry(Top)
      /\ Ordered(Popped, nodes, diagnosed)
      /\ Popped # <<>> => LiesOn(Top, Below, nodes, diagnosed)
      /\ TopFits(Top, nodes, diagnosed) /\ Len(nodes) \in Nat
  BY <1>1, <1>2, Inside
<1>4. Top.subtree_start = Len(nodes) BY <1>3 DEF TopFits, OperandStates
<1> DEFINE loop == TopAs("ExpressionInPostfixLoop")
<1>5. /\ IsEntry(loop) /\ loop.state = "ExpressionInPostfixLoop"
      /\ loop.subtree_start = Len(nodes)
  BY <1>3, <1>4, EntryUpdate DEF TopAs
<1> HIDE DEF loop
<1>6. KnowsOperator(loop, diagnosed) BY <1>5 DEF KnowsOperator, OperatorStates
<1>7. ASSUME NEW kind, NEW token, NEW has_error,
             kind \notin OperatorNodes \union {"ShortCircuitOperand"}
      PROVE  LET ns == AddLeafNode(nodes, kind, token, has_error) IN
             /\ Ordered(Popped, ns, diagnosed)
             /\ Popped # <<>> => LiesOn(Top, Below, ns, diagnosed)
             /\ OneSubtree(ns, Len(nodes)) /\ ~IsOperator(ns[Len(ns)])
             /\ ns[Len(ns)].kind # "ShortCircuitOperand"
  <2> DEFINE n  == [kind |-> kind, has_error |-> has_error, token |-> token,
                    subtree_size |-> 1]
             ns == Append(nodes, n)
  <2>1. n.kind = kind /\ n.subtree_size = 1 OBVIOUS
  <2>2. /\ Ordered(state_stack, ns, diagnosed)
        /\ Len(ns) = Len(nodes) + 1 /\ ns[Len(nodes) + 1] = n
    <3> HIDE DEF n
    <3> QED BY <1>2, <1>7, <2>1, OtherNode
  <2> HIDE DEF n, ns
  <2>3. /\ Ordered(Popped, ns, diagnosed)
        /\ Popped # <<>> => LiesOn(Top, Below, ns, diagnosed)
    BY <1>1, <2>2, Inside
  <2>4. /\ OneSubtree(ns, Len(nodes)) /\ ~IsOperator(ns[Len(ns)])
        /\ ns[Len(ns)].kind # "ShortCircuitOperand"
    BY <1>3, <1>7, <2>1, <2>2 DEF OneSubtree, FirstNode, IsOperator
  <2>5. AddLeafNode(nodes, kind, token, has_error) = ns BY DEF AddLeafNode, ns, n
  <2> QED BY <2>3, <2>4, <2>5
<1>8. CASE /\ PositionKind \in DOMAIN TerminalNode
           /\ Step(ConsumedLeaf(TerminalNode[PositionKind]), Append(Popped, loop),
                   position + 1, {})
  <2> DEFINE kind == TerminalNode[PositionKind]
             ns   == AddLeafNode(nodes, kind, position, FALSE)
  <2>1. kind \notin OperatorNodes \union {"ShortCircuitOperand"}
    BY <1>8 DEF TerminalNode, LiteralTokens, OperatorNodes
  <2> HIDE DEF kind
  <2>2. /\ Ordered(Popped, ns, diagnosed)
        /\ Popped # <<>> => LiesOn(Top, Below, ns, diagnosed)
        /\ OneSubtree(ns, Len(nodes)) /\ ~IsOperator(ns[Len(ns)])
        /\ ns[Len(ns)].kind # "ShortCircuitOperand"
    BY <1>7, <2>1
  <2>3. Step(ns, Append(Popped, loop), position + 1, {}) BY <1>8 DEF ConsumedLeaf, kind
  <2> HIDE DEF ns
  <2>4. Popped # <<>> => LiesOn(loop, Below, ns, diagnosed)
    BY <1>3, <1>4, <1>5, <2>2 DEF LiesOn, OperatorStates, PrimaryStates
  <2>5. /\ Ordered(Append(Popped, loop), ns, diagnosed)
        /\ Append(Popped, loop)[Len(Append(Popped, loop))] = loop
    BY <1>5, <1>6, <2>2, <2>4, OrderedPush DEF Below
  <2>6. TopFits(loop, ns, diagnosed)
    BY <1>5, <2>2 DEF TopFits, OperandStates, LoopStates, OperatorStates
  <2>7. Settled(Append(Popped, loop), ns, diagnosed) BY <2>5, <2>6 DEF Settled
  <2> QED BY <2>3, <2>7, SettledStep
<1>9. CASE /\ PositionKind \in DOMAIN GroupState
           /\ Step(nodes, Popped \o <<loop, Here(GroupState[PositionKind])>>, position, {})
  <2> DEFINE state == GroupState[PositionKind]
             e     == Here(state)
  <2>1. state \in PrimaryStates BY <1>9 DEF GroupState, PrimaryStates
  <2> HIDE DEF state
  <2>2. IsEntry(e) /\ e.state = state /\ e.subtree_start = Len(nodes)
    BY EntryRecord DEF Here, Entry, StateStackEntry
  <2> HIDE DEF e
  <2>3. KnowsOperator(e, diagnosed) /\ TopFits(e, nodes, diagnosed)
    BY <2>1, <2>2 DEF KnowsOperator, TopFits, PrimaryStates, OperatorStates, OperandStates,
       LoopStates
  <2>4. LiesOn(e, loop, nodes, diagnosed)
    BY <1>5, <2>1, <2>2 DEF LiesOn, OperandStates, OperatorStates
  <2>5. Popped # <<>> => LiesOn(loop, Popped[Len(Popped)], nodes, diagnosed)
    BY <1>3, <1>4, <1>5 DEF LiesOn, OperatorStates, PrimaryStates, Below
  <2>6. Settled(Popped \o <<loop, e>>, nodes, diagnosed)
    BY <1>3, <1>5, <1>6, <2>2, <2>3, <2>4, <2>5, PushOn
  <2> QED BY <1>9, <2>6, SettledStep DEF e, state
<1>10. CASE Step(AddLeafNode(nodes, "InvalidParse", position, TRUE),
                 ReturnErrorOnState(Popped), position, {position})
  <2> DEFINE ns == AddLeafNode(nodes, "InvalidParse", position, TRUE)
  <2>1. "InvalidParse" \notin OperatorNodes \union {"ShortCircuitOperand"}
    BY DEF OperatorNodes
  <2>2. /\ Ordered(Popped, ns, diagnosed)
        /\ Popped # <<>> => LiesOn(Top, Below, ns, diagnosed)
        /\ OneSubtree(ns, Len(nodes)) /\ ~IsOperator(ns[Len(ns)])
        /\ ns[Len(ns)].kind # "ShortCircuitOperand"
    BY <1>7, <2>1
  <2> HIDE DEF ns
  <2>3. Popped # <<>> => TopFits(Below, ns, diagnosed)
    BY <1>3, <1>4, <2>2 DEF LiesOn, TopFits, PrimaryStates, OperatorStates, OperandStates,
       LoopStates
  <2>4. Settled(Popped, ns, diagnosed) BY <2>2, <2>3 DEF Settled, Below
  <2> QED BY <1>10, <2>4, MarkLast, SettledStep DEF ns
<1> QED BY <1>8, <1>9, <1>10 DEF HandleExpressionInPostfix, loop

(* A field of a state is set. *)
WithState(e, x) == [e EXCEPT !.state = x]

WithError(e, x) == [e EXCEPT !.has_error = x]

WithToken(e, x) == [e EXCEPT !.token = x]

WithLevel(e, x) == [e EXCEPT !.lhs_precedence = x]

(* State f is e but for its state, token and operator. *)
SamePlace(e, f) ==
  /\ IsEntry(f) /\ f.subtree_start = e.subtree_start
  /\ f.ambient_precedence = e.ambient_precedence

(* The other fields of the state are kept. *)
LEMMA EntrySet ==
  ASSUME NEW e, NEW x, IsEntry(e)
  PROVE  /\ SamePlace(e, WithState(e, x)) /\ SamePlace(e, WithError(e, x))
         /\ SamePlace(e, WithToken(e, x)) /\ SamePlace(e, WithLevel(e, x))
         /\ WithState(e, x).state = x /\ WithState(e, x).token = e.token
         /\ WithState(e, x).lhs_precedence = e.lhs_precedence
         /\ WithError(e, x).state = e.state /\ WithError(e, x).token = e.token
         /\ WithError(e, x).lhs_precedence = e.lhs_precedence
         /\ WithToken(e, x).state = e.state /\ WithToken(e, x).token = x
         /\ WithToken(e, x).lhs_precedence = e.lhs_precedence
         /\ WithLevel(e, x).state = e.state /\ WithLevel(e, x).token = e.token
         /\ WithLevel(e, x).lhs_precedence = x
<1>1. /\ SamePlace(e, WithState(e, x))
      /\ WithState(e, x).state = x /\ WithState(e, x).token = e.token
      /\ WithState(e, x).lhs_precedence = e.lhs_precedence
  <2>1. /\ IsEntry(WithState(e, x)) /\ WithState(e, x).state = x
        /\ WithState(e, x).subtree_start = e.subtree_start
    BY EntryUpdate DEF WithState
  <2>2. /\ WithState(e, x).ambient_precedence = e.ambient_precedence
        /\ WithState(e, x).token = e.token /\ WithState(e, x).lhs_precedence = e.lhs_precedence
    BY EntryKeeps DEF WithState
  <2> QED BY <2>1, <2>2 DEF SamePlace
<1>2. /\ SamePlace(e, WithError(e, x))
      /\ WithError(e, x).state = e.state /\ WithError(e, x).token = e.token
      /\ WithError(e, x).lhs_precedence = e.lhs_precedence
  <2>1. /\ IsEntry(WithError(e, x)) /\ WithError(e, x).state = e.state
        /\ WithError(e, x).subtree_start = e.subtree_start
    BY EntryUpdate DEF WithError
  <2>2. /\ WithError(e, x).ambient_precedence = e.ambient_precedence
        /\ WithError(e, x).token = e.token /\ WithError(e, x).lhs_precedence = e.lhs_precedence
    BY EntryKeeps DEF WithError
  <2> QED BY <2>1, <2>2 DEF SamePlace
<1>3. /\ SamePlace(e, WithToken(e, x))
      /\ WithToken(e, x).state = e.state /\ WithToken(e, x).token = x
      /\ WithToken(e, x).lhs_precedence = e.lhs_precedence
  <2>1. /\ IsEntry(WithToken(e, x)) /\ WithToken(e, x).state = e.state
        /\ WithToken(e, x).subtree_start = e.subtree_start
    BY EntryUpdate DEF WithToken
  <2>2. /\ WithToken(e, x).ambient_precedence = e.ambient_precedence
        /\ WithToken(e, x).token = x /\ WithToken(e, x).lhs_precedence = e.lhs_precedence
    BY EntryKeeps DEF WithToken
  <2> QED BY <2>1, <2>2 DEF SamePlace
<1>4. /\ SamePlace(e, WithLevel(e, x))
      /\ WithLevel(e, x).state = e.state /\ WithLevel(e, x).token = e.token
      /\ WithLevel(e, x).lhs_precedence = x
  <2>1. /\ IsEntry(WithLevel(e, x)) /\ WithLevel(e, x).state = e.state
        /\ WithLevel(e, x).subtree_start = e.subtree_start
    BY EntryUpdate DEF WithLevel
  <2>2. /\ WithLevel(e, x).ambient_precedence = e.ambient_precedence
        /\ WithLevel(e, x).token = e.token /\ WithLevel(e, x).lhs_precedence = x
    BY EntryKeeps DEF WithLevel
  <2> QED BY <2>1, <2>2 DEF SamePlace
<1> QED BY <1>1, <1>2, <1>3, <1>4

(* What is done with a postfix expression: another postfix form, or it is  *)
(* the operand.                                                            *)
LEMMA PostfixLoopOrdered ==
  ASSUME Operators, HandleExpressionInPostfixLoop
  PROVE  Operators'
<1>1. At("ExpressionInPostfixLoop") BY DEF HandleExpressionInPostfixLoop
<1>2. Ordered(state_stack, nodes, diagnosed) BY DEF Operators, Settled
<1>3. /\ Top.state = "ExpressionInPostfixLoop" /\ IsEntry(Top)
      /\ Ordered(Popped, nodes, diagnosed)
      /\ Popped # <<>> => LiesOn(Top, Below, nodes, diagnosed)
      /\ TopFits(Top, nodes, diagnosed)
  BY <1>1, <1>2, Inside
<1> DEFINE again == [Top EXCEPT !.token = position]
           form  == [again EXCEPT !.state = PostfixState[PositionKind]]
<1>4. CASE /\ PositionKind \in DOMAIN PostfixState
           /\ Step(nodes, Popped \o <<again, form>>, position, {})
  <2>1. /\ IsEntry(again) /\ again.state = "ExpressionInPostfixLoop"
        /\ again.subtree_start = Top.subtree_start
    BY <1>3, EntryUpdate
  <2> DEFINE state == PostfixState[PositionKind]
  <2>2. state \in PrimaryStates BY <1>4 DEF PostfixState, PrimaryStates
  <2> HIDE DEF again, state
  <2>3. /\ IsEntry(form) /\ form.state = state /\ form.subtree_start = Top.subtree_start
    BY <2>1, EntryUpdate DEF state
  <2> HIDE DEF form
  <2>4. /\ KnowsOperator(again, diagnosed) /\ KnowsOperator(form, diagnosed)
        /\ TopFits(form, nodes, diagnosed)
    BY <2>1, <2>2, <2>3 DEF KnowsOperator, TopFits, PrimaryStates, OperatorStates,
       OperandStates, LoopStates
  <2>5. LiesOn(form, again, nodes, diagnosed)
    BY <2>1, <2>2, <2>3 DEF LiesOn, OperandStates, OperatorStates
  <2>6. Popped # <<>> => LiesOn(again, Popped[Len(Popped)], nodes, diagnosed)
    BY <1>3, <2>1 DEF LiesOn, OperatorStates, PrimaryStates, Below
  <2>7. Settled(Popped \o <<again, form>>, nodes, diagnosed)
    BY <1>3, <2>1, <2>3, <2>4, <2>5, <2>6, PushOn
  <2> QED BY <1>4, <2>7, SettledStep
<1>5. CASE Step(nodes, ReturnErrorIf(Top.has_error, Popped), position, {})
  <2>1. Popped # <<>> => TopFits(Below, nodes, diagnosed)
    BY <1>3 DEF LiesOn, TopFits, PrimaryStates, OperatorStates, OperandStates, LoopStates
  <2>2. Settled(Popped, nodes, diagnosed) BY <1>3, <2>1 DEF Settled, Below
  <2> QED BY <1>5, <2>2, MarkLast, MarkedIf, SettledStep
<1> QED BY <1>4, <1>5 DEF HandleExpressionInPostfixLoop

(* An operator follows, or the operand is complete. *)
LEMMA LoopOrdered ==
  ASSUME Operators, Inductive, HandleExpressionLoop
  PROVE  Operators'
<1>1. At("ExpressionLoop") /\ Top.subtree_start \in Int
  BY StartIsInt DEF HandleExpressionLoop
<1>2. Ordered(state_stack, nodes, diagnosed) BY DEF Operators, Settled
<1>3. /\ Top.state = "ExpressionLoop" /\ IsEntry(Top)
      /\ Ordered(Popped, nodes, diagnosed) /\ IsSeq(nodes)
      /\ Popped # <<>> => LiesOn(Top, Below, nodes, diagnosed)
      /\ TopFits(Top, nodes, diagnosed) /\ Len(nodes) \in Nat
  BY <1>1, <1>2, Inside DEF Ordered
<1> DEFINE last == nodes[Len(nodes)]
<1>4. /\ OneSubtree(nodes, Top.subtree_start) /\ last.kind # "ShortCircuitOperand"
      /\ IsOperator(last) =>
           /\ NodeLevel(last) = Top.lhs_precedence
           /\ Fits(Top.ambient_precedence, Top.lhs_precedence, last.token, diagnosed)
  BY <1>3 DEF TopFits, LoopStates
<1>5. Len(nodes) >= 1 BY <1>4 DEF OneSubtree
<1> DEFINE op     == TrailingOperator.level
           error  == Top.has_error \/ ~OperatorNests
           short  == AddTopNode("ShortCircuitOperand", position, error)
           ns     == IF PositionKind \in {"And", "Or"} THEN short ELSE nodes
           binary == [TopAs("ExpressionLoopForBinary") EXCEPT
                        !.token = position, !.lhs_precedence = op, !.has_error = error]
           next   == ExpressionEntry(op, position + 1, ns)
           after  == [Top EXCEPT !.token = position, !.has_error = FALSE,
                        !.lhs_precedence = op]
<1>6. ASSUME OperatorAccepted
      PROVE  /\ TrailingOperator.is_binary => op = ForTrailing(Kind(position), TRUE).level
             /\ ~TrailingOperator.is_binary => op = ForTrailing(Kind(position), FALSE).level
             /\ GetPriority(Top.ambient_precedence, op) = "RightFirst"
  <2>1. PositionKind \in TrailingOperators /\ IsTrailingOperatorInfix \in BOOLEAN
    BY <1>6 DEF OperatorAccepted, IsTrailingOperatorInfix
  <2> QED BY <1>6, <2>1, TrailingLevel DEF TrailingOperator, OperatorAccepted, PositionKind
<1>7. ASSUME NEW diags, ~OperatorNests => position \in diags
      PROVE  Follows(last, op, position, diagnosed \union diags)
  BY <1>4, <1>7 DEF Follows, OperatorNests
<1>8. CASE Step(nodes, ReturnErrorIf(Top.has_error, Popped), position, {})
  <2>1. FirstNode(nodes, Len(nodes)) - 1 = Top.subtree_start
    BY <1>1, <1>4 DEF OneSubtree
  <2>2. Popped # <<>> => TopFits(Below, nodes, diagnosed)
    BY <1>3, <1>4, <1>5, <2>1 DEF LiesOn, TopFits, PrimaryStates, OperatorStates,
       OperandStates, LoopStates
  <2>3. Settled(Popped, nodes, diagnosed) BY <1>3, <2>2 DEF Settled, Below
  <2> QED BY <1>8, <2>3, MarkLast, MarkedIf, SettledStep
<1>9. CASE /\ OperatorAccepted /\ TrailingOperator.is_binary
           /\ \E diags : /\ ~OperatorNests => position \in diags
                         /\ Step(ns, Popped \o <<binary, next>>, position + 1, diags)
  <2>1. PICK diags : /\ ~OperatorNests => position \in diags
                     /\ Step(ns, Popped \o <<binary, next>>, position + 1, diags)
    BY <1>9
  <2> DEFINE dg == diagnosed \union diags
  <2>2. /\ IsEntry(binary) /\ binary.state = "ExpressionLoopForBinary"
        /\ binary.subtree_start = Top.subtree_start
        /\ binary.ambient_precedence = Top.ambient_precedence
        /\ binary.lhs_precedence = op /\ binary.token = position
    <3> DEFINE b0 == WithState(Top, "ExpressionLoopForBinary")
               b1 == WithToken(b0, position)
               b2 == WithLevel(b1, op)
               b3 == WithError(b2, error)
    <3>1. binary = b3 BY DEF TopAs, WithState, WithToken, WithLevel, WithError
    <3> HIDE DEF binary, error, op
    <3>2. /\ SamePlace(Top, b0) /\ SamePlace(b0, b1) /\ SamePlace(b1, b2)
          /\ SamePlace(b2, b3) /\ b3.state = "ExpressionLoopForBinary"
          /\ b3.lhs_precedence = op /\ b3.token = position
      BY <1>3, EntrySet DEF SamePlace
    <3> QED BY <3>1, <3>2 DEF SamePlace
  <2>3. /\ Ordered(state_stack, ns, diagnosed) /\ LeftFits(op, position, Len(ns), ns, dg)
    <3>1. Follows(last, op, position, dg) BY <1>7, <2>1
    <3> HIDE DEF op, dg, last
    <3>2. CASE ns = nodes
      BY <1>2, <1>4, <1>5, <1>3, <3>1, <3>2 DEF LeftFits, last
    <3>3. CASE ns = short
      <4>1. "ShortCircuitOperand" \notin OperatorNodes BY DEF OperatorNodes
      <4>2. Ordered(state_stack, short, diagnosed) BY <1>2, <4>1, AddOther DEF AddTopNode
      <4>3. /\ Len(short) = Len(nodes) + 1
            /\ \A i \in 1 .. Len(nodes) : short[i] = nodes[i]
            /\ short[Len(short)].kind = "ShortCircuitOperand"
        BY <1>1, <1>3, NodeAdded DEF AddTopNode
      <4> HIDE DEF short
      <4>4. short[Len(nodes)] = last /\ Len(short) - 1 = Len(nodes)
        BY <1>3, <1>5, <4>3 DEF last
      <4>5. LeftFits(op, position, Len(short), short, dg)
        BY <1>3, <1>5, <3>1, <4>3, <4>4 DEF LeftFits
      <4> QED BY <3>3, <4>2, <4>5
    <3> QED BY <3>2, <3>3
  <2>4. /\ IsEntry(next) /\ next.state = "Expression" /\ next.subtree_start = Len(ns)
        /\ next.ambient_precedence = op
    BY EntryRecord DEF ExpressionEntry, StateStackEntry
  <2>5. Ordered(state_stack, ns, dg) BY <2>3, MoreDiagnosed
  <2>6. KnowsOperator(binary, dg)
    BY <1>6, <1>9, <2>2 DEF KnowsOperator, OperatorStates, Fits
  <2> HIDE DEF binary, next, ns, dg, op
  <2>7. /\ Ordered(Popped, ns, dg)
        /\ Popped # <<>> => LiesOn(Top, Below, ns, dg)
    BY <1>1, <2>5, Inside
  <2>8. Popped # <<>> => LiesOn(binary, Popped[Len(Popped)], ns, dg)
    BY <1>3, <2>2, <2>7 DEF LiesOn, OperatorStates, PrimaryStates, Below
  <2>9. KnowsOperator(next, dg) BY <2>4 DEF KnowsOperator, OperatorStates
  <2>10. LiesOn(next, binary, ns, dg)
    BY <2>2, <2>3, <2>4 DEF LiesOn, OperandStates, OperatorStates
  <2>11. TopFits(next, ns, dg)
    BY <2>4 DEF TopFits, OperatorStates, LoopStates
  <2>12. Settled(Popped \o <<binary, next>>, ns, dg)
    BY <2>2, <2>4, <2>6, <2>7, <2>8, <2>9, <2>10, <2>11, PushOn
  <2> QED BY <2>1, <2>12, SettledStep DEF dg
<1>10. CASE /\ OperatorAccepted /\ ~TrailingOperator.is_binary
            /\ \E diags : /\ ~OperatorNests => position \in diags
                          /\ Step(AddTopNode("PostfixOperator", position, error),
                                  Append(Popped, after), position + 1, diags)
  <2>1. PICK diags : /\ ~OperatorNests => position \in diags
                     /\ Step(AddTopNode("PostfixOperator", position, error),
                             Append(Popped, after), position + 1, diags)
    BY <1>10
  <2> DEFINE dg == diagnosed \union diags
             ms == AddTopNode("PostfixOperator", position, error)
  <2>2. /\ IsEntry(after) /\ after.state = "ExpressionLoop"
        /\ after.subtree_start = Top.subtree_start
        /\ after.ambient_precedence = Top.ambient_precedence
        /\ after.lhs_precedence = op
    <3> DEFINE no == FALSE
               a1 == WithToken(Top, position)
               a2 == WithError(a1, no)
               a3 == WithLevel(a2, op)
    <3>1. after = a3 BY DEF WithToken, WithLevel, WithError
    <3> HIDE DEF after, op, no
    <3>2. /\ SamePlace(Top, a1) /\ SamePlace(a1, a2) /\ SamePlace(a2, a3)
          /\ a3.state = "ExpressionLoop" /\ a3.lhs_precedence = op
      BY <1>3, EntrySet DEF SamePlace
    <3> QED BY <3>1, <3>2 DEF SamePlace
  <2>3. /\ Len(ms) = Len(nodes) + 1
        /\ \A i \in 1 .. Len(nodes) : ms[i] = nodes[i]
        /\ OneSubtree(ms, Top.subtree_start)
        /\ ms[Len(ms)].kind = "PostfixOperator" /\ ms[Len(ms)].token = position
    BY <1>1, <1>3, NodeAdded DEF AddTopNode
  <2>4. NodeLevel(ms[Len(ms)]) = op BY <1>6, <1>10, <2>3 DEF NodeLevel
  <2>5. ms = Append(nodes, [kind |-> "PostfixOperator", has_error |-> error,
                            token |-> position,
                            subtree_size |-> Len(nodes) - Top.subtree_start + 1])
    BY DEF AddTopNode, AddNode
  <2>6. Follows(last, op, position, dg) BY <1>7, <2>1
  <2>7. GetPriority(Top.ambient_precedence, op) = "RightFirst" BY <1>6, <1>10
  <2>8. /\ Step(ms, Append(Popped, after), position + 1, diags)
        /\ diagnosed \subseteq dg
    BY <2>1
  <2> HIDE DEF ms, after, dg, op, last
  <2>9. NodeFits(ms, Len(nodes) + 1, dg)
    <3>1. /\ Len(nodes) \in 1 .. Len(ms) /\ Len(nodes) + 1 - 1 = Len(nodes)
          /\ ms[Len(nodes)] = last /\ ms[Len(nodes) + 1] = ms[Len(ms)]
      BY <1>3, <1>5, <2>3 DEF last
    <3> QED BY <2>3, <2>4, <2>6, <3>1 DEF NodeFits
  <2>10. Ordered(state_stack, ms, dg) BY <1>2, <2>5, <2>8, <2>9, OrderedGrows
  <2>11. /\ Ordered(Popped, ms, dg)
         /\ Popped # <<>> => LiesOn(Top, Below, ms, dg)
    BY <1>1, <2>10, Inside
  <2>12. Popped # <<>> => LiesOn(after, Popped[Len(Popped)], ms, dg)
    BY <1>3, <2>2, <2>11 DEF LiesOn, OperatorStates, PrimaryStates, Below
  <2>13. KnowsOperator(after, dg) BY <2>2 DEF KnowsOperator, OperatorStates
  <2>14. /\ Ordered(Append(Popped, after), ms, dg)
         /\ Append(Popped, after)[Len(Append(Popped, after))] = after
    BY <2>2, <2>11, <2>12, <2>13, OrderedPush
  <2>15. TopFits(after, ms, dg)
    BY <2>2, <2>3, <2>4, <2>7 DEF TopFits, OperandStates, LoopStates, OperatorStates, Fits
  <2>16. Settled(Append(Popped, after), ms, dg) BY <2>14, <2>15 DEF Settled
  <2> QED BY <2>8, <2>16, SettledStep DEF dg
<1> QED
  <2>1. \/ Step(nodes, ReturnErrorIf(Top.has_error, Popped), position, {})
        \/ /\ OperatorAccepted /\ TrailingOperator.is_binary
           /\ Step(ns, Popped \o <<binary, next>>, position + 1,
                   IF OperatorNests THEN DiagnoseOperatorFixity("Infix") ELSE {position})
        \/ /\ OperatorAccepted /\ ~TrailingOperator.is_binary
           /\ Step(AddTopNode("PostfixOperator", position, error), Append(Popped, after),
                   position + 1,
                   IF OperatorNests THEN DiagnoseOperatorFixity("Postfix") ELSE {position})
    BY DEF HandleExpressionLoop
  <2>2. \A D : ~OperatorNests => position \in IF OperatorNests THEN D ELSE {position}
    OBVIOUS
  <2> HIDE DEF ns, binary, next, after, error
  <2> QED BY <1>8, <1>9, <1>10, <2>1, <2>2

(* The operand is complete, and so is the operator's subtree. *)
LEMMA LoopForOperatorOrdered ==
  ASSUME Operators, Inductive, HandleExpressionLoopForOperator
  PROVE  Operators'
<1>1. PICK s \in DOMAIN OperatorNode : HandleExpressionLoopForOperator!(s)
  BY DEF HandleExpressionLoopForOperator
<1>2. /\ s \in OperatorStates
      /\ s = "ExpressionLoopForBinary" => OperatorNode[s] = "InfixOperator"
      /\ s = "ExpressionLoopForPrefix" => OperatorNode[s] = "PrefixOperator"
  BY DEF OperatorNode, OperatorStates
<1>3. At(s) /\ Top.subtree_start \in Int
  BY <1>1, <1>2, StartIsInt DEF OperatorStates
<1>4. Ordered(state_stack, nodes, diagnosed) BY DEF Operators, Settled
<1>5. /\ Top.state = s /\ IsEntry(Top) /\ KnowsOperator(Top, diagnosed)
      /\ TopFits(Top, nodes, diagnosed) /\ Len(nodes) \in Nat /\ IsSeq(nodes)
  BY <1>3, <1>4, Inside DEF Ordered
<1> DEFINE kind == OperatorNode[s]
           last == nodes[Len(nodes)]
           ms   == AddTopNode(kind, Top.token, Top.has_error)
           loop == [TopAs("ExpressionLoop") EXCEPT !.has_error = FALSE]
<1>6. /\ Len(nodes) >= 1
      /\ IsOperator(last) => Fits(Top.lhs_precedence, NodeLevel(last), last.token, diagnosed)
      /\ s = "ExpressionLoopForBinary" =>
           LeftFits(Top.lhs_precedence, Top.token, FirstNode(nodes, Len(nodes)) - 1,
                    nodes, diagnosed)
      /\ Fits(Top.ambient_precedence, Top.lhs_precedence, Top.token, diagnosed)
  BY <1>2, <1>5 DEF TopFits, KnowsOperator
<1>7. /\ Len(ms) = Len(nodes) + 1
      /\ \A i \in 1 .. Len(nodes) : ms[i] = nodes[i]
      /\ OneSubtree(ms, Top.subtree_start)
      /\ ms[Len(ms)].kind = kind /\ ms[Len(ms)].token = Top.token
  BY <1>3, <1>5, NodeAdded DEF AddTopNode
<1>8. ms = Append(nodes, [kind |-> kind, has_error |-> Top.has_error, token |-> Top.token,
                          subtree_size |-> Len(nodes) - Top.subtree_start + 1])
  BY DEF AddTopNode, AddNode
<1>9. Step(ms, Append(Popped, loop), position, {}) BY <1>1
<1>10. /\ IsEntry(loop) /\ loop.state = "ExpressionLoop"
       /\ loop.subtree_start = Top.subtree_start
       /\ loop.ambient_precedence = Top.ambient_precedence
       /\ loop.lhs_precedence = Top.lhs_precedence
  <2> DEFINE no == FALSE
             a1 == WithState(Top, "ExpressionLoop")
             a2 == WithError(a1, no)
  <2>1. loop = a2 BY DEF TopAs, WithState, WithError
  <2> HIDE DEF loop, no
  <2>2. /\ SamePlace(Top, a1) /\ SamePlace(a1, a2)
        /\ a2.state = "ExpressionLoop" /\ a2.lhs_precedence = Top.lhs_precedence
    BY <1>5, EntrySet DEF SamePlace
  <2> QED BY <2>1, <2>2 DEF SamePlace
<1> HIDE DEF ms, loop, last, kind
<1>11. /\ kind \in {"InfixOperator", "PrefixOperator"}
       /\ kind = "InfixOperator" => s = "ExpressionLoopForBinary"
       /\ kind = "PrefixOperator" => s = "ExpressionLoopForPrefix"
  BY <1>2 DEF OperatorStates, kind
<1>12. NodeLevel(ms[Len(ms)]) = Top.lhs_precedence
  <2>1. CASE kind = "InfixOperator"
    BY <1>5, <1>7, <1>11, <2>1 DEF KnowsOperator, NodeLevel
  <2>2. CASE kind = "PrefixOperator"
    BY <1>5, <1>7, <1>11, <2>2 DEF KnowsOperator, NodeLevel
  <2> QED BY <1>11, <2>1, <2>2
<1>13. NodeFits(ms, Len(nodes) + 1, diagnosed)
  <2>1. /\ Len(nodes) \in 1 .. Len(ms) /\ Len(nodes) + 1 - 1 = Len(nodes)
        /\ ms[Len(nodes)] = last /\ ms[Len(nodes) + 1] = ms[Len(ms)]
    BY <1>5, <1>6, <1>7 DEF last
  <2>2. kind = "InfixOperator" =>
          LeftFits(Top.lhs_precedence, Top.token, FirstNode(nodes, Len(nodes)) - 1,
                   ms, diagnosed)
    <3>1. Len(nodes) <= Len(ms) /\ Len(ms) \in Nat BY <1>5, <1>7
    <3> QED BY <1>5, <1>6, <1>7, <1>11, <3>1, LeftGrows
  <2>3. FirstNode(ms, Len(nodes)) = FirstNode(nodes, Len(nodes))
    BY <2>1 DEF FirstNode, last
  <2> QED BY <1>6, <1>7, <1>11, <1>12, <2>1, <2>2, <2>3 DEF NodeFits
<1>14. Ordered(state_stack, ms, diagnosed) BY <1>4, <1>8, <1>13, OrderedGrows
<1>15. /\ Ordered(Popped, ms, diagnosed)
       /\ Popped # <<>> => LiesOn(Top, Below, ms, diagnosed)
  BY <1>3, <1>14, Inside
<1>16. Popped # <<>> => LiesOn(loop, Popped[Len(Popped)], ms, diagnosed)
  BY <1>2, <1>5, <1>10, <1>15 DEF LiesOn, OperatorStates, PrimaryStates, Below
<1>17. KnowsOperator(loop, diagnosed) BY <1>10 DEF KnowsOperator, OperatorStates
<1>18. /\ Ordered(Append(Popped, loop), ms, diagnosed)
       /\ Append(Popped, loop)[Len(Append(Popped, loop))] = loop
  BY <1>10, <1>15, <1>16, <1>17, OrderedPush
<1>19. TopFits(loop, ms, diagnosed)
  BY <1>6, <1>7, <1>10, <1>11, <1>12 DEF TopFits, OperandStates, LoopStates, OperatorStates
<1>20. Settled(Append(Popped, loop), ms, diagnosed) BY <1>18, <1>19 DEF Settled
<1> QED BY <1>9, <1>20, SettledStep
(* The states and nodes of the tables of expression handlers. *)
LEMMA ExpressionTables ==
  /\ \A v \in PeriodKind :
       /\ v.state \notin ExpressionStates
       /\ v.node \notin OperatorNodes \union {"ShortCircuitOperand"}
  /\ \A s \in ParenParameterFinishStates : s \notin InnerStates
  /\ \A s \in DOMAIN ParenFinishNode :
       /\ s \in PrimaryStates
       /\ ParenFinishNode[s] \notin OperatorNodes \union {"ShortCircuitOperand"}
  /\ \A v \in BraceKind :
       /\ v.param \notin InnerStates /\ v.after \notin InnerStates
       /\ v.param_finish \notin InnerStates /\ v.finish \in PrimaryStates
       /\ v.field \notin OperatorNodes
       /\ v.node \notin OperatorNodes \union {"ShortCircuitOperand"}
<1> USE DEF InnerStates, ExpressionStates, PrimaryStates, OperatorNodes
<1>1. \A v \in PeriodKind :
        /\ v.state \notin ExpressionStates
        /\ v.node \notin OperatorNodes \union {"ShortCircuitOperand"}
  BY DEF PeriodKind
<1>2. \A s \in ParenParameterFinishStates : s \notin InnerStates
  BY DEF ParenParameterFinishStates
<1>3. \A s \in DOMAIN ParenFinishNode :
        /\ s \in PrimaryStates
        /\ ParenFinishNode[s] \notin OperatorNodes \union {"ShortCircuitOperand"}
  BY DEF ParenFinishNode
<1>4. \A v \in BraceKind :
        /\ v.param \notin InnerStates /\ v.after \notin InnerStates
        /\ v.param_finish \notin InnerStates /\ v.finish \in PrimaryStates
        /\ v.field \notin OperatorNodes
        /\ v.node \notin OperatorNodes \union {"ShortCircuitOperand"}
  BY DEF BraceKind
<1> QED BY <1>1, <1>2, <1>3, <1>4

(* A primary expression ends in a node over all of it. *)
LEMMA FinishHere ==
  ASSUME Operators, Inductive, NEW s, At(s), s \notin ExpressionStates,
         s # "DeclarationScopeLoop",
         NEW kind, kind \notin OperatorNodes \union {"ShortCircuitOperand"},
         NEW token, NEW has_error
  PROVE  Settled(Popped, AddTopNode(kind, token, has_error), diagnosed)
<1>1. Ordered(state_stack, nodes, diagnosed) BY DEF Operators, Settled
<1>2. Top.subtree_start \in Int BY StartIsInt
<1> QED BY <1>1, <1>2, FinishPrimary DEF AddTopNode

(* A part of a primary expression is followed by the next, as the popped   *)
(* entry; the tree grows by another node.                                  *)
LEMMA PrimaryAs ==
  ASSUME Operators, NEW s, At(s), s \in PrimaryStates, NEW x, x \in PrimaryStates,
         NEW ns, Ordered(state_stack, ns, diagnosed)
  PROVE  /\ Open(Popped \o <<TopAs(x)>>, ns, diagnosed)
         /\ Open(Append(Popped, TopAs(x)), ns, diagnosed)
         /\ IsEntry(Top) /\ IsSeq(Popped)
<1>1. Ordered(state_stack, nodes, diagnosed) BY DEF Operators, Settled
<1>2. IsEntry(Top) /\ Ordered(Popped, nodes, diagnosed) BY <1>1, Inside
<1>4. x \notin ExpressionStates BY DEF PrimaryStates, ExpressionStates
<1>5. /\ IsEntry(TopAs(x)) /\ TopAs(x).state = x
      /\ TopAs(x).subtree_start = Top.subtree_start
  BY <1>2, <1>4, PlainAs DEF Plain
<1> QED BY <1>2, <1>5, PushPrimary DEF Ordered

(* The tree as it is after one more node. *)
LEMMA OrderedHere ==
  ASSUME Operators, NEW kind, kind \notin OperatorNodes, NEW token, NEW has_error
  PROVE  /\ Ordered(state_stack, AddLeafNode(nodes, kind, token, has_error), diagnosed)
         /\ Ordered(state_stack, AddTopNode(kind, token, has_error), diagnosed)
         /\ Ordered(state_stack, ConsumedLeaf(kind), diagnosed)
<1>1. Ordered(state_stack, nodes, diagnosed) BY DEF Operators, Settled
<1> QED BY <1>1, AddOther DEF AddTopNode, ConsumedLeaf

(* The entry e on top of b, and one or two more. *)
LEMMA OpenOver ==
  ASSUME NEW b, IsSeq(b), NEW ns, NEW e, Open(b \o <<e>>, ns, diagnosed)
  PROVE  /\ Settled(b \o <<e>>, ns, diagnosed)
         /\ \A f : Plain(f) \/ Operand(f, ns) => Settled(b \o <<e, f>>, ns, diagnosed)
         /\ \A f, g : Plain(f) /\ (Plain(g) \/ Operand(g, ns)) =>
              Settled(b \o <<e, f, g>>, ns, diagnosed)
<1> DEFINE a == Append(b, e)
<1>1. b \o <<e>> = a BY ConcatOne
<1>2. \A f : b \o <<e, f>> = Append(a, f) BY ConcatTwo
<1>3. \A f, g : b \o <<e, f, g>> = Append(Append(a, f), g) BY ConcatThree
<1>4. Open(a, ns, diagnosed) BY <1>1
<1> HIDE DEF a
<1>5. \A f : Plain(f) \/ Operand(f, ns) => Settled(Append(a, f), ns, diagnosed)
  BY <1>4, PushPlain, PushOperand, OpenSettled
<1>6. \A f : Plain(f) => Open(Append(a, f), ns, diagnosed) BY <1>4, PushPlain
<1>7. \A f, g : Plain(f) /\ (Plain(g) \/ Operand(g, ns)) =>
        Settled(Append(Append(a, f), g), ns, diagnosed)
  BY <1>6, PushPlain, PushOperand, OpenSettled
<1>8. Settled(a, ns, diagnosed) BY <1>4, OpenSettled
<1>9. Settled(b \o <<e>>, ns, diagnosed) BY <1>1, <1>8
<1>10. ASSUME NEW f, Plain(f) \/ Operand(f, ns) PROVE Settled(b \o <<e, f>>, ns, diagnosed)
  BY <1>2, <1>5, <1>10
<1>11. ASSUME NEW f, NEW g, Plain(f) /\ (Plain(g) \/ Operand(g, ns))
       PROVE  Settled(b \o <<e, f, g>>, ns, diagnosed)
  <2>1. Settled(Append(Append(a, f), g), ns, diagnosed) BY <1>7, <1>11
  <2> QED BY <1>3, <2>1
<1> QED BY <1>9, <1>10, <1>11

(* A struct literal's field is given up. *)
LEMMA BraceErrorOrdered ==
  ASSUME Steady, NEW v \in BraceKind, NEW pos,
         BraceParameterError(Popped, v.param_finish, pos)
  PROVE  Operators'
<1> DEFINE as  == TopAs(v.param_finish)
           bad == [as EXCEPT !.has_error = TRUE]
<1>1. Step(nodes, Append(Popped, bad), pos, {pos}) BY DEF BraceParameterError
<1>2. Plain(as) BY ExpressionTables, Outer, PlainAs DEF Steady
<1> HIDE DEF as
<1>3. Plain(bad) BY <1>2, PlainUpdate
<1> HIDE DEF bad
<1> QED BY <1>1, <1>3, OpenStep DEF Steady

(* The handlers of expressions. *)
LEMMA ExpressionOperators ==
  ASSUME Operators, Inductive, Expression
  PROVE  Operators'
<1> USE DEF OperatorNodes, ExpressionStates
<1>1. ASSUME HandleIfExpressionFinishCondition PROVE Operators'
  <2>1. Steady
    BY <1>1, Steadying DEF HandleIfExpressionFinishCondition, InnerStates, PrimaryStates
  <2> DEFINE ns == AddTopNode("IfExpressionIf", Top.token, Top.has_error)
             ms == AddLeafNode(ns, "InvalidParse", position, TRUE)
             ls == AddLeafNode(ms, "InvalidParse", position, TRUE)
             e  == Entry("IfExpressionFinishThen", position, ns)
             f  == ExpressionEntry(ForLeading["If"], position + 1, ns)
  <2>2. \/ Step(ns, Popped \o <<e, f>>, position + 1, {})
        \/ \E diags : Step(ls, ReturnErrorOnState(Popped), position, diags)
    BY <1>1 DEF HandleIfExpressionFinishCondition
  <2>3. Open(Popped, ns, diagnosed) BY <2>1, AddOtherHere DEF Steady
  <2>4. Plain(e) /\ Operand(f, ns) BY NewEntries
  <2> HIDE DEF ns, e, f
  <2>5. Open(Popped, ms, diagnosed) BY <2>3, AddOther
  <2> HIDE DEF ms
  <2>6. Open(Popped, ls, diagnosed) BY <2>5, AddOther
  <2> HIDE DEF ls
  <2>7. Open(ReturnErrorOnState(Popped), ls, diagnosed) BY <2>6, MarkLast
  <2> QED BY <2>2, <2>3, <2>4, <2>7, OpenStep
<1>2. ASSUME HandleIfExpressionFinishThen PROVE Operators'
  <2>1. Steady BY <1>2, Steadying DEF HandleIfExpressionFinishThen, InnerStates, PrimaryStates
  <2> DEFINE ns == AddTopNode("IfExpressionThen", Top.token, Top.has_error)
             ms == AddLeafNode(ns, "InvalidParse", position, TRUE)
             e  == Entry("IfExpressionFinishElse", position, ns)
             f  == ExpressionEntry(ForLeading["If"], position + 1, ns)
  <2>2. \/ Step(ns, Popped \o <<e, f>>, position + 1, {})
        \/ \E diags : Step(ms, ReturnErrorOnState(Popped), position, diags)
    BY <1>2 DEF HandleIfExpressionFinishThen
  <2>3. Open(Popped, ns, diagnosed) BY <2>1, AddOtherHere DEF Steady
  <2>4. Plain(e) /\ Operand(f, ns) BY NewEntries
  <2> HIDE DEF ns, e, f
  <2>5. Open(Popped, ms, diagnosed) BY <2>3, AddOther
  <2> HIDE DEF ms
  <2>6. Open(ReturnErrorOnState(Popped), ms, diagnosed) BY <2>5, MarkLast
  <2> QED BY <2>2, <2>3, <2>4, <2>6, OpenStep
<1>3. ASSUME HandleIfExpressionFinishElse PROVE Operators'
  <2>1. Steady BY <1>3, Steadying DEF HandleIfExpressionFinishElse, InnerStates, PrimaryStates
  <2> DEFINE finish == Popped[Len(Popped)]
             error  == finish.has_error \/ Top.has_error
             e      == WithError(WithToken(finish, Top.token), error)
             stack  == [Popped EXCEPT ![Len(Popped)] = e]
  <2>2. Step(nodes, stack, position, {})
    BY <1>3 DEF HandleIfExpressionFinishElse, WithError, WithToken
  <2>3. Ordered(Popped, nodes, diagnosed) BY <2>1 DEF Steady, Open
  <2>4. ASSUME Popped # <<>>
        PROVE  /\ IsEntry(e) /\ e.state = finish.state /\ e.state \notin ExpressionStates
               /\ e.subtree_start = finish.subtree_start
               /\ e.ambient_precedence = finish.ambient_precedence
    <3>1. IsEntry(finish) /\ finish.state \notin ExpressionStates
      BY <2>1, <2>4, OrderedPop DEF Steady, Open
    <3> HIDE DEF finish, error
    <3> QED BY <3>1, EntrySet DEF SamePlace
  <2> HIDE DEF e, finish
  <2>5. ASSUME Popped # <<>>
        PROVE  /\ KnowsOperator(e, diagnosed)
               /\ \A a : LiesOn(finish, a, nodes, diagnosed) => LiesOn(e, a, nodes, diagnosed)
    BY <2>4, <2>5 DEF KnowsOperator, LiesOn, OperatorStates, PrimaryStates
  <2>6. /\ Ordered(stack, nodes, diagnosed)
        /\ stack # <<>> => Popped # <<>> /\ stack[Len(stack)] = e
    BY <2>3, <2>4, <2>5, OrderedReplace DEF finish
  <2> HIDE DEF stack
  <2>7. Open(stack, nodes, diagnosed) BY <2>4, <2>6 DEF Open
  <2> QED BY <2>2, <2>7, OpenStep
<1>4. ASSUME HandleIfExpressionFinish PROVE Operators'
  <2>1. Settled(Popped, AddTopNode("IfExpressionElse", Top.token, Top.has_error), diagnosed)
    BY <1>4, FinishHere DEF HandleIfExpressionFinish
  <2> QED BY <1>4, <2>1, SettledStep DEF HandleIfExpressionFinish
<1>5. ASSUME HandleExpressionStatementFinish PROVE Operators'
  <2>1. Steady
    BY <1>5, Steadying DEF HandleExpressionStatementFinish, InnerStates, PrimaryStates
  <2>2. \/ \E t, h, p, ds : Step(AddTopNode("ExpressionStatement", t, h), Popped, p, ds)
        \/ \E p, ds : Step(nodes, ReturnErrorOnState(Popped), p, ds)
    BY <1>5 DEF HandleExpressionStatementFinish
  <2> QED BY <2>1, <2>2, AddOtherHere, OpenMarked, OpenStep DEF Steady
<1>6. ASSUME HandlePeriodOrArrow PROVE Operators'
  <2>1. PICK v \in PeriodKind : HandlePeriodOrArrow!(v) BY <1>6 DEF HandlePeriodOrArrow
  <2>2. /\ v.state \notin ExpressionStates
        /\ v.node \notin OperatorNodes \union {"ShortCircuitOperand"}
    BY ExpressionTables
  <2> DEFINE name == position + 1
             ns   == AddLeafNode(nodes, "Name", name, ~(Kind(name) = "Identifier"))
             ms   == AddNode(ns, v.node, position, Top.subtree_start, Top.has_error)
  <2>3. \E c, p, ds : CheckedStep(PositionKind = v.dot, ms, ReturnErrorIf(c, Popped), p, ds)
    BY <2>1
  <2>4. Ordered(state_stack, ns, diagnosed) BY AddOther DEF Operators, Settled
  <2>5. v.state # "DeclarationScopeLoop" BY DEF PeriodKind
  <2>6. Top.subtree_start \in Int BY <2>1, <2>5, StartIsInt
  <2> HIDE DEF ns
  <2>7. Settled(Popped, ms, diagnosed) /\ Settled(ReturnErrorOnState(Popped), ms, diagnosed)
    BY <2>1, <2>2, <2>4, <2>6, FinishPrimary
  <2> HIDE DEF ms
  <2>8. \A c : Settled(ReturnErrorIf(c, Popped), ms, diagnosed) BY <2>7 DEF ReturnErrorIf
  <2> QED BY <2>3, <2>8, SettledChecked
<1>7. ASSUME HandleCallExpression PROVE Operators'
  <2> DEFINE ns     == AddTopNode("CallExpressionStart", position, Top.has_error)
             finish == TopAs("CallExpressionFinish")
             e      == Entry("CallExpressionParameterFinish", position + 1, ns)
             f      == Entry("Expression", position + 1, ns)
  <2>1. At("CallExpression") BY <1>7 DEF HandleCallExpression
  <2>2. Open(Popped \o <<finish>>, ns, diagnosed) /\ IsSeq(Popped)
    <3>1. Ordered(state_stack, ns, diagnosed) BY OrderedHere
    <3> HIDE DEF ns
    <3> QED BY <2>1, <3>1, PrimaryAs DEF PrimaryStates
  <2>3. Plain(e) /\ Operand(f, ns) BY NewEntries
  <2>4. \/ Step(ns, Popped \o <<finish>>, position + 1, {})
        \/ Step(ns, Popped \o <<finish, e, f>>, position + 1, {})
    BY <1>7 DEF HandleCallExpression
  <2> HIDE DEF ns, finish, e, f
  <2>5. /\ Settled(Popped \o <<finish>>, ns, diagnosed)
        /\ Settled(Popped \o <<finish, e, f>>, ns, diagnosed)
    BY <2>2, <2>3, OpenOver
  <2> QED BY <2>4, <2>5, SettledStep
<1>8. ASSUME HandleCallExpressionParameterFinish PROVE Operators'
  <2>1. Steady
    BY <1>8, Steadying DEF HandleCallExpressionParameterFinish, InnerStates, PrimaryStates
  <2> DEFINE error == ListError("CloseParen", Top.has_error)
             item  == ConsumeListToken("CallExpressionComma", "CloseParen", nodes)
             stack == ReturnErrorIf(Top.has_error \/ error, Popped)
             ok    == ListElementEnds("CloseParen")
             e     == Entry("CallExpressionParameterFinish", item.position, item.nodes)
             f     == Entry("Expression", item.position, item.nodes)
  <2>2. \/ CheckedStep(ok, item.nodes, stack \o <<e, f>>, item.position, DiagnosedIf(error))
        \/ CheckedStep(ok, item.nodes, stack, item.position, DiagnosedIf(error))
    BY <1>8 DEF HandleCallExpressionParameterFinish
  <2>3. Open(Popped, item.nodes, diagnosed) BY <2>1, OpenListItem DEF Steady
  <2>4. Plain(e) /\ Operand(f, item.nodes) BY NewEntries
  <2> HIDE DEF item, e, f, error
  <2>5. Open(stack, item.nodes, diagnosed) BY <2>3, OpenMarked
  <2> HIDE DEF stack, ok
  <2> QED BY <2>2, <2>4, <2>5, PushPair, OpenSettled, SettledChecked
<1>9. ASSUME HandleCallExpressionFinish PROVE Operators'
  <2>1. Settled(Popped, AddTopNode("CallExpression", position, Top.has_error), diagnosed)
    BY <1>9, FinishHere DEF HandleCallExpressionFinish
  <2> QED BY <1>9, <2>1, SettledStep DEF HandleCallExpressionFinish
<1>10. ASSUME HandleIndexExpression PROVE Operators'
  <2> DEFINE ns     == AddTopNode("IndexExpressionStart", position, Top.has_error)
             finish == TopAs("IndexExpressionFinish")
             f      == Entry("Expression", position + 1, ns)
  <2>1. At("IndexExpression") BY <1>10 DEF HandleIndexExpression
  <2>2. Open(Popped \o <<finish>>, ns, diagnosed) /\ IsSeq(Popped)
    <3>1. Ordered(state_stack, ns, diagnosed) BY OrderedHere
    <3> HIDE DEF ns
    <3> QED BY <2>1, <3>1, PrimaryAs DEF PrimaryStates
  <2>3. Operand(f, ns) BY NewEntries
  <2>4. CheckedStep(PositionKind = "OpenSquareBracket", ns, Popped \o <<finish, f>>,
                    position + 1, {})
    BY <1>10 DEF HandleIndexExpression
  <2> HIDE DEF ns, finish, f
  <2> QED BY <2>2, <2>3, <2>4, OpenOver, SettledChecked
<1>11. ASSUME HandleIndexExpressionFinish PROVE Operators'
  <2> DEFINE close == ConsumeAndAddCloseSymbol(Top.token, "IndexExpression")
  <2>1. \E t, h : close.nodes = AddTopNode("IndexExpression", t, h)
    BY DEF ConsumeAndAddCloseSymbol
  <2>2. /\ At("IndexExpressionFinish")
        /\ CheckedStep(close.ok, close.nodes, Popped, close.position, close.diags)
    BY <1>11 DEF HandleIndexExpressionFinish
  <2> HIDE DEF close
  <2>3. Settled(Popped, close.nodes, diagnosed) BY <2>1, <2>2, FinishHere
  <2> QED BY <2>2, <2>3, SettledChecked
<1>12. ASSUME HandleArrayExpression PROVE Operators'
  <2> DEFINE ns   == AddLeafNode(nodes, "ArrayExpressionStart", position, Top.has_error)
             semi == TopAs("ArrayExpressionSemi")
             f    == Entry("Expression", position + 1, ns)
  <2>1. At("ArrayExpression") BY <1>12 DEF HandleArrayExpression
  <2>2. Open(Popped \o <<semi>>, ns, diagnosed) /\ IsSeq(Popped)
    <3>1. Ordered(state_stack, ns, diagnosed) BY OrderedHere
    <3> HIDE DEF ns
    <3> QED BY <2>1, <3>1, PrimaryAs DEF PrimaryStates
  <2>3. Operand(f, ns) BY NewEntries
  <2>4. CheckedStep(PositionKind = "OpenSquareBracket", ns, Popped \o <<semi, f>>,
                    position + 1, {})
    BY <1>12 DEF HandleArrayExpression
  <2> HIDE DEF ns, semi, f
  <2> QED BY <2>2, <2>3, <2>4, OpenOver, SettledChecked
<1>13. ASSUME HandleArrayExpressionSemi PROVE Operators'
  <2> DEFINE error  == Top.has_error \/ ~(PositionKind = "Semi")
             pos    == IF PositionKind = "Semi" THEN position + 1 ELSE position
             ns     == AddTopNode("ArrayExpressionSemi", position, error)
             as     == TopAs("ArrayExpressionFinish")
             finish == WithError(as, error)
             f      == Entry("Expression", pos, ns)
  <2>1. At("ArrayExpressionSemi") BY <1>13 DEF HandleArrayExpressionSemi
  <2>2. Ordered(state_stack, ns, diagnosed) /\ IsEntry(Top) /\ IsSeq(Popped)
    <3>1. Ordered(state_stack, ns, diagnosed) BY OrderedHere
    <3> HIDE DEF ns
    <3> QED BY <2>1, <3>1, Inside DEF Ordered
  <2>3. Operand(f, ns) BY NewEntries
  <2>4. \/ \E ds : Step(ns, Popped \o <<finish>>, pos, ds)
        \/ \E ds : Step(ns, Popped \o <<finish, f>>, pos, ds)
    BY <1>13 DEF HandleArrayExpressionSemi, WithError
  <2>5. /\ IsEntry(as) /\ as.state = "ArrayExpressionFinish"
        /\ as.subtree_start = Top.subtree_start
    BY <2>2, PlainAs DEF Plain
  <2> HIDE DEF ns, as, f, pos, error
  <2>6. /\ IsEntry(finish) /\ finish.state = "ArrayExpressionFinish"
        /\ finish.subtree_start = Top.subtree_start
    <3>1. SamePlace(as, finish) /\ finish.state = as.state BY <2>5, EntrySet
    <3> QED BY <2>5, <3>1 DEF SamePlace
  <2> HIDE DEF finish
  <2>7. Open(Popped \o <<finish>>, ns, diagnosed)
    BY <2>1, <2>2, <2>6, PushPrimary DEF PrimaryStates
  <2>8. /\ Settled(Popped \o <<finish>>, ns, diagnosed)
        /\ Settled(Popped \o <<finish, f>>, ns, diagnosed)
    BY <2>2, <2>3, <2>7, OpenOver
  <2> QED BY <2>4, <2>8, SettledStep
<1>14. ASSUME HandleArrayExpressionFinish PROVE Operators'
  <2> DEFINE close == ConsumeAndAddCloseSymbol(Top.token, "ArrayExpression")
  <2>1. \E t, h : close.nodes = AddTopNode("ArrayExpression", t, h)
    BY DEF ConsumeAndAddCloseSymbol
  <2>2. /\ At("ArrayExpressionFinish")
        /\ CheckedStep(close.ok, close.nodes, Popped, close.position, close.diags)
    BY <1>14 DEF HandleArrayExpressionFinish
  <2> HIDE DEF close
  <2>3. Settled(Popped, close.nodes, diagnosed) BY <2>1, <2>2, FinishHere
  <2> QED BY <2>2, <2>3, SettledChecked
<1>15. ASSUME HandleParenExpression PROVE Operators'
  <2> DEFINE ns     == ConsumedLeaf("ParenExpressionOrTupleLiteralStart")
             tuple  == TopAs("ParenExpressionFinishAsTuple")
             normal == TopAs("ParenExpressionFinishAsNormal")
             e      == Entry("ParenExpressionParameterFinishAsUnknown", position + 1, ns)
             f      == Entry("Expression", position + 1, ns)
             ok     == PositionKind = "OpenParen"
  <2>1. At("ParenExpression") BY <1>15 DEF HandleParenExpression
  <2>2. /\ Open(Popped \o <<tuple>>, ns, diagnosed)
        /\ Open(Popped \o <<normal>>, ns, diagnosed) /\ IsSeq(Popped)
    <3>1. Ordered(state_stack, ns, diagnosed) BY OrderedHere
    <3> HIDE DEF ns
    <3> QED BY <2>1, <3>1, PrimaryAs DEF PrimaryStates
  <2>3. Plain(e) /\ Operand(f, ns) BY NewEntries
  <2>4. \/ CheckedStep(ok, ns, Popped \o <<tuple>>, position + 1, {})
        \/ CheckedStep(ok, ns, Popped \o <<normal, e, f>>, position + 1, {})
    BY <1>15 DEF HandleParenExpression
  <2> HIDE DEF ns, tuple, normal, e, f, ok
  <2>5. /\ Settled(Popped \o <<tuple>>, ns, diagnosed)
        /\ Settled(Popped \o <<normal, e, f>>, ns, diagnosed)
    BY <2>2, <2>3, OpenOver
  <2> QED BY <2>4, <2>5, SettledChecked
<1>16. ASSUME HandleParenExpressionParameterFinish PROVE Operators'
  <2>1. PICK s \in ParenParameterFinishStates : HandleParenExpressionParameterFinish!(s)
    BY <1>16 DEF HandleParenExpressionParameterFinish
  <2>2. Steady BY <2>1, ExpressionTables, Steadying
  <2> DEFINE error    == ListError("CloseParen", Top.has_error)
             item     == ConsumeListToken("TupleLiteralComma", "CloseParen", nodes)
             stack    == ReturnErrorIf(error, Popped)
             is_first == s = "ParenExpressionParameterFinishAsUnknown"
             last     == stack[Len(stack)]
             tuple    == WithState(last, "ParenExpressionFinishAsTuple")
             as_tuple == IF is_first THEN [stack EXCEPT ![Len(stack)] = tuple] ELSE stack
             ok       == /\ ListElementEnds("CloseParen")
                         /\ item.token_kind # "Close" /\ is_first =>
                              last.state = "ParenExpressionFinishAsNormal"
             e        == TopAs("ParenExpressionParameterFinishAsTuple")
             f        == Entry("Expression", item.position, item.nodes)
  <2>3. \/ \E p, ds : CheckedStep(ok, item.nodes, stack, p, ds)
        \/ /\ item.token_kind # "Close"
           /\ \/ \E p, ds : CheckedStep(ok, item.nodes, as_tuple, p, ds)
              \/ \E p, ds : CheckedStep(ok, item.nodes, as_tuple \o <<e, f>>, p, ds)
    <3>1. CheckedStep(ok, item.nodes,
            CASE item.token_kind = "Close"      -> stack
              [] item.token_kind = "CommaClose" -> as_tuple
              [] item.token_kind = "Comma"      -> as_tuple \o <<e, f>>,
            item.position, DiagnosedIf(error))
      BY <2>1 DEF WithState
    <3>2. item.token_kind \in {"Close", "CommaClose", "Comma"} BY DEF ConsumeListToken
    <3> HIDE DEF item, stack, as_tuple, e, f, ok, error
    <3>3. CASE item.token_kind = "Close" BY <3>1, <3>3
    <3>4. CASE item.token_kind = "CommaClose" BY <3>1, <3>4
    <3>5. CASE item.token_kind = "Comma" BY <3>1, <3>5
    <3> QED BY <3>2, <3>3, <3>4, <3>5
  <2>4. Open(Popped, item.nodes, diagnosed) BY <2>2, OpenListItem DEF Steady
  <2>5. Plain(e) /\ Operand(f, item.nodes) BY <2>2, NewEntries, PlainAs DEF Steady
  <2> HIDE DEF item, e, f, error
  <2>6. Open(stack, item.nodes, diagnosed) BY <2>4, OpenMarked
  <2> HIDE DEF stack
  <2>7. ASSUME ok, item.token_kind # "Close" PROVE Open(as_tuple, item.nodes, diagnosed)
    <3>1. CASE ~is_first BY <2>6, <3>1
    <3>2. CASE is_first
      <4>1. last.state = "ParenExpressionFinishAsNormal" BY <2>7, <3>2
      <4>2. ASSUME stack # <<>>
            PROVE  /\ Plain(tuple) /\ tuple.subtree_start = last.subtree_start
                   /\ tuple.ambient_precedence = last.ambient_precedence
                   /\ tuple.state \in PrimaryStates /\ last.state \in PrimaryStates
        <5>1. IsEntry(last) BY <2>6, <4>2, OrderedPop DEF Open
        <5> HIDE DEF last
        <5>2. SamePlace(last, tuple) /\ tuple.state = "ParenExpressionFinishAsTuple"
          BY <5>1, EntrySet
        <5> QED BY <4>1, <5>2 DEF SamePlace, Plain, PrimaryStates
      <4> HIDE DEF tuple
      <4>3. Open([stack EXCEPT ![Len(stack)] = tuple], item.nodes, diagnosed)
        BY <2>6, <4>2, ReplacePlain
      <4> QED BY <3>2, <4>3
    <3> QED BY <3>1, <3>2
  <2> HIDE DEF as_tuple, ok
  <2>8. CASE \E p, ds : CheckedStep(ok, item.nodes, stack, p, ds)
    BY <2>6, <2>8, OpenSettled, SettledChecked
  <2>9. CASE /\ item.token_kind # "Close"
             /\ \E p, ds : CheckedStep(ok, item.nodes, as_tuple, p, ds)
    BY <2>7, <2>9, OpenSettled, SettledChecked
  <2>10. CASE /\ item.token_kind # "Close"
              /\ \E p, ds : CheckedStep(ok, item.nodes, as_tuple \o <<e, f>>, p, ds)
    <3>1. ok => Settled(as_tuple \o <<e, f>>, item.nodes, diagnosed)
      BY <2>5, <2>7, <2>10, PushPair
    <3> QED BY <2>10, <3>1, SettledChecked
  <2> QED BY <2>3, <2>8, <2>9, <2>10
<1>17. ASSUME HandleParenExpressionFinish PROVE Operators'
  <2>1. PICK s \in DOMAIN ParenFinishNode : HandleParenExpressionFinish!(s)
    BY <1>17 DEF HandleParenExpressionFinish
  <2>2. s \in PrimaryStates /\ ParenFinishNode[s] \notin OperatorNodes \union {"ShortCircuitOperand"}
    BY ExpressionTables
  <2>3. s \notin ExpressionStates /\ s # "DeclarationScopeLoop" BY <2>2 DEF PrimaryStates
  <2>4. Settled(Popped, AddTopNode(ParenFinishNode[s], position, Top.has_error), diagnosed)
    BY <2>1, <2>2, <2>3, FinishHere
  <2> QED BY <2>1, <2>4, SettledStep
<1>18. ASSUME HandleBraceExpression PROVE Operators'
  <2> DEFINE ns     == ConsumedLeaf("StructLiteralOrStructTypeLiteralStart")
             finish == TopAs("BraceExpressionFinishAsUnknown")
             e      == Entry("BraceExpressionParameterAsUnknown", position + 1, ns)
             ok     == PositionKind = "OpenCurlyBrace"
  <2>1. At("BraceExpression") BY <1>18 DEF HandleBraceExpression
  <2>2. Open(Popped \o <<finish>>, ns, diagnosed) /\ IsSeq(Popped)
    <3>1. Ordered(state_stack, ns, diagnosed) BY OrderedHere
    <3> HIDE DEF ns
    <3> QED BY <2>1, <3>1, PrimaryAs DEF PrimaryStates
  <2>3. Plain(e) BY NewEntries
  <2>4. \/ CheckedStep(ok, ns, Popped \o <<finish>>, position + 1, {})
        \/ CheckedStep(ok, ns, Popped \o <<finish, e>>, position + 1, {})
    BY <1>18 DEF HandleBraceExpression
  <2> HIDE DEF ns, finish, e, ok
  <2>5. /\ Settled(Popped \o <<finish>>, ns, diagnosed)
        /\ Settled(Popped \o <<finish, e>>, ns, diagnosed)
    BY <2>2, <2>3, OpenOver
  <2> QED BY <2>4, <2>5, SettledChecked
<1>19. ASSUME HandleBraceExpressionParameter PROVE Operators'
  <2>1. PICK v \in BraceKind : HandleBraceExpressionParameter!(v)
    BY <1>19 DEF HandleBraceExpressionParameter
  <2>2. Steady BY <2>1, ExpressionTables, Steadying
  <2>3. CASE Step(nodes, Popped \o <<TopAs(v.after), Here("PeriodAsStruct")>>, position, {})
    <3>1. Plain(TopAs(v.after)) /\ Plain(Here("PeriodAsStruct"))
      BY <2>2, ExpressionTables, Outer, PlainAs, NewEntries DEF Steady
    <3> QED BY <2>2, <2>3, <3>1, OpenStep DEF Steady
  <2>4. CASE BraceParameterError(Popped, v.param_finish, position)
    BY <2>2, <2>4, BraceErrorOrdered
  <2> QED BY <2>1, <2>3, <2>4
<1>20. ASSUME HandleBraceExpressionParameterAfterDesignator PROVE Operators'
  <2>1. PICK v \in BraceKind : HandleBraceExpressionParameterAfterDesignator!(v)
    BY <1>20 DEF HandleBraceExpressionParameterAfterDesignator
  <2>2. Steady BY <2>1, ExpressionTables, Steadying
  <2> DEFINE last     == Popped[Len(Popped)]
             state(w) == IF v.sep # "none" THEN last.state ELSE w.finish
             marked(w) == WithState(last, state(w))
             stack(w) == [Popped EXCEPT ![Len(Popped)] = marked(w)]
             e(w, p)  == WithToken(TopAs(w.param_finish), p)
             f(p)     == Entry("Expression", p + 1, nodes)
             ok       == v.sep # "none" \/ last.state = v.finish
  <2>3. \/ Step(nodes, Append(Popped, TopAs(v.param_finish)), position, {})
        \/ \E p : BraceParameterError(Popped, v.param_finish, p)
        \/ \E w \in BraceKind : \E p :
             CheckedStep(ok, nodes, stack(w) \o <<e(w, p), f(p)>>, p + 1, {})
    BY <2>1 DEF WithState, WithToken
  <2>4. CASE Step(nodes, Append(Popped, TopAs(v.param_finish)), position, {})
    <3>1. Plain(TopAs(v.param_finish)) BY <2>2, ExpressionTables, Outer, PlainAs DEF Steady
    <3> QED BY <2>2, <2>4, <3>1, OpenStep DEF Steady
  <2>5. CASE \E p : BraceParameterError(Popped, v.param_finish, p)
    BY <2>2, <2>5, BraceErrorOrdered
  <2>6. ASSUME NEW w \in BraceKind, NEW p,
               CheckedStep(ok, nodes, stack(w) \o <<e(w, p), f(p)>>, p + 1, {})
        PROVE  Operators'
    <3>1. Plain(e(w, p))
      <4>1. Plain(TopAs(w.param_finish)) BY <2>2, ExpressionTables, Outer, PlainAs DEF Steady
      <4> QED BY <4>1, PlainUpdate DEF WithToken
    <3>2. Operand(f(p), nodes) BY NewEntries
    <3>3. ASSUME ok, Popped # <<>>
          PROVE  /\ Plain(marked(w)) /\ marked(w).subtree_start = last.subtree_start
                 /\ marked(w).ambient_precedence = last.ambient_precedence
                 /\ \/ marked(w).state = last.state
                    \/ marked(w).state \in PrimaryStates /\ last.state \in PrimaryStates
      <4>1. IsEntry(last) /\ last.state \notin ExpressionStates
        BY <2>2, <3>3, OrderedPop DEF Steady, Open
      <4>2. \/ state(w) = last.state
            \/ state(w) \in PrimaryStates /\ last.state \in PrimaryStates
        BY <3>3, ExpressionTables
      <4>3. state(w) \notin ExpressionStates BY <4>1, <4>2 DEF PrimaryStates
      <4> HIDE DEF last, state
      <4>4. SamePlace(last, marked(w)) /\ marked(w).state = state(w) BY <4>1, EntrySet
      <4> QED BY <4>2, <4>3, <4>4 DEF SamePlace, Plain
    <3> HIDE DEF marked, e, f
    <3>4. ok => Open(stack(w), nodes, diagnosed) BY <2>2, <3>3, ReplacePlain DEF Steady
    <3> HIDE DEF stack, ok
    <3> QED BY <2>6, <3>1, <3>2, <3>4, PushPair, SettledChecked
  <2> QED BY <2>3, <2>4, <2>5, <2>6
<1>21. ASSUME HandleBraceExpressionParameterFinish PROVE Operators'
  <2>1. PICK v \in BraceKind : HandleBraceExpressionParameterFinish!(v)
    BY <1>21 DEF HandleBraceExpressionParameterFinish
  <2>2. Steady BY <2>1, ExpressionTables, Steadying
  <2> DEFINE ns    == IF Top.has_error
                      THEN AddLeafNode(nodes, "StructFieldUnknown", Top.token, TRUE)
                      ELSE AddTopNode(v.field, Top.token, FALSE)
             error == ListError("CloseCurlyBrace", Top.has_error)
             item  == ConsumeListToken("StructComma", "CloseCurlyBrace", ns)
             stack == ReturnErrorIf(error, Popped)
             e     == Entry(v.param, item.position, item.nodes)
             ok    == ListElementEnds("CloseCurlyBrace")
  <2>3. \/ \E p, ds : CheckedStep(ok, item.nodes, Append(stack, e), p, ds)
        \/ \E p, ds : CheckedStep(ok, item.nodes, stack, p, ds)
    BY <2>1
  <2>4. Open(Popped, ns, diagnosed) BY <2>2, ExpressionTables, AddOtherHere DEF Steady
  <2>5. Plain(e) BY ExpressionTables, Outer, NewEntries
  <2> HIDE DEF ns, ok, e, error
  <2>6. Open(Popped, item.nodes, diagnosed) BY <2>4, OpenListItem
  <2> HIDE DEF item
  <2>7. Open(stack, item.nodes, diagnosed) BY <2>6, OpenMarked
  <2> HIDE DEF stack
  <2>8. Settled(stack, item.nodes, diagnosed) BY <2>7, OpenSettled
  <2>9. Settled(Append(stack, e), item.nodes, diagnosed)
    BY <2>5, <2>7, PushPlain, OpenSettled
  <2> QED BY <2>3, <2>8, <2>9, SettledChecked
<1>22. ASSUME HandleBraceExpressionFinish PROVE Operators'
  <2>1. PICK v \in BraceKind : HandleBraceExpressionFinish!(v)
    BY <1>22 DEF HandleBraceExpressionFinish
  <2>2. v.finish \in PrimaryStates /\ v.node \notin OperatorNodes \union {"ShortCircuitOperand"}
    BY ExpressionTables
  <2>3. v.finish \notin ExpressionStates /\ v.finish # "DeclarationScopeLoop"
    BY <2>2 DEF PrimaryStates
  <2>4. Settled(Popped, AddTopNode(v.node, position, Top.has_error), diagnosed)
    BY <2>1, <2>2, <2>3, FinishHere
  <2> QED BY <2>1, <2>4, SettledStep
<1> QED
  BY <1>1, <1>2, <1>3, <1>4, <1>5, <1>6, <1>7, <1>8, <1>9, <1>10, <1>11, <1>12, <1>13,
     <1>14, <1>15, <1>16, <1>17, <1>18, <1>19, <1>20, <1>21, <1>22, ExpressionOrdered,
     PostfixOrdered, PostfixLoopOrdered, LoopOrdered, LoopForOperatorOrdered
     DEF Expression

-----------------------------------------------------------------------------
(* The specification. *)

(* Tree::Parse starts with a leaf and no expression. *)
LEMMA InitOperators == Init => Operators
<1> SUFFICES ASSUME Init PROVE Operators OBVIOUS
<1> DEFINE leaf  == [kind |-> "FileStart", has_error |-> FALSE, token |-> 1, subtree_size |-> 1]
           scope == Entry("DeclarationScopeLoop", 2, nodes)
           pack  == Entry("Package", 2, nodes)
<1>1. nodes = <<leaf>> BY DEF Init, AddLeafNode
<1>2. Open(<<>>, nodes, diagnosed)
  <2>1. IsSeq(nodes) /\ Len(nodes) = 1 /\ nodes[1].kind = "FileStart"
    <3>1. nodes \in Seq({leaf}) BY <1>1
    <3> QED BY <1>1, <3>1 DEF IsSeq
  <2>2. \A i \in 1 .. Len(nodes) : NodeFits(nodes, i, diagnosed)
    BY <2>1 DEF NodeFits, IsOperator, OperatorNodes
  <2>3. IsSeq(<<>>) /\ Len(<<>>) = 0
    <3>1. <<>> \in Seq({}) OBVIOUS
    <3> QED BY <3>1 DEF IsSeq
  <2> QED BY <2>1, <2>2, <2>3 DEF Open, Ordered
<1>3. Plain(scope) /\ Plain(pack) BY NewEntries DEF ExpressionStates
<1>4. \/ state_stack = <<scope>> \o <<pack>>
      \/ state_stack = <<scope>> \o <<>>
  BY DEF Init
<1> HIDE DEF scope, pack, leaf
<1>5. Open(<<>> \o <<scope>>, nodes, diagnosed) BY <1>2, <1>3, PushPlain
<1>6. <<>> \o <<scope>> = <<scope>> OBVIOUS
<1>7. Open(<<scope>>, nodes, diagnosed) BY <1>5, <1>6
<1>8. <<scope>> \o <<>> = <<scope>> BY <1>7, ConcatNone DEF Open, Ordered
<1>9. Open(<<scope>> \o <<pack>>, nodes, diagnosed) BY <1>3, <1>7, PushPlain
<1> QED BY <1>4, <1>7, <1>8, <1>9, OpenSettled DEF Operators

(* Every handler, the end of the file and a stutter keep the invariant. *)
LEMMA NextOperators == Operators /\ Inductive /\ [Next]_vars => Operators'
<1> SUFFICES ASSUME Operators, Inductive, [Next]_vars PROVE Operators' OBVIOUS
<1>1. CASE Declaration BY <1>1, DeclarationOperators
<1>2. CASE Expression BY <1>2, ExpressionOperators
<1>3. CASE Statement BY <1>3, StatementOperators
<1>4. CASE Finish
  <2>1. /\ state_stack = <<>> /\ state_stack' = state_stack /\ diagnosed' = diagnosed
        /\ tokens' = tokens /\ \E t, h : nodes' = AddLeafNode(nodes, "FileEnd", t, h)
    BY <1>4 DEF Finish
  <2>2. "FileEnd" \notin OperatorNodes BY DEF OperatorNodes
  <2>3. Ordered(state_stack, nodes', diagnosed) BY <2>1, <2>2, AddOther DEF Operators, Settled
  <2>4. Settled(state_stack, nodes', diagnosed) BY <2>1, <2>3 DEF Settled
  <2> QED BY <2>1, <2>4, SameTokens DEF Operators
<1>5. CASE Terminated \/ UNCHANGED vars
  <2>1. UNCHANGED <<tokens, nodes, state_stack, diagnosed>> BY <1>5 DEF Terminated, vars
  <2> QED BY <2>1, SameTokens DEF Operators
<1> QED BY <1>1, <1>2, <1>3, <1>4, <1>5 DEF Next

(* The inductive invariant holds in every reachable state. *)
THEOREM OperatorsAreSettled == Spec => []Operators
BY InitOperators, NextOperators, Soundness, PTL DEF Spec

(* For every token buffer, however its operators are mixed and spaced, an  *)
(* operator's operand is an operator only if OperatorPriorityTable says so *)
(* or HandleExpression or HandleExpressionLoop diagnosed it.               *)
THEOREM OperatorsNestAsTheTableSays == Spec => []PrecedenceRespected
<1>1. Operators => PrecedenceRespected
  <2> SUFFICES ASSUME Operators, NEW i \in 1 .. Len(nodes)
               PROVE  PrecedenceRespected!(i)
    BY DEF PrecedenceRespected
  <2>1. NodeFits(nodes, i, diagnosed) BY DEF Operators, Settled, Ordered
  <2> QED BY <2>1 DEF NodeFits, IsOperator, OperatorNodes, Fits, LeftFits, Follows,
             LeftOperand, RightOperand
<1> QED BY <1>1, OperatorsAreSettled, PTL
=============================================================================
