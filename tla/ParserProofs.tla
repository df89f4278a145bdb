---------------------------- MODULE ParserProofs ----------------------------
(***************************************************************************)
(* The parse tree is a forest in postorder, and every state on the stack   *)
(* can still close its subtree, for every token buffer.  First what adding *)
(* nodes, popping, pushing and marking states do to the tree and the       *)
(* stack, then one step of proof per handler, then the theorems about the  *)
(* specification.  The second half does the same for errors: nothing is    *)
(* marked as long as nothing was diagnosed.                                *)
(***************************************************************************)
EXTENDS ParserProperties, SequenceTheorems, TLAPS

(* A sequence, whatever its elements. *)
IsSeq(s) == \E S : s \in Seq(S)

(* A record with the fields of a StateStackEntry. *)
IsEntry(e) ==
  e = [state |-> e.state, has_error |-> e.has_error,
       ambient_precedence |-> e.ambient_precedence,
       lhs_precedence |-> e.lhs_precedence, token |-> e.token,
       subtree_start |-> e.subtree_start]

(***************************************************************************)
(* The inductive invariant, with the stack b and the tree ns as parameters *)
(* so that it can be followed through a handler, from the popped entry to  *)
(* what the handler leaves.  c is a cut at or above every start on b: what *)
(* is closed over next starts there or later.                              *)
(***************************************************************************)
Sound(b, ns, c) ==
  /\ IsSeq(ns) /\ IsPostorder(ns) /\ IsCut(ns, c)
  /\ IsSeq(b) /\ \A i \in 1 .. Len(b) : IsEntry(b[i])
  /\ \A i \in 1 .. Len(b) : Closeable(b[i]) =>
       IsCut(ns, b[i].subtree_start) /\ b[i].subtree_start <= c
  /\ \A i, j \in 1 .. Len(b) :
       i < j /\ Closeable(b[i]) /\ Closeable(b[j]) =>
         b[i].subtree_start <= b[j].subtree_start

Inductive == Sound(state_stack, nodes, Len(nodes))

-----------------------------------------------------------------------------
(* Sequences. *)

(* The length and the domain of a sequence. *)
LEMMA SeqLen ==
  ASSUME NEW s, IsSeq(s)
  PROVE  Len(s) \in Nat /\ DOMAIN s = 1 .. Len(s)
BY DEF IsSeq

(* What Append adds and keeps. *)
LEMMA SeqAppend ==
  ASSUME NEW s, NEW e, IsSeq(s)
  PROVE  /\ IsSeq(Append(s, e))
         /\ Len(Append(s, e)) = Len(s) + 1
         /\ \A i \in 1 .. Len(s) : Append(s, e)[i] = s[i]
         /\ Append(s, e)[Len(s) + 1] = e
<1>1. PICK S : s \in Seq(S) BY DEF IsSeq
<1> DEFINE T == S \union {e}
<1>2. s \in Seq(T) /\ e \in T BY <1>1
<1> HIDE DEF T
<1>3. Append(s, e) \in Seq(T) BY <1>2
<1> QED BY <1>2, <1>3 DEF IsSeq

(* Concatenating one entry is pushing it. *)
LEMMA ConcatOne ==
  ASSUME NEW b, NEW e, IsSeq(b)
  PROVE  b \o <<e>> = Append(b, e)
<1>1. PICK S : b \in Seq(S) BY DEF IsSeq
<1> DEFINE T == S \union {e}
<1>2. b \in Seq(T) /\ e \in T BY <1>1
<1> HIDE DEF T
<1> QED BY <1>2

(* Two entries pushed at once. *)
LEMMA ConcatTwo ==
  ASSUME NEW b, NEW e, NEW f, IsSeq(b)
  PROVE  b \o <<e, f>> = Append(Append(b, e), f)
<1>1. PICK S : b \in Seq(S) BY DEF IsSeq
<1> DEFINE T == S \union {e, f}
<1>2. b \in Seq(T) /\ e \in T /\ f \in T BY <1>1
<1> HIDE DEF T
<1> QED BY <1>2

(* Three entries pushed at once. *)
LEMMA ConcatThree ==
  ASSUME NEW b, NEW e, NEW f, NEW g, IsSeq(b)
  PROVE  b \o <<e, f, g>> = Append(Append(Append(b, e), f), g)
<1>1. PICK S : b \in Seq(S) BY DEF IsSeq
<1> DEFINE T == S \union {e, f, g}
<1>2. b \in Seq(T) /\ e \in T /\ f \in T /\ g \in T BY <1>1
<1> HIDE DEF T
<1> QED BY <1>2

(* Nothing is pushed. *)
LEMMA ConcatNone ==
  ASSUME NEW b, IsSeq(b)
  PROVE  b \o <<>> = b
<1>1. PICK S : b \in Seq(S) BY DEF IsSeq
<1> QED BY <1>1

(* The sequence without its last element. *)
LEMMA SeqPop ==
  ASSUME NEW b, IsSeq(b), b # <<>>
  PROVE  LET p == SubSeq(b, 1, Len(b) - 1) IN
         /\ Len(b) >= 1
         /\ IsSeq(p)
         /\ Len(p) = Len(b) - 1
         /\ \A i \in 1 .. Len(p) : p[i] = b[i]
<1>1. PICK S : b \in Seq(S) BY DEF IsSeq
<1>2. Len(b) \in Nat /\ Len(b) # 0 BY <1>1
<1>3. \A i \in 1 .. Len(b) - 1 : b[i] \in S BY <1>1, <1>2
<1>4. Len(b) - 1 \in Int BY <1>2
<1> DEFINE p == SubSeq(b, 1, Len(b) - 1)
<1>5. /\ p \in Seq(S)
      /\ Len(p) = IF 1 <= Len(b) - 1 THEN (Len(b) - 1) - 1 + 1 ELSE 0
      /\ \A i \in 1 .. (Len(b) - 1) - 1 + 1 : p[i] = b[1 + i - 1]
  BY <1>3, <1>4, SubSeqProperties
<1> HIDE DEF p
<1>6. IsSeq(p) BY <1>5 DEF IsSeq
<1>7. Len(p) = Len(b) - 1
  <2> DEFINE n == Len(b)
  <2>1. n \in Nat /\ n # 0 /\ Len(p) = IF 1 <= n - 1 THEN (n - 1) - 1 + 1 ELSE 0
    BY <1>2, <1>5
  <2> HIDE DEF n
  <2>2. Len(p) = n - 1 BY <2>1
  <2> QED BY <2>2 DEF n
<1>8. \A i \in 1 .. Len(p) : p[i] = b[i] BY <1>2, <1>5, <1>7
<1> QED BY <1>2, <1>6, <1>7, <1>8 DEF p

(* The sequence with its last element replaced; an empty one stays so. *)
LEMMA SeqReplaceLast ==
  ASSUME NEW b, NEW e, IsSeq(b)
  PROVE  LET p == [b EXCEPT ![Len(b)] = e] IN
         /\ IsSeq(p)
         /\ Len(p) = Len(b)
         /\ \A j \in 1 .. Len(b) : p[j] = IF j = Len(b) THEN e ELSE b[j]
<1>1. PICK S : b \in Seq(S) BY DEF IsSeq
<1> DEFINE T == S \union {e}
<1>2. b \in Seq(T) /\ e \in T BY <1>1
<1> HIDE DEF T
<1>3. CASE Len(b) \in 1 .. Len(b)
  BY <1>2, <1>3, ExceptSeq DEF IsSeq
<1>4. CASE Len(b) \notin 1 .. Len(b)
  <2>1. Len(b) = 0 BY <1>2, <1>4
  <2>2. b = <<>> BY <1>2, <2>1
  <2>3. [b EXCEPT ![Len(b)] = e] = b BY <2>1, <2>2
  <2> QED BY <2>1, <2>3
<1> QED BY <1>3, <1>4

-----------------------------------------------------------------------------
(* The tree. *)

(* One more node, over what follows a cut d at or above c. *)
LEMMA Grow ==
  ASSUME NEW b, NEW ns, NEW c, NEW d, NEW n,
         Sound(b, ns, c), IsCut(ns, d), c <= d,
         FirstNode(Append(ns, n), Len(ns) + 1) = d + 1
  PROVE  Sound(b, Append(ns, n), c) /\ Len(Append(ns, n)) = Len(ns) + 1
<1> DEFINE ms == Append(ns, n)
<1>1. /\ IsSeq(ms) /\ Len(ms) = Len(ns) + 1 /\ Len(ns) \in Nat
      /\ \A i \in 1 .. Len(ns) : ms[i] = ns[i]
  BY SeqAppend, SeqLen DEF Sound
<1>2. \A i \in 1 .. Len(ns) : FirstNode(ms, i) = FirstNode(ns, i)
  BY <1>1 DEF FirstNode
<1>3. FirstNode(ms, Len(ns) + 1) = d + 1 OBVIOUS
<1>4. d \in 0 .. Len(ns) /\ c \in 0 .. Len(ns)
  BY DEF IsCut, Sound
<1> HIDE DEF ms
<1>5. \A x : IsCut(ns, x) /\ x <= d => IsCut(ms, x)
  <2> SUFFICES ASSUME NEW x, IsCut(ns, x), x <= d
               PROVE  IsCut(ms, x)
    OBVIOUS
  <2>1. x \in 0 .. Len(ms) BY <1>1 DEF IsCut
  <2>2. ASSUME NEW i \in 1 .. Len(ms), i > x
        PROVE  FirstNode(ms, i) > x
    <3>1. CASE i \in 1 .. Len(ns) BY <3>1, <2>2, <1>2 DEF IsCut
    <3>2. CASE i = Len(ns) + 1 BY <3>2, <2>1, <1>3, <1>4, <1>1
    <3> QED BY <3>1, <3>2, <1>1
  <2> QED BY <2>1, <2>2 DEF IsCut
<1>6. IsPostorder(ms)
  <2>1. ASSUME NEW i \in 1 .. Len(ns)
        PROVE  /\ FirstNode(ms, i) \in 1 .. i
               /\ \A j \in FirstNode(ms, i) .. i : FirstNode(ms, j) >= FirstNode(ms, i)
    <3>1. /\ FirstNode(ns, i) \in 1 .. i
          /\ \A j \in FirstNode(ns, i) .. i : FirstNode(ns, j) >= FirstNode(ns, i)
      BY DEF Sound, IsPostorder
    <3> QED BY <3>1, <1>1, <1>2
  <2>2. /\ FirstNode(ms, Len(ns) + 1) \in 1 .. Len(ns) + 1
        /\ \A j \in FirstNode(ms, Len(ns) + 1) .. Len(ns) + 1 :
             FirstNode(ms, j) >= FirstNode(ms, Len(ns) + 1)
    <3>1. ASSUME NEW j \in d + 1 .. Len(ns) + 1
          PROVE  FirstNode(ms, j) >= d + 1
      <4>1. CASE j = Len(ns) + 1 BY <4>1, <1>3, <1>4
      <4>2. CASE j \in 1 .. Len(ns)
        <5>1. FirstNode(ns, j) > d BY <4>2, <1>4 DEF IsCut
        <5>2. FirstNode(ns, j) \in 1 .. j BY <4>2 DEF Sound, IsPostorder
        <5> QED BY <5>1, <5>2, <4>2, <1>2, <1>4
      <4> QED BY <4>1, <4>2, <1>4, <1>1
    <3> QED BY <3>1, <1>3, <1>4, <1>1
  <2>3. \A i \in 1 .. Len(ms) : i \in 1 .. Len(ns) \/ i = Len(ns) + 1
    BY <1>1
  <2> QED BY <2>1, <2>2, <2>3 DEF IsPostorder
<1>7. IsCut(ms, c) BY <1>5 DEF Sound
<1>8. \A i \in 1 .. Len(b) : Closeable(b[i]) =>
        IsCut(ms, b[i].subtree_start) /\ b[i].subtree_start <= c
  <2> SUFFICES ASSUME NEW i \in 1 .. Len(b), Closeable(b[i])
               PROVE  IsCut(ms, b[i].subtree_start) /\ b[i].subtree_start <= c
    OBVIOUS
  <2>1. IsCut(ns, b[i].subtree_start) /\ b[i].subtree_start <= c BY DEF Sound
  <2>2. b[i].subtree_start \in Int BY <2>1, <1>1 DEF IsCut
  <2> QED BY <2>1, <2>2, <1>4, <1>5
<1> QED BY <1>1, <1>6, <1>7, <1>8 DEF Sound, ms

(* A leaf is added. *)
LEMMA Leaf ==
  ASSUME NEW b, NEW ns, NEW c, NEW kind, NEW token, NEW has_error, Sound(b, ns, c)
  PROVE  /\ Sound(b, AddLeafNode(ns, kind, token, has_error), c)
         /\ Len(AddLeafNode(ns, kind, token, has_error)) = Len(ns) + 1
<1> DEFINE n == [kind |-> kind, has_error |-> has_error, token |-> token,
                 subtree_size |-> 1]
<1>1. Len(ns) \in Nat BY SeqLen DEF Sound
<1>2. FirstNode(Append(ns, n), Len(ns) + 1) = Len(ns) + 1
  <2>1. Append(ns, n)[Len(ns) + 1] = n BY SeqAppend DEF Sound
  <2> HIDE DEF n
  <2>2. n.subtree_size = 1 BY DEF n
  <2> QED BY <1>1, <2>1, <2>2 DEF FirstNode
<1>3. IsCut(ns, Len(ns)) /\ c <= Len(ns) BY <1>1 DEF IsCut, Sound
<1> HIDE DEF n
<1>4. Sound(b, Append(ns, n), c) /\ Len(Append(ns, n)) = Len(ns) + 1
  BY <1>2, <1>3, Grow
<1> QED BY <1>4 DEF AddLeafNode, n

(* A node is added over what follows a cut. *)
LEMMA Close ==
  ASSUME NEW b, NEW ns, NEW c, NEW d, NEW kind, NEW token, NEW has_error,
         Sound(b, ns, c), IsCut(ns, d), c <= d
  PROVE  /\ Sound(b, AddNode(ns, kind, token, d, has_error), c)
         /\ Len(AddNode(ns, kind, token, d, has_error)) = Len(ns) + 1
<1> DEFINE n == [kind |-> kind, has_error |-> has_error, token |-> token,
                 subtree_size |-> Len(ns) - d + 1]
<1>1. Len(ns) \in Nat /\ d \in 0 .. Len(ns) BY SeqLen DEF Sound, IsCut
<1>2. FirstNode(Append(ns, n), Len(ns) + 1) = d + 1
  <2>1. Append(ns, n)[Len(ns) + 1] = n BY SeqAppend DEF Sound
  <2> HIDE DEF n
  <2>2. n.subtree_size = Len(ns) - d + 1 BY DEF n
  <2> QED BY <1>1, <2>1, <2>2 DEF FirstNode
<1> HIDE DEF n
<1>3. Sound(b, Append(ns, n), c) /\ Len(Append(ns, n)) = Len(ns) + 1
  BY <1>2, Grow
<1> QED BY <1>3 DEF AddNode, n

-----------------------------------------------------------------------------
(* The stack. *)

(* The end of the tree is a cut above everything. *)
LEMMA Raise ==
  ASSUME NEW b, NEW ns, NEW c, Sound(b, ns, c)
  PROVE  Sound(b, ns, Len(ns))
<1>1. Len(ns) \in Nat BY SeqLen DEF Sound
<1>2. IsCut(ns, Len(ns)) BY <1>1 DEF IsCut
<1>3. \A i \in 1 .. Len(b) : Closeable(b[i]) =>
        IsCut(ns, b[i].subtree_start) /\ b[i].subtree_start <= Len(ns)
  BY <1>1 DEF Sound, IsCut
<1> QED BY <1>2, <1>3 DEF Sound

(* An entry that starts at c, or that is never closed, is pushed. *)
LEMMA Push ==
  ASSUME NEW b, NEW ns, NEW c, NEW e,
         Sound(b, ns, c), IsEntry(e), Closeable(e) => e.subtree_start = c
  PROVE  Sound(Append(b, e), ns, c)
<1> DEFINE a == Append(b, e)
<1>1. /\ IsSeq(a) /\ Len(a) = Len(b) + 1 /\ Len(b) \in Nat
      /\ \A i \in 1 .. Len(b) : a[i] = b[i]
      /\ a[Len(b) + 1] = e
  BY SeqAppend, SeqLen DEF Sound
<1> HIDE DEF a
<1>2. \A i \in 1 .. Len(a) : i \in 1 .. Len(b) \/ i = Len(b) + 1 BY <1>1
<1>3. \A i \in 1 .. Len(a) : IsEntry(a[i]) BY <1>1, <1>2 DEF Sound
<1>4. IsCut(ns, c) /\ c \in Int BY SeqLen DEF Sound, IsCut
<1>5. \A i \in 1 .. Len(a) : Closeable(a[i]) =>
        IsCut(ns, a[i].subtree_start) /\ a[i].subtree_start <= c
  <2> SUFFICES ASSUME NEW i \in 1 .. Len(a), Closeable(a[i])
               PROVE  IsCut(ns, a[i].subtree_start) /\ a[i].subtree_start <= c
    OBVIOUS
  <2>1. CASE i \in 1 .. Len(b) BY <2>1, <1>1 DEF Sound
  <2>2. CASE i = Len(b) + 1 BY <2>2, <1>1, <1>4
  <2> QED BY <2>1, <2>2, <1>2
<1>6. \A i, j \in 1 .. Len(a) :
        i < j /\ Closeable(a[i]) /\ Closeable(a[j]) =>
          a[i].subtree_start <= a[j].subtree_start
  <2> SUFFICES ASSUME NEW i \in 1 .. Len(a), NEW j \in 1 .. Len(a), i < j,
                      Closeable(a[i]), Closeable(a[j])
               PROVE  a[i].subtree_start <= a[j].subtree_start
    OBVIOUS
  <2>1. i \in 1 .. Len(b) BY <1>1
  <2>2. CASE j \in 1 .. Len(b) BY <2>1, <2>2, <1>1 DEF Sound
  <2>3. CASE j = Len(b) + 1
    <3>1. a[j].subtree_start = c BY <2>3, <1>1
    <3>2. a[i].subtree_start <= c BY <2>1, <1>1 DEF Sound
    <3> QED BY <3>1, <3>2
  <2> QED BY <2>2, <2>3, <1>2
<1> QED BY <1>1, <1>3, <1>5, <1>6 DEF Sound, a

(* The top is popped; what it would close starts at a cut. *)
LEMMA Pop ==
  ASSUME NEW b, NEW ns, NEW c, Sound(b, ns, c), b # <<>>
  PROVE  LET e == b[Len(b)]
             p == SubSeq(b, 1, Len(b) - 1)
         IN  /\ IsEntry(e)
             /\ Sound(p, ns, c)
             /\ Closeable(e) => /\ Sound(p, ns, e.subtree_start)
                                /\ Sound(b, ns, e.subtree_start)
                                /\ e.subtree_start <= c
<1> DEFINE e == b[Len(b)]
           p == SubSeq(b, 1, Len(b) - 1)
<1>1. /\ Len(b) >= 1 /\ Len(b) \in Nat /\ IsSeq(p) /\ Len(p) = Len(b) - 1
      /\ \A i \in 1 .. Len(p) : p[i] = b[i]
  BY SeqPop, SeqLen DEF Sound
<1> HIDE DEF p
<1>2. Len(b) \in 1 .. Len(b) /\ \A i \in 1 .. Len(p) : i \in 1 .. Len(b) /\ i < Len(b)
  BY <1>1
<1>3. IsEntry(e) BY <1>2 DEF Sound
<1>4. \A i \in 1 .. Len(p) : IsEntry(p[i]) BY <1>1, <1>2 DEF Sound
<1>5. \A i, j \in 1 .. Len(p) :
        i < j /\ Closeable(p[i]) /\ Closeable(p[j]) =>
          p[i].subtree_start <= p[j].subtree_start
  BY <1>1, <1>2 DEF Sound
<1>6. \A i \in 1 .. Len(p) : Closeable(p[i]) =>
        IsCut(ns, p[i].subtree_start) /\ p[i].subtree_start <= c
  BY <1>1, <1>2 DEF Sound
<1>7. Sound(p, ns, c) BY <1>1, <1>4, <1>5, <1>6 DEF Sound
<1>8. ASSUME Closeable(e)
      PROVE  /\ Sound(p, ns, e.subtree_start)
             /\ Sound(b, ns, e.subtree_start)
             /\ e.subtree_start <= c
  <2>1. IsCut(ns, e.subtree_start) /\ e.subtree_start <= c BY <1>2, <1>8 DEF Sound
  <2>2. e.subtree_start \in Int BY <2>1, SeqLen DEF Sound, IsCut
  <2>3. \A i \in 1 .. Len(b) : Closeable(b[i]) => b[i].subtree_start <= e.subtree_start
    <3> SUFFICES ASSUME NEW i \in 1 .. Len(b), Closeable(b[i])
                 PROVE  b[i].subtree_start <= e.subtree_start
      OBVIOUS
    <3>1. CASE i < Len(b) BY <3>1, <1>2, <1>8 DEF Sound
    <3>2. CASE i = Len(b) BY <3>2, <2>2
    <3> QED BY <3>1, <3>2, <1>1
  <2>4. \A i \in 1 .. Len(p) : Closeable(p[i]) => p[i].subtree_start <= e.subtree_start
    BY <2>3, <1>1, <1>2
  <2>5. Sound(p, ns, e.subtree_start) BY <1>1, <1>4, <1>5, <1>6, <2>1, <2>4 DEF Sound
  <2>6. Sound(b, ns, e.subtree_start) BY <2>1, <2>3 DEF Sound
  <2> QED BY <2>1, <2>5, <2>6
<1> QED BY <1>3, <1>7, <1>8 DEF p

(* The last entry is replaced by one with the same start; an entry that is *)
(* never closed may only stay one.                                         *)
LEMMA Replace ==
  ASSUME NEW b, NEW ns, NEW c, NEW e, Sound(b, ns, c),
         b # <<>> => /\ IsEntry(e)
                     /\ e.subtree_start = b[Len(b)].subtree_start
                     /\ Closeable(e) => Closeable(b[Len(b)])
  PROVE  Sound([b EXCEPT ![Len(b)] = e], ns, c)
<1> DEFINE a == [b EXCEPT ![Len(b)] = e]
<1>1. /\ IsSeq(a) /\ Len(a) = Len(b) /\ Len(b) \in Nat
      /\ \A j \in 1 .. Len(b) : a[j] = IF j = Len(b) THEN e ELSE b[j]
  BY SeqReplaceLast, SeqLen DEF Sound
<1> HIDE DEF a
<1>2. \A j \in 1 .. Len(b) :
        /\ IsEntry(a[j])
        /\ a[j].subtree_start = b[j].subtree_start
        /\ Closeable(a[j]) => Closeable(b[j])
  <2> SUFFICES ASSUME NEW j \in 1 .. Len(b)
               PROVE  /\ IsEntry(a[j])
                      /\ a[j].subtree_start = b[j].subtree_start
                      /\ Closeable(a[j]) => Closeable(b[j])
    OBVIOUS
  <2>1. CASE j = Len(b)
    <3>1. b # <<>> BY <1>1
    <3> QED BY <3>1, <2>1, <1>1
  <2>2. CASE j # Len(b)
    BY <2>2, <1>1 DEF Sound
  <2> QED BY <2>1, <2>2
<1> QED BY <1>1, <1>2 DEF Sound, a

(* Six fields make an entry. *)
LEMMA EntryRecord ==
  ASSUME NEW s, NEW h, NEW a, NEW l, NEW t, NEW n
  PROVE  LET r == [state |-> s, has_error |-> h, ambient_precedence |-> a,
                   lhs_precedence |-> l, token |-> t, subtree_start |-> n]
         IN  IsEntry(r) /\ r.state = s /\ r.subtree_start = n
BY DEF IsEntry

(* An update of one field leaves an entry, and leaves its start alone. *)
LEMMA EntryUpdate ==
  ASSUME NEW e, NEW x, IsEntry(e)
  PROVE  /\ IsEntry([e EXCEPT !.state = x])
         /\ [e EXCEPT !.state = x].state = x
         /\ [e EXCEPT !.state = x].subtree_start = e.subtree_start
         /\ IsEntry([e EXCEPT !.has_error = x])
         /\ [e EXCEPT !.has_error = x].state = e.state
         /\ [e EXCEPT !.has_error = x].subtree_start = e.subtree_start
         /\ IsEntry([e EXCEPT !.token = x])
         /\ [e EXCEPT !.token = x].state = e.state
         /\ [e EXCEPT !.token = x].subtree_start = e.subtree_start
         /\ IsEntry([e EXCEPT !.lhs_precedence = x])
         /\ [e EXCEPT !.lhs_precedence = x].state = e.state
         /\ [e EXCEPT !.lhs_precedence = x].subtree_start = e.subtree_start
<1>1. ASSUME NEW s, NEW h, NEW a, NEW l, NEW t, NEW n,
             e = [state |-> s, has_error |-> h, ambient_precedence |-> a,
                  lhs_precedence |-> l, token |-> t, subtree_start |-> n]
      PROVE  /\ [e EXCEPT !.state = x] =
                [state |-> x, has_error |-> h, ambient_precedence |-> a,
                  lhs_precedence |-> l, token |-> t, subtree_start |-> n]
             /\ [e EXCEPT !.has_error = x] =
                [state |-> s, has_error |-> x, ambient_precedence |-> a,
                  lhs_precedence |-> l, token |-> t, subtree_start |-> n]
             /\ [e EXCEPT !.token = x] =
                [state |-> s, has_error |-> h, ambient_precedence |-> a,
                  lhs_precedence |-> l, token |-> x, subtree_start |-> n]
             /\ [e EXCEPT !.lhs_precedence = x] =
                [state |-> s, has_error |-> h, ambient_precedence |-> a,
                  lhs_precedence |-> x, token |-> t, subtree_start |-> n]
  BY <1>1
<1>2. \E s, h, a, l, t, n :
        e = [state |-> s, has_error |-> h, ambient_precedence |-> a,
             lhs_precedence |-> l, token |-> t, subtree_start |-> n]
  BY DEF IsEntry
<1>3. PICK s, h, a, l, t, n :
        e = [state |-> s, has_error |-> h, ambient_precedence |-> a,
             lhs_precedence |-> l, token |-> t, subtree_start |-> n]
  BY <1>2
<1>4. e.state = s /\ e.subtree_start = n BY <1>3
<1> QED BY <1>1, <1>3, <1>4, EntryRecord

(* A state is marked as erroneous. *)
LEMMA Mark ==
  ASSUME NEW b, NEW ns, NEW c, Sound(b, ns, c)
  PROVE  Sound(ReturnErrorOnState(b), ns, c)
<1> DEFINE e == [b[Len(b)] EXCEPT !.has_error = TRUE]
<1>1. ASSUME b # <<>>
      PROVE  /\ IsEntry(e)
             /\ e.subtree_start = b[Len(b)].subtree_start
             /\ Closeable(e) => Closeable(b[Len(b)])
  <2>1. IsEntry(b[Len(b)]) BY <1>1, Pop
  <2> QED BY <2>1, EntryUpdate DEF Closeable
<1> HIDE DEF e
<1>2. Sound([b EXCEPT ![Len(b)] = e], ns, c) BY <1>1, Replace
<1> QED BY <1>2 DEF ReturnErrorOnState, e

-----------------------------------------------------------------------------
(* Handlers. *)

(* An entry that starts at n, if it is closed at all. *)
StartsAt(e, n) == IsEntry(e) /\ (Closeable(e) => e.subtree_start = n)

(* What a handler may rely on once it has popped its entry. *)
Ready ==
  /\ IsEntry(Top) /\ StartsAt(Top, Top.subtree_start)
  /\ IsCut(nodes, Top.subtree_start)
  /\ Sound(Popped, nodes, Top.subtree_start)
  /\ Sound(Popped, nodes, Len(nodes))
  /\ Sound(state_stack, nodes, Top.subtree_start)
  /\ Sound(state_stack, nodes, Len(nodes))

(* A handler that has popped its entry may rely on Ready. *)
LEMMA Popping ==
  ASSUME Inductive, NEW s, At(s), s # "DeclarationScopeLoop"
  PROVE  Ready
<1>1. state_stack # <<>> /\ Closeable(Top) BY DEF At, Closeable
<1>2. /\ IsEntry(Top)
      /\ Sound(Popped, nodes, Len(nodes))
      /\ Sound(Popped, nodes, Top.subtree_start)
      /\ Sound(state_stack, nodes, Top.subtree_start)
  BY <1>1, Pop DEF Inductive, Top, Popped
<1> QED BY <1>2 DEF Ready, Sound, StartsAt, Inductive

(* What a handler leaves. *)
LEMMA StepLeaves ==
  ASSUME NEW ns, NEW stack, NEW pos, NEW diags,
         Step(ns, stack, pos, diags), Sound(stack, ns, Len(ns))
  PROVE  Inductive'
BY DEF Step, CheckedStep, Inductive

(* What a handler leaves when its CHECK holds; otherwise nothing changes. *)
LEMMA CheckedStepLeaves ==
  ASSUME Inductive, NEW ok, NEW ns, NEW stack, NEW pos, NEW diags,
         CheckedStep(ok, ns, stack, pos, diags), ok => Sound(stack, ns, Len(ns))
  PROVE  Inductive'
BY DEF CheckedStep, Inductive

(* Entries that start at the end of the tree. *)
LEMMA EntryHere ==
  ASSUME NEW state, NEW token, NEW ns, NEW ambient
  PROVE  /\ StartsAt(Entry(state, token, ns), Len(ns))
         /\ StartsAt(ExpressionEntry(ambient, token, ns), Len(ns))
         /\ StartsAt(Here(state), Len(nodes))
BY EntryRecord DEF StartsAt, Entry, ExpressionEntry, StateStackEntry, Here

(* An entry with its start given. *)
LEMMA EntryAt ==
  ASSUME NEW state, NEW ambient, NEW lhs, NEW token, NEW n
  PROVE  StartsAt(StateStackEntry(state, ambient, lhs, token, n), n)
BY EntryRecord DEF StartsAt, StateStackEntry

(* The popped entry pushed back. *)
LEMMA EntryTop ==
  ASSUME IsEntry(Top), NEW state
  PROVE  StartsAt(TopAs(state), Top.subtree_start)
BY EntryUpdate DEF TopAs, StartsAt

(* Fields that have no part in it may change. *)
LEMMA EntryFields ==
  ASSUME NEW e, NEW n, NEW x, StartsAt(e, n)
  PROVE  /\ StartsAt([e EXCEPT !.has_error = x], n)
         /\ StartsAt([e EXCEPT !.token = x], n)
         /\ StartsAt([e EXCEPT !.lhs_precedence = x], n)
BY EntryUpdate DEF StartsAt, Closeable

(* One entry is pushed. *)
LEMMA PushOne ==
  ASSUME NEW b, NEW ns, NEW c, NEW e, Sound(b, ns, c), StartsAt(e, c)
  PROVE  /\ Sound(Append(b, e), ns, c)
         /\ Sound(Append(b, e), ns, Len(ns))
         /\ Sound(b \o <<e>>, ns, c)
         /\ Sound(b \o <<e>>, ns, Len(ns))
<1>1. Sound(Append(b, e), ns, c) BY Push DEF StartsAt
<1>2. b \o <<e>> = Append(b, e) BY ConcatOne DEF Sound
<1> QED BY <1>1, <1>2, Raise

(* Two entries are pushed; the second may start at the end of the tree. *)
LEMMA PushTwo ==
  ASSUME NEW b, NEW ns, NEW c, NEW e, NEW f,
         Sound(b, ns, c), StartsAt(e, c), StartsAt(f, c) \/ StartsAt(f, Len(ns))
  PROVE  Sound(b \o <<e, f>>, ns, Len(ns))
<1>1. Sound(Append(b, e), ns, c) /\ Sound(Append(b, e), ns, Len(ns)) BY PushOne
<1>2. Sound(Append(Append(b, e), f), ns, Len(ns)) BY <1>1, PushOne
<1>3. b \o <<e, f>> = Append(Append(b, e), f) BY ConcatTwo DEF Sound
<1> QED BY <1>2, <1>3

(* Three entries are pushed; the last starts at the end of the tree. *)
LEMMA PushThree ==
  ASSUME NEW b, NEW ns, NEW c, NEW e, NEW f, NEW g,
         Sound(b, ns, c), StartsAt(e, c), StartsAt(f, c) \/ StartsAt(f, Len(ns)),
         StartsAt(g, Len(ns))
  PROVE  Sound(b \o <<e, f, g>>, ns, Len(ns))
<1>1. Sound(Append(b, e), ns, c) /\ Sound(Append(b, e), ns, Len(ns)) BY PushOne
<1>2. Sound(Append(Append(b, e), f), ns, Len(ns)) BY <1>1, PushOne
<1>3. Sound(Append(Append(Append(b, e), f), g), ns, Len(ns)) BY <1>2, PushOne
<1>4. b \o <<e, f, g>> = Append(Append(Append(b, e), f), g) BY ConcatThree DEF Sound
<1> QED BY <1>3, <1>4

(* A handler that pushes one entry. *)
LEMMA StepPushOne ==
  ASSUME NEW b, NEW ns, NEW c, NEW e, NEW pos, NEW diags,
         Step(ns, Append(b, e), pos, diags), Sound(b, ns, c), StartsAt(e, c)
  PROVE  Inductive'
BY PushOne, StepLeaves

(* A handler that pushes two entries. *)
LEMMA StepPushTwo ==
  ASSUME NEW b, NEW ns, NEW c, NEW e, NEW f, NEW pos, NEW diags,
         Step(ns, b \o <<e, f>>, pos, diags), Sound(b, ns, c), StartsAt(e, c),
         StartsAt(f, c) \/ StartsAt(f, Len(ns))
  PROVE  Inductive'
BY PushTwo, StepLeaves

(* A handler that pushes three entries. *)
LEMMA StepPushThree ==
  ASSUME NEW b, NEW ns, NEW c, NEW e, NEW f, NEW g, NEW pos, NEW diags,
         Step(ns, b \o <<e, f, g>>, pos, diags), Sound(b, ns, c), StartsAt(e, c),
         StartsAt(f, c) \/ StartsAt(f, Len(ns)), StartsAt(g, Len(ns))
  PROVE  Inductive'
BY PushThree, StepLeaves

(* A leaf is added, and what is pushed next starts after it. *)
LEMMA LeafAbove ==
  ASSUME NEW b, NEW ns, NEW c, NEW kind, NEW token, NEW has_error, Sound(b, ns, c)
  PROVE  /\ Sound(b, AddLeafNode(ns, kind, token, has_error), c)
         /\ Sound(b, AddLeafNode(ns, kind, token, has_error),
                  Len(AddLeafNode(ns, kind, token, has_error)))
BY Leaf, Raise

(* A leaf is added to the tree as the handler finds it. *)
LEMMA LeafHere ==
  ASSUME NEW b, NEW c, NEW kind, NEW token, NEW has_error, Sound(b, nodes, c)
  PROVE  /\ Sound(b, AddLeafNode(nodes, kind, token, has_error), c)
         /\ Sound(b, AddLeafNode(nodes, kind, token, has_error),
                  Len(AddLeafNode(nodes, kind, token, has_error)))
         /\ Sound(b, ConsumedLeaf(kind), c)
         /\ Sound(b, ConsumedLeaf(kind), Len(ConsumedLeaf(kind)))
BY LeafAbove DEF ConsumedLeaf

(* The entry below the popped one is marked. *)
LEMMA MarkPopped ==
  ASSUME NEW ns, NEW c, Sound(Popped, ns, c)
  PROVE  Sound(ReturnErrorOnState(Popped), ns, c)
BY Mark

(* A node over the subtree of the popped entry. *)
LEMMA CloseTop ==
  ASSUME NEW b, NEW kind, NEW token, NEW has_error,
         Sound(b, nodes, Top.subtree_start)
  PROVE  /\ Sound(b, AddTopNode(kind, token, has_error), Top.subtree_start)
         /\ Sound(b, AddTopNode(kind, token, has_error),
                  Len(AddTopNode(kind, token, has_error)))
<1>1. IsCut(nodes, Top.subtree_start) /\ Top.subtree_start <= Top.subtree_start
  BY SeqLen DEF Sound, IsCut
<1> QED BY <1>1, Close, Raise DEF AddTopNode

(* A statement or declaration that ends at a `;`. *)
LEMMA Finishing ==
  ASSUME Ready, NEW kind, FinishAtSemi(kind)
  PROVE  Inductive'
BY CloseTop, StepLeaves DEF Ready, FinishAtSemi

(* A declaration given up after an error. *)
LEMMA Recovering ==
  ASSUME Ready, NEW kind, NEW skip, NEW diags,
         RecoverFromDeclarationError(kind, skip, diags)
  PROVE  Inductive'
BY CloseTop, StepLeaves DEF Ready, RecoverFromDeclarationError

-----------------------------------------------------------------------------
(* The handlers. *)

(* A list element's end: at most a comma is added. *)
LEMMA ListItem ==
  ASSUME NEW b, NEW ns, NEW c, NEW comma_kind, NEW close_kind, Sound(b, ns, c)
  PROVE  /\ Sound(b, ConsumeListToken(comma_kind, close_kind, ns).nodes, c)
         /\ Sound(b, ConsumeListToken(comma_kind, close_kind, ns).nodes,
                  Len(ConsumeListToken(comma_kind, close_kind, ns).nodes))
<1> DEFINE item == ConsumeListToken(comma_kind, close_kind, ns)
<1>1. \/ item.nodes = ns
      \/ item.nodes = AddLeafNode(ns, comma_kind, ListElementEnd(close_kind), FALSE)
  BY DEF ConsumeListToken
<1> HIDE DEF item
<1> QED BY <1>1, LeafAbove, Raise DEF item

(* A start node, of the `(` or of its absence. *)
LEMMA OpenParen ==
  ASSUME NEW b, NEW c, NEW default_token, NEW kind, Sound(b, nodes, c)
  PROVE  /\ Sound(b, ConsumeAndAddOpenParen(default_token, kind).nodes, c)
         /\ Sound(b, ConsumeAndAddOpenParen(default_token, kind).nodes,
                  Len(ConsumeAndAddOpenParen(default_token, kind).nodes))
<1> DEFINE open == ConsumeAndAddOpenParen(default_token, kind)
<1>1. \/ open.nodes = AddLeafNode(nodes, kind, position, FALSE)
      \/ open.nodes = AddLeafNode(nodes, kind, default_token, TRUE)
  BY DEF ConsumeAndAddOpenParen
<1> HIDE DEF open
<1> QED BY <1>1, LeafAbove DEF open

(* A node over what was added since the popped entry was pushed. *)
LEMMA CloseOver ==
  ASSUME NEW b, NEW ns, NEW c, NEW kind, NEW token, NEW has_error, Sound(b, ns, c)
  PROVE  /\ Sound(b, AddNode(ns, kind, token, c, has_error), c)
         /\ Sound(b, AddNode(ns, kind, token, c, has_error),
                  Len(AddNode(ns, kind, token, c, has_error)))
<1>1. IsCut(ns, c) /\ c <= c BY SeqLen DEF Sound, IsCut
<1> QED BY <1>1, Close, Raise

(* A group is closed, or was never opened. *)
LEMMA CloseSymbol ==
  ASSUME NEW b, NEW expected_open, NEW kind, Sound(b, nodes, Top.subtree_start)
  PROVE  Sound(b, ConsumeAndAddCloseSymbol(expected_open, kind).nodes,
               Len(ConsumeAndAddCloseSymbol(expected_open, kind).nodes))
<1> DEFINE close == ConsumeAndAddCloseSymbol(expected_open, kind)
<1>1. \E t, h : close.nodes = AddTopNode(kind, t, h)
  BY DEF ConsumeAndAddCloseSymbol
<1> HIDE DEF close
<1> QED BY <1>1, CloseTop DEF close

(* The entry below is marked, or not. *)
LEMMA MarkedIf ==
  ASSUME NEW cond, NEW b
  PROVE  ReturnErrorIf(cond, b) = b \/ ReturnErrorIf(cond, b) = ReturnErrorOnState(b)
BY DEF ReturnErrorIf

(* A pattern keyword adds at most one entry, which starts with the pattern. *)
LEMMA KeywordEntry ==
  ASSUME NEW b, NEW pos, NEW keyword, NEW state, Sound(b, nodes, Top.subtree_start)
  PROVE  Sound(b \o PatternKeyword(pos, keyword, state), nodes, Top.subtree_start)
<1> DEFINE e == StateStackEntry(state, ForTopLevelExpression, ForTopLevelExpression,
                                pos, Top.subtree_start)
<1>1. PatternKeyword(pos, keyword, state) = <<e>> \/ PatternKeyword(pos, keyword, state) = <<>>
  BY DEF PatternKeyword
<1>2. StartsAt(e, Top.subtree_start) BY EntryAt
<1>3. Sound(b \o <<e>>, nodes, Top.subtree_start) BY <1>2, PushOne
<1>4. b \o <<>> = b BY ConcatNone DEF Sound
<1> QED BY <1>1, <1>3, <1>4

(* The package directive is given up over any tree that keeps its start. *)
LEMMA LeavingPackage ==
  ASSUME NEW ns, NEW pos, Sound(Popped, ns, Top.subtree_start), ExitPackage(ns, pos)
  PROVE  Inductive'
<1>1. \E t, p : Step(AddNode(ns, "PackageDirective", t, Top.subtree_start, TRUE),
                     Popped, p, {pos})
  BY DEF ExitPackage
<1> QED BY <1>1, CloseOver, StepLeaves

-----------------------------------------------------------------------------
(* One step per handler. *)

(* The handlers of declarations. *)
LEMMA DeclarationSound ==
  ASSUME Inductive, Declaration
  PROVE  Inductive'
<1>1. ASSUME HandleDeclarationScopeLoop PROVE Inductive'
  <2>1. /\ Sound(state_stack, nodes, Len(nodes))
        /\ Sound(Popped, nodes, Len(nodes))
    BY <1>1, Pop DEF HandleDeclarationScopeLoop, At, Inductive, Popped
  <2>2. CASE /\ PositionKind = "Semi"
             /\ Step(ConsumedLeaf("EmptyDeclaration"), state_stack, position + 1, {})
    BY <2>1, <2>2, LeafHere, StepLeaves
  <2>3. CASE HandleUnrecognizedDeclaration
    BY <2>1, <2>3, LeafHere, StepLeaves DEF HandleUnrecognizedDeclaration
  <2> QED
    BY <1>1, <2>1, <2>2, <2>3, EntryHere, StepPushOne, StepLeaves DEF
       HandleDeclarationScopeLoop
<1>2. ASSUME HandleDeclarationNameAndParams PROVE Inductive'
  <2>1. PICK v \in NameAndParams : HandleDeclarationNameAndParams!(v)
    BY <1>2 DEF HandleDeclarationNameAndParams
  <2>2. Ready BY <2>1, Popping DEF NameAndParams
  <2>3. CASE Step(ConsumedLeaf("NameExpression"),
                  Popped \o <<TopAs(v.after), TopAs("PeriodAsDeclaration")>>,
                  position + 1, {})
    <3> DEFINE ns == ConsumedLeaf("NameExpression")
    <3>1. Sound(Popped, ns, Top.subtree_start) BY <2>2, LeafHere DEF Ready
    <3>2. /\ StartsAt(TopAs(v.after), Top.subtree_start)
          /\ StartsAt(TopAs("PeriodAsDeclaration"), Top.subtree_start)
      BY <2>2, EntryTop DEF Ready
    <3> HIDE DEF ns
    <3> QED BY <2>3, <3>1, <3>2, StepPushTwo DEF ns
  <2>4. CASE Step(ConsumedLeaf("Name"), Append(Popped, TopAs(v.after)), position + 1, {})
    BY <2>2, <2>4, LeafHere, EntryTop, StepPushOne DEF Ready
  <2>5. CASE Step(AddLeafNode(nodes, "InvalidParse", position, FALSE),
                  ReturnErrorOnState(Popped), position, {position})
    BY <2>2, <2>5, LeafHere, MarkPopped, StepLeaves DEF Ready
  <2> QED BY <2>1, <2>3, <2>4, <2>5
<1>3. ASSUME HandleDeclarationNameAndParamsAfterName PROVE Inductive'
  <2>1. Ready BY <1>3, Popping DEF HandleDeclarationNameAndParamsAfterName, NameAndParams
  <2>2. CASE Step(nodes, Append(state_stack, TopAs("PeriodAsDeclaration")), position, {})
    BY <2>1, <2>2, EntryTop, StepPushOne DEF Ready
  <2>3. CASE \E s : Step(nodes, Append(Popped, Here(s)), position, {})
    BY <2>1, <2>3, EntryHere, StepPushOne DEF Ready
  <2>4. CASE \E s, t : Step(nodes, Popped \o <<Here(s), Here(t)>>, position, {})
    BY <2>1, <2>4, EntryHere, StepPushTwo DEF Ready
  <2>5. CASE Step(nodes, Popped, position, {})
    BY <2>1, <2>5, StepLeaves DEF Ready
  <2>6. CASE Step(nodes, ReturnErrorOnState(Popped), position, {position})
    BY <2>1, <2>6, MarkPopped, StepLeaves DEF Ready
  <2> QED
    BY <1>3, <2>2, <2>3, <2>4, <2>5, <2>6 DEF
       HandleDeclarationNameAndParamsAfterName
<1>4. ASSUME HandleDeclarationNameAndParamsAfterDeduced PROVE Inductive'
  <2>1. Ready BY <1>4, Popping DEF HandleDeclarationNameAndParamsAfterDeduced
  <2> QED
    BY <1>4, <2>1, EntryHere, MarkPopped, StepPushOne, StepLeaves DEF
       HandleDeclarationNameAndParamsAfterDeduced, Ready
<1>5. ASSUME HandleParameterList PROVE Inductive'
  <2>1. PICK v \in ParameterKind : HandleParameterList!(v) BY <1>5 DEF HandleParameterList
  <2>2. Ready BY <2>1, Popping DEF ParameterKind
  <2> DEFINE ns == ConsumedLeaf(v.start_node)
             e  == Entry(v.param, position + 1, ns)
  <2>3. Sound(Append(Popped, Here(v.finish)), ns, Len(ns))
    BY <2>2, LeafHere, EntryHere, PushOne DEF Ready
  <2>4. Popped \o <<Here(v.finish)>> = Append(Popped, Here(v.finish))
    BY <2>2, ConcatOne DEF Ready, Sound
  <2> HIDE DEF ns
  <2>5. StartsAt(e, Len(ns)) BY EntryHere
  <2> HIDE DEF e
  <2>6. /\ Sound((Popped \o <<Here(v.finish)>>) \o <<e>>, ns, Len(ns))
        /\ Sound((Popped \o <<Here(v.finish)>>) \o <<>>, ns, Len(ns))
    BY <2>3, <2>4, <2>5, PushOne, ConcatNone DEF Sound
  <2> QED BY <2>1, <2>6, CheckedStepLeaves DEF ns, e
<1>6. ASSUME HandleParameter PROVE Inductive'
  <2>1. Ready BY <1>6, Popping DEF HandleParameter, ParameterKind
  <2> QED BY <1>6, <2>1, EntryHere, StepPushTwo DEF HandleParameter, Ready
<1>7. ASSUME HandleParameterFinish PROVE Inductive'
  <2>1. PICK v \in ParameterKind : HandleParameterFinish!(v)
    BY <1>7 DEF HandleParameterFinish
  <2>2. Ready BY <2>1, Popping DEF ParameterKind
  <2> DEFINE item == ConsumeListToken("ParameterListComma", ClosingSymbol(v.open), nodes)
             e    == Entry(v.param, item.position, item.nodes)
  <2>3. Sound(Popped, item.nodes, Len(item.nodes)) BY <2>2, ListItem DEF Ready
  <2>4. Sound(ReturnErrorOnState(Popped), item.nodes, Len(item.nodes)) BY <2>3, Mark
  <2>5. StartsAt(e, Len(item.nodes)) BY EntryHere
  <2> HIDE DEF item, e
  <2>6. /\ Sound(Append(Popped, e), item.nodes, Len(item.nodes))
        /\ Sound(Append(ReturnErrorOnState(Popped), e), item.nodes, Len(item.nodes))
    BY <2>3, <2>4, <2>5, PushOne
  <2> QED BY <2>1, <2>3, <2>4, <2>6, MarkedIf, CheckedStepLeaves DEF item, e
<1>8. ASSUME HandleParameterListFinish PROVE Inductive'
  <2>1. Ready BY <1>8, Popping DEF HandleParameterListFinish, ParameterKind
  <2> QED BY <1>8, <2>1, CloseTop, CheckedStepLeaves DEF HandleParameterListFinish, Ready
<1>9. ASSUME HandlePattern PROVE Inductive'
  <2>1. PICK s \in PatternStates : HandlePattern!(s) BY <1>9 DEF HandlePattern
  <2>2. Ready BY <2>1, Popping DEF PatternStates
  <2> DEFINE template == IF s = "PatternAsVariable" THEN <<>>
                         ELSE PatternKeyword(position, "Template", "PatternTemplate")
             addr     == IF s = "PatternAsVariable" THEN <<>>
                         ELSE PatternKeyword(position + Len(template), "Addr",
                                             "PatternAddress")
             stack    == Popped \o template \o addr
             name     == position + Len(template) + Len(addr)
             is_name  == \/ Kind(name) = "Identifier"
                         \/ /\ s = "PatternAsDeducedParameter"
                            /\ Kind(name) = "SelfValueIdentifier"
             after    == IF is_name THEN name + 1 ELSE name
             name_ns  == AddLeafNode(nodes,
                           IF Kind(name) = "SelfValueIdentifier" /\ is_name
                           THEN "SelfValueName" ELSE "Name",
                           name, ~is_name)
             finish   == TopAs(IF Kind(after) = "Colon" THEN "PatternFinishAsRegular"
                               ELSE "PatternFinishAsGeneric")
  <2>3. Sound(Popped \o template, nodes, Top.subtree_start)
    BY <2>2, KeywordEntry, ConcatNone DEF Ready, Sound
  <2>4. Sound(stack, nodes, Top.subtree_start)
    <3> HIDE DEF template
    <3>1. addr = <<>> \/ addr = PatternKeyword(position + Len(template), "Addr",
                                             "PatternAddress")
      OBVIOUS
    <3> HIDE DEF addr
    <3>2. (Popped \o template) \o <<>> = Popped \o template
      BY <2>3, ConcatNone DEF Sound
    <3> QED BY <2>3, <3>1, <3>2, KeywordEntry
  <2>5. \/ Step(name_ns, stack \o <<[finish EXCEPT !.token = after],
                                    ExpressionEntry(ForType, after + 1, name_ns)>>,
                after + 1, {})
        \/ Step(AddLeafNode(name_ns, "InvalidParse", after, TRUE),
                Append(stack, [TopAs("PatternFinishAsRegular") EXCEPT !.has_error = TRUE]),
                after, {after})
    BY <2>1
  <2> HIDE DEF stack, after
  <2>6. Sound(stack, name_ns, Top.subtree_start) BY <2>4, LeafHere
  <2>7. /\ StartsAt([finish EXCEPT !.token = after], Top.subtree_start)
        /\ StartsAt([TopAs("PatternFinishAsRegular") EXCEPT !.has_error = TRUE],
                    Top.subtree_start)
    BY <2>2, EntryTop, EntryFields DEF Ready
  <2> HIDE DEF name_ns, finish
  <2>8. StartsAt(ExpressionEntry(ForType, after + 1, name_ns), Len(name_ns)) BY EntryHere
  <2>9. Sound(stack, AddLeafNode(name_ns, "InvalidParse", after, TRUE), Top.subtree_start)
    BY <2>6, LeafAbove
  <2> QED BY <2>5, <2>6, <2>7, <2>8, <2>9, StepPushOne, StepPushTwo
<1>10. ASSUME HandlePatternFinish PROVE Inductive'
  <2>1. Ready BY <1>10, Popping DEF HandlePatternFinish, PatternNode
  <2> QED
    BY <1>10, <2>1, CloseTop, MarkPopped, MarkedIf, StepLeaves DEF
       HandlePatternFinish, Ready
<1>11. ASSUME HandleFunctionIntroducer PROVE Inductive'
  <2>1. Ready BY <1>11, Popping DEF HandleFunctionIntroducer
  <2> QED
    BY <1>11, <2>1, LeafHere, EntryHere, EntryTop, PushTwo, PushThree, StepLeaves
       DEF HandleFunctionIntroducer, Ready
<1>12. ASSUME HandleFunctionAfterParameters PROVE Inductive'
  <2>1. Ready BY <1>12, Popping DEF HandleFunctionAfterParameters
  <2> QED
    BY <1>12, <2>1, EntryHere, EntryTop, StepPushOne, StepPushThree DEF
       HandleFunctionAfterParameters, Ready
<1>13. ASSUME HandleFunctionReturnTypeFinish PROVE Inductive'
  <2>1. Ready BY <1>13, Popping DEF HandleFunctionReturnTypeFinish
  <2> QED BY <1>13, <2>1, CloseTop, StepLeaves DEF HandleFunctionReturnTypeFinish, Ready
<1>14. ASSUME HandleFunctionSignatureFinish PROVE Inductive'
  <2>1. Ready BY <1>14, Popping DEF HandleFunctionSignatureFinish
  <2> QED
    BY <1>14, <2>1, CloseTop, EntryTop, EntryFields, EntryHere, PushTwo, StepLeaves,
       CheckedStepLeaves DEF HandleFunctionSignatureFinish, Ready,
       RecoverFromDeclarationError, DiagnosedIf
<1>15. ASSUME HandleFunctionDefinitionFinish PROVE Inductive'
  <2>1. Ready BY <1>15, Popping DEF HandleFunctionDefinitionFinish
  <2> QED BY <1>15, <2>1, CloseTop, StepLeaves DEF HandleFunctionDefinitionFinish, Ready
<1>16. ASSUME HandleTypeIntroducer PROVE Inductive'
  <2>1. Ready BY <1>16, Popping DEF HandleTypeIntroducer, TypeKind
  <2> QED
    BY <1>16, <2>1, LeafHere, EntryHere, EntryTop, PushTwo, PushThree, StepLeaves
       DEF HandleTypeIntroducer, Ready
<1>17. ASSUME HandleTypeAfterParams PROVE Inductive'
  <2>1. PICK v \in TypeKind : HandleTypeAfterParams!(v) BY <1>17 DEF HandleTypeAfterParams
  <2>2. Ready BY <2>1, Popping DEF TypeKind
  <2>3. CASE \E skip, diags : RecoverFromDeclarationError(v.declaration, skip, diags)
    BY <2>2, <2>3, Recovering
  <2>4. CASE Step(AddTopNode(v.declaration, position, FALSE), Popped, position + 1, {})
    BY <2>2, <2>4, CloseTop, StepLeaves DEF Ready
  <2>5. CASE Step(AddTopNode(v.start, position, FALSE),
                  Popped \o <<TopAs(v.finish), Here("DeclarationScopeLoop")>>,
                  position + 1, {})
    <3> DEFINE ns == AddTopNode(v.start, position, FALSE)
    <3>1. Sound(Popped, ns, Top.subtree_start) BY <2>2, CloseTop DEF Ready
    <3>2. StartsAt(Here("DeclarationScopeLoop"), Len(ns))
      BY EntryRecord DEF StartsAt, Closeable, Here, Entry, StateStackEntry
    <3> HIDE DEF ns
    <3>3. StartsAt(TopAs(v.finish), Top.subtree_start) BY <2>2, EntryTop DEF Ready
    <3> QED BY <2>5, <3>1, <3>2, <3>3, StepPushTwo DEF ns
  <2> QED BY <2>1, <2>3, <2>4, <2>5
<1>18. ASSUME HandleTypeDefinitionFinish PROVE Inductive'
  <2>1. Ready BY <1>18, Popping DEF HandleTypeDefinitionFinish, TypeKind
  <2> QED BY <1>18, <2>1, CloseTop, StepLeaves DEF HandleTypeDefinitionFinish, Ready
<1>19. ASSUME HandleVar PROVE Inductive'
  <2>1. Ready BY <1>19, Popping DEF HandleVar, VarFinishState
  <2> QED
    BY <1>19, <2>1, LeafHere, EntryHere, EntryTop, PushTwo, PushThree, StepLeaves
       DEF HandleVar, Ready
<1>20. ASSUME HandleVarAfterPattern PROVE Inductive'
  <2>1. Ready BY <1>20, Popping DEF HandleVarAfterPattern
  <2>2. CASE \E pos : Step(nodes, Popped, pos, {}) BY <2>1, <2>2, StepLeaves DEF Ready
  <2> DEFINE ns == AddLeafNode(nodes, "VariableInitializer", AfterPattern, FALSE)
  <2>3. CASE Step(ns, Append(Popped, Entry("Expression", AfterPattern + 1, ns)),
                  AfterPattern + 1, {})
    <3>1. Sound(Popped, ns, Len(ns)) BY <2>1, LeafHere DEF Ready
    <3> HIDE DEF ns
    <3> QED BY <2>3, <3>1, EntryHere, StepPushOne
  <2> QED BY <1>20, <2>2, <2>3 DEF HandleVarAfterPattern
<1>21. ASSUME HandleVarFinishAsSemicolon PROVE Inductive'
  <2>1. Ready BY <1>21, Popping DEF HandleVarFinishAsSemicolon
  <2> QED BY <1>21, <2>1, Finishing DEF HandleVarFinishAsSemicolon, Ready
<1>22. ASSUME HandleVarFinishAsFor PROVE Inductive'
  <2>1. Ready BY <1>22, Popping DEF HandleVarFinishAsFor
  <2> QED BY <1>22, <2>1, CloseTop, StepLeaves DEF HandleVarFinishAsFor, Ready
<1>23. ASSUME HandleLet PROVE Inductive'
  <2>1. Ready BY <1>23, Popping DEF HandleLet
  <2> QED
    BY <1>23, <2>1, LeafHere, EntryHere, EntryTop, PushTwo, PushThree, StepLeaves
       DEF HandleLet, Ready
<1>24. ASSUME HandleLetAfterPattern PROVE Inductive'
  <2>1. Ready BY <1>24, Popping DEF HandleLetAfterPattern
  <2>2. CASE \E pos : Step(nodes, Popped, pos, {}) BY <2>1, <2>2, StepLeaves DEF Ready
  <2> DEFINE ns == AddLeafNode(nodes, "LetInitializer", AfterPattern, FALSE)
  <2>3. CASE Step(ns, Append(Popped, Entry("Expression", AfterPattern + 1, ns)),
                  AfterPattern + 1, {})
    <3>1. Sound(Popped, ns, Len(ns)) BY <2>1, LeafHere DEF Ready
    <3> HIDE DEF ns
    <3> QED BY <2>3, <3>1, EntryHere, StepPushOne
  <2>4. CASE Step(nodes, ReturnErrorOnState(Popped), position, {position})
    BY <2>1, <2>4, MarkPopped, StepLeaves DEF Ready
  <2> QED BY <1>24, <2>2, <2>3, <2>4 DEF HandleLetAfterPattern
<1>25. ASSUME HandleLetFinish PROVE Inductive'
  <2>1. Ready BY <1>25, Popping DEF HandleLetFinish
  <2> QED BY <1>25, <2>1, Finishing DEF HandleLetFinish, Ready
<1>26. ASSUME HandleNamespace PROVE Inductive'
  <2>1. Ready BY <1>26, Popping DEF HandleNamespace
  <2> QED
    BY <1>26, <2>1, LeafHere, EntryHere, EntryTop, PushTwo, PushThree, StepLeaves
       DEF HandleNamespace, Ready
<1>27. ASSUME HandleNamespaceFinish PROVE Inductive'
  <2>1. Ready BY <1>27, Popping DEF HandleNamespaceFinish
  <2>2. CASE Step(AddTopNode("Namespace", position, FALSE), Popped, position + 1, {})
    BY <2>1, <2>2, CloseTop, StepLeaves DEF Ready
  <2> QED BY <1>27, <2>1, <2>2, Recovering DEF HandleNamespaceFinish
<1>28. ASSUME HandlePackage PROVE Inductive'
  <2>1. Ready BY <1>28, Popping DEF HandlePackage
  <2> DEFINE name        == position + 1
             intro_ns    == ConsumedLeaf("PackageIntroducer")
             name_ns     == AddLeafNode(intro_ns, "Name", name, FALSE)
             has_library == Kind(name + 1) = "Library"
             literal_ns  == AddLeafNode(name_ns, "Literal", name + 2, FALSE)
             library_ns  == AddNode(literal_ns, "PackageLibrary", name + 1,
                                    Len(name_ns), FALSE)
             api         == IF has_library THEN name + 3 ELSE name + 1
             before_api  == IF has_library THEN library_ns ELSE name_ns
             api_ns      == AddLeafNode(before_api,
                              IF Kind(api) = "Api" THEN "PackageApi" ELSE "PackageImpl",
                              api, FALSE)
             done_ns     == AddNode(api_ns, "PackageDirective", api + 1,
                                    Top.subtree_start, FALSE)
  <2>2. \/ \E p : \/ ExitPackage(intro_ns, p)  \/ ExitPackage(name_ns, p)
                  \/ ExitPackage(before_api, p) \/ ExitPackage(api_ns, p)
        \/ Step(done_ns, Popped, api + 2, {})
    BY <1>28 DEF HandlePackage
  <2>3. Sound(Popped, intro_ns, Top.subtree_start) BY <2>1, LeafHere DEF Ready
  <2> HIDE DEF intro_ns
  <2>4. /\ Sound(Popped, name_ns, Top.subtree_start)
        /\ Sound(Popped, name_ns, Len(name_ns))
    BY <2>3, LeafAbove
  <2> HIDE DEF name_ns
  <2>5. /\ Sound(Popped, literal_ns, Top.subtree_start)
        /\ Sound(Popped, literal_ns, Len(name_ns))
    BY <2>4, LeafAbove
  <2> HIDE DEF literal_ns
  <2>6. Sound(Popped, library_ns, Top.subtree_start)
    <3>1. IsCut(literal_ns, Len(name_ns)) /\ Top.subtree_start <= Len(name_ns)
      BY <2>4, <2>5 DEF Sound, IsCut
    <3> QED BY <2>5, <3>1, Close
  <2> HIDE DEF library_ns
  <2>7. Sound(Popped, before_api, Top.subtree_start) BY <2>4, <2>6
  <2> HIDE DEF before_api
  <2>8. Sound(Popped, api_ns, Top.subtree_start) BY <2>7, LeafAbove
  <2> HIDE DEF api_ns
  <2>9. Sound(Popped, done_ns, Len(done_ns)) BY <2>8, CloseOver
  <2> QED BY <2>2, <2>3, <2>4, <2>7, <2>8, <2>9, LeavingPackage, StepLeaves
<1> QED
  BY <1>1, <1>2, <1>3, <1>4, <1>5, <1>6, <1>7, <1>8, <1>9, <1>10, <1>11,
     <1>12, <1>13, <1>14, <1>15, <1>16, <1>17, <1>18, <1>19, <1>20, <1>21,
     <1>22, <1>23, <1>24, <1>25, <1>26, <1>27, <1>28 DEF Declaration

(* The handlers of expressions. *)
LEMMA ExpressionSound ==
  ASSUME Inductive, Expression
  PROVE  Inductive'
<1>1. ASSUME HandleExpression PROVE Inductive'
  <2>1. Ready BY <1>1, Popping DEF HandleExpression
  <2> DEFINE op      == ForLeading[PositionKind]
             prefix  == StateStackEntry("ExpressionLoopForPrefix", Top.ambient_precedence,
                                        op, position, Len(nodes))
             inner   == IF PositionKind = "If"
                        THEN <<Here("IfExpressionFinish"), Here("IfExpressionFinishCondition")>>
                        ELSE <<prefix>>
             operand == ExpressionEntry(op, position + 1, nodes)
  <2>2. CASE \E diags : Step(nodes, (Popped \o inner) \o <<operand>>, position + 1, diags)
    <3>1. Sound(Popped \o <<Here("IfExpressionFinish"), Here("IfExpressionFinishCondition")>>,
                nodes, Len(nodes))
      BY <2>1, EntryHere, PushTwo DEF Ready
    <3>2. Sound(Popped \o <<prefix>>, nodes, Len(nodes))
      BY <2>1, EntryAt, PushOne DEF Ready
    <3>3. Sound(Popped \o inner, nodes, Len(nodes)) BY <3>1, <3>2
    <3>4. StartsAt(operand, Len(nodes)) BY EntryHere
    <3> HIDE DEF inner, operand
    <3>5. Sound((Popped \o inner) \o <<operand>>, nodes, Len(nodes))
      BY <3>3, <3>4, PushOne
    <3> QED BY <2>2, <3>5, StepLeaves
  <2>3. CASE Step(nodes,
               Popped \o <<StateStackEntry("ExpressionLoop", Top.ambient_precedence,
                                           ForPostfixExpression, position, Len(nodes)),
                           Here("ExpressionInPostfix")>>,
               position, {})
    BY <2>1, <2>3, EntryAt, EntryHere, StepPushTwo DEF Ready
  <2> QED BY <1>1, <2>2, <2>3 DEF HandleExpression
<1>2. ASSUME HandleExpressionInPostfix PROVE Inductive'
  <2>1. Ready BY <1>2, Popping DEF HandleExpressionInPostfix
  <2>2. CASE \E kind : Step(ConsumedLeaf(kind), Append(Popped, TopAs("ExpressionInPostfixLoop")),
                            position + 1, {})
    <3>1. PICK kind : Step(ConsumedLeaf(kind), Append(Popped, TopAs("ExpressionInPostfixLoop")),
                           position + 1, {})
      BY <2>2
    <3> DEFINE ns == ConsumedLeaf(kind)
    <3>2. Sound(Popped, ns, Top.subtree_start) BY <2>1, LeafHere DEF Ready
    <3>3. StartsAt(TopAs("ExpressionInPostfixLoop"), Top.subtree_start)
      BY <2>1, EntryTop DEF Ready
    <3> HIDE DEF ns
    <3> QED BY <3>1, <3>2, <3>3, StepPushOne DEF ns
  <2>3. CASE \E state : Step(nodes, Popped \o <<TopAs("ExpressionInPostfixLoop"), Here(state)>>,
                             position, {})
    BY <2>1, <2>3, EntryHere, EntryTop, StepPushTwo DEF Ready
  <2>4. CASE Step(AddLeafNode(nodes, "InvalidParse", position, TRUE),
                  ReturnErrorOnState(Popped), position, {position})
    BY <2>1, <2>4, LeafHere, MarkPopped, StepLeaves DEF Ready
  <2> QED BY <1>2, <2>2, <2>3, <2>4 DEF HandleExpressionInPostfix
<1>3. ASSUME HandleExpressionInPostfixLoop PROVE Inductive'
  <2>1. Ready BY <1>3, Popping DEF HandleExpressionInPostfixLoop
  <2> DEFINE again == [Top EXCEPT !.token = position]
             form  == [again EXCEPT !.state = PostfixState[PositionKind]]
  <2>2. StartsAt(again, Top.subtree_start) BY <2>1, EntryFields DEF Ready
  <2>3. StartsAt(form, Top.subtree_start)
    <3>1. IsEntry(again) /\ again.subtree_start = Top.subtree_start
      BY <2>1, EntryUpdate DEF Ready
    <3> HIDE DEF again
    <3> QED BY <3>1, EntryUpdate DEF StartsAt
  <2>4. CASE Step(nodes, Popped \o <<again, form>>, position, {})
    <3> HIDE DEF again, form
    <3> QED BY <2>1, <2>2, <2>3, <2>4, StepPushTwo DEF Ready
  <2>5. CASE Step(nodes, ReturnErrorIf(Top.has_error, Popped), position, {})
    BY <2>1, <2>5, MarkPopped, MarkedIf, StepLeaves DEF Ready
  <2> QED BY <1>3, <2>4, <2>5 DEF HandleExpressionInPostfixLoop
<1>4. ASSUME HandleExpressionLoop PROVE Inductive'
  <2>1. Ready BY <1>4, Popping DEF HandleExpressionLoop
  <2>2. CASE Step(nodes, ReturnErrorIf(Top.has_error, Popped), position, {})
    BY <2>1, <2>2, MarkPopped, MarkedIf, StepLeaves DEF Ready
  <2> DEFINE op     == TrailingOperator.level
             error  == Top.has_error \/ ~OperatorNests
             ns     == IF PositionKind \in {"And", "Or"}
                       THEN AddTopNode("ShortCircuitOperand", position, error)
                       ELSE nodes
             binary == [TopAs("ExpressionLoopForBinary") EXCEPT
                          !.token = position, !.lhs_precedence = op, !.has_error = error]
             after  == [Top EXCEPT !.token = position, !.has_error = FALSE,
                          !.lhs_precedence = op]
  <2>3. CASE \E diags : Step(ns, Popped \o <<binary, ExpressionEntry(op, position + 1, ns)>>,
                             position + 1, diags)
    <3>1. Sound(Popped, ns, Top.subtree_start) BY <2>1, CloseTop DEF Ready
    <3>2. StartsAt(binary, Top.subtree_start)
      <4> DEFINE b1 == [TopAs("ExpressionLoopForBinary") EXCEPT !.token = position]
                 b2 == [b1 EXCEPT !.lhs_precedence = op]
                 b3 == [b2 EXCEPT !.has_error = error]
      <4>1. StartsAt(b1, Top.subtree_start) BY <2>1, EntryTop, EntryFields DEF Ready
      <4>2. StartsAt(b2, Top.subtree_start) BY <4>1, EntryFields
      <4>3. StartsAt(b3, Top.subtree_start) BY <4>2, EntryFields
      <4> QED BY <4>3
    <3> HIDE DEF ns, binary, op
    <3>3. StartsAt(ExpressionEntry(op, position + 1, ns), Len(ns)) BY EntryHere
    <3> QED BY <2>3, <3>1, <3>2, <3>3, StepPushTwo
  <2>4. CASE \E diags : Step(AddTopNode("PostfixOperator", position, error),
                             Append(Popped, after), position + 1, diags)
    <3>1. StartsAt(after, Top.subtree_start)
      <4> DEFINE a1 == [Top EXCEPT !.token = position]
                 a2 == [a1 EXCEPT !.has_error = FALSE]
                 a3 == [a2 EXCEPT !.lhs_precedence = op]
      <4>1. StartsAt(a1, Top.subtree_start) BY <2>1, EntryFields DEF Ready
      <4>2. StartsAt(a2, Top.subtree_start) BY <4>1, EntryFields
      <4>3. StartsAt(a3, Top.subtree_start) BY <4>2, EntryFields
      <4> QED BY <4>3
    <3> HIDE DEF after, error
    <3> QED BY <2>1, <2>4, <3>1, CloseTop, StepPushOne DEF Ready
  <2> QED BY <1>4, <2>2, <2>3, <2>4 DEF HandleExpressionLoop
<1>5. ASSUME HandleExpressionLoopForOperator PROVE Inductive'
  <2>1. Ready BY <1>5, Popping DEF HandleExpressionLoopForOperator, OperatorNode
  <2> QED
    BY <1>5, <2>1, CloseTop, EntryTop, EntryFields, StepPushOne DEF
       HandleExpressionLoopForOperator, Ready
<1>6. ASSUME HandleIfExpressionFinishCondition PROVE Inductive'
  <2>1. Ready BY <1>6, Popping DEF HandleIfExpressionFinishCondition
  <2> DEFINE ns == AddTopNode("IfExpressionIf", Top.token, Top.has_error)
             e  == Entry("IfExpressionFinishThen", position, ns)
             f  == ExpressionEntry(ForLeading["If"], position + 1, ns)
             missing == AddLeafNode(ns, "InvalidParse", position, TRUE)
  <2>2. Sound(Popped, ns, Len(ns)) BY <2>1, CloseTop DEF Ready
  <2> HIDE DEF ns
  <2>3. StartsAt(e, Len(ns)) /\ StartsAt(f, Len(ns)) BY EntryHere
  <2> HIDE DEF e, f
  <2>4. CASE Step(ns, Popped \o <<e, f>>, position + 1, {})
    BY <2>2, <2>3, <2>4, StepPushTwo
  <2>5. CASE \E diags : Step(AddLeafNode(missing, "InvalidParse", position, TRUE),
                             ReturnErrorOnState(Popped), position, diags)
    <3>1. Sound(Popped, missing, Len(missing)) BY <2>2, LeafAbove
    <3> HIDE DEF missing
    <3> QED BY <2>5, <3>1, LeafAbove, MarkPopped, StepLeaves
  <2> QED BY <1>6, <2>4, <2>5 DEF HandleIfExpressionFinishCondition, ns, e, f
<1>7. ASSUME HandleIfExpressionFinishThen PROVE Inductive'
  <2>1. Ready BY <1>7, Popping DEF HandleIfExpressionFinishThen
  <2> DEFINE ns == AddTopNode("IfExpressionThen", Top.token, Top.has_error)
             e  == Entry("IfExpressionFinishElse", position, ns)
             f  == ExpressionEntry(ForLeading["If"], position + 1, ns)
  <2>2. Sound(Popped, ns, Len(ns)) BY <2>1, CloseTop DEF Ready
  <2> HIDE DEF ns
  <2>3. StartsAt(e, Len(ns)) /\ StartsAt(f, Len(ns)) BY EntryHere
  <2> HIDE DEF e, f
  <2>4. CASE Step(ns, Popped \o <<e, f>>, position + 1, {})
    BY <2>2, <2>3, <2>4, StepPushTwo
  <2>5. CASE \E diags : Step(AddLeafNode(ns, "InvalidParse", position, TRUE),
                             ReturnErrorOnState(Popped), position, diags)
    BY <2>2, <2>5, LeafAbove, MarkPopped, StepLeaves
  <2> QED BY <1>7, <2>4, <2>5 DEF HandleIfExpressionFinishThen, ns, e, f
<1>8. ASSUME HandleIfExpressionFinishElse PROVE Inductive'
  <2>1. Ready BY <1>8, Popping DEF HandleIfExpressionFinishElse
  <2> DEFINE r == Popped[Len(Popped)]
             e == [r EXCEPT !.token = Top.token, !.has_error = r.has_error \/ Top.has_error]
  <2>2. ASSUME Popped # <<>>
        PROVE  /\ IsEntry(e) /\ e.subtree_start = r.subtree_start
               /\ Closeable(e) => Closeable(r)
    <3>1. IsEntry(r) BY <2>1, <2>2, Pop DEF Ready
    <3> HIDE DEF r
    <3> DEFINE e1 == [r EXCEPT !.token = Top.token]
               e2 == [e1 EXCEPT !.has_error = e1.has_error \/ Top.has_error]
    <3>2. IsEntry(e1) /\ e1.subtree_start = r.subtree_start /\ e1.state = r.state
      BY <3>1, EntryUpdate
    <3>3. e = e2 OBVIOUS
    <3> HIDE DEF e1, e
    <3>4. IsEntry(e2) /\ e2.subtree_start = e1.subtree_start /\ e2.state = e1.state
      BY <3>2, EntryUpdate
    <3> QED BY <3>2, <3>3, <3>4 DEF Closeable
  <2>3. Step(nodes, [Popped EXCEPT ![Len(Popped)] = e], position, {})
    BY <1>8 DEF HandleIfExpressionFinishElse
  <2> HIDE DEF e
  <2>4. Sound([Popped EXCEPT ![Len(Popped)] = e], nodes, Len(nodes))
    BY <2>1, <2>2, Replace DEF Ready
  <2> QED BY <2>3, <2>4, StepLeaves
<1>9. ASSUME HandleIfExpressionFinish PROVE Inductive'
  <2>1. Ready BY <1>9, Popping DEF HandleIfExpressionFinish
  <2> QED BY <1>9, <2>1, CloseTop, StepLeaves DEF HandleIfExpressionFinish, Ready
<1>10. ASSUME HandleExpressionStatementFinish PROVE Inductive'
  <2>1. Ready BY <1>10, Popping DEF HandleExpressionStatementFinish
  <2> QED
    BY <1>10, <2>1, CloseTop, MarkPopped, StepLeaves DEF
       HandleExpressionStatementFinish, Ready, DiagnosedIf
<1>11. ASSUME HandlePeriodOrArrow PROVE Inductive'
  <2>1. PICK v \in PeriodKind : HandlePeriodOrArrow!(v) BY <1>11 DEF HandlePeriodOrArrow
  <2>2. Ready BY <2>1, Popping DEF PeriodKind
  <2> DEFINE is_name  == Kind(position + 1) = "Identifier"
             consumed == is_name \/ Kind(position + 1) \in KeywordTokens
             ns       == AddLeafNode(nodes, "Name", position + 1, ~is_name)
             member   == AddNode(ns, v.node, position, Top.subtree_start, Top.has_error)
  <2>3. \E ok, pos, diags :
          CheckedStep(ok, member, ReturnErrorIf(~consumed, Popped), pos, diags)
    BY <2>1
  <2>4. Sound(Popped, ns, Top.subtree_start) BY <2>2, LeafHere DEF Ready
  <2> HIDE DEF ns
  <2>5. Sound(Popped, member, Len(member)) BY <2>4, CloseOver
  <2> HIDE DEF member, consumed
  <2> QED BY <2>3, <2>5, MarkPopped, MarkedIf, CheckedStepLeaves
<1>12. ASSUME HandleCallExpression PROVE Inductive'
  <2>1. Ready BY <1>12, Popping DEF HandleCallExpression
  <2> QED
    BY <1>12, <2>1, CloseTop, EntryTop, EntryHere, PushOne, PushThree, StepLeaves
       DEF HandleCallExpression, Ready
<1>13. ASSUME HandleCallExpressionParameterFinish PROVE Inductive'
  <2>1. Ready BY <1>13, Popping DEF HandleCallExpressionParameterFinish
  <2> DEFINE item  == ConsumeListToken("CallExpressionComma", "CloseParen", nodes)
             error == Top.has_error \/ ListError("CloseParen", Top.has_error)
             stack == ReturnErrorIf(error, Popped)
             e     == Entry("CallExpressionParameterFinish", item.position, item.nodes)
             f     == Entry("Expression", item.position, item.nodes)
  <2>2. \E ok, pos, diags :
          CheckedStep(ok, item.nodes,
            IF item.token_kind = "Comma" THEN stack \o <<e, f>> ELSE stack, pos, diags)
    BY <1>13 DEF HandleCallExpressionParameterFinish
  <2>3. Sound(Popped, item.nodes, Len(item.nodes)) BY <2>1, ListItem DEF Ready
  <2> HIDE DEF item, error
  <2>4. Sound(stack, item.nodes, Len(item.nodes)) BY <2>3, Mark, MarkedIf
  <2> HIDE DEF stack
  <2>5. StartsAt(e, Len(item.nodes)) /\ StartsAt(f, Len(item.nodes)) BY EntryHere
  <2> HIDE DEF e, f
  <2>6. Sound(stack \o <<e, f>>, item.nodes, Len(item.nodes)) BY <2>4, <2>5, PushTwo
  <2> QED BY <2>2, <2>4, <2>6, CheckedStepLeaves
<1>14. ASSUME HandleCallExpressionFinish PROVE Inductive'
  <2>1. Ready BY <1>14, Popping DEF HandleCallExpressionFinish
  <2> QED BY <1>14, <2>1, CloseTop, StepLeaves DEF HandleCallExpressionFinish, Ready
<1>15. ASSUME HandleIndexExpression PROVE Inductive'
  <2>1. Ready BY <1>15, Popping DEF HandleIndexExpression
  <2> QED
    BY <1>15, <2>1, CloseTop, EntryTop, EntryHere, PushTwo, CheckedStepLeaves DEF
       HandleIndexExpression, Ready
<1>16. ASSUME HandleIndexExpressionFinish PROVE Inductive'
  <2>1. Ready BY <1>16, Popping DEF HandleIndexExpressionFinish
  <2> QED
    BY <1>16, <2>1, CloseSymbol, CheckedStepLeaves DEF HandleIndexExpressionFinish,
       Ready
<1>17. ASSUME HandleArrayExpression PROVE Inductive'
  <2>1. Ready BY <1>17, Popping DEF HandleArrayExpression
  <2> QED
    BY <1>17, <2>1, LeafHere, EntryTop, EntryHere, PushTwo, CheckedStepLeaves DEF
       HandleArrayExpression, Ready
<1>18. ASSUME HandleArrayExpressionSemi PROVE Inductive'
  <2>1. Ready BY <1>18, Popping DEF HandleArrayExpressionSemi
  <2> DEFINE error  == Top.has_error \/ ~(PositionKind = "Semi")
             pos    == IF PositionKind = "Semi" THEN position + 1 ELSE position
             ns     == AddTopNode("ArrayExpressionSemi", position, error)
             finish == [TopAs("ArrayExpressionFinish") EXCEPT !.has_error = error]
             e      == Entry("Expression", pos, ns)
  <2>2. \E diags : Step(ns, Popped \o (IF Kind(pos) = "CloseSquareBracket" THEN <<finish>>
                                       ELSE <<finish, e>>), pos, diags)
    BY <1>18 DEF HandleArrayExpressionSemi
  <2>3. Sound(Popped, ns, Top.subtree_start) BY <2>1, CloseTop DEF Ready
  <2>4. StartsAt(finish, Top.subtree_start) BY <2>1, EntryTop, EntryFields DEF Ready
  <2> HIDE DEF ns, finish, pos
  <2>5. StartsAt(e, Len(ns)) BY EntryHere
  <2> HIDE DEF e
  <2>6. Sound(Popped \o <<finish>>, ns, Len(ns)) BY <2>3, <2>4, PushOne
  <2>7. Sound(Popped \o <<finish, e>>, ns, Len(ns)) BY <2>3, <2>4, <2>5, PushTwo
  <2> QED BY <2>2, <2>6, <2>7, StepLeaves
<1>19. ASSUME HandleArrayExpressionFinish PROVE Inductive'
  <2>1. Ready BY <1>19, Popping DEF HandleArrayExpressionFinish
  <2> QED
    BY <1>19, <2>1, CloseSymbol, CheckedStepLeaves DEF HandleArrayExpressionFinish,
       Ready
<1>20. ASSUME HandleParenExpression PROVE Inductive'
  <2>1. Ready BY <1>20, Popping DEF HandleParenExpression
  <2> QED
    BY <1>20, <2>1, LeafHere, EntryTop, EntryHere, PushOne, PushThree,
       CheckedStepLeaves DEF HandleParenExpression, Ready
<1>21. ASSUME HandleParenExpressionParameterFinish PROVE Inductive'
  <2>1. PICK s \in ParenParameterFinishStates : HandleParenExpressionParameterFinish!(s)
    BY <1>21 DEF HandleParenExpressionParameterFinish
  <2>2. Ready BY <2>1, Popping DEF ParenParameterFinishStates
  <2> DEFINE error    == ListError("CloseParen", Top.has_error)
             item     == ConsumeListToken("TupleLiteralComma", "CloseParen", nodes)
             stack    == ReturnErrorIf(error, Popped)
             is_first == s = "ParenExpressionParameterFinishAsUnknown"
             finish   == stack[Len(stack)]
             tuple    == [finish EXCEPT !.state = "ParenExpressionFinishAsTuple"]
             changed  == [stack EXCEPT ![Len(stack)] = tuple]
             as_tuple == IF is_first THEN changed ELSE stack
             again    == TopAs("ParenExpressionParameterFinishAsTuple")
             element  == Entry("Expression", item.position, item.nodes)
             ok       == /\ ListElementEnds("CloseParen")
                         /\ item.token_kind # "Close" /\ is_first =>
                              finish.state = "ParenExpressionFinishAsNormal"
  <2>3. \E diags : CheckedStep(ok, item.nodes,
          CASE item.token_kind = "Close"      -> stack
            [] item.token_kind = "CommaClose" -> as_tuple
            [] item.token_kind = "Comma"      -> as_tuple \o <<again, element>>,
          item.position, diags)
    BY <2>1
  <2>4. item.token_kind \in {"Close", "CommaClose", "Comma"} BY DEF ConsumeListToken
  <2>5. Sound(Popped, item.nodes, Top.subtree_start) BY <2>2, ListItem DEF Ready
  <2> HIDE DEF item, error
  <2>6. Sound(stack, item.nodes, Top.subtree_start) BY <2>5, Mark, MarkedIf
  <2> HIDE DEF stack
  <2>7. ASSUME ok, item.token_kind # "Close"
        PROVE  Sound(as_tuple, item.nodes, Top.subtree_start)
    <3>1. CASE ~is_first BY <3>1, <2>6
    <3>2. CASE is_first
      <4>1. ASSUME stack # <<>>
            PROVE  /\ IsEntry(tuple) /\ tuple.subtree_start = finish.subtree_start
                   /\ Closeable(tuple) => Closeable(finish)
        <5>1. IsEntry(finish) BY <2>6, <4>1, Pop
        <5>2. Closeable(finish) BY <2>7, <3>2 DEF Closeable
        <5> HIDE DEF finish
        <5> QED BY <5>1, <5>2, EntryUpdate
      <4> HIDE DEF tuple
      <4>2. Sound(changed, item.nodes, Top.subtree_start) BY <2>6, <4>1, Replace
      <4> QED BY <3>2, <4>2
    <3> QED BY <3>1, <3>2
  <2>8. StartsAt(again, Top.subtree_start) BY <2>2, EntryTop DEF Ready
  <2>9. StartsAt(element, Len(item.nodes)) BY EntryHere
  <2> HIDE DEF ok, as_tuple, again, element
  <2>10. CASE item.token_kind = "Close"
    BY <2>3, <2>6, <2>10, Raise, CheckedStepLeaves
  <2>11. CASE item.token_kind = "CommaClose"
    BY <2>3, <2>7, <2>11, Raise, CheckedStepLeaves
  <2>12. CASE item.token_kind = "Comma"
    BY <2>3, <2>7, <2>8, <2>9, <2>12, PushTwo, CheckedStepLeaves
  <2> QED BY <2>4, <2>10, <2>11, <2>12
<1>22. ASSUME HandleParenExpressionFinish PROVE Inductive'
  <2>1. Ready BY <1>22, Popping DEF HandleParenExpressionFinish, ParenFinishNode
  <2> QED BY <1>22, <2>1, CloseTop, StepLeaves DEF HandleParenExpressionFinish, Ready
<1>23. ASSUME HandleBraceExpression PROVE Inductive'
  <2>1. Ready BY <1>23, Popping DEF HandleBraceExpression
  <2> QED
    BY <1>23, <2>1, LeafHere, EntryTop, EntryHere, PushOne, PushTwo,
       CheckedStepLeaves DEF HandleBraceExpression, Ready
<1>24. ASSUME HandleBraceExpressionParameter PROVE Inductive'
  <2>1. Ready BY <1>24, Popping DEF HandleBraceExpressionParameter, BraceKind
  <2> QED
    BY <1>24, <2>1, EntryTop, EntryFields, EntryHere, StepPushOne, StepPushTwo DEF
       HandleBraceExpressionParameter, Ready, BraceParameterError
<1>25. ASSUME HandleBraceExpressionParameterAfterDesignator PROVE Inductive'
  <2>1. PICK v \in BraceKind : HandleBraceExpressionParameterAfterDesignator!(v)
    BY <1>25 DEF HandleBraceExpressionParameterAfterDesignator
  <2>2. Ready BY <2>1, Popping DEF BraceKind
  <2>3. CASE Step(nodes, Append(Popped, TopAs(v.param_finish)), position, {})
    BY <2>2, <2>3, EntryTop, StepPushOne DEF Ready
  <2>4. CASE \E pos : BraceParameterError(Popped, v.param_finish, pos)
    BY <2>2, <2>4, EntryTop, EntryFields, StepPushOne DEF Ready, BraceParameterError
  <2> DEFINE decided == v.sep # "none"
             r       == Popped[Len(Popped)]
  <2>5. ASSUME NEW w \in BraceKind, NEW pos,
               CheckedStep(decided \/ r.state = v.finish, nodes,
                 [Popped EXCEPT ![Len(Popped)] =
                    [r EXCEPT !.state = IF decided THEN r.state ELSE w.finish]]
                 \o <<[TopAs(w.param_finish) EXCEPT !.token = pos],
                      Entry("Expression", pos + 1, nodes)>>,
                 pos + 1, {})
        PROVE  Inductive'
    <3> DEFINE e     == [r EXCEPT !.state = IF decided THEN r.state ELSE w.finish]
               stack == [Popped EXCEPT ![Len(Popped)] = e]
               f     == [TopAs(w.param_finish) EXCEPT !.token = pos]
               g     == Entry("Expression", pos + 1, nodes)
               ok    == decided \/ r.state = v.finish
    <3>1. CheckedStep(ok, nodes, stack \o <<f, g>>, pos + 1, {}) BY <2>5
    <3>2. ASSUME ok PROVE Sound(stack, nodes, Top.subtree_start)
      <4>1. ASSUME Popped # <<>>
            PROVE  /\ IsEntry(e) /\ e.subtree_start = r.subtree_start
                   /\ Closeable(e) => Closeable(r)
        <5>1. IsEntry(r) BY <2>2, <4>1, Pop DEF Ready
        <5>2. CASE decided
          <6>1. e = [r EXCEPT !.state = r.state] BY <5>2
          <6> HIDE DEF e, r, decided
          <6> QED BY <5>1, <6>1, EntryUpdate DEF Closeable
        <5>3. CASE ~decided
          <6>1. e = [r EXCEPT !.state = w.finish] BY <5>3
          <6>2. Closeable(r) BY <3>2, <5>3 DEF Closeable, BraceKind
          <6> HIDE DEF e, r, decided
          <6> QED BY <5>1, <6>1, <6>2, EntryUpdate
        <5> QED BY <5>2, <5>3
      <4> HIDE DEF e
      <4> QED BY <2>2, <4>1, Replace DEF Ready
    <3>3. StartsAt(f, Top.subtree_start) BY <2>2, EntryTop, EntryFields DEF Ready
    <3>4. StartsAt(g, Len(nodes)) BY EntryHere
    <3> HIDE DEF stack, f, g, ok
    <3>5. ASSUME ok PROVE Sound(stack \o <<f, g>>, nodes, Len(nodes))
      BY <3>2, <3>3, <3>4, <3>5, PushTwo
    <3> QED BY <3>1, <3>5, CheckedStepLeaves
  <2> HIDE DEF decided, r
  <2>6. CASE \E w \in BraceKind : \E pos :
               CheckedStep(decided \/ r.state = v.finish, nodes,
                 [Popped EXCEPT ![Len(Popped)] =
                    [r EXCEPT !.state = IF decided THEN r.state ELSE w.finish]]
                 \o <<[TopAs(w.param_finish) EXCEPT !.token = pos],
                      Entry("Expression", pos + 1, nodes)>>,
                 pos + 1, {})
    BY <2>5, <2>6
  <2> QED BY <2>1, <2>3, <2>4, <2>6 DEF decided, r
<1>26. ASSUME HandleBraceExpressionParameterFinish PROVE Inductive'
  <2>1. PICK v \in BraceKind : HandleBraceExpressionParameterFinish!(v)
    BY <1>26 DEF HandleBraceExpressionParameterFinish
  <2>2. Ready BY <2>1, Popping DEF BraceKind
  <2> DEFINE ns    == IF Top.has_error
                      THEN AddLeafNode(nodes, "StructFieldUnknown", Top.token, TRUE)
                      ELSE AddTopNode(v.field, Top.token, FALSE)
             error == ListError("CloseCurlyBrace", Top.has_error)
             item  == ConsumeListToken("StructComma", "CloseCurlyBrace", ns)
             stack == ReturnErrorIf(error, Popped)
             e     == Entry(v.param, item.position, item.nodes)
  <2>3. \E ok, diags :
          CheckedStep(ok, item.nodes,
            IF item.token_kind = "Comma" THEN Append(stack, e) ELSE stack,
            item.position, diags)
    BY <2>1
  <2>4. Sound(Popped, ns, Top.subtree_start) BY <2>2, LeafHere, CloseTop DEF Ready
  <2> HIDE DEF ns
  <2>5. Sound(Popped, item.nodes, Len(item.nodes)) BY <2>4, ListItem
  <2> HIDE DEF item, error
  <2>6. Sound(stack, item.nodes, Len(item.nodes)) BY <2>5, Mark, MarkedIf
  <2> HIDE DEF stack
  <2>7. StartsAt(e, Len(item.nodes)) BY EntryHere
  <2> HIDE DEF e
  <2>8. Sound(Append(stack, e), item.nodes, Len(item.nodes)) BY <2>6, <2>7, PushOne
  <2> QED BY <2>3, <2>6, <2>8, CheckedStepLeaves
<1>27. ASSUME HandleBraceExpressionFinish PROVE Inductive'
  <2>1. Ready BY <1>27, Popping DEF HandleBraceExpressionFinish, BraceKind
  <2> QED BY <1>27, <2>1, CloseTop, StepLeaves DEF HandleBraceExpressionFinish, Ready
<1> QED
  BY <1>1, <1>2, <1>3, <1>4, <1>5, <1>6, <1>7, <1>8, <1>9, <1>10, <1>11,
     <1>12, <1>13, <1>14, <1>15, <1>16, <1>17, <1>18, <1>19, <1>20, <1>21,
     <1>22, <1>23, <1>24, <1>25, <1>26, <1>27 DEF Expression

(* The handlers of statements. *)
LEMMA StatementSound ==
  ASSUME Inductive, Statement
  PROVE  Inductive'
<1>1. ASSUME HandleStatement PROVE Inductive'
  <2>1. Ready BY <1>1, Popping DEF HandleStatement
  <2>2. CASE \E kind, state : Step(ConsumedLeaf(kind), Append(Popped, Here(state)),
                                   position + 1, {})
    <3>1. PICK kind, state : Step(ConsumedLeaf(kind), Append(Popped, Here(state)),
                                  position + 1, {})
      BY <2>2
    <3> DEFINE ns == ConsumedLeaf(kind)
    <3>2. Sound(Popped, ns, Len(nodes)) BY <2>1, LeafHere DEF Ready
    <3>3. StartsAt(Here(state), Len(nodes)) BY EntryHere
    <3> HIDE DEF ns
    <3> QED BY <3>1, <3>2, <3>3, StepPushOne DEF ns
  <2> QED
    BY <1>1, <2>1, <2>2, EntryHere, StepPushOne, StepPushTwo DEF HandleStatement, Ready
<1>2. ASSUME HandleStatementKeywordFinish PROVE Inductive'
  <2>1. Ready BY <1>2, Popping DEF HandleStatementKeywordFinish, KeywordFinishNode
  <2> QED BY <1>2, <2>1, Finishing DEF HandleStatementKeywordFinish, Ready
<1>3. ASSUME HandleStatementReturn PROVE Inductive'
  <2>1. Ready BY <1>3, Popping DEF HandleStatementReturn
  <2> QED
    BY <1>3, <2>1, LeafHere, EntryTop, EntryHere, PushOne, PushTwo, StepLeaves DEF
       HandleStatementReturn, Ready
<1>4. ASSUME HandleStatementScopeLoop PROVE Inductive'
  <2>1. Ready BY <1>4, Popping DEF HandleStatementScopeLoop
  <2> QED
    BY <1>4, <2>1, MarkPopped, MarkedIf, EntryHere, StepPushOne, StepLeaves DEF
       HandleStatementScopeLoop, Ready
<1>5. ASSUME HandleStatementForHeader PROVE Inductive'
  <2>1. Ready BY <1>5, Popping DEF HandleStatementForHeader
  <2> DEFINE open   == ConsumeAndAddOpenParen(Top.token, "ForHeaderStart")
             token  == open.token
             header == [TopAs("StatementForHeaderIn") EXCEPT !.token = token]
             faulty == [header EXCEPT !.has_error = TRUE]
             var    == Entry("VarAsFor", open.position, open.nodes)
  <2>2. \E pos, diags :
          \/ Step(open.nodes, Popped \o <<header, var>>, pos, diags)
          \/ Step(open.nodes, Append(Popped, faulty), pos, diags)
    BY <1>5 DEF HandleStatementForHeader
  <2>3. Sound(Popped, open.nodes, Top.subtree_start) BY <2>1, OpenParen DEF Ready
  <2> HIDE DEF open, token
  <2>4. StartsAt(header, Top.subtree_start) BY <2>1, EntryTop, EntryFields DEF Ready
  <2> HIDE DEF header
  <2>5. StartsAt(faulty, Top.subtree_start) BY <2>4, EntryFields
  <2>6. StartsAt(var, Len(open.nodes)) BY EntryHere
  <2> HIDE DEF faulty, var
  <2> QED BY <2>2, <2>3, <2>4, <2>5, <2>6, StepPushOne, StepPushTwo
<1>6. ASSUME HandleStatementForHeaderIn PROVE Inductive'
  <2>1. Ready BY <1>6, Popping DEF HandleStatementForHeaderIn
  <2> QED
    BY <1>6, <2>1, EntryTop, EntryHere, StepPushTwo DEF HandleStatementForHeaderIn,
       Ready
<1>7. ASSUME HandleStatementForHeaderFinish PROVE Inductive'
  <2>1. Ready BY <1>7, Popping DEF HandleStatementForHeaderFinish
  <2> DEFINE close == ConsumeAndAddCloseSymbol(Top.token, "ForHeader")
             block == Entry("CodeBlock", close.position, close.nodes)
  <2>2. CheckedStep(close.ok, close.nodes, Append(Popped, block),
                    close.position, close.diags)
    BY <1>7 DEF HandleStatementForHeaderFinish
  <2>3. Sound(Popped, close.nodes, Len(close.nodes)) BY <2>1, CloseSymbol DEF Ready
  <2> HIDE DEF close
  <2>4. StartsAt(block, Len(close.nodes)) BY EntryHere
  <2> HIDE DEF block
  <2>5. Sound(Append(Popped, block), close.nodes, Len(close.nodes)) BY <2>3, <2>4, PushOne
  <2> QED BY <2>2, <2>5, CheckedStepLeaves
<1>8. ASSUME HandleStatementForFinish PROVE Inductive'
  <2>1. Ready BY <1>8, Popping DEF HandleStatementForFinish
  <2> QED BY <1>8, <2>1, CloseTop, StepLeaves DEF HandleStatementForFinish, Ready
<1>9. ASSUME HandleConditionalStatement PROVE Inductive'
  <2>1. Ready BY <1>9, Popping DEF HandleConditionalStatement, ConditionKind
  <2> QED BY <1>9, <2>1, EntryHere, StepPushTwo DEF HandleConditionalStatement, Ready
<1>10. ASSUME HandleParenCondition PROVE Inductive'
  <2>1. PICK v \in ConditionKind : HandleParenCondition!(v)
    BY <1>10 DEF HandleParenCondition
  <2>2. Ready BY <2>1, Popping DEF ConditionKind
  <2> DEFINE open   == ConsumeAndAddOpenParen(Top.token, v.start_node)
             token  == open.token
             finish == [TopAs(v.paren_finish) EXCEPT !.token = token]
             none   == AddLeafNode(open.nodes, "InvalidParse", open.position, TRUE)
             e      == Entry("Expression", open.position, open.nodes)
  <2>3. \/ Step(none, Append(Popped, finish), open.position, open.diags)
        \/ Step(open.nodes, Popped \o <<finish, e>>, open.position, open.diags)
    BY <2>1
  <2>4. Sound(Popped, open.nodes, Top.subtree_start) BY <2>2, OpenParen DEF Ready
  <2> HIDE DEF open, token
  <2>5. Sound(Popped, none, Top.subtree_start) BY <2>4, LeafAbove
  <2>6. StartsAt(finish, Top.subtree_start) BY <2>2, EntryTop, EntryFields DEF Ready
  <2>7. StartsAt(e, Len(open.nodes)) BY EntryHere
  <2> HIDE DEF finish, none, e
  <2> QED BY <2>3, <2>4, <2>5, <2>6, <2>7, StepPushOne, StepPushTwo
<1>11. ASSUME HandleParenConditionFinish PROVE Inductive'
  <2>1. Ready BY <1>11, Popping DEF HandleParenConditionFinish, ConditionKind
  <2> QED
    BY <1>11, <2>1, CloseSymbol, CheckedStepLeaves DEF HandleParenConditionFinish,
       Ready
<1>12. ASSUME HandleConditionFinish PROVE Inductive'
  <2>1. Ready BY <1>12, Popping DEF HandleConditionFinish, ConditionKind
  <2> QED
    BY <1>12, <2>1, EntryTop, EntryHere, StepPushTwo DEF HandleConditionFinish,
       Ready
<1>13. ASSUME HandleStatementIfThenBlockFinish PROVE Inductive'
  <2>1. Ready BY <1>13, Popping DEF HandleStatementIfThenBlockFinish
  <2> QED
    BY <1>13, <2>1, CloseTop, LeafHere, EntryTop, EntryHere, PushTwo, StepLeaves DEF
       HandleStatementIfThenBlockFinish, Ready
<1>14. ASSUME HandleStatementIfElseBlockFinish PROVE Inductive'
  <2>1. Ready BY <1>14, Popping DEF HandleStatementIfElseBlockFinish
  <2> QED BY <1>14, <2>1, CloseTop, StepLeaves DEF HandleStatementIfElseBlockFinish, Ready
<1>15. ASSUME HandleStatementWhileBlockFinish PROVE Inductive'
  <2>1. Ready BY <1>15, Popping DEF HandleStatementWhileBlockFinish
  <2> QED BY <1>15, <2>1, CloseTop, StepLeaves DEF HandleStatementWhileBlockFinish, Ready
<1>16. ASSUME HandleCodeBlock PROVE Inductive'
  <2>1. Ready BY <1>16, Popping DEF HandleCodeBlock
  <2>2. ASSUME NEW error, NEW state, NEW pos, NEW p, NEW diags,
               LET ns == AddLeafNode(nodes, "CodeBlockStart", position, error) IN
               Step(ns, Popped \o <<Here("CodeBlockFinish"), Entry(state, pos, ns)>>, p, diags)
        PROVE  Inductive'
    <3> DEFINE ns == AddLeafNode(nodes, "CodeBlockStart", position, error)
    <3>1. Sound(Popped, ns, Len(nodes)) BY <2>1, LeafHere DEF Ready
    <3>2. StartsAt(Here("CodeBlockFinish"), Len(nodes)) BY EntryHere
    <3>3. Step(ns, Popped \o <<Here("CodeBlockFinish"), Entry(state, pos, ns)>>, p, diags)
      BY <2>2
    <3> HIDE DEF ns
    <3>4. StartsAt(Entry(state, pos, ns), Len(ns)) BY EntryHere
    <3> QED BY <3>1, <3>2, <3>3, <3>4, StepPushTwo
  <2> QED BY <1>16, <2>2 DEF HandleCodeBlock, ConsumedLeaf
<1>17. ASSUME HandleCodeBlockFinish PROVE Inductive'
  <2>1. Ready BY <1>17, Popping DEF HandleCodeBlockFinish
  <2> QED BY <1>17, <2>1, CloseTop, StepLeaves DEF HandleCodeBlockFinish, Ready
<1> QED
  BY <1>1, <1>2, <1>3, <1>4, <1>5, <1>6, <1>7, <1>8, <1>9, <1>10, <1>11,
     <1>12, <1>13, <1>14, <1>15, <1>16, <1>17 DEF Statement

-----------------------------------------------------------------------------
(* The specification. *)

(* Tree::Parse starts from a tree of one leaf with nothing closed yet. *)
LEMMA InitSound == Init => Inductive
<1> SUFFICES ASSUME Init PROVE Inductive OBVIOUS
<1> DEFINE leaf  == [kind |-> "FileStart", has_error |-> FALSE, token |-> 1, subtree_size |-> 1]
           scope == Entry("DeclarationScopeLoop", 2, nodes)
           pack  == Entry("Package", 2, nodes)
<1>1. nodes = <<leaf>> BY DEF Init, AddLeafNode
<1>2. Sound(<<>>, nodes, Len(nodes))
  <2>1. IsSeq(nodes) /\ Len(nodes) = 1 /\ nodes[1].subtree_size = 1
    <3>1. nodes \in Seq({leaf}) BY <1>1
    <3> QED BY <1>1, <3>1 DEF IsSeq
  <2>2. FirstNode(nodes, 1) = 1 BY <2>1 DEF FirstNode
  <2>3. IsPostorder(nodes) /\ IsCut(nodes, Len(nodes))
    BY <2>1, <2>2 DEF IsPostorder, IsCut
  <2>4. IsSeq(<<>>) /\ Len(<<>>) = 0
    <3>1. <<>> \in Seq({}) OBVIOUS
    <3> QED BY <3>1 DEF IsSeq
  <2> QED BY <2>1, <2>3, <2>4 DEF Sound
<1>3. StartsAt(scope, Len(nodes)) /\ StartsAt(pack, Len(nodes)) BY EntryHere
<1>4. \/ state_stack = <<scope>> \o <<pack>>
      \/ state_stack = <<scope>> \o <<>>
  BY DEF Init
<1> HIDE DEF scope, pack, leaf
<1>5. Sound(<<>> \o <<scope>>, nodes, Len(nodes)) BY <1>2, <1>3, PushOne
<1>6. <<>> \o <<scope>> = <<scope>> OBVIOUS
<1>7. Sound(<<scope>>, nodes, Len(nodes)) BY <1>5, <1>6
<1>8. <<scope>> \o <<>> = <<scope>> BY <1>7, ConcatNone DEF Sound
<1>9. Sound(<<scope>> \o <<pack>>, nodes, Len(nodes)) BY <1>7, <1>3, PushOne
<1> QED BY <1>4, <1>7, <1>8, <1>9 DEF Inductive

(* Every handler, the end of the file and a stutter keep the invariant. *)
LEMMA NextSound == Inductive /\ [Next]_vars => Inductive'
<1> SUFFICES ASSUME Inductive, [Next]_vars PROVE Inductive' OBVIOUS
<1>1. CASE Declaration BY <1>1, DeclarationSound
<1>2. CASE Expression BY <1>2, ExpressionSound
<1>3. CASE Statement BY <1>3, StatementSound
<1>4. CASE Finish BY <1>4, LeafHere DEF Finish, Inductive
<1>5. CASE Terminated BY <1>5 DEF Terminated, vars, Inductive
<1>6. CASE UNCHANGED vars BY <1>6 DEF vars, Inductive
<1> QED BY <1>1, <1>2, <1>3, <1>4, <1>5, <1>6 DEF Next

(* The inductive invariant holds in every reachable state. *)
THEOREM Soundness == Spec => []Inductive
BY InitSound, NextSound, PTL DEF Spec

(* For every token buffer, whatever its errors, the nodes that AddNode and *)
(* AddLeafNode lay down are at every moment the postorder of a forest.     *)
THEOREM TreeIsPostorder == Spec => []Postorder
<1>1. Inductive => Postorder BY DEF Inductive, Sound, Postorder
<1> QED BY <1>1, Soundness, PTL

(* For every token buffer, whatever PushState, PopState and the handlers   *)
(* that re-use a popped entry do, each entry's subtree_start is a boundary *)
(* between subtrees, and no entry starts below one that it lies above.     *)
THEOREM StatesAreNested == Spec => []StackNested
<1>1. Inductive => StackNested BY DEF Inductive, Sound, StackNested
<1> QED BY <1>1, Soundness, PTL

-----------------------------------------------------------------------------
(* Errors and diagnostics. *)

(* The states that trust their token to be the opening symbol of a group.  *)
(* If it is not, the opener was missing and the node they add is marked,   *)
(* with no diagnostic of its own.                                          *)
SquareStates ==
  {"IndexExpression", "IndexExpressionFinish", "ArrayExpression",
   "ArrayExpressionSemi", "ArrayExpressionFinish"}

ParenStates ==
  {"StatementForHeaderIn", "StatementForHeaderFinish",
   "ParenConditionFinishAsIf", "ParenConditionFinishAsWhile"}

(* The states of an if-expression, whose last one hands its token to the   *)
(* entry below.                                                            *)
ChainStates ==
  {"IfExpressionFinishCondition", "IfExpressionFinishThen", "IfExpressionFinishElse"}

GroupStates ==
  SquareStates \union ParenStates \union ChainStates \union {"CodeBlockFinish"}

(* An entry without an error, whose opener was there. *)
TidyEntry(e) ==
  /\ IsEntry(e)
  /\ e.has_error = FALSE
  /\ e.state \in SquareStates => Kind(e.token) = "OpenSquareBracket"
  /\ e.state \in ParenStates => Kind(e.token) = "OpenParen"
  /\ e.state = "CodeBlockFinish" => Kind(e.token) = "OpenCurlyBrace"

(* An entry that may be pushed onto any other. *)
CleanEntry(e) == TidyEntry(e) /\ e.state \notin ChainStates

(* What the last state of an if-expression finds below it trusts no token. *)
CleanStack(b) ==
  /\ IsSeq(b)
  /\ \A i \in 1 .. Len(b) : TidyEntry(b[i])
  /\ \A i \in 1 .. Len(b) : b[i].state \in ChainStates =>
       i > 1 /\ b[i - 1].state \notin GroupStates

CleanTree(ns) == IsSeq(ns) /\ \A i \in 1 .. Len(ns) : ns[i].has_error = FALSE

(* As long as nothing was diagnosed, nothing is marked. *)
Quiet ==
  diagnosed = {} => has_errors = FALSE /\ CleanTree(nodes) /\ CleanStack(state_stack)

(* What a handler finds when nothing was diagnosed before it. *)
Calm ==
  /\ diagnosed = {} /\ has_errors = FALSE
  /\ CleanTree(nodes)
  /\ CleanStack(state_stack) /\ CleanStack(Popped)
  /\ TidyEntry(Top) /\ IsEntry(Top) /\ Top.has_error = FALSE
  /\ Top.state \in ChainStates =>
       Popped # <<>> /\ Popped[Len(Popped)].state \notin GroupStates

(* When the top entry is popped, what is below it is clean as well. *)
LEMMA Calming ==
  ASSUME Quiet, diagnosed = {}, NEW s, At(s)
  PROVE  Calm
<1>1. CleanStack(state_stack) /\ state_stack # <<>> BY DEF Quiet, At
<1>2. /\ Len(state_stack) >= 1
      /\ IsSeq(Popped)
      /\ Len(Popped) = Len(state_stack) - 1
      /\ \A i \in 1 .. Len(Popped) : Popped[i] = state_stack[i]
  BY <1>1, SeqPop DEF CleanStack, Popped
<1>3. Len(state_stack) \in Nat BY <1>1, SeqLen DEF CleanStack
<1>4. \A i \in 1 .. Len(Popped) : i \in 1 .. Len(state_stack) BY <1>2, <1>3
<1>5. CleanStack(Popped) BY <1>1, <1>2, <1>4 DEF CleanStack
<1>6. TidyEntry(Top) BY <1>1, <1>2, <1>3 DEF CleanStack, Top
<1>7. ASSUME Top.state \in ChainStates
      PROVE  Popped # <<>> /\ Popped[Len(Popped)].state \notin GroupStates
  <2> DEFINE n == Len(state_stack)
  <2>1. n \in 1 .. n /\ n > 1 /\ state_stack[n - 1].state \notin GroupStates
    BY <1>1, <1>2, <1>3, <1>7 DEF CleanStack, Top
  <2>2. Len(Popped) \in 1 .. Len(Popped) /\ Popped[Len(Popped)] = state_stack[n - 1]
    BY <1>2, <1>3, <2>1
  <2> QED BY <2>1, <2>2, <1>2
<1> QED BY <1>1, <1>5, <1>6, <1>7 DEF Calm, Quiet, TidyEntry

(* A handler that leaves everything clean, or diagnoses something. *)
LEMMA QuietChecked ==
  ASSUME Calm, Quiet, NEW ok, NEW ns, NEW stack, NEW pos, NEW diags,
         CheckedStep(ok, ns, stack, pos, diags),
         ok /\ diags = {} => CleanTree(ns) /\ CleanStack(stack)
  PROVE  Quiet'
<1>1. CASE ~ok
  <2>1. /\ tokens' = tokens /\ nodes' = nodes /\ state_stack' = state_stack
        /\ diagnosed' = diagnosed /\ has_errors' = has_errors
    BY <1>1 DEF CheckedStep
  <2> QED BY <2>1 DEF Quiet, CleanTree, CleanStack, TidyEntry, Kind
<1>2. CASE ok
  <2>1. /\ tokens' = tokens /\ nodes' = ns /\ state_stack' = stack
        /\ diagnosed' = diagnosed \union diags
        /\ has_errors' = (has_errors \/ \E i \in (Len(nodes) + 1) .. Len(ns) : ns[i].has_error)
    BY <1>2 DEF CheckedStep
  <2>2. SUFFICES ASSUME diagnosed' = {} PROVE Quiet' BY DEF Quiet
  <2>3. diags = {} BY <2>1, <2>2
  <2>4. CleanTree(ns) /\ CleanStack(stack) BY <1>2, <2>3
  <2>5. Len(nodes) \in Nat /\ Len(ns) \in Nat BY <2>4, SeqLen DEF Calm, CleanTree
  <2>6. ~(\E i \in (Len(nodes) + 1) .. Len(ns) : ns[i].has_error)
    BY <2>4, <2>5 DEF CleanTree
  <2>7. has_errors' = FALSE BY <2>1, <2>6 DEF Calm
  <2>8. CleanTree(nodes)' /\ CleanStack(state_stack)'
    BY <2>1, <2>4 DEF CleanTree, CleanStack, TidyEntry, Kind
  <2> QED BY <2>7, <2>8 DEF Quiet
<1> QED BY <1>1, <1>2

(* The same for a handler that checks nothing. *)
LEMMA QuietStep ==
  ASSUME Calm, Quiet, NEW ns, NEW stack, NEW pos, NEW diags,
         Step(ns, stack, pos, diags),
         diags = {} => CleanTree(ns) /\ CleanStack(stack)
  PROVE  Quiet'
BY QuietChecked DEF Step

(* A handler that diagnoses something. *)
LEMMA NoisyStep ==
  ASSUME Calm, Quiet, NEW ns, NEW stack, NEW pos, NEW t,
         Step(ns, stack, pos, {t})
  PROVE  Quiet'
BY QuietStep

(* Nodes without an error. *)
LEMMA CleanNodes ==
  ASSUME NEW ns, CleanTree(ns), NEW kind, NEW token, NEW start, NEW error, error = FALSE
  PROVE  /\ CleanTree(AddLeafNode(ns, kind, token, error))
         /\ CleanTree(AddNode(ns, kind, token, start, error))
<1>1. Len(ns) \in Nat BY SeqLen DEF CleanTree
<1> DEFINE leaf == [kind |-> kind, has_error |-> error, token |-> token, subtree_size |-> 1]
           node == [kind |-> kind, has_error |-> error, token |-> token,
                    subtree_size |-> Len(ns) - start + 1]
<1>2. leaf.has_error = FALSE /\ node.has_error = FALSE OBVIOUS
<1> HIDE DEF leaf, node
<1>3. ASSUME NEW n, n.has_error = FALSE PROVE CleanTree(Append(ns, n))
  BY <1>1, <1>3, SeqAppend DEF CleanTree
<1> QED BY <1>2, <1>3 DEF AddLeafNode, AddNode, leaf, node

(* The same for the nodes a handler adds for its popped entry. *)
LEMMA CleanTopNode ==
  ASSUME CleanTree(nodes), NEW kind, NEW token, NEW error, error = FALSE
  PROVE  CleanTree(AddTopNode(kind, token, error)) /\ CleanTree(ConsumedLeaf(kind))
BY CleanNodes DEF AddTopNode, ConsumedLeaf

(* Entries without an error. *)
LEMMA CleanNew ==
  ASSUME NEW state, state \notin GroupStates, NEW ambient, NEW lhs, NEW token, NEW n, NEW ns
  PROVE  /\ CleanEntry(StateStackEntry(state, ambient, lhs, token, n))
         /\ CleanEntry(Entry(state, token, ns))
         /\ CleanEntry(Here(state))
<1>1. ASSUME NEW a, NEW l, NEW t, NEW m PROVE CleanEntry(StateStackEntry(state, a, l, t, m))
  BY EntryRecord DEF CleanEntry, TidyEntry, StateStackEntry, GroupStates
<1> QED BY <1>1 DEF Entry, Here

(* PushStateForExpression pushes a clean entry. *)
LEMMA CleanExpression ==
  ASSUME NEW ambient, NEW token, NEW ns
  PROVE  CleanEntry(ExpressionEntry(ambient, token, ns))
<1>1. "Expression" \notin GroupStates BY DEF GroupStates, SquareStates, ParenStates, ChainStates
<1> QED BY <1>1, CleanNew DEF ExpressionEntry

(* What an update of one field does to the mark and to the token. *)
LEMMA EntryMarks ==
  ASSUME NEW e, NEW x, IsEntry(e)
  PROVE  /\ [e EXCEPT !.state = x].has_error = e.has_error
         /\ [e EXCEPT !.state = x].token = e.token
         /\ [e EXCEPT !.has_error = x].has_error = x
         /\ [e EXCEPT !.has_error = x].token = e.token
         /\ [e EXCEPT !.token = x].has_error = e.has_error
         /\ [e EXCEPT !.token = x].token = x
         /\ [e EXCEPT !.lhs_precedence = x].has_error = e.has_error
         /\ [e EXCEPT !.lhs_precedence = x].token = e.token
<1> DEFINE r == [state |-> e.state, has_error |-> e.has_error,
                 ambient_precedence |-> e.ambient_precedence,
                 lhs_precedence |-> e.lhs_precedence, token |-> e.token,
                 subtree_start |-> e.subtree_start]
<1>1. e = r BY DEF IsEntry
<1>2. /\ [r EXCEPT !.state = x].has_error = e.has_error
      /\ [r EXCEPT !.state = x].token = e.token
      /\ [r EXCEPT !.has_error = x].has_error = x
      /\ [r EXCEPT !.has_error = x].token = e.token
      /\ [r EXCEPT !.token = x].has_error = e.has_error
      /\ [r EXCEPT !.token = x].token = x
      /\ [r EXCEPT !.lhs_precedence = x].has_error = e.has_error
      /\ [r EXCEPT !.lhs_precedence = x].token = e.token
  OBVIOUS
<1> HIDE DEF r
<1> QED BY <1>1, <1>2

(* An entry that trusts no token stays clean, whatever token it gets. *)
LEMMA CleanUpdate ==
  ASSUME NEW e, CleanEntry(e), e.state \notin GroupStates, NEW x
  PROVE  /\ CleanEntry([e EXCEPT !.token = x])
         /\ CleanEntry([e EXCEPT !.lhs_precedence = x])
         /\ CleanEntry([e EXCEPT !.has_error = FALSE])
         /\ x = FALSE => CleanEntry([e EXCEPT !.has_error = x])
         /\ [e EXCEPT !.token = x].state = e.state
         /\ [e EXCEPT !.lhs_precedence = x].state = e.state
<1>1. IsEntry(e) /\ e.has_error = FALSE BY DEF CleanEntry, TidyEntry
<1>2. ASSUME NEW f, IsEntry(f), f.has_error = FALSE, f.state = e.state
      PROVE  CleanEntry(f)
  BY <1>2 DEF CleanEntry, TidyEntry, GroupStates
<1>3. CleanEntry([e EXCEPT !.token = x])
  <2>1. /\ IsEntry([e EXCEPT !.token = x])
        /\ [e EXCEPT !.token = x].state = e.state
    BY <1>1, EntryUpdate, Zenon
  <2>2. [e EXCEPT !.token = x].has_error = e.has_error BY <1>1, EntryMarks, Zenon
  <2> QED BY <1>1, <1>2, <2>1, <2>2
<1>4. CleanEntry([e EXCEPT !.lhs_precedence = x])
  <2>1. /\ IsEntry([e EXCEPT !.lhs_precedence = x])
        /\ [e EXCEPT !.lhs_precedence = x].state = e.state
    BY <1>1, EntryUpdate, Zenon
  <2>2. [e EXCEPT !.lhs_precedence = x].has_error = e.has_error BY <1>1, EntryMarks, Zenon
  <2> QED BY <1>1, <1>2, <2>1, <2>2
<1>5. ASSUME NEW h, h = FALSE PROVE CleanEntry([e EXCEPT !.has_error = h])
  <2>1. /\ IsEntry([e EXCEPT !.has_error = h])
        /\ [e EXCEPT !.has_error = h].state = e.state
    BY <1>1, EntryUpdate, Zenon
  <2>2. [e EXCEPT !.has_error = h].has_error = h BY <1>1 DEF IsEntry
  <2> QED BY <1>2, <1>5, <2>1, <2>2
<1> QED BY <1>1, <1>3, <1>4, <1>5, EntryUpdate

(* The popped entry is pushed back as another state. *)
LEMMA CleanAs ==
  ASSUME NEW e, TidyEntry(e), NEW state, state \notin GroupStates
  PROVE  CleanEntry([e EXCEPT !.state = state]) /\ [e EXCEPT !.state = state].state = state
BY EntryUpdate, EntryMarks DEF CleanEntry, TidyEntry, GroupStates

(* The same for the entry that was just popped. *)
LEMMA CleanTop ==
  ASSUME Calm, NEW state, state \notin GroupStates
  PROVE  /\ CleanEntry(TopAs(state)) /\ TopAs(state).state = state
         /\ \A x : CleanEntry([TopAs(state) EXCEPT !.token = x])
<1>1. CleanEntry(TopAs(state)) /\ TopAs(state).state = state BY CleanAs DEF Calm, TopAs
<1> QED BY <1>1, CleanUpdate

(* Entries are pushed. *)
LEMMA CleanPushOne ==
  ASSUME NEW b, NEW e, CleanStack(b), CleanEntry(e)
  PROVE  CleanStack(Append(b, e)) /\ CleanStack(b \o <<e>>)
<1>1. CleanStack(Append(b, e)) BY SeqAppend, SeqLen DEF CleanStack, CleanEntry
<1>2. b \o <<e>> = Append(b, e) BY ConcatOne DEF CleanStack
<1> QED BY <1>1, <1>2

(* Two entries are pushed. *)
LEMMA CleanPushTwo ==
  ASSUME NEW b, NEW e, NEW f, CleanStack(b), CleanEntry(e), CleanEntry(f)
  PROVE  CleanStack(b \o <<e, f>>)
<1>1. CleanStack(Append(Append(b, e), f)) BY CleanPushOne
<1>2. b \o <<e, f>> = Append(Append(b, e), f) BY ConcatTwo DEF CleanStack
<1> QED BY <1>1, <1>2

(* Three entries are pushed. *)
LEMMA CleanPushThree ==
  ASSUME NEW b, NEW e, NEW f, NEW g, CleanStack(b), CleanEntry(e), CleanEntry(f), CleanEntry(g)
  PROVE  CleanStack(b \o <<e, f, g>>)
<1>1. CleanStack(Append(Append(Append(b, e), f), g)) BY CleanPushOne
<1>2. b \o <<e, f, g>> = Append(Append(Append(b, e), f), g) BY ConcatThree DEF CleanStack
<1> QED BY <1>1, <1>2

(* A state of an if-expression is pushed where it belongs. *)
LEMMA CleanPushChain ==
  ASSUME NEW b, CleanStack(b), b # <<>>, b[Len(b)].state \notin GroupStates,
         NEW state, state \in ChainStates, NEW token, NEW ns, NEW f, CleanEntry(f)
  PROVE  CleanStack(b \o <<Entry(state, token, ns), f>>)
<1> DEFINE e == Entry(state, token, ns)
<1>1. TidyEntry(e) /\ e.state = state
  BY EntryRecord
  DEF TidyEntry, Entry, StateStackEntry, ChainStates, SquareStates, ParenStates
<1> HIDE DEF e
<1>2. Len(b) \in Nat /\ Len(b) # 0
  <2>1. PICK S : b \in Seq(S) BY DEF CleanStack, IsSeq
  <2> QED BY <2>1
<1>3. CleanStack(Append(b, e)) BY <1>1, <1>2, SeqAppend DEF CleanStack
<1>4. CleanStack(Append(Append(b, e), f)) BY <1>3, CleanPushOne
<1>5. b \o <<e, f>> = Append(Append(b, e), f) BY ConcatTwo DEF CleanStack
<1> QED BY <1>4, <1>5 DEF e

(* The last entry is replaced by one that belongs there. *)
LEMMA CleanReplaceLast ==
  ASSUME NEW b, CleanStack(b), NEW e,
         b # <<>> => /\ TidyEntry(e)
                     /\ e.state = b[Len(b)].state \/ e.state \notin ChainStates
  PROVE  CleanStack([b EXCEPT ![Len(b)] = e])
<1> DEFINE p == [b EXCEPT ![Len(b)] = e]
<1>1. /\ IsSeq(p) /\ Len(p) = Len(b)
      /\ \A j \in 1 .. Len(b) : p[j] = IF j = Len(b) THEN e ELSE b[j]
  BY SeqReplaceLast DEF CleanStack
<1> HIDE DEF p
<1>2. Len(b) \in Nat BY SeqLen DEF CleanStack
<1>3. Len(b) # 0 => b # <<>> OBVIOUS
<1>4. \A i \in 1 .. Len(p) : TidyEntry(p[i]) BY <1>1, <1>2, <1>3 DEF CleanStack
<1>5. ASSUME NEW i \in 1 .. Len(p), p[i].state \in ChainStates
      PROVE  i > 1 /\ p[i - 1].state \notin GroupStates
  <2>1. b[i].state \in ChainStates BY <1>1, <1>2, <1>3, <1>5
  <2>2. i > 1 /\ b[i - 1].state \notin GroupStates BY <1>1, <2>1 DEF CleanStack
  <2>3. i - 1 \in 1 .. Len(b) /\ i - 1 # Len(b) BY <1>1, <1>2, <2>2
  <2> QED BY <1>1, <2>2, <2>3
<1> QED BY <1>1, <1>4, <1>5 DEF CleanStack, p

(* A group whose opener was there is closed without a mark, unless its     *)
(* closer is missing.                                                      *)
LEMMA CleanClose ==
  ASSUME Calm, Kind(Top.token) \in OpeningSymbols, NEW kind,
         ConsumeAndAddCloseSymbol(Top.token, kind).diags = {}
  PROVE  CleanTree(ConsumeAndAddCloseSymbol(Top.token, kind).nodes)
<1> DEFINE close == ConsumeAndAddCloseSymbol(Top.token, kind)
<1>1. \/ close.nodes = AddTopNode(kind, position, Top.has_error)
      \/ close.diags = {position}
  BY DEF ConsumeAndAddCloseSymbol
<1> HIDE DEF close
<1>2. close.nodes = AddTopNode(kind, position, Top.has_error) BY <1>1 DEF close
<1> QED BY <1>2, CleanTopNode DEF Calm, close

(* The popped entry of a group is pushed back as another of its states. *)
LEMMA CleanGroup ==
  ASSUME Calm, NEW state,
         \/ Top.state \in SquareStates /\ state \in SquareStates
         \/ Top.state \in ParenStates /\ state \in ParenStates
  PROVE  CleanEntry(TopAs(state))
<1>1. /\ IsEntry(TopAs(state)) /\ TopAs(state).state = state
      /\ TopAs(state).has_error = FALSE /\ TopAs(state).token = Top.token
  <2>1. IsEntry(Top) /\ Top.has_error = FALSE BY DEF Calm
  <2>2. IsEntry(TopAs(state)) /\ TopAs(state).state = state
    BY <2>1, EntryUpdate, Zenon DEF TopAs
  <2>3. TopAs(state).has_error = Top.has_error /\ TopAs(state).token = Top.token
    BY <2>1, EntryMarks, Zenon DEF TopAs
  <2> QED BY <2>1, <2>2, <2>3
<1> QED BY <1>1 DEF Calm, CleanEntry, TidyEntry, SquareStates, ParenStates, ChainStates

(* An opening parenthesis that is there, or is missed. *)
LEMMA CleanOpen ==
  ASSUME Calm, NEW default, NEW kind,
         ConsumeAndAddOpenParen(default, kind).diags = {}
  PROVE  /\ CleanTree(ConsumeAndAddOpenParen(default, kind).nodes)
         /\ ConsumeAndAddOpenParen(default, kind).token = position
         /\ PositionKind = "OpenParen"
<1>1. PositionKind = "OpenParen" BY DEF ConsumeAndAddOpenParen
<1>2. /\ ConsumeAndAddOpenParen(default, kind).nodes
           = AddLeafNode(nodes, kind, position, FALSE)
      /\ ConsumeAndAddOpenParen(default, kind).token = position
  BY <1>1 DEF ConsumeAndAddOpenParen
<1> QED BY <1>1, <1>2, CleanNodes DEF Calm

(* The state that closes a parenthesis remembers the one that opened it. *)
LEMMA CleanOpened ==
  ASSUME Calm, NEW state, state \in ParenStates, NEW token, Kind(token) = "OpenParen"
  PROVE  CleanEntry([TopAs(state) EXCEPT !.token = token])
<1> DEFINE t == TopAs(state)
           e == [t EXCEPT !.token = token]
<1>1. IsEntry(Top) /\ Top.has_error = FALSE BY DEF Calm
<1>2. IsEntry(t) /\ t.state = state BY <1>1, EntryUpdate, Zenon DEF TopAs
<1>3. t.has_error = Top.has_error BY <1>1, EntryMarks, Zenon DEF TopAs
<1> HIDE DEF t
<1>4. IsEntry(e) /\ e.state = t.state BY <1>2, EntryUpdate, Zenon
<1>5. e.has_error = t.has_error /\ e.token = token BY <1>2, EntryMarks, Zenon
<1> HIDE DEF e
<1>6. CleanEntry(e)
  BY <1>1, <1>2, <1>3, <1>4, <1>5
  DEF CleanEntry, TidyEntry, SquareStates, ParenStates, ChainStates
<1> QED BY <1>6 DEF e, t

(* Where a list element ends: at most a comma is added. *)
LEMMA CleanListItem ==
  ASSUME NEW ns, NEW comma_kind, NEW close_kind, CleanTree(ns)
  PROVE  CleanTree(ConsumeListToken(comma_kind, close_kind, ns).nodes)
<1> DEFINE item == ConsumeListToken(comma_kind, close_kind, ns)
<1>1. \/ item.nodes = ns
      \/ item.nodes = AddLeafNode(ns, comma_kind, ListElementEnd(close_kind), FALSE)
  BY DEF ConsumeListToken
<1> HIDE DEF item
<1> QED BY <1>1, CleanNodes DEF item

(* Nothing is marked unless there is a reason to. *)
LEMMA Unmarked ==
  ASSUME NEW b, NEW cond, ~cond
  PROVE  ReturnErrorIf(cond, b) = b
BY DEF ReturnErrorIf

(* DiagnosedIf says nothing only if there is nothing to say. *)
LEMMA Undiagnosed ==
  ASSUME NEW cond, DiagnosedIf(cond) = {}
  PROVE  ~cond
BY DEF DiagnosedIf

(* A keyword of a pattern, if it is there. *)
LEMMA CleanKeyword ==
  ASSUME NEW b, CleanStack(b), NEW pos, NEW keyword, NEW state, state \notin GroupStates
  PROVE  CleanStack(b \o PatternKeyword(pos, keyword, state)) /\ CleanStack(b \o <<>>)
<1> DEFINE e == StateStackEntry(state, ForTopLevelExpression, ForTopLevelExpression,
                                pos, Top.subtree_start)
<1>1. CleanEntry(e) BY CleanNew
<1> HIDE DEF e
<1>2. CleanStack(b \o <<e>>) BY <1>1, CleanPushOne
<1>3. CleanStack(b \o <<>>) BY ConcatNone DEF CleanStack
<1> QED BY <1>2, <1>3 DEF PatternKeyword, e

(* A statement or declaration that ends at a `;`. *)
LEMMA QuietFinish ==
  ASSUME Calm, Quiet, NEW kind, FinishAtSemi(kind)
  PROVE  Quiet'
<1>1. CASE Step(AddTopNode(kind, position, Top.has_error), Popped, position + 1, {})
  BY <1>1, CleanTopNode, QuietStep DEF Calm
<1>2. CASE \E ns, pos : Step(ns, Popped, pos, {position})
  BY <1>2, NoisyStep
<1> QED BY <1>1, <1>2 DEF FinishAtSemi

(* A declaration is given up for a reason. *)
LEMMA QuietRecovery ==
  ASSUME Calm, Quiet, NEW kind, NEW skip, NEW diags, diags # {},
         RecoverFromDeclarationError(kind, skip, diags)
  PROVE  Quiet'
BY QuietStep DEF RecoverFromDeclarationError

-----------------------------------------------------------------------------

(* The handlers of declarations. *)
LEMMA DeclarationQuiet ==
  ASSUME Quiet, diagnosed = {}, Declaration
  PROVE  Quiet'
<1> USE DEF GroupStates, SquareStates, ParenStates, ChainStates
<1>1. ASSUME HandleDeclarationScopeLoop PROVE Quiet'
  <2>1. Calm BY <1>1, Calming DEF HandleDeclarationScopeLoop
  <2>2. CASE Step(nodes, Popped, position, {}) BY <2>1, <2>2, QuietStep DEF Calm
  <2>3. CASE /\ PositionKind \in DOMAIN IntroducerState
             /\ Step(nodes, Append(state_stack, Here(IntroducerState[PositionKind])),
                     position, {})
    <3> DEFINE s == IntroducerState[PositionKind]
    <3>1. s \notin GroupStates BY <2>3 DEF IntroducerState
    <3> HIDE DEF s
    <3> QED BY <2>1, <2>3, <3>1, CleanNew, CleanPushOne, QuietStep DEF Calm, s
  <2>4. CASE Step(ConsumedLeaf("EmptyDeclaration"), state_stack, position + 1, {})
    BY <2>1, <2>4, CleanTopNode, QuietStep DEF Calm
  <2>5. CASE HandleUnrecognizedDeclaration
    BY <2>1, <2>5, NoisyStep DEF HandleUnrecognizedDeclaration
  <2> QED BY <1>1, <2>2, <2>3, <2>4, <2>5 DEF HandleDeclarationScopeLoop
<1>2. ASSUME HandleDeclarationNameAndParams PROVE Quiet'
  <2>1. PICK v \in NameAndParams : HandleDeclarationNameAndParams!(v)
    BY <1>2 DEF HandleDeclarationNameAndParams
  <2>2. Calm BY <2>1, Calming
  <2>3. CleanEntry(TopAs(v.after)) /\ CleanEntry(TopAs("PeriodAsDeclaration"))
    BY <2>2, CleanTop DEF NameAndParams
  <2>4. CASE Step(ConsumedLeaf("NameExpression"),
                  Popped \o <<TopAs(v.after), TopAs("PeriodAsDeclaration")>>,
                  position + 1, {})
    BY <2>2, <2>3, <2>4, CleanTopNode, CleanPushTwo, QuietStep DEF Calm
  <2>5. CASE Step(ConsumedLeaf("Name"), Append(Popped, TopAs(v.after)), position + 1, {})
    BY <2>2, <2>3, <2>5, CleanTopNode, CleanPushOne, QuietStep DEF Calm
  <2>6. CASE Step(AddLeafNode(nodes, "InvalidParse", position, FALSE),
                  ReturnErrorOnState(Popped), position, {position})
    BY <2>2, <2>6, NoisyStep
  <2> QED BY <2>1, <2>4, <2>5, <2>6
<1>3. ASSUME HandleDeclarationNameAndParamsAfterName PROVE Quiet'
  <2>1. Calm BY <1>3, Calming DEF HandleDeclarationNameAndParamsAfterName
  <2>2. CASE Step(nodes, Append(state_stack, TopAs("PeriodAsDeclaration")), position, {})
    BY <2>1, <2>2, CleanTop, CleanPushOne, QuietStep DEF Calm
  <2>3. CASE Step(nodes, Append(Popped, Here("ParameterListAsRegular")), position, {})
    BY <2>1, <2>3, CleanNew, CleanPushOne, QuietStep DEF Calm
  <2>4. CASE Step(nodes, Popped \o <<Here("DeclarationNameAndParamsAfterDeduced"),
                                     Here("ParameterListAsDeduced")>>, position, {})
    BY <2>1, <2>4, CleanNew, CleanPushTwo, QuietStep DEF Calm
  <2>5. CASE Step(nodes, Popped, position, {}) BY <2>1, <2>5, QuietStep DEF Calm
  <2>6. CASE Step(nodes, ReturnErrorOnState(Popped), position, {position})
    BY <2>1, <2>6, NoisyStep
  <2> QED
    BY <1>3, <2>2, <2>3, <2>4, <2>5, <2>6 DEF HandleDeclarationNameAndParamsAfterName
<1>4. ASSUME HandleDeclarationNameAndParamsAfterDeduced PROVE Quiet'
  <2>1. Calm BY <1>4, Calming DEF HandleDeclarationNameAndParamsAfterDeduced
  <2>2. CASE Step(nodes, Append(Popped, Here("ParameterListAsRegular")), position, {})
    BY <2>1, <2>2, CleanNew, CleanPushOne, QuietStep DEF Calm
  <2>3. CASE Step(nodes, ReturnErrorOnState(Popped), position, {position})
    BY <2>1, <2>3, NoisyStep
  <2> QED BY <1>4, <2>2, <2>3 DEF HandleDeclarationNameAndParamsAfterDeduced
<1>5. ASSUME HandleParameterList PROVE Quiet'
  <2>1. PICK v \in ParameterKind : HandleParameterList!(v) BY <1>5 DEF HandleParameterList
  <2>2. Calm BY <2>1, Calming
  <2> DEFINE ns == ConsumedLeaf(v.start_node)
             e  == Here(v.finish)
             f  == Entry(v.param, position + 1, ns)
  <2>3. CleanEntry(e) /\ CleanEntry(f)
    <3>1. v.finish \notin GroupStates /\ v.param \notin GroupStates BY DEF ParameterKind
    <3> HIDE DEF GroupStates, ns
    <3> QED BY <3>1, CleanNew
  <2>4. CleanTree(ns) BY <2>2, CleanTopNode DEF Calm
  <2> HIDE DEF ns, e, f
  <2>5. CleanStack(Popped \o <<e>>) BY <2>2, <2>3, CleanPushOne DEF Calm
  <2>6. /\ CleanStack((Popped \o <<e>>) \o <<f>>)
        /\ CleanStack((Popped \o <<e>>) \o <<>>)
    BY <2>3, <2>5, CleanPushOne, ConcatNone DEF CleanStack
  <2> QED BY <2>1, <2>2, <2>4, <2>6, QuietChecked DEF ns, e, f
<1>6. ASSUME HandleParameter PROVE Quiet'
  <2>1. PICK v \in ParameterKind : HandleParameter!(v) BY <1>6 DEF HandleParameter
  <2>2. Calm BY <2>1, Calming
  <2>3. CleanEntry(Here(v.param_finish)) /\ CleanEntry(Here(v.pattern))
    <3>1. v.param_finish \notin GroupStates /\ v.pattern \notin GroupStates
      BY DEF ParameterKind
    <3> HIDE DEF GroupStates
    <3> QED BY <3>1, CleanNew
  <2> QED BY <2>1, <2>2, <2>3, CleanPushTwo, QuietStep DEF Calm
<1>7. ASSUME HandleParameterFinish PROVE Quiet'
  <2>1. PICK v \in ParameterKind : HandleParameterFinish!(v)
    BY <1>7 DEF HandleParameterFinish
  <2>2. Calm BY <2>1, Calming
  <2> DEFINE close == ClosingSymbol(v.open)
             error == ListError(close, Top.has_error)
             item  == ConsumeListToken("ParameterListComma", close, nodes)
             stack == ReturnErrorIf(Top.has_error \/ error, Popped)
             e     == Entry(v.param, item.position, item.nodes)
  <2>3. CleanTree(item.nodes) BY <2>2, CleanListItem DEF Calm
  <2>4. CleanEntry(e) BY CleanNew DEF ParameterKind
  <2>5. ~error => stack = Popped BY <2>2, Unmarked DEF Calm
  <2>6. DiagnosedIf(error) = {} => ~error BY Undiagnosed
  <2>7. CheckedStep(ListElementEnds(close), item.nodes,
          IF item.token_kind = "Comma" THEN Append(stack, e) ELSE stack,
          item.position, DiagnosedIf(error))
    BY <2>1
  <2> HIDE DEF close, error, item, stack, e
  <2>8. DiagnosedIf(error) = {} =>
          CleanStack(IF item.token_kind = "Comma" THEN Append(stack, e) ELSE stack)
    BY <2>2, <2>4, <2>5, <2>6, CleanPushOne DEF Calm
  <2> QED BY <2>2, <2>3, <2>7, <2>8, QuietChecked
<1>8. ASSUME HandleParameterListFinish PROVE Quiet'
  <2>1. PICK v \in ParameterKind : HandleParameterListFinish!(v)
    BY <1>8 DEF HandleParameterListFinish
  <2>2. Calm BY <2>1, Calming
  <2> QED BY <2>1, <2>2, CleanTopNode, QuietChecked DEF Calm
<1>9. ASSUME HandlePattern PROVE Quiet'
  <2>1. PICK s \in PatternStates : HandlePattern!(s) BY <1>9 DEF HandlePattern
  <2>2. Calm BY <2>1, Calming
  <2> DEFINE template == IF s = "PatternAsVariable" THEN <<>>
                         ELSE PatternKeyword(position, "Template", "PatternTemplate")
             addr     == IF s = "PatternAsVariable" THEN <<>>
                         ELSE PatternKeyword(position + Len(template), "Addr",
                                             "PatternAddress")
             stack    == Popped \o template \o addr
             name     == position + Len(template) + Len(addr)
             is_name  == \/ Kind(name) = "Identifier"
                         \/ /\ s = "PatternAsDeducedParameter"
                            /\ Kind(name) = "SelfValueIdentifier"
             after    == IF is_name THEN name + 1 ELSE name
             name_ns  == AddLeafNode(nodes,
                           IF Kind(name) = "SelfValueIdentifier" /\ is_name
                           THEN "SelfValueName" ELSE "Name",
                           name, ~is_name)
             state    == IF Kind(after) = "Colon" THEN "PatternFinishAsRegular"
                         ELSE "PatternFinishAsGeneric"
             e        == [TopAs(state) EXCEPT !.token = after]
             f        == ExpressionEntry(ForType, after + 1, name_ns)
  <2>3. CleanStack(Popped \o template) BY <2>2, CleanKeyword DEF Calm
  <2>4. CleanStack(stack)
    <3> HIDE DEF template
    <3> QED BY <2>3, CleanKeyword
  <2>5. \/ is_name /\ Step(name_ns, stack \o <<e, f>>, after + 1, {})
        \/ Step(AddLeafNode(name_ns, "InvalidParse", after, TRUE),
                Append(stack, [TopAs("PatternFinishAsRegular") EXCEPT !.has_error = TRUE]),
                after, {after})
    BY <2>1
  <2> HIDE DEF stack, after, name
  <2>6. is_name => CleanTree(name_ns)
    <3> DEFINE error == ~is_name
    <3>1. is_name => error = FALSE OBVIOUS
    <3> HIDE DEF is_name, error
    <3>2. is_name => \A k : CleanTree(AddLeafNode(nodes, k, name, error))
      BY <2>2, <3>1, CleanNodes DEF Calm
    <3> QED BY <3>2 DEF error
  <2>7. CleanEntry(e) BY <2>2, CleanTop
  <2> HIDE DEF is_name, name_ns
  <2>8. CleanEntry(f) BY CleanExpression
  <2> HIDE DEF e, f
  <2> QED BY <2>2, <2>4, <2>5, <2>6, <2>7, <2>8, CleanPushTwo, QuietStep, NoisyStep
<1>10. ASSUME HandlePatternFinish PROVE Quiet'
  <2>1. PICK s \in DOMAIN PatternNode : HandlePatternFinish!(s) BY <1>10 DEF HandlePatternFinish
  <2>2. Calm BY <2>1, Calming
  <2> QED BY <2>1, <2>2, CleanTopNode, Unmarked, QuietStep DEF Calm
<1>11. ASSUME HandleFunctionIntroducer PROVE Quiet'
  <2>1. Calm BY <1>11, Calming DEF HandleFunctionIntroducer
  <2> QED
    BY <1>11, <2>1, CleanTopNode, CleanTop, CleanNew, CleanPushTwo, QuietStep
    DEF HandleFunctionIntroducer, Calm
<1>12. ASSUME HandleFunctionAfterParameters PROVE Quiet'
  <2>1. Calm BY <1>12, Calming DEF HandleFunctionAfterParameters
  <2>2. /\ CleanEntry(TopAs("FunctionSignatureFinish"))
        /\ CleanEntry(Here("FunctionReturnTypeFinish"))
        /\ CleanEntry(ExpressionEntry(ForType, position + 1, nodes))
    BY <2>1, CleanTop, CleanNew, CleanExpression
  <2> QED
    BY <1>12, <2>1, <2>2, CleanPushOne, CleanPushThree, QuietStep
    DEF HandleFunctionAfterParameters, Calm
<1>13. ASSUME HandleFunctionReturnTypeFinish PROVE Quiet'
  <2>1. Calm BY <1>13, Calming DEF HandleFunctionReturnTypeFinish
  <2> QED BY <1>13, <2>1, CleanTopNode, QuietStep DEF HandleFunctionReturnTypeFinish, Calm
<1>14. ASSUME HandleFunctionSignatureFinish PROVE Quiet'
  <2>1. Calm BY <1>14, Calming DEF HandleFunctionSignatureFinish
  <2>2. CASE Step(AddTopNode("FunctionDeclaration", position, Top.has_error),
                  Popped, position + 1, {})
    BY <2>1, <2>2, CleanTopNode, QuietStep DEF Calm
  <2>3. CASE RecoverFromDeclarationError("FunctionDeclaration", TRUE, {position})
    BY <2>1, <2>3, QuietRecovery
  <2> DEFINE ns == AddTopNode("FunctionDefinitionStart", position, Top.has_error)
             e  == [TopAs("FunctionDefinitionFinish") EXCEPT !.has_error = FALSE]
             f  == Entry("StatementScopeLoop", position + 1, ns)
  <2>4. CASE CheckedStep(GetDeclarationContext # "unreachable", ns, Popped \o <<e, f>>,
                         position + 1, {})
    <3>1. CleanTree(ns) BY <2>1, CleanTopNode DEF Calm
    <3> HIDE DEF ns
    <3>2. CleanEntry(f) BY CleanNew
    <3>3. CleanEntry(e) BY <2>1, CleanTop, CleanUpdate
    <3> HIDE DEF e, f
    <3> QED BY <2>1, <2>4, <3>1, <3>2, <3>3, CleanPushTwo, QuietChecked DEF Calm
  <2>5. CASE RecoverFromDeclarationError("FunctionDeclaration",
               tokens[position].line = tokens[Top.token].line, DiagnosedIf(~Top.has_error))
    <3>1. DiagnosedIf(~Top.has_error) # {} BY <2>1, Undiagnosed DEF Calm
    <3> QED BY <2>1, <2>5, <3>1, QuietRecovery
  <2> QED BY <1>14, <2>2, <2>3, <2>4, <2>5 DEF HandleFunctionSignatureFinish
<1>15. ASSUME HandleFunctionDefinitionFinish PROVE Quiet'
  <2>1. Calm BY <1>15, Calming DEF HandleFunctionDefinitionFinish
  <2> QED BY <1>15, <2>1, CleanTopNode, QuietStep DEF HandleFunctionDefinitionFinish, Calm
<1>16. ASSUME HandleTypeIntroducer PROVE Quiet'
  <2>1. PICK v \in TypeKind : HandleTypeIntroducer!(v) BY <1>16 DEF HandleTypeIntroducer
  <2>2. Calm BY <2>1, Calming
  <2>3. CleanEntry(TopAs(v.after)) BY <2>2, CleanTop DEF TypeKind
  <2> QED BY <2>1, <2>2, <2>3, CleanTopNode, CleanNew, CleanPushTwo, QuietStep DEF Calm
<1>17. ASSUME HandleTypeAfterParams PROVE Quiet'
  <2>1. PICK v \in TypeKind : HandleTypeAfterParams!(v) BY <1>17 DEF HandleTypeAfterParams
  <2>2. Calm BY <2>1, Calming
  <2>3. CASE RecoverFromDeclarationError(v.declaration, TRUE, {position})
    BY <2>2, <2>3, QuietRecovery
  <2>4. CASE Step(AddTopNode(v.declaration, position, FALSE), Popped, position + 1, {})
    BY <2>2, <2>4, CleanTopNode, QuietStep DEF Calm
  <2>5. CASE Step(AddTopNode(v.start, position, FALSE),
                  Popped \o <<TopAs(v.finish), Here("DeclarationScopeLoop")>>,
                  position + 1, {})
    <3>1. CleanEntry(TopAs(v.finish)) BY <2>2, CleanTop DEF TypeKind
    <3>2. CleanEntry(Here("DeclarationScopeLoop")) BY CleanNew
    <3> QED BY <2>2, <2>5, <3>1, <3>2, CleanTopNode, CleanPushTwo, QuietStep DEF Calm
  <2> QED BY <2>1, <2>2, <2>3, <2>4, <2>5 DEF Calm
<1>18. ASSUME HandleTypeDefinitionFinish PROVE Quiet'
  <2>1. PICK v \in TypeKind : HandleTypeDefinitionFinish!(v)
    BY <1>18 DEF HandleTypeDefinitionFinish
  <2>2. Calm BY <2>1, Calming
  <2> QED BY <2>1, <2>2, CleanTopNode, QuietStep DEF Calm
<1>19. ASSUME HandleVar PROVE Quiet'
  <2>1. PICK s \in DOMAIN VarFinishState : HandleVar!(s) BY <1>19 DEF HandleVar
  <2>2. Calm BY <2>1, Calming
  <2> DEFINE ns == ConsumedLeaf("VariableIntroducer")
             e  == Here(VarFinishState[s])
             f  == Here("VarAfterPattern")
             g  == Entry("PatternAsVariable", position + 1, ns)
  <2>3. CleanTree(ns) BY <2>2, CleanTopNode DEF Calm
  <2> HIDE DEF ns
  <2>4. CleanEntry(e)
    <3>1. VarFinishState[s] \notin GroupStates BY DEF VarFinishState
    <3> QED BY <3>1, CleanNew
  <2>5. CleanEntry(f) /\ CleanEntry(g) BY CleanNew
  <2> HIDE DEF e, f, g
  <2> QED BY <2>1, <2>2, <2>3, <2>4, <2>5, CleanPushThree, QuietStep DEF Calm, ns, e, f, g
<1>20. ASSUME HandleVarAfterPattern PROVE Quiet'
  <2>1. Calm BY <1>20, Calming DEF HandleVarAfterPattern
  <2> DEFINE ns == AddLeafNode(nodes, "VariableInitializer", AfterPattern, FALSE)
  <2>2. CASE \E pos : Step(nodes, Popped, pos, {}) BY <2>1, <2>2, QuietStep DEF Calm
  <2>3. CASE Step(ns, Append(Popped, Entry("Expression", AfterPattern + 1, ns)),
                  AfterPattern + 1, {})
    <3>1. CleanTree(ns) BY <2>1, CleanNodes DEF Calm
    <3> HIDE DEF ns
    <3> QED BY <2>1, <2>3, <3>1, CleanNew, CleanPushOne, QuietStep DEF Calm
  <2> QED BY <1>20, <2>2, <2>3 DEF HandleVarAfterPattern
<1>21. ASSUME HandleVarFinishAsSemicolon PROVE Quiet'
  BY <1>21, Calming, QuietFinish DEF HandleVarFinishAsSemicolon
<1>22. ASSUME HandleVarFinishAsFor PROVE Quiet'
  <2>1. Calm BY <1>22, Calming DEF HandleVarFinishAsFor
  <2>2. CASE Step(AddTopNode("ForIn", position, Top.has_error), Popped, position + 1, {})
    BY <2>1, <2>2, CleanTopNode, QuietStep DEF Calm
  <2>3. CASE \E ns, pos : Step(ns, Popped, pos, {position}) BY <2>1, <2>3, NoisyStep
  <2> QED BY <1>22, <2>2, <2>3 DEF HandleVarFinishAsFor
<1>23. ASSUME HandleLet PROVE Quiet'
  <2>1. Calm BY <1>23, Calming DEF HandleLet
  <2> DEFINE ns == ConsumedLeaf("LetIntroducer")
             e  == Here("LetFinish")
             f  == Here("LetAfterPattern")
             g  == Entry("PatternAsLet", position + 1, ns)
  <2>2. CleanTree(ns) BY <2>1, CleanTopNode DEF Calm
  <2> HIDE DEF ns
  <2>3. CleanEntry(e) /\ CleanEntry(f) /\ CleanEntry(g) BY CleanNew
  <2>4. Step(ns, Popped \o <<e, f, g>>, position + 1, {}) BY <1>23 DEF HandleLet, ns
  <2> HIDE DEF e, f, g
  <2> QED BY <2>1, <2>2, <2>3, <2>4, CleanPushThree, QuietStep DEF Calm
<1>24. ASSUME HandleLetAfterPattern PROVE Quiet'
  <2>1. Calm BY <1>24, Calming DEF HandleLetAfterPattern
  <2> DEFINE ns == AddLeafNode(nodes, "LetInitializer", AfterPattern, FALSE)
  <2>2. CASE \E pos : Step(nodes, Popped, pos, {}) BY <2>1, <2>2, QuietStep DEF Calm
  <2>3. CASE Step(ns, Append(Popped, Entry("Expression", AfterPattern + 1, ns)),
                  AfterPattern + 1, {})
    <3>1. CleanTree(ns) BY <2>1, CleanNodes DEF Calm
    <3> HIDE DEF ns
    <3> QED BY <2>1, <2>3, <3>1, CleanNew, CleanPushOne, QuietStep DEF Calm
  <2>4. CASE Step(nodes, ReturnErrorOnState(Popped), position, {position})
    BY <2>1, <2>4, NoisyStep
  <2> QED BY <1>24, <2>2, <2>3, <2>4 DEF HandleLetAfterPattern
<1>25. ASSUME HandleLetFinish PROVE Quiet'
  BY <1>25, Calming, QuietFinish DEF HandleLetFinish
<1>26. ASSUME HandleNamespace PROVE Quiet'
  <2>1. Calm BY <1>26, Calming DEF HandleNamespace
  <2> QED
    BY <1>26, <2>1, CleanTopNode, CleanTop, CleanNew, CleanPushTwo, QuietStep
    DEF HandleNamespace, Calm
<1>27. ASSUME HandleNamespaceFinish PROVE Quiet'
  <2>1. Calm BY <1>27, Calming DEF HandleNamespaceFinish
  <2>2. CASE Step(AddTopNode("Namespace", position, FALSE), Popped, position + 1, {})
    BY <2>1, <2>2, CleanTopNode, QuietStep DEF Calm
  <2>3. CASE RecoverFromDeclarationError("Namespace", TRUE, {position})
    BY <2>1, <2>3, QuietRecovery
  <2> QED BY <1>27, <2>1, <2>2, <2>3 DEF HandleNamespaceFinish, Calm
<1>28. ASSUME HandlePackage PROVE Quiet'
  <2>1. Calm BY <1>28, Calming DEF HandlePackage
  <2> DEFINE name        == position + 1
             intro_ns    == ConsumedLeaf("PackageIntroducer")
             name_ns     == AddLeafNode(intro_ns, "Name", name, FALSE)
             has_library == Kind(name + 1) = "Library"
             literal_ns  == AddLeafNode(name_ns, "Literal", name + 2, FALSE)
             library_ns  == AddNode(literal_ns, "PackageLibrary", name + 1,
                                    Len(name_ns), FALSE)
             api         == IF has_library THEN name + 3 ELSE name + 1
             before_api  == IF has_library THEN library_ns ELSE name_ns
             api_ns      == AddLeafNode(before_api,
                              IF Kind(api) = "Api" THEN "PackageApi" ELSE "PackageImpl",
                              api, FALSE)
             done_ns     == AddNode(api_ns, "PackageDirective", api + 1,
                                    Top.subtree_start, FALSE)
  <2>2. \/ \E ns, p : ExitPackage(ns, p)
        \/ Step(done_ns, Popped, api + 2, {})
    BY <1>28 DEF HandlePackage
  <2>3. CASE \E ns, p : ExitPackage(ns, p) BY <2>1, <2>3, NoisyStep DEF ExitPackage
  <2>4. CASE Step(done_ns, Popped, api + 2, {})
    <3>1. CleanTree(intro_ns) BY <2>1, CleanTopNode DEF Calm
    <3> HIDE DEF intro_ns
    <3>2. CleanTree(name_ns) BY <3>1, CleanNodes
    <3> HIDE DEF name_ns
    <3>3. CleanTree(literal_ns) BY <3>2, CleanNodes
    <3> HIDE DEF literal_ns
    <3>4. CleanTree(library_ns) BY <3>3, CleanNodes
    <3> HIDE DEF library_ns
    <3>5. CleanTree(before_api) BY <3>2, <3>4
    <3> HIDE DEF before_api, api
    <3>6. CleanTree(api_ns) BY <3>5, CleanNodes
    <3> HIDE DEF api_ns
    <3>7. CleanTree(done_ns) BY <3>6, CleanNodes
    <3> HIDE DEF done_ns
    <3> QED BY <2>1, <2>4, <3>7, QuietStep DEF Calm
  <2> QED BY <2>2, <2>3, <2>4
<1> QED
  BY <1>1, <1>2, <1>3, <1>4, <1>5, <1>6, <1>7, <1>8, <1>9, <1>10, <1>11,
     <1>12, <1>13, <1>14, <1>15, <1>16, <1>17, <1>18, <1>19, <1>20, <1>21,
     <1>22, <1>23, <1>24, <1>25, <1>26, <1>27, <1>28 DEF Declaration

(* The handlers of expressions. *)
LEMMA ExpressionQuiet ==
  ASSUME Quiet, diagnosed = {}, Expression
  PROVE  Quiet'
<1> USE DEF GroupStates, SquareStates, ParenStates, ChainStates
<1>1. ASSUME HandleExpression PROVE Quiet'
  <2>1. Calm BY <1>1, Calming DEF HandleExpression
  <2> DEFINE op  == ForLeading[PositionKind]
             fin == Here("IfExpressionFinish")
             con == Here("IfExpressionFinishCondition")
             pre == StateStackEntry("ExpressionLoopForPrefix", Top.ambient_precedence,
                                    op, position, Len(nodes))
             exp == ExpressionEntry(op, position + 1, nodes)
  <2>2. CASE \E d : Step(nodes,
               Popped \o (IF PositionKind = "If" THEN <<fin, con>> ELSE <<pre>>) \o <<exp>>,
               position + 1, d)
    <3>1. CleanEntry(exp) BY CleanExpression
    <3>2. CleanEntry(pre) BY CleanNew
    <3>3. CleanEntry(fin) /\ fin.state = "IfExpressionFinish"
      BY CleanNew DEF Here, Entry, StateStackEntry
    <3>4. TidyEntry(con) /\ con.state \in ChainStates
      BY EntryRecord DEF TidyEntry, Here, Entry, StateStackEntry
    <3> HIDE DEF exp, pre, fin, con
    <3>5. CleanStack(Popped \o <<pre>>) BY <2>1, <3>2, CleanPushOne DEF Calm
    <3>6. CleanStack(Popped \o <<fin, con>>)
      <4>1. CleanStack(Append(Popped, fin)) BY <2>1, <3>3, CleanPushOne DEF Calm
      <4>2. /\ Append(Popped, fin)[Len(Popped) + 1] = fin
            /\ Len(Append(Popped, fin)) = Len(Popped) + 1
            /\ Len(Popped) \in Nat
        BY <2>1, SeqAppend, SeqLen DEF Calm, CleanStack
      <4>3. Append(Append(Popped, fin), con) = Popped \o <<fin, con>>
        BY <2>1, ConcatTwo DEF Calm, CleanStack
      <4>4. CleanStack(Append(Append(Popped, fin), con))
        BY <3>3, <3>4, <4>1, <4>2, SeqAppend DEF CleanStack
      <4> QED BY <4>3, <4>4
    <3>7. CleanStack(Popped \o (IF PositionKind = "If" THEN <<fin, con>> ELSE <<pre>>))
      BY <3>5, <3>6
    <3>8. CleanStack(Popped \o (IF PositionKind = "If" THEN <<fin, con>> ELSE <<pre>>)
                     \o <<exp>>)
      BY <3>1, <3>7, CleanPushOne
    <3> QED BY <2>1, <2>2, <3>8, QuietStep DEF Calm
  <2> DEFINE e == StateStackEntry("ExpressionLoop", Top.ambient_precedence,
                                  ForPostfixExpression, position, Len(nodes))
             f == Here("ExpressionInPostfix")
  <2>3. CASE Step(nodes, Popped \o <<e, f>>, position, {})
    <3>1. CleanEntry(e) /\ CleanEntry(f) BY CleanNew
    <3> HIDE DEF e, f
    <3> QED BY <2>1, <2>3, <3>1, CleanPushTwo, QuietStep DEF Calm
  <2> QED BY <1>1, <2>2, <2>3 DEF HandleExpression
<1>2. ASSUME HandleExpressionInPostfix PROVE Quiet'
  <2>1. Calm BY <1>2, Calming DEF HandleExpressionInPostfix
  <2>2. CleanEntry(TopAs("ExpressionInPostfixLoop")) BY <2>1, CleanTop
  <2>3. CASE \E kind : Step(ConsumedLeaf(kind),
               Append(Popped, TopAs("ExpressionInPostfixLoop")), position + 1, {})
    BY <2>1, <2>2, <2>3, CleanTopNode, CleanPushOne, QuietStep DEF Calm
  <2>4. CASE /\ PositionKind \in DOMAIN GroupState
             /\ Step(nodes, Popped \o <<TopAs("ExpressionInPostfixLoop"),
                                        Here(GroupState[PositionKind])>>,
                     position, {})
    <3> DEFINE s == GroupState[PositionKind]
    <3>1. \/ s = "BraceExpression" \/ s = "ParenExpression"
          \/ s = "ArrayExpression" /\ PositionKind = "OpenSquareBracket"
      BY <2>4 DEF GroupState
    <3>2. CleanEntry(Here(s))
      <4> HIDE DEF s
      <4>1. CASE s = "ArrayExpression" /\ PositionKind = "OpenSquareBracket"
        BY <4>1, EntryRecord
        DEF CleanEntry, TidyEntry, Here, Entry, StateStackEntry, PositionKind
      <4> QED BY <3>1, <4>1, CleanNew
    <3> QED BY <2>1, <2>2, <2>4, <3>2, CleanPushTwo, QuietStep DEF Calm
  <2>5. CASE \E ns, b : Step(ns, b, position, {position}) BY <2>1, <2>5, NoisyStep
  <2> QED BY <1>2, <2>3, <2>4, <2>5 DEF HandleExpressionInPostfix
<1>3. ASSUME HandleExpressionInPostfixLoop PROVE Quiet'
  <2>1. Calm BY <1>3, Calming DEF HandleExpressionInPostfixLoop
  <2>2. Top.state = "ExpressionInPostfixLoop"
    BY <1>3 DEF HandleExpressionInPostfixLoop, At
  <2> DEFINE s     == PostfixState[PositionKind]
             again == [Top EXCEPT !.token = position]
             next  == [again EXCEPT !.state = s]
  <2>3. CASE /\ PositionKind \in DOMAIN PostfixState
             /\ Step(nodes, Popped \o <<again, next>>, position, {})
    <3>1. \/ s = "PeriodAsExpression" \/ s = "ArrowExpression" \/ s = "CallExpression"
          \/ s = "IndexExpression" /\ PositionKind = "OpenSquareBracket"
      BY <2>3 DEF PostfixState
    <3>2. CleanEntry(Top) BY <2>1, <2>2 DEF Calm, CleanEntry
    <3>3. CleanEntry(again) BY <2>2, <3>2, CleanUpdate
    <3>4. again.token = position BY <2>1, EntryMarks DEF Calm
    <3> HIDE DEF again, s
    <3>5. CleanEntry(next)
      <4>1. CASE s = "IndexExpression" /\ PositionKind = "OpenSquareBracket"
        <5>1. IsEntry(again) /\ again.has_error = FALSE BY <3>3 DEF CleanEntry, TidyEntry
        <5>2. IsEntry(next) /\ next.state = s BY <5>1, EntryUpdate, Zenon
        <5>3. next.has_error = FALSE /\ next.token = position
          BY <3>4, <5>1, EntryMarks
        <5> HIDE DEF next
        <5> QED BY <4>1, <5>2, <5>3 DEF CleanEntry, TidyEntry, PositionKind
      <4>2. CASE s \notin GroupStates BY <3>3, <4>2, CleanAs DEF CleanEntry
      <4> QED BY <3>1, <4>1, <4>2
    <3> HIDE DEF next
    <3> QED BY <2>1, <2>3, <3>3, <3>5, CleanPushTwo, QuietStep DEF Calm
  <2>4. CASE Step(nodes, ReturnErrorIf(Top.has_error, Popped), position, {})
    BY <2>1, <2>4, Unmarked, QuietStep DEF Calm
  <2> QED BY <1>3, <2>3, <2>4 DEF HandleExpressionInPostfixLoop
<1>4. ASSUME HandleExpressionLoop PROVE Quiet'
  <2>1. Calm BY <1>4, Calming DEF HandleExpressionLoop
  <2>2. Top.state = "ExpressionLoop" BY <1>4 DEF HandleExpressionLoop, At
  <2>3. CASE Step(nodes, ReturnErrorIf(Top.has_error, Popped), position, {})
    BY <2>1, <2>3, Unmarked, QuietStep DEF Calm
  <2> DEFINE op    == TrailingOperator.level
             error == Top.has_error \/ ~OperatorNests
             ns    == IF PositionKind \in {"And", "Or"}
                      THEN AddTopNode("ShortCircuitOperand", position, error)
                      ELSE nodes
             e     == [TopAs("ExpressionLoopForBinary") EXCEPT
                         !.token = position, !.lhs_precedence = op, !.has_error = error]
             f     == ExpressionEntry(op, position + 1, ns)
             diags(fixity) == IF OperatorNests THEN DiagnoseOperatorFixity(fixity)
                              ELSE {position}
  <2>4. \A fixity : diags(fixity) = {} => OperatorNests OBVIOUS
  <2>5. OperatorNests => error = FALSE BY <2>1 DEF Calm
  <2>6. CASE Step(ns, Popped \o <<e, f>>, position + 1, diags("Infix"))
    <3> HIDE DEF error, op
    <3>1. OperatorNests => CleanTree(ns) BY <2>1, <2>5, CleanTopNode DEF Calm
    <3> HIDE DEF ns
    <3>2. CleanEntry(f) BY CleanExpression
    <3>3. OperatorNests => CleanEntry(e)
      <4> SUFFICES ASSUME OperatorNests PROVE CleanEntry(e) OBVIOUS
      <4> DEFINE t == TopAs("ExpressionLoopForBinary")
                 u == [t EXCEPT !.token = position]
                 w == [u EXCEPT !.lhs_precedence = op]
      <4>1. CleanEntry(t) /\ t.state = "ExpressionLoopForBinary" BY <2>1, CleanTop
      <4>2. e = [w EXCEPT !.has_error = error] OBVIOUS
      <4> HIDE DEF e, t
      <4>3. CleanEntry(u) /\ u.state = "ExpressionLoopForBinary" BY <4>1, CleanUpdate
      <4> HIDE DEF u
      <4>4. CleanEntry(w) /\ w.state = "ExpressionLoopForBinary" BY <4>3, CleanUpdate
      <4> HIDE DEF w
      <4> QED BY <2>5, <4>2, <4>4, CleanUpdate
    <3> HIDE DEF e, f, diags
    <3> QED BY <2>1, <2>4, <2>6, <3>1, <3>2, <3>3, CleanPushTwo, QuietStep DEF Calm
  <2> DEFINE g  == [Top EXCEPT !.token = position, !.has_error = FALSE, !.lhs_precedence = op]
             ms == AddTopNode("PostfixOperator", position, error)
  <2>7. CASE Step(ms, Append(Popped, g), position + 1, diags("Postfix"))
    <3> HIDE DEF error, op
    <3>1. OperatorNests => CleanTree(ms) BY <2>1, <2>5, CleanTopNode DEF Calm
    <3>2. CleanEntry(g)
      <4> DEFINE u == [Top EXCEPT !.token = position]
                 w == [u EXCEPT !.lhs_precedence = op]
      <4>1. CleanEntry(Top) BY <2>1, <2>2 DEF Calm, CleanEntry
      <4>2. g = [w EXCEPT !.has_error = FALSE] OBVIOUS
      <4>3. CleanEntry(u) /\ u.state = "ExpressionLoop" BY <2>2, <4>1, CleanUpdate
      <4> HIDE DEF u, g
      <4>4. CleanEntry(w) /\ w.state = "ExpressionLoop" BY <4>3, CleanUpdate
      <4> HIDE DEF w
      <4> QED BY <4>2, <4>4, CleanUpdate
    <3> HIDE DEF g, ms, diags
    <3> QED BY <2>1, <2>4, <2>7, <3>1, <3>2, CleanPushOne, QuietStep DEF Calm
  <2> QED BY <1>4, <2>3, <2>6, <2>7 DEF HandleExpressionLoop
<1>5. ASSUME HandleExpressionLoopForOperator PROVE Quiet'
  <2>1. PICK s \in DOMAIN OperatorNode : HandleExpressionLoopForOperator!(s)
    BY <1>5 DEF HandleExpressionLoopForOperator
  <2>2. Calm BY <2>1, Calming
  <2> DEFINE e == [TopAs("ExpressionLoop") EXCEPT !.has_error = FALSE]
  <2>3. CleanEntry(e) BY <2>2, CleanTop, CleanUpdate
  <2> HIDE DEF e
  <2> QED BY <2>1, <2>2, <2>3, CleanTopNode, CleanPushOne, QuietStep DEF Calm, e
<1>6. ASSUME HandleIfExpressionFinishCondition PROVE Quiet'
  <2>1. Calm BY <1>6, Calming DEF HandleIfExpressionFinishCondition
  <2>2. Top.state \in ChainStates BY <1>6 DEF HandleIfExpressionFinishCondition, At
  <2> DEFINE ns == AddTopNode("IfExpressionIf", Top.token, Top.has_error)
             f  == ExpressionEntry(ForLeading["If"], position + 1, ns)
  <2>3. CleanTree(ns) BY <2>1, CleanTopNode DEF Calm
  <2>4. CASE Step(ns, Popped \o <<Entry("IfExpressionFinishThen", position, ns), f>>,
                  position + 1, {})
    <3> HIDE DEF ns
    <3>1. CleanEntry(f) BY CleanExpression
    <3> HIDE DEF f
    <3>2. CleanStack(Popped \o <<Entry("IfExpressionFinishThen", position, ns), f>>)
      <4>1. "IfExpressionFinishThen" \in ChainStates OBVIOUS
      <4>2. /\ CleanStack(Popped) /\ Popped # <<>>
            /\ Popped[Len(Popped)].state \notin GroupStates
        BY <2>1, <2>2 DEF Calm
      <4> HIDE DEF GroupStates, ChainStates
      <4> QED BY <3>1, <4>1, <4>2, CleanPushChain
    <3> QED BY <2>1, <2>3, <2>4, <3>2, QuietStep DEF Calm
  <2>5. CASE \E ms, b : Step(ms, b, position, DiagnosedIf(~Top.has_error))
    BY <2>1, <2>5, Undiagnosed, QuietStep DEF Calm
  <2> QED BY <1>6, <2>4, <2>5 DEF HandleIfExpressionFinishCondition
<1>7. ASSUME HandleIfExpressionFinishThen PROVE Quiet'
  <2>1. Calm BY <1>7, Calming DEF HandleIfExpressionFinishThen
  <2>2. Top.state \in ChainStates BY <1>7 DEF HandleIfExpressionFinishThen, At
  <2> DEFINE ns == AddTopNode("IfExpressionThen", Top.token, Top.has_error)
             f  == ExpressionEntry(ForLeading["If"], position + 1, ns)
  <2>3. CleanTree(ns) BY <2>1, CleanTopNode DEF Calm
  <2>4. CASE Step(ns, Popped \o <<Entry("IfExpressionFinishElse", position, ns), f>>,
                  position + 1, {})
    <3> HIDE DEF ns
    <3>1. CleanEntry(f) BY CleanExpression
    <3> HIDE DEF f
    <3>2. CleanStack(Popped \o <<Entry("IfExpressionFinishElse", position, ns), f>>)
      <4>1. "IfExpressionFinishElse" \in ChainStates OBVIOUS
      <4>2. /\ CleanStack(Popped) /\ Popped # <<>>
            /\ Popped[Len(Popped)].state \notin GroupStates
        BY <2>1, <2>2 DEF Calm
      <4> HIDE DEF GroupStates, ChainStates
      <4> QED BY <3>1, <4>1, <4>2, CleanPushChain
    <3> QED BY <2>1, <2>3, <2>4, <3>2, QuietStep DEF Calm
  <2>5. CASE \E ms, b : Step(ms, b, position, DiagnosedIf(~Top.has_error))
    BY <2>1, <2>5, Undiagnosed, QuietStep DEF Calm
  <2> QED BY <1>7, <2>4, <2>5 DEF HandleIfExpressionFinishThen
<1>8. ASSUME HandleIfExpressionFinishElse PROVE Quiet'
  <2>1. Calm BY <1>8, Calming DEF HandleIfExpressionFinishElse
  <2>2. Top.state \in ChainStates BY <1>8 DEF HandleIfExpressionFinishElse, At
  <2> DEFINE finish == Popped[Len(Popped)]
             error  == finish.has_error \/ Top.has_error
             e      == [finish EXCEPT !.token = Top.token, !.has_error = error]
  <2>3. Popped # <<>> /\ finish.state \notin GroupStates BY <2>1, <2>2 DEF Calm
  <2>4. TidyEntry(finish)
    <3>1. PICK S : Popped \in Seq(S) BY <2>1 DEF Calm, CleanStack, IsSeq
    <3>2. Len(Popped) \in 1 .. Len(Popped) BY <2>3, <3>1
    <3> QED BY <2>1, <3>2 DEF Calm, CleanStack
  <2>5. CleanEntry(finish) /\ error = FALSE BY <2>1, <2>3, <2>4 DEF CleanEntry, TidyEntry, Calm
  <2>6. Step(nodes, [Popped EXCEPT ![Len(Popped)] = e], position, {})
    BY <1>8 DEF HandleIfExpressionFinishElse
  <2>7. CleanEntry(e)
    <3> DEFINE u == [finish EXCEPT !.token = Top.token]
    <3> HIDE DEF finish, error
    <3>1. CleanEntry(u) /\ u.state = finish.state BY <2>3, <2>5, CleanUpdate
    <3>2. e = [u EXCEPT !.has_error = error] OBVIOUS
    <3> HIDE DEF u, e
    <3> QED BY <2>3, <2>5, <3>1, <3>2, CleanUpdate
  <2> HIDE DEF e
  <2>8. CleanStack([Popped EXCEPT ![Len(Popped)] = e])
    BY <2>1, <2>7, CleanReplaceLast DEF Calm, CleanEntry
  <2> QED BY <2>1, <2>6, <2>8, QuietStep DEF Calm
<1>9. ASSUME HandleIfExpressionFinish PROVE Quiet'
  <2>1. Calm BY <1>9, Calming DEF HandleIfExpressionFinish
  <2> QED BY <1>9, <2>1, CleanTopNode, QuietStep DEF HandleIfExpressionFinish, Calm
<1>10. ASSUME HandleExpressionStatementFinish PROVE Quiet'
  <2>1. Calm BY <1>10, Calming DEF HandleExpressionStatementFinish
  <2>2. CASE Step(AddTopNode("ExpressionStatement", position, Top.has_error),
                  Popped, position + 1, {})
    BY <2>1, <2>2, CleanTopNode, QuietStep DEF Calm
  <2>3. CASE \E ns, b, pos : Step(ns, b, pos, DiagnosedIf(~Top.has_error))
    BY <2>1, <2>3, Undiagnosed, QuietStep DEF Calm
  <2> QED BY <1>10, <2>2, <2>3 DEF HandleExpressionStatementFinish
<1>11. ASSUME HandlePeriodOrArrow PROVE Quiet'
  <2>1. PICK v \in PeriodKind : HandlePeriodOrArrow!(v) BY <1>11 DEF HandlePeriodOrArrow
  <2>2. Calm BY <2>1, Calming
  <2> DEFINE name     == position + 1
             is_name  == Kind(name) = "Identifier"
             consumed == is_name \/ Kind(name) \in KeywordTokens
             error    == ~is_name
             ns       == AddLeafNode(nodes, "Name", name, error)
             ms       == AddNode(ns, v.node, position, Top.subtree_start, Top.has_error)
             diags    == IF is_name THEN {} ELSE {name}
  <2>3. CheckedStep(PositionKind = v.dot, ms, ReturnErrorIf(~consumed, Popped),
                    IF consumed THEN name + 1 ELSE name, diags)
    BY <2>1
  <2>4. diags = {} => is_name /\ consumed /\ error = FALSE OBVIOUS
  <2> HIDE DEF is_name, consumed, diags, error
  <2>5. diags = {} => CleanTree(ns) BY <2>2, <2>4, CleanNodes DEF Calm
  <2> HIDE DEF ns
  <2>6. diags = {} => CleanTree(ms) BY <2>2, <2>5, CleanNodes DEF Calm
  <2>7. diags = {} => ReturnErrorIf(~consumed, Popped) = Popped BY <2>4, Unmarked
  <2> HIDE DEF ms
  <2> QED BY <2>2, <2>3, <2>6, <2>7, QuietChecked DEF Calm
<1>12. ASSUME HandleCallExpression PROVE Quiet'
  <2>1. Calm BY <1>12, Calming DEF HandleCallExpression
  <2> DEFINE ns == AddTopNode("CallExpressionStart", position, Top.has_error)
             e  == TopAs("CallExpressionFinish")
             f  == Entry("CallExpressionParameterFinish", position + 1, ns)
             g  == Entry("Expression", position + 1, ns)
  <2>2. \/ Step(ns, Popped \o <<e>>, position + 1, {})
        \/ Step(ns, Popped \o <<e, f, g>>, position + 1, {})
    BY <1>12 DEF HandleCallExpression
  <2>3. CleanTree(ns) BY <2>1, CleanTopNode DEF Calm
  <2> HIDE DEF ns
  <2>4. CleanEntry(e) /\ CleanEntry(f) /\ CleanEntry(g) BY <2>1, CleanTop, CleanNew
  <2> HIDE DEF e, f, g
  <2> QED BY <2>1, <2>2, <2>3, <2>4, CleanPushOne, CleanPushThree, QuietStep DEF Calm
<1>13. ASSUME HandleCallExpressionParameterFinish PROVE Quiet'
  <2>1. Calm BY <1>13, Calming DEF HandleCallExpressionParameterFinish
  <2> DEFINE error == ListError("CloseParen", Top.has_error)
             item  == ConsumeListToken("CallExpressionComma", "CloseParen", nodes)
             stack == ReturnErrorIf(Top.has_error \/ error, Popped)
             e     == Entry("CallExpressionParameterFinish", item.position, item.nodes)
             f     == Entry("Expression", item.position, item.nodes)
             after == IF item.token_kind = "Comma" THEN stack \o <<e, f>> ELSE stack
  <2>2. CheckedStep(ListElementEnds("CloseParen"), item.nodes, after,
                    item.position, DiagnosedIf(error))
    BY <1>13 DEF HandleCallExpressionParameterFinish
  <2>3. CleanTree(item.nodes) BY <2>1, CleanListItem DEF Calm
  <2>4. CleanEntry(e) /\ CleanEntry(f) BY CleanNew
  <2>5. ~error => stack = Popped BY <2>1, Unmarked DEF Calm
  <2>6. DiagnosedIf(error) = {} => ~error BY Undiagnosed
  <2> HIDE DEF error, item, stack, e, f
  <2>7. DiagnosedIf(error) = {} => CleanStack(after)
    BY <2>1, <2>4, <2>5, <2>6, CleanPushTwo DEF Calm
  <2> HIDE DEF after
  <2> QED BY <2>1, <2>2, <2>3, <2>7, QuietChecked
<1>14. ASSUME HandleCallExpressionFinish PROVE Quiet'
  <2>1. Calm BY <1>14, Calming DEF HandleCallExpressionFinish
  <2> QED BY <1>14, <2>1, CleanTopNode, QuietStep DEF HandleCallExpressionFinish, Calm
<1>15. ASSUME HandleIndexExpression PROVE Quiet'
  <2>1. Calm BY <1>15, Calming DEF HandleIndexExpression
  <2>2. Top.state = "IndexExpression" BY <1>15 DEF HandleIndexExpression, At
  <2> DEFINE ns == AddTopNode("IndexExpressionStart", position, Top.has_error)
             e  == TopAs("IndexExpressionFinish")
             f  == Entry("Expression", position + 1, ns)
  <2>3. CheckedStep(PositionKind = "OpenSquareBracket", ns, Popped \o <<e, f>>,
                    position + 1, {})
    BY <1>15 DEF HandleIndexExpression
  <2>4. CleanTree(ns) BY <2>1, CleanTopNode DEF Calm
  <2> HIDE DEF ns
  <2>5. CleanEntry(f) BY CleanNew
  <2>6. CleanEntry(e) BY <2>1, <2>2, CleanGroup
  <2> HIDE DEF e, f
  <2> QED BY <2>1, <2>3, <2>4, <2>5, <2>6, CleanPushTwo, QuietChecked DEF Calm
<1>16. ASSUME HandleIndexExpressionFinish PROVE Quiet'
  <2>1. Calm BY <1>16, Calming DEF HandleIndexExpressionFinish
  <2>2. Top.state = "IndexExpressionFinish" BY <1>16 DEF HandleIndexExpressionFinish, At
  <2>3. Kind(Top.token) \in OpeningSymbols
    BY <2>1, <2>2 DEF Calm, TidyEntry, OpeningSymbols
  <2> QED
    BY <1>16, <2>1, <2>3, CleanClose, QuietChecked DEF HandleIndexExpressionFinish, Calm
<1>17. ASSUME HandleArrayExpression PROVE Quiet'
  <2>1. Calm BY <1>17, Calming DEF HandleArrayExpression
  <2>2. Top.state = "ArrayExpression" BY <1>17 DEF HandleArrayExpression, At
  <2> DEFINE ns == AddLeafNode(nodes, "ArrayExpressionStart", position, Top.has_error)
             e  == TopAs("ArrayExpressionSemi")
             f  == Entry("Expression", position + 1, ns)
  <2>3. CheckedStep(PositionKind = "OpenSquareBracket", ns, Popped \o <<e, f>>,
                    position + 1, {})
    BY <1>17 DEF HandleArrayExpression
  <2>4. CleanTree(ns) BY <2>1, CleanNodes DEF Calm
  <2> HIDE DEF ns
  <2>5. CleanEntry(f) BY CleanNew
  <2>6. CleanEntry(e) BY <2>1, <2>2, CleanGroup
  <2> HIDE DEF e, f
  <2> QED BY <2>1, <2>3, <2>4, <2>5, <2>6, CleanPushTwo, QuietChecked DEF Calm
<1>18. ASSUME HandleArrayExpressionSemi PROVE Quiet'
  <2>1. Calm BY <1>18, Calming DEF HandleArrayExpressionSemi
  <2>2. Top.state = "ArrayExpressionSemi" BY <1>18 DEF HandleArrayExpressionSemi, At
  <2> DEFINE has_semi == PositionKind = "Semi"
             error    == Top.has_error \/ ~has_semi
             pos      == IF has_semi THEN position + 1 ELSE position
             ns       == AddTopNode("ArrayExpressionSemi", position, error)
             t        == TopAs("ArrayExpressionFinish")
             e        == [t EXCEPT !.has_error = error]
             f        == Entry("Expression", pos, ns)
             stack    == Popped \o (IF Kind(pos) = "CloseSquareBracket" THEN <<e>>
                                    ELSE <<e, f>>)
  <2>3. Step(ns, stack, pos, DiagnosedIf(~has_semi)) BY <1>18 DEF HandleArrayExpressionSemi
  <2>4. DiagnosedIf(~has_semi) = {} => has_semi BY Undiagnosed
  <2>5. has_semi => error = FALSE BY <2>1 DEF Calm
  <2>6. CleanEntry(t) BY <2>1, <2>2, CleanGroup
  <2> HIDE DEF has_semi, error, pos
  <2>7. has_semi => CleanTree(ns) BY <2>1, <2>5, CleanTopNode DEF Calm
  <2> HIDE DEF ns
  <2>8. CleanEntry(f) BY CleanNew
  <2> HIDE DEF t, f
  <2>9. has_semi => CleanEntry(e)
    <3>1. IsEntry(t) BY <2>6 DEF CleanEntry, TidyEntry
    <3>2. IsEntry(e) /\ e.state = t.state BY <3>1, EntryUpdate, Zenon
    <3>3. e.has_error = error /\ e.token = t.token BY <3>1, EntryMarks, Zenon
    <3> HIDE DEF e
    <3> QED BY <2>5, <2>6, <3>2, <3>3 DEF CleanEntry, TidyEntry
  <2> HIDE DEF e
  <2>10. has_semi => CleanStack(stack)
    BY <2>1, <2>8, <2>9, CleanPushOne, CleanPushTwo DEF Calm
  <2> HIDE DEF stack
  <2> QED BY <2>1, <2>3, <2>4, <2>7, <2>10, QuietStep
<1>19. ASSUME HandleArrayExpressionFinish PROVE Quiet'
  <2>1. Calm BY <1>19, Calming DEF HandleArrayExpressionFinish
  <2>2. Top.state = "ArrayExpressionFinish" BY <1>19 DEF HandleArrayExpressionFinish, At
  <2>3. Kind(Top.token) \in OpeningSymbols
    BY <2>1, <2>2 DEF Calm, TidyEntry, OpeningSymbols
  <2> QED
    BY <1>19, <2>1, <2>3, CleanClose, QuietChecked DEF HandleArrayExpressionFinish, Calm
<1>20. ASSUME HandleParenExpression PROVE Quiet'
  <2>1. Calm BY <1>20, Calming DEF HandleParenExpression
  <2> DEFINE ns == ConsumedLeaf("ParenExpressionOrTupleLiteralStart")
             t  == TopAs("ParenExpressionFinishAsTuple")
             e  == TopAs("ParenExpressionFinishAsNormal")
             f  == Entry("ParenExpressionParameterFinishAsUnknown", position + 1, ns)
             g  == Entry("Expression", position + 1, ns)
             stack == Popped \o (IF Kind(position + 1) = "CloseParen" THEN <<t>>
                                 ELSE <<e, f, g>>)
  <2>2. CheckedStep(PositionKind = "OpenParen", ns, stack, position + 1, {})
    BY <1>20 DEF HandleParenExpression
  <2>3. CleanTree(ns) BY <2>1, CleanTopNode DEF Calm
  <2> HIDE DEF ns
  <2>4. CleanEntry(t) /\ CleanEntry(e) BY <2>1, CleanTop
  <2>5. CleanEntry(f) /\ CleanEntry(g) BY CleanNew
  <2> HIDE DEF t, e, f, g
  <2>6. CleanStack(stack) BY <2>1, <2>4, <2>5, CleanPushOne, CleanPushThree DEF Calm
  <2> HIDE DEF stack
  <2> QED BY <2>1, <2>2, <2>3, <2>6, QuietChecked
<1>21. ASSUME HandleParenExpressionParameterFinish PROVE Quiet'
  <2>1. PICK s \in ParenParameterFinishStates : HandleParenExpressionParameterFinish!(s)
    BY <1>21 DEF HandleParenExpressionParameterFinish
  <2>2. Calm BY <2>1, Calming
  <2> DEFINE error    == ListError("CloseParen", Top.has_error)
             item     == ConsumeListToken("TupleLiteralComma", "CloseParen", nodes)
             stack    == ReturnErrorIf(error, Popped)
             is_first == s = "ParenExpressionParameterFinishAsUnknown"
             finish   == stack[Len(stack)]
             tuple    == [stack[Len(stack)] EXCEPT !.state = "ParenExpressionFinishAsTuple"]
             as_tuple == IF is_first THEN [stack EXCEPT ![Len(stack)] = tuple] ELSE stack
             e        == TopAs("ParenExpressionParameterFinishAsTuple")
             f        == Entry("Expression", item.position, item.nodes)
             after    == CASE item.token_kind = "Close"      -> stack
                           [] item.token_kind = "CommaClose" -> as_tuple
                           [] item.token_kind = "Comma"      -> as_tuple \o <<e, f>>
             ok       == /\ ListElementEnds("CloseParen")
                         /\ item.token_kind # "Close" /\ is_first =>
                              finish.state = "ParenExpressionFinishAsNormal"
  <2>3. CheckedStep(ok, item.nodes, after, item.position, DiagnosedIf(error))
    BY <2>1
  <2>4. CleanTree(item.nodes) BY <2>2, CleanListItem DEF Calm
  <2>5. CleanEntry(e) /\ CleanEntry(f) BY <2>2, CleanTop, CleanNew
  <2>6. ~error => stack = Popped BY Unmarked
  <2>7. DiagnosedIf(error) = {} => ~error BY Undiagnosed
  <2>8. item.token_kind \in {"Close", "CommaClose", "Comma"} BY DEF ConsumeListToken
  <2> HIDE DEF error, item, stack, e, f
  <2>9. ~error => CleanStack(stack) BY <2>2, <2>6 DEF Calm
  <2>10. ~error => CleanStack(as_tuple)
    <3>1. ASSUME ~error PROVE stack # <<>> => CleanEntry(tuple)
      <4>1. SUFFICES ASSUME stack # <<>> PROVE CleanEntry(tuple) OBVIOUS
      <4>2. PICK S : stack \in Seq(S) BY <2>9, <3>1 DEF CleanStack, IsSeq
      <4>3. Len(stack) \in 1 .. Len(stack) BY <4>1, <4>2
      <4>4. TidyEntry(stack[Len(stack)]) BY <2>9, <3>1, <4>3 DEF CleanStack
      <4> QED BY <4>4, CleanAs
    <3> HIDE DEF tuple
    <3>2. ~error => CleanStack([stack EXCEPT ![Len(stack)] = tuple])
      BY <2>9, <3>1, CleanReplaceLast DEF CleanEntry
    <3> QED BY <2>9, <3>2
  <2> HIDE DEF as_tuple
  <2>11. ~error => CleanStack(as_tuple \o <<e, f>>) BY <2>5, <2>10, CleanPushTwo
  <2>12. DiagnosedIf(error) = {} => CleanStack(after)
    BY <2>7, <2>8, <2>9, <2>10, <2>11
  <2> HIDE DEF after, ok
  <2> QED BY <2>2, <2>3, <2>4, <2>12, QuietChecked
<1>22. ASSUME HandleParenExpressionFinish PROVE Quiet'
  <2>1. PICK s \in DOMAIN ParenFinishNode : HandleParenExpressionFinish!(s)
    BY <1>22 DEF HandleParenExpressionFinish
  <2>2. Calm BY <2>1, Calming
  <2> QED BY <2>1, <2>2, CleanTopNode, QuietStep DEF Calm
<1>23. ASSUME HandleBraceExpression PROVE Quiet'
  <2>1. Calm BY <1>23, Calming DEF HandleBraceExpression
  <2> DEFINE ns == ConsumedLeaf("StructLiteralOrStructTypeLiteralStart")
             e  == TopAs("BraceExpressionFinishAsUnknown")
             f  == Entry("BraceExpressionParameterAsUnknown", position + 1, ns)
             stack == Popped \o (IF Kind(position + 1) = "CloseCurlyBrace" THEN <<e>>
                                 ELSE <<e, f>>)
  <2>2. CheckedStep(PositionKind = "OpenCurlyBrace", ns, stack, position + 1, {})
    BY <1>23 DEF HandleBraceExpression
  <2>3. CleanTree(ns) BY <2>1, CleanTopNode DEF Calm
  <2> HIDE DEF ns
  <2>4. CleanEntry(e) /\ CleanEntry(f) BY <2>1, CleanTop, CleanNew
  <2> HIDE DEF e, f
  <2>5. CleanStack(stack) BY <2>1, <2>4, CleanPushOne, CleanPushTwo DEF Calm
  <2> HIDE DEF stack
  <2> QED BY <2>1, <2>2, <2>3, <2>5, QuietChecked
<1>24. ASSUME HandleBraceExpressionParameter PROVE Quiet'
  <2>1. PICK v \in BraceKind : HandleBraceExpressionParameter!(v)
    BY <1>24 DEF HandleBraceExpressionParameter
  <2>2. Calm BY <2>1, Calming
  <2>3. CASE Step(nodes, Popped \o <<TopAs(v.after), Here("PeriodAsStruct")>>, position, {})
    <3>1. v.after \notin GroupStates BY DEF BraceKind
    <3>2. CleanEntry(TopAs(v.after)) BY <2>2, <3>1, CleanTop
    <3> QED BY <2>2, <2>3, <3>2, CleanNew, CleanPushTwo, QuietStep DEF Calm
  <2>4. CASE BraceParameterError(Popped, v.param_finish, position)
    BY <2>2, <2>4, NoisyStep DEF BraceParameterError
  <2> QED BY <2>1, <2>3, <2>4
<1>25. ASSUME HandleBraceExpressionParameterAfterDesignator PROVE Quiet'
  <2>1. PICK v \in BraceKind : HandleBraceExpressionParameterAfterDesignator!(v)
    BY <1>25 DEF HandleBraceExpressionParameterAfterDesignator
  <2>2. Calm BY <2>1, Calming
  <2> DEFINE finish == Popped[Len(Popped)]
             decided == v.sep # "none"
             last(w) == [finish EXCEPT !.state = IF decided THEN finish.state ELSE w.finish]
             e(w, pos) == [TopAs(w.param_finish) EXCEPT !.token = pos]
             f(pos)  == Entry("Expression", pos + 1, nodes)
  <2>3. \/ Top.has_error
        \/ \E pos : BraceParameterError(Popped, v.param_finish, pos)
        \/ \E w \in BraceKind : \E pos :
             CheckedStep(decided \/ finish.state = v.finish, nodes,
               [Popped EXCEPT ![Len(Popped)] = last(w)] \o <<e(w, pos), f(pos)>>,
               pos + 1, {})
    BY <2>1
  <2>4. CASE \E pos : BraceParameterError(Popped, v.param_finish, pos)
    BY <2>2, <2>4, NoisyStep DEF BraceParameterError
  <2>5. ASSUME NEW w \in BraceKind, NEW pos,
               CheckedStep(decided \/ finish.state = v.finish, nodes,
                 [Popped EXCEPT ![Len(Popped)] = last(w)] \o <<e(w, pos), f(pos)>>,
                 pos + 1, {})
        PROVE  Quiet'
    <3>1. w.finish \notin GroupStates /\ w.param_finish \notin GroupStates
      BY DEF BraceKind
    <3>2. CleanEntry(e(w, pos)) BY <2>2, <3>1, CleanTop
    <3>3. CleanEntry(f(pos)) BY CleanNew
    <3>4. ASSUME Popped # <<>>
          PROVE  /\ TidyEntry(last(w))
                 /\ last(w).state = finish.state \/ last(w).state \notin ChainStates
      <4>1. PICK S : Popped \in Seq(S) BY <2>2 DEF Calm, CleanStack, IsSeq
      <4>2. Len(Popped) \in 1 .. Len(Popped) BY <3>4, <4>1
      <4>3. TidyEntry(finish) BY <2>2, <4>2 DEF Calm, CleanStack
      <4> HIDE DEF finish
      <4>4. IsEntry(finish) BY <4>3 DEF TidyEntry
      <4> DEFINE x == IF decided THEN finish.state ELSE w.finish
      <4>5. x = finish.state \/ x \notin GroupStates BY <3>1
      <4> HIDE DEF x
      <4> DEFINE l == [finish EXCEPT !.state = x]
      <4>6. IsEntry(l) /\ l.state = x BY <4>4, EntryUpdate, Zenon
      <4>7. l.has_error = finish.has_error /\ l.token = finish.token
        BY <4>4, EntryMarks, Zenon
      <4> HIDE DEF l
      <4>8. TidyEntry(l) /\ (l.state = finish.state \/ l.state \notin ChainStates)
        BY <4>3, <4>5, <4>6, <4>7 DEF TidyEntry
      <4> QED BY <4>8 DEF l, x
    <3> HIDE DEF last, e, f
    <3>5. CleanStack([Popped EXCEPT ![Len(Popped)] = last(w)])
      BY <2>2, <3>4, CleanReplaceLast DEF Calm
    <3>6. CleanStack([Popped EXCEPT ![Len(Popped)] = last(w)] \o <<e(w, pos), f(pos)>>)
      BY <3>2, <3>3, <3>5, CleanPushTwo
    <3> QED BY <2>2, <2>5, <3>6, QuietChecked DEF Calm
  <2> QED BY <2>2, <2>3, <2>4, <2>5 DEF Calm
<1>26. ASSUME HandleBraceExpressionParameterFinish PROVE Quiet'
  <2>1. PICK v \in BraceKind : HandleBraceExpressionParameterFinish!(v)
    BY <1>26 DEF HandleBraceExpressionParameterFinish
  <2>2. Calm BY <2>1, Calming
  <2> DEFINE ns    == IF Top.has_error
                      THEN AddLeafNode(nodes, "StructFieldUnknown", Top.token, TRUE)
                      ELSE AddTopNode(v.field, Top.token, FALSE)
             error == ListError("CloseCurlyBrace", Top.has_error)
             item  == ConsumeListToken("StructComma", "CloseCurlyBrace", ns)
             stack == ReturnErrorIf(error, Popped)
             e     == Entry(v.param, item.position, item.nodes)
             after == IF item.token_kind = "Comma" THEN Append(stack, e) ELSE stack
  <2>3. CheckedStep(ListElementEnds("CloseCurlyBrace"), item.nodes, after,
                    item.position, DiagnosedIf(error))
    BY <2>1
  <2>4. CleanTree(ns) BY <2>2, CleanTopNode DEF Calm
  <2> HIDE DEF ns
  <2>5. CleanTree(item.nodes) BY <2>4, CleanListItem
  <2>6. CleanEntry(e)
    <3>1. v.param \notin GroupStates BY DEF BraceKind
    <3> HIDE DEF GroupStates, item
    <3> QED BY <3>1, CleanNew
  <2>7. ~error => stack = Popped BY Unmarked
  <2>8. DiagnosedIf(error) = {} => ~error BY Undiagnosed
  <2> HIDE DEF error, item, stack, e
  <2>9. DiagnosedIf(error) = {} => CleanStack(after)
    BY <2>2, <2>6, <2>7, <2>8, CleanPushOne DEF Calm
  <2> HIDE DEF after
  <2> QED BY <2>2, <2>3, <2>5, <2>9, QuietChecked
<1>27. ASSUME HandleBraceExpressionFinish PROVE Quiet'
  <2>1. PICK v \in BraceKind : HandleBraceExpressionFinish!(v)
    BY <1>27 DEF HandleBraceExpressionFinish
  <2>2. Calm BY <2>1, Calming
  <2> QED BY <2>1, <2>2, CleanTopNode, QuietStep DEF Calm
<1> QED
  BY <1>1, <1>2, <1>3, <1>4, <1>5, <1>6, <1>7, <1>8, <1>9, <1>10, <1>11,
     <1>12, <1>13, <1>14, <1>15, <1>16, <1>17, <1>18, <1>19, <1>20, <1>21,
     <1>22, <1>23, <1>24, <1>25, <1>26, <1>27 DEF Expression

(* The handlers of statements. *)
LEMMA StatementQuiet ==
  ASSUME Quiet, diagnosed = {}, Statement
  PROVE  Quiet'
<1> USE DEF GroupStates, SquareStates, ParenStates, ChainStates
<1>1. ASSUME HandleStatement PROVE Quiet'
  <2>1. Calm BY <1>1, Calming DEF HandleStatement
  <2>2. ASSUME NEW v \in JumpKind,
               Step(ConsumedLeaf(v.start), Append(Popped, Here(v.state)), position + 1, {})
        PROVE  Quiet'
    <3>1. v.state \notin GroupStates BY DEF JumpKind
    <3>2. CleanEntry(Here(v.state)) BY <3>1, CleanNew
    <3> QED BY <2>1, <2>2, <3>2, CleanTopNode, CleanPushOne, QuietStep DEF Calm
  <2>3. CASE Step(nodes, Popped \o <<Here("StatementForFinish"), Here("StatementForHeader")>>,
                  position + 1, {})
    BY <2>1, <2>3, CleanNew, CleanPushTwo, QuietStep DEF Calm
  <2>4. CASE /\ PositionKind \in DOMAIN StatementState
             /\ Step(nodes, Append(Popped, Here(StatementState[PositionKind])), position, {})
    <3> DEFINE s == StatementState[PositionKind]
    <3>1. s \notin GroupStates BY <2>4 DEF StatementState
    <3> HIDE DEF s
    <3> QED BY <2>1, <2>4, <3>1, CleanNew, CleanPushOne, QuietStep DEF Calm, s
  <2>5. CASE Step(nodes, Popped \o <<Here("ExpressionStatementFinish"),
                    ExpressionEntry(ForExpressionStatement, position, nodes)>>, position, {})
    BY <2>1, <2>5, CleanNew, CleanExpression, CleanPushTwo, QuietStep DEF Calm
  <2> QED BY <1>1, <2>2, <2>3, <2>4, <2>5 DEF HandleStatement
<1>2. ASSUME HandleStatementKeywordFinish PROVE Quiet'
  BY <1>2, Calming, QuietFinish DEF HandleStatementKeywordFinish
<1>3. ASSUME HandleStatementReturn PROVE Quiet'
  <2>1. Calm BY <1>3, Calming DEF HandleStatementReturn
  <2> DEFINE ns == ConsumedLeaf("ReturnStatementStart")
             e  == TopAs("StatementReturnFinish")
             f  == Entry("Expression", position + 1, ns)
             stack == Popped \o (IF Kind(position + 1) = "Semi" THEN <<e>> ELSE <<e, f>>)
  <2>2. Step(ns, stack, position + 1, {}) BY <1>3 DEF HandleStatementReturn
  <2>3. CleanTree(ns) BY <2>1, CleanTopNode DEF Calm
  <2> HIDE DEF ns
  <2>4. CleanEntry(e) /\ CleanEntry(f) BY <2>1, CleanTop, CleanNew
  <2> HIDE DEF e, f
  <2>5. CleanStack(stack) BY <2>1, <2>4, CleanPushOne, CleanPushTwo DEF Calm
  <2> HIDE DEF stack
  <2> QED BY <2>1, <2>2, <2>3, <2>5, QuietStep
<1>4. ASSUME HandleStatementScopeLoop PROVE Quiet'
  <2>1. Calm BY <1>4, Calming DEF HandleStatementScopeLoop
  <2>2. CASE Step(nodes, ReturnErrorIf(Top.has_error, Popped), position, {})
    BY <2>1, <2>2, Unmarked, QuietStep DEF Calm
  <2>3. CASE Step(nodes, Append(state_stack, Here("Statement")), position, {})
    BY <2>1, <2>3, CleanNew, CleanPushOne, QuietStep DEF Calm
  <2> QED BY <1>4, <2>2, <2>3 DEF HandleStatementScopeLoop
<1>5. ASSUME HandleStatementForHeader PROVE Quiet'
  <2>1. Calm BY <1>5, Calming DEF HandleStatementForHeader
  <2> DEFINE open == ConsumeAndAddOpenParen(Top.token, "ForHeaderStart")
             t    == TopAs("StatementForHeaderIn")
             e    == [t EXCEPT !.token = open.token]
             f    == Entry("VarAsFor", open.position, open.nodes)
  <2>2. CASE Step(open.nodes, Popped \o <<e, f>>, open.position, open.diags)
    <3>1. CleanEntry(f) BY CleanNew
    <3>2. ASSUME open.diags = {} PROVE CleanTree(open.nodes) /\ CleanEntry(e)
      <4>1. CleanTree(open.nodes) /\ open.token = position /\ Kind(position) = "OpenParen"
        BY <2>1, <3>2, CleanOpen DEF PositionKind
      <4> HIDE DEF open
      <4>2. CleanEntry(e) BY <2>1, <4>1, CleanOpened
      <4> QED BY <4>1, <4>2
    <3> HIDE DEF open, e, f
    <3> QED BY <2>1, <2>2, <3>1, <3>2, CleanPushTwo, QuietStep DEF Calm
  <2>3. CASE \E ns, b, pos : Step(ns, b, pos, open.diags \union {open.position})
    <3> DEFINE d == open.diags \union {open.position}
    <3>1. d # {} OBVIOUS
    <3> HIDE DEF d
    <3> QED BY <2>1, <2>3, <3>1, QuietStep DEF d
  <2> QED BY <1>5, <2>2, <2>3 DEF HandleStatementForHeader
<1>6. ASSUME HandleStatementForHeaderIn PROVE Quiet'
  <2>1. Calm BY <1>6, Calming DEF HandleStatementForHeaderIn
  <2>2. Top.state = "StatementForHeaderIn" BY <1>6 DEF HandleStatementForHeaderIn, At
  <2>3. /\ CleanEntry(TopAs("StatementForHeaderFinish"))
        /\ CleanEntry(Here("Expression"))
    BY <2>1, <2>2, CleanGroup, CleanNew
  <2> QED BY <1>6, <2>1, <2>3, CleanPushTwo, QuietStep DEF HandleStatementForHeaderIn, Calm
<1>7. ASSUME HandleStatementForHeaderFinish PROVE Quiet'
  <2>1. Calm BY <1>7, Calming DEF HandleStatementForHeaderFinish
  <2>2. Top.state = "StatementForHeaderFinish" BY <1>7 DEF HandleStatementForHeaderFinish, At
  <2>3. Kind(Top.token) \in OpeningSymbols
    BY <2>1, <2>2 DEF Calm, TidyEntry, OpeningSymbols
  <2> DEFINE close == ConsumeAndAddCloseSymbol(Top.token, "ForHeader")
             e     == Entry("CodeBlock", close.position, close.nodes)
  <2>4. CheckedStep(close.ok, close.nodes, Append(Popped, e), close.position, close.diags)
    BY <1>7 DEF HandleStatementForHeaderFinish
  <2>5. close.diags = {} => CleanTree(close.nodes) BY <2>1, <2>3, CleanClose
  <2>6. CleanEntry(e) BY CleanNew
  <2> HIDE DEF close, e
  <2> QED BY <2>1, <2>4, <2>5, <2>6, CleanPushOne, QuietChecked DEF Calm
<1>8. ASSUME HandleStatementForFinish PROVE Quiet'
  <2>1. Calm BY <1>8, Calming DEF HandleStatementForFinish
  <2> QED BY <1>8, <2>1, CleanTopNode, QuietStep DEF HandleStatementForFinish, Calm
<1>9. ASSUME HandleConditionalStatement PROVE Quiet'
  <2>1. PICK v \in ConditionKind : HandleConditionalStatement!(v)
    BY <1>9 DEF HandleConditionalStatement
  <2>2. Calm BY <2>1, Calming
  <2>3. CleanEntry(Here(v.condition_finish)) /\ CleanEntry(Here(v.condition))
    <3>1. v.condition_finish \notin GroupStates /\ v.condition \notin GroupStates
      BY DEF ConditionKind
    <3> HIDE DEF GroupStates
    <3> QED BY <3>1, CleanNew
  <2> QED BY <2>1, <2>2, <2>3, CleanPushTwo, QuietStep DEF Calm
<1>10. ASSUME HandleParenCondition PROVE Quiet'
  <2>1. PICK v \in ConditionKind : HandleParenCondition!(v) BY <1>10 DEF HandleParenCondition
  <2>2. Calm BY <2>1, Calming
  <2> DEFINE open == ConsumeAndAddOpenParen(Top.token, v.start_node)
             t    == TopAs(v.paren_finish)
             e    == [t EXCEPT !.token = open.token]
             f    == Entry("Expression", open.position, open.nodes)
  <2>3. CASE /\ PositionKind = "OpenCurlyBrace"
             /\ \E ns, b, pos : Step(ns, b, pos, open.diags)
    <3>1. open.diags = {position} BY <2>3 DEF ConsumeAndAddOpenParen
    <3> HIDE DEF open
    <3> QED BY <2>2, <2>3, <3>1, NoisyStep
  <2>4. CASE Step(open.nodes, Popped \o <<e, f>>, open.position, open.diags)
    <3>1. CleanEntry(f) BY CleanNew
    <3>2. ASSUME open.diags = {} PROVE CleanTree(open.nodes) /\ CleanEntry(e)
      <4>1. CleanTree(open.nodes) /\ open.token = position /\ Kind(position) = "OpenParen"
        BY <2>2, <3>2, CleanOpen DEF PositionKind
      <4>2. v.paren_finish \in ParenStates BY DEF ConditionKind
      <4> HIDE DEF open, ParenStates
      <4>3. CleanEntry(e) BY <2>2, <4>1, <4>2, CleanOpened
      <4> QED BY <4>1, <4>3
    <3> HIDE DEF open, e, f
    <3> QED BY <2>2, <2>4, <3>1, <3>2, CleanPushTwo, QuietStep DEF Calm
  <2> QED BY <2>1, <2>3, <2>4
<1>11. ASSUME HandleParenConditionFinish PROVE Quiet'
  <2>1. PICK v \in ConditionKind : HandleParenConditionFinish!(v)
    BY <1>11 DEF HandleParenConditionFinish
  <2>2. Calm BY <2>1, Calming
  <2>3. Top.state \in ParenStates BY <2>1 DEF At, ConditionKind
  <2>4. Kind(Top.token) \in OpeningSymbols
    BY <2>2, <2>3 DEF Calm, TidyEntry, OpeningSymbols
  <2> QED BY <2>1, <2>2, <2>4, CleanClose, QuietChecked DEF Calm
<1>12. ASSUME HandleConditionFinish PROVE Quiet'
  <2>1. PICK v \in ConditionKind : HandleConditionFinish!(v) BY <1>12 DEF HandleConditionFinish
  <2>2. Calm BY <2>1, Calming
  <2>3. v.block_finish \notin GroupStates BY DEF ConditionKind
  <2>4. CleanEntry(TopAs(v.block_finish)) BY <2>2, <2>3, CleanTop
  <2> QED BY <2>1, <2>2, <2>4, CleanNew, CleanPushTwo, QuietStep DEF Calm
<1>13. ASSUME HandleStatementIfThenBlockFinish PROVE Quiet'
  <2>1. Calm BY <1>13, Calming DEF HandleStatementIfThenBlockFinish
  <2> DEFINE ns == ConsumedLeaf("IfStatementElse")
             e  == TopAs("StatementIfElseBlockFinish")
             s  == IF Kind(position + 1) = "If" THEN "StatementIf" ELSE "CodeBlock"
             f  == Entry(s, position + 1, ns)
  <2>2. CASE Step(ns, Popped \o <<e, f>>, position + 1, {})
    <3>1. CleanTree(ns) BY <2>1, CleanTopNode DEF Calm
    <3>2. CleanEntry(e) BY <2>1, CleanTop
    <3>3. CleanEntry(f) BY CleanNew
    <3> HIDE DEF ns, e, f
    <3> QED BY <2>1, <2>2, <3>1, <3>2, <3>3, CleanPushTwo, QuietStep DEF Calm
  <2>3. CASE Step(AddTopNode("IfStatement", Top.token, Top.has_error), Popped, position, {})
    BY <2>1, <2>3, CleanTopNode, QuietStep DEF Calm
  <2> QED BY <1>13, <2>2, <2>3 DEF HandleStatementIfThenBlockFinish
<1>14. ASSUME HandleStatementIfElseBlockFinish PROVE Quiet'
  <2>1. Calm BY <1>14, Calming DEF HandleStatementIfElseBlockFinish
  <2> QED BY <1>14, <2>1, CleanTopNode, QuietStep DEF HandleStatementIfElseBlockFinish, Calm
<1>15. ASSUME HandleStatementWhileBlockFinish PROVE Quiet'
  <2>1. Calm BY <1>15, Calming DEF HandleStatementWhileBlockFinish
  <2> QED BY <1>15, <2>1, CleanTopNode, QuietStep DEF HandleStatementWhileBlockFinish, Calm
<1>16. ASSUME HandleCodeBlock PROVE Quiet'
  <2>1. Calm BY <1>16, Calming DEF HandleCodeBlock
  <2> DEFINE ns == ConsumedLeaf("CodeBlockStart")
             e  == Here("CodeBlockFinish")
             f  == Entry("StatementScopeLoop", position + 1, ns)
  <2>2. CASE /\ PositionKind = "OpenCurlyBrace"
             /\ Step(ns, Popped \o <<e, f>>, position + 1, {})
    <3>1. CleanTree(ns) BY <2>1, CleanTopNode DEF Calm
    <3>2. CleanEntry(e)
      BY <2>2, EntryRecord
      DEF CleanEntry, TidyEntry, Here, Entry, StateStackEntry, PositionKind
    <3>3. CleanEntry(f) BY CleanNew
    <3> HIDE DEF ns, e, f
    <3> QED BY <2>1, <2>2, <3>1, <3>2, <3>3, CleanPushTwo, QuietStep DEF Calm
  <2>3. CASE \E ms, b : Step(ms, b, position, {position}) BY <2>1, <2>3, NoisyStep
  <2> QED BY <1>16, <2>2, <2>3 DEF HandleCodeBlock
<1>17. ASSUME HandleCodeBlockFinish PROVE Quiet'
  <2>1. Calm BY <1>17, Calming DEF HandleCodeBlockFinish
  <2>2. Kind(Top.token) = "OpenCurlyBrace"
    BY <1>17, <2>1 DEF HandleCodeBlockFinish, At, Calm, TidyEntry
  <2> QED BY <1>17, <2>1, <2>2, CleanTopNode, QuietStep DEF HandleCodeBlockFinish, Calm
<1> QED
  BY <1>1, <1>2, <1>3, <1>4, <1>5, <1>6, <1>7, <1>8, <1>9, <1>10, <1>11,
     <1>12, <1>13, <1>14, <1>15, <1>16, <1>17 DEF Statement

(* A handler never takes a diagnostic back. *)
LEMMA DiagnosticsStay ==
  ASSUME Declaration \/ Expression \/ Statement
  PROVE  diagnosed \subseteq diagnosed'
<1>1. ASSUME NEW ok, NEW ns, NEW stack, NEW pos, NEW diags,
             CheckedStep(ok, ns, stack, pos, diags)
      PROVE  diagnosed \subseteq diagnosed'
  BY <1>1 DEF CheckedStep
<1>2. ASSUME NEW ns, NEW stack, NEW pos, NEW diags, Step(ns, stack, pos, diags)
      PROVE  diagnosed \subseteq diagnosed'
  BY <1>1, <1>2 DEF Step
<1>3. ASSUME Declaration PROVE diagnosed \subseteq diagnosed'
  <2>1. CASE HandleDeclarationScopeLoop
    BY <1>2, <2>1 DEF HandleDeclarationScopeLoop, HandleUnrecognizedDeclaration
  <2>2. CASE HandlePackage
    <3>1. \E ns, stack, pos, diags : Step(ns, stack, pos, diags)
      BY <2>2 DEF HandlePackage, ExitPackage
    <3> QED BY <1>2, <3>1
  <2>3. CASE HandlePattern
    <3>1. PICK s \in PatternStates : HandlePattern!(s) BY <2>3 DEF HandlePattern
    <3>2. \E ns, stack, pos, diags : Step(ns, stack, pos, diags) BY <3>1
    <3> QED BY <1>2, <3>2
  <2>4. CASE \/ HandleDeclarationNameAndParams \/ HandleDeclarationNameAndParamsAfterName
             \/ HandleDeclarationNameAndParamsAfterDeduced \/ HandleParameterList
             \/ HandleParameter \/ HandleParameterFinish \/ HandleParameterListFinish
             \/ HandlePatternFinish
    BY <1>1, <1>2, <2>4
    DEF HandleDeclarationNameAndParams, HandleDeclarationNameAndParamsAfterName,
        HandleDeclarationNameAndParamsAfterDeduced, HandleParameterList, HandleParameter,
        HandleParameterFinish, HandleParameterListFinish, HandlePatternFinish
  <2>5. CASE \/ HandleFunctionIntroducer \/ HandleFunctionAfterParameters
             \/ HandleFunctionReturnTypeFinish \/ HandleFunctionSignatureFinish
             \/ HandleFunctionDefinitionFinish \/ HandleTypeIntroducer
             \/ HandleTypeAfterParams \/ HandleTypeDefinitionFinish
    BY <1>1, <1>2, <2>5
    DEF HandleFunctionIntroducer, HandleFunctionAfterParameters,
        HandleFunctionReturnTypeFinish, HandleFunctionSignatureFinish,
        HandleFunctionDefinitionFinish, HandleTypeIntroducer, HandleTypeAfterParams,
        HandleTypeDefinitionFinish, RecoverFromDeclarationError
  <2>6. CASE \/ HandleVar \/ HandleVarAfterPattern \/ HandleVarFinishAsSemicolon
             \/ HandleVarFinishAsFor \/ HandleLet \/ HandleLetAfterPattern
             \/ HandleLetFinish \/ HandleNamespace \/ HandleNamespaceFinish
    BY <1>1, <1>2, <2>6
    DEF HandleVar, HandleVarAfterPattern, HandleVarFinishAsSemicolon,
        HandleVarFinishAsFor, HandleLet, HandleLetAfterPattern, HandleLetFinish,
        HandleNamespace, HandleNamespaceFinish, FinishAtSemi, RecoverFromDeclarationError
  <2> QED BY <1>3, <2>1, <2>2, <2>3, <2>4, <2>5, <2>6 DEF Declaration
<1>4. ASSUME Expression PROVE diagnosed \subseteq diagnosed'
  BY <1>1, <1>2, <1>4
  DEF Expression, HandleExpression, HandleExpressionInPostfix, HandleExpressionInPostfixLoop,
      HandleExpressionLoop, HandleExpressionLoopForOperator,
      HandleIfExpressionFinishCondition, HandleIfExpressionFinishThen,
      HandleIfExpressionFinishElse, HandleIfExpressionFinish,
      HandleExpressionStatementFinish, HandlePeriodOrArrow, HandleCallExpression,
      HandleCallExpressionParameterFinish, HandleCallExpressionFinish,
      HandleIndexExpression, HandleIndexExpressionFinish, HandleArrayExpression,
      HandleArrayExpressionSemi, HandleArrayExpressionFinish, HandleParenExpression,
      HandleParenExpressionParameterFinish, HandleParenExpressionFinish,
      HandleBraceExpression, HandleBraceExpressionParameter,
      HandleBraceExpressionParameterAfterDesignator, HandleBraceExpressionParameterFinish,
      HandleBraceExpressionFinish, BraceParameterError
<1>5. ASSUME Statement PROVE diagnosed \subseteq diagnosed'
  BY <1>1, <1>2, <1>5
  DEF Statement, HandleStatement, HandleStatementKeywordFinish, HandleStatementReturn,
      HandleStatementScopeLoop, HandleStatementForHeader, HandleStatementForHeaderIn,
      HandleStatementForHeaderFinish, HandleStatementForFinish, HandleConditionalStatement,
      HandleParenCondition, HandleParenConditionFinish, HandleConditionFinish,
      HandleStatementIfThenBlockFinish, HandleStatementIfElseBlockFinish,
      HandleStatementWhileBlockFinish, HandleCodeBlock, HandleCodeBlockFinish, FinishAtSemi
<1> QED BY <1>3, <1>4, <1>5

(* Before the first handler there is nothing to mark. *)
LEMMA InitQuiet == Init => Quiet
<1> SUFFICES ASSUME Init PROVE Quiet OBVIOUS
<1> DEFINE scope == Entry("DeclarationScopeLoop", 2, nodes)
           pack  == Entry("Package", 2, nodes)
<1>1. IsSeq(<<>>) /\ Len(<<>>) = 0
  <2>1. <<>> \in Seq({}) OBVIOUS
  <2> QED BY <2>1 DEF IsSeq
<1>2. has_errors = FALSE BY DEF Init
<1>3. CleanTree(nodes)
  <2>1. CleanTree(<<>>) BY <1>1 DEF CleanTree
  <2>2. nodes = AddLeafNode(<<>>, "FileStart", 1, FALSE) BY DEF Init
  <2> QED BY <2>1, <2>2, CleanNodes
<1>4. CleanEntry(scope) /\ CleanEntry(pack)
  BY CleanNew DEF GroupStates, SquareStates, ParenStates, ChainStates
<1>5. \/ state_stack = <<scope>> \o <<pack>>
      \/ state_stack = <<scope>> \o <<>>
  BY DEF Init
<1> HIDE DEF scope, pack
<1>6. CleanStack(<<>>) BY <1>1 DEF CleanStack
<1>7. CleanStack(<<>> \o <<scope>>) BY <1>4, <1>6, CleanPushOne
<1>8. <<>> \o <<scope>> = <<scope>> OBVIOUS
<1>9. CleanStack(<<scope>>) BY <1>7, <1>8
<1>10. <<scope>> \o <<>> = <<scope>> BY <1>9, ConcatNone DEF CleanStack
<1>11. CleanStack(<<scope>> \o <<pack>>) BY <1>4, <1>9, CleanPushOne
<1> QED BY <1>2, <1>3, <1>5, <1>9, <1>10, <1>11 DEF Quiet

(* Every step keeps Quiet. *)
LEMMA NextQuiet == Quiet /\ [Next]_vars => Quiet'
<1> SUFFICES ASSUME Quiet, [Next]_vars PROVE Quiet' OBVIOUS
<1>1. CASE Declaration \/ Expression \/ Statement
  <2>1. CASE diagnosed = {}
    BY <1>1, <2>1, DeclarationQuiet, ExpressionQuiet, StatementQuiet
  <2>2. CASE diagnosed # {} BY <1>1, <2>2, DiagnosticsStay DEF Quiet
  <2> QED BY <2>1, <2>2
<1>2. CASE Finish
  <2>1. /\ nodes' = AddLeafNode(nodes, "FileEnd", position, FALSE)
        /\ tokens' = tokens /\ state_stack' = state_stack
        /\ has_errors' = has_errors /\ diagnosed' = diagnosed
    BY <1>2 DEF Finish
  <2>2. SUFFICES ASSUME diagnosed' = {} PROVE Quiet' BY DEF Quiet
  <2>3. has_errors = FALSE /\ CleanTree(nodes) /\ CleanStack(state_stack)
    BY <2>1, <2>2 DEF Quiet
  <2> DEFINE ns == AddLeafNode(nodes, "FileEnd", position, FALSE)
  <2>4. CleanTree(ns) BY <2>3, CleanNodes
  <2> HIDE DEF ns
  <2>5. CleanTree(nodes)' BY <2>1, <2>4 DEF CleanTree, ns
  <2>6. CleanStack(state_stack)' BY <2>1, <2>3 DEF CleanStack, TidyEntry, Kind
  <2> QED BY <2>1, <2>3, <2>5, <2>6 DEF Quiet
<1>3. CASE UNCHANGED vars
  <2>1. /\ tokens' = tokens /\ nodes' = nodes /\ state_stack' = state_stack
        /\ diagnosed' = diagnosed /\ has_errors' = has_errors
    BY <1>3 DEF vars
  <2> QED BY <2>1 DEF Quiet, CleanTree, CleanStack, TidyEntry, Kind
<1> QED BY <1>1, <1>2, <1>3 DEF Next, Terminated

(* For every token buffer: as long as the parser has diagnosed nothing, no *)
(* node and no state is marked, and every state that trusts its token to   *)
(* be an opening symbol has one.                                           *)
THEOREM QuietIsInvariant == Spec => []Quiet
<1>1. Init => Quiet BY InitQuiet
<1>2. Quiet /\ [Next]_vars => Quiet' BY NextQuiet
<1> QED BY <1>1, <1>2, PTL DEF Spec

(* For every token buffer, however malformed: a node or a state is only    *)
(* marked as erroneous once a diagnostic was emitted, also where a handler *)
(* marks in silence because something else must have spoken before.        *)
THEOREM ErrorsAreAlwaysDiagnosed == Spec => []ErrorsAreDiagnosed
<1>1. Quiet => ErrorsAreDiagnosed
  BY DEF Quiet, ErrorsAreDiagnosed, CleanStack, TidyEntry
<1> QED BY <1>1, QuietIsInvariant, PTL
=============================================================================
