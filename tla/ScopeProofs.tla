---------------------------- MODULE ScopeProofs ----------------------------
(***************************************************************************)
(* Name lookup implements lexical scoping: the operations of Check::Context *)
(* on scope_stack_ and name_lookup_, in any order, for any names and       *)
(* entities, refine the stack of environments of ScopedEnvironment, and a  *)
(* lookup finds the innermost declaration.                                 *)
(***************************************************************************)
EXTENDS ScopeTable, FiniteSetTheorems, SequenceTheorems, WellFoundedInduction, TLAPS

CONSTANTS Names, Entities

VARIABLES scope_stack, name_lookup

tables == <<scope_stack, name_lookup>>

(* CheckParseTree begins with a PushScope for the file. *)
ScopesInit == scope_stack = PushScope(<<>>) /\ name_lookup = NoNames

Enters ==
  /\ scope_stack' = PushScope(scope_stack)
  /\ UNCHANGED name_lookup

Leaves ==
  /\ name_lookup' = PopNames(scope_stack, name_lookup)
  /\ scope_stack' = PopScope(scope_stack)

(* AddNameToLookup; a name the scope has already is only diagnosed. *)
Declares(name, target) ==
  /\ name \notin Innermost(scope_stack)
  /\ scope_stack' = DeclareName(scope_stack, name)
  /\ name_lookup' = AddName(name_lookup, name, target)

(* Nothing happens once the scope of the file is left. *)
ScopesNext ==
  /\ scope_stack # <<>>
  /\ \/ Enters
     \/ Leaves
     \/ \E name \in Names, target \in Entities : Declares(name, target)

ScopesSpec == ScopesInit /\ [][ScopesNext]_tables

Lexical == INSTANCE ScopedEnvironment WITH
             scopes <- Environment(scope_stack, name_lookup)

(* Every name is looked up in agreement with the environment. *)
LookupsAreLexical ==
  \A name, none : LookupUnqualified(name_lookup, name, none) = Lexical!Meaning(name, none)

-----------------------------------------------------------------------------
(* The two tables agree: a name has an entry exactly if some scope         *)
(* declares it, with one entity for each scope that does.                  *)
ScopesAgree(ss, nl) ==
  /\ ss \in Seq(SUBSET Names)
  /\ \A n : n \in DOMAIN nl <=> \E i \in 1 .. Len(ss) : n \in ss[i]
  /\ \A n \in DOMAIN nl :
       /\ nl[n] \in Seq(Entities)
       /\ Len(nl[n]) = Cardinality(Declaring(ss, Len(ss), n))
  /\ nl = [ n \in DOMAIN nl |-> nl[n] ]

Agreement == ScopesAgree(scope_stack, name_lookup)

-----------------------------------------------------------------------------
(* Helpers. *)

(* The scopes that declare a name are finitely many. *)
LEMMA DeclaringFinite ==
  ASSUME NEW ss, NEW i \in Nat, NEW n
  PROVE  /\ IsFiniteSet(Declaring(ss, i, n))
         /\ Cardinality(Declaring(ss, i, n)) \in Nat
PROOF
  <1>1. IsFiniteSet(1 .. i)
    BY FS_Interval
  <1>2. Declaring(ss, i, n) \in SUBSET (1 .. i)
    BY DEF Declaring
  <1> QED
    BY <1>1, <1>2, FS_Subset, FS_CardinalityType

(* More scopes, more that declare a name. *)
LEMMA DeclaringGrows ==
  ASSUME NEW ss, NEW i \in Nat, NEW j \in Nat, i <= j, NEW n
  PROVE  Cardinality(Declaring(ss, i, n)) <= Cardinality(Declaring(ss, j, n))
PROOF
  <1>1. Declaring(ss, i, n) \in SUBSET Declaring(ss, j, n)
    BY DEF Declaring
  <1> QED
    BY <1>1, DeclaringFinite, FS_Subset

(* One scope more counts if it declares the name. *)
LEMMA DeclaringNext ==
  ASSUME NEW ss, NEW i \in Nat, NEW n
  PROVE  Cardinality(Declaring(ss, i + 1, n)) =
           IF n \in ss[i + 1] THEN Cardinality(Declaring(ss, i, n)) + 1
           ELSE Cardinality(Declaring(ss, i, n))
PROOF
  <1>1. CASE n \in ss[i + 1]
    <2>1. Declaring(ss, i + 1, n) = Declaring(ss, i, n) \union {i + 1}
      BY <1>1 DEF Declaring
    <2>2. i + 1 \notin Declaring(ss, i, n)
      BY DEF Declaring
    <2> QED
      BY <1>1, <2>1, <2>2, DeclaringFinite, FS_AddElement
  <1>2. CASE n \notin ss[i + 1]
    <2>1. Declaring(ss, i + 1, n) = Declaring(ss, i, n)
      BY <1>2 DEF Declaring
    <2> QED
      BY <1>2, <2>1
  <1> QED
    BY <1>1, <1>2

(* A scope that declares a name is counted. *)
LEMMA DeclaringCounts ==
  ASSUME NEW ss, NEW i \in Nat, NEW n, NEW j \in 1 .. i, n \in ss[j]
  PROVE  Cardinality(Declaring(ss, i, n)) \in 1 .. i
PROOF
  <1>1. j \in Declaring(ss, i, n)
    BY DEF Declaring
  <1>2. Cardinality(Declaring(ss, i, n)) # 0
    BY <1>1, DeclaringFinite, FS_EmptySet
  <1>3. Cardinality(Declaring(ss, i, n)) <= i
    <2>1. Declaring(ss, i, n) \in SUBSET (1 .. i)
      BY DEF Declaring
    <2>2. /\ IsFiniteSet(1 .. i)
          /\ Cardinality(1 .. i) = IF 1 > i THEN 0 ELSE i - 1 + 1
      BY FS_Interval
    <2> QED
      BY <2>1, <2>2, FS_Subset
  <1> QED
    BY <1>2, <1>3, DeclaringFinite

(* Tables that agree up to a scope count the same declarations there. *)
LEMMA DeclaringSame ==
  ASSUME NEW ss, NEW tt, NEW i \in Nat, NEW n,
         \A j \in 1 .. i : n \in ss[j] <=> n \in tt[j]
  PROVE  Declaring(ss, i, n) = Declaring(tt, i, n)
  BY DEF Declaring

(* Of finitely many positions there is a last one. *)
LEMMA LastPosition ==
  ASSUME NEW len \in Nat, NEW S \in SUBSET (1 .. len), S # {}
  PROVE  \E i \in S : \A j \in S : j <= i
PROOF
  <1> DEFINE T == { len - i : i \in S }
  <1>1. T \subseteq Nat /\ T # {}
    OBVIOUS
  <1>2. PICK x \in T : \A y \in T : ~(<<y, x>> \in OpToRel(<, Nat))
    BY <1>1, NatLessThanWellFounded, WFMin, Zenon
  <1>3. PICK i \in S : x = len - i
    BY <1>2
  <1>4. ASSUME NEW j \in S PROVE j <= i
    <2>1. len - j \in T /\ len - j \in Nat /\ x \in Nat
      BY <1>1, <1>2
    <2>2. ~(len - j < x)
      <3>1. ASSUME len - j < x PROVE <<len - j, x>> \in OpToRel(<, Nat)
        BY <2>1, <3>1 DEF OpToRel
      <3> QED
        BY <3>1, <2>1, <1>2
    <2> QED
      BY <2>2, <1>3
  <1> QED
    BY <1>4

-----------------------------------------------------------------------------
(* The environment. *)

(* A function on 1 .. len is a sequence of that length. *)
LEMMA SequenceShape ==
  ASSUME NEW len \in Nat, NEW s, s = [ i \in 1 .. len |-> s[i] ]
  PROVE  /\ s \in Seq({ s[i] : i \in 1 .. len })
         /\ Len(s) = len
  OBVIOUS

(* The environment has a scope for each entry of scope_stack_. *)
LEMMA EnvironmentShape ==
  ASSUME NEW ss \in Seq(SUBSET Names), NEW nl
  PROVE  /\ \E S : Environment(ss, nl) \in Seq(S)
         /\ Len(Environment(ss, nl)) = Len(ss)
         /\ DOMAIN Environment(ss, nl) = 1 .. Len(ss)
         /\ \A i \in 1 .. Len(ss) :
              Environment(ss, nl)[i] =
                [ n \in ss[i] |-> nl[n][Cardinality(Declaring(ss, i, n))] ]
PROOF
  <1> DEFINE env == Environment(ss, nl)
  <1>1. DOMAIN ss = 1 .. Len(ss) /\ Len(ss) \in Nat
    OBVIOUS
  <1>2. env = [ i \in 1 .. Len(ss) |->
                  [ n \in ss[i] |-> nl[n][Cardinality(Declaring(ss, i, n))] ] ]
    BY <1>1 DEF Environment
  <1> HIDE DEF env
  <1>3. /\ DOMAIN env = 1 .. Len(ss)
        /\ \A i \in 1 .. Len(ss) :
             env[i] = [ n \in ss[i] |-> nl[n][Cardinality(Declaring(ss, i, n))] ]
        /\ env = [ i \in 1 .. Len(ss) |-> env[i] ]
    BY <1>2
  <1>4. env \in Seq({ env[i] : i \in 1 .. Len(ss) }) /\ Len(env) = Len(ss)
    BY <1>1, <1>3, SequenceShape
  <1> QED
    BY <1>3, <1>4 DEF env

(* Two environments have a scope in common if the scope declares the same  *)
(* names and each of them has the same entity in it.                       *)
LEMMA SameScope ==
  ASSUME NEW ss \in Seq(SUBSET Names), NEW nl, NEW tt \in Seq(SUBSET Names), NEW ml,
         NEW i \in 1 .. Len(ss), i <= Len(tt), ss[i] = tt[i],
         \A n \in ss[i] : nl[n][Cardinality(Declaring(ss, i, n))]
                            = ml[n][Cardinality(Declaring(tt, i, n))]
  PROVE  Environment(ss, nl)[i] = Environment(tt, ml)[i]
PROOF
  <1>1. i \in DOMAIN ss /\ i \in DOMAIN tt
    OBVIOUS
  <1>2. Environment(ss, nl)[i] = [ n \in ss[i] |-> nl[n][Cardinality(Declaring(ss, i, n))] ]
    BY <1>1 DEF Environment
  <1>3. Environment(tt, ml)[i] = [ n \in tt[i] |-> ml[n][Cardinality(Declaring(tt, i, n))] ]
    BY <1>1 DEF Environment
  <1> QED
    BY <1>2, <1>3

(* Sequences that begin with the same elements have the same beginning. *)
LEMMA SameBeginning ==
  ASSUME NEW s, NEW t, \E S : s \in Seq(S), \E T : t \in Seq(T), NEW len \in Nat,
         len <= Len(s), len <= Len(t), \A i \in 1 .. len : s[i] = t[i]
  PROVE  SubSeq(s, 1, len) = SubSeq(t, 1, len)
PROOF
  <1>1. PICK S : s \in Seq(S)
    OBVIOUS
  <1>2. PICK T : t \in Seq(T)
    OBVIOUS
  <1> QED
    BY <1>1, <1>2

-----------------------------------------------------------------------------
(* A scope is entered. *)

(* PushScope keeps the tables in agreement: the new scope declares nothing. *)
LEMMA EnterAgrees ==
  ASSUME NEW ss, NEW nl, ScopesAgree(ss, nl)
  PROVE  ScopesAgree(PushScope(ss), nl)
PROOF
  <1> DEFINE tt == PushScope(ss)
  <1>1. ss \in Seq(SUBSET Names) /\ Len(ss) \in Nat
    BY DEF ScopesAgree
  <1>2. /\ tt \in Seq(SUBSET Names)
        /\ Len(tt) = Len(ss) + 1
        /\ tt[Len(ss) + 1] = {}
        /\ \A i \in 1 .. Len(ss) : tt[i] = ss[i]
    BY <1>1 DEF PushScope
  <1> HIDE DEF tt
  <1>3. ASSUME NEW n
        PROVE  (\E i \in 1 .. Len(ss) : n \in ss[i]) <=> (\E i \in 1 .. Len(tt) : n \in tt[i])
    BY <1>1, <1>2
  <1>4. ASSUME NEW n
        PROVE  Cardinality(Declaring(tt, Len(tt), n)) = Cardinality(Declaring(ss, Len(ss), n))
    <2>1. Declaring(ss, Len(ss), n) = Declaring(tt, Len(ss), n)
      BY <1>1, <1>2, DeclaringSame
    <2>2. n \notin tt[Len(ss) + 1]
      BY <1>2
    <2>3. Cardinality(Declaring(tt, Len(ss) + 1, n)) = Cardinality(Declaring(tt, Len(ss), n))
      BY <1>1, <2>2, DeclaringNext
    <2> QED
      BY <1>2, <2>1, <2>3
  <1>5. ScopesAgree(tt, nl)
    BY <1>2, <1>3, <1>4 DEF ScopesAgree
  <1> QED
    BY <1>5 DEF tt

(* PushScope leaves every scope that was there with the same meanings. *)
LEMMA EnterIsLexical ==
  ASSUME NEW ss, NEW nl, ScopesAgree(ss, nl), NEW i \in 1 .. Len(ss)
  PROVE  Environment(PushScope(ss), nl)[i] = Environment(ss, nl)[i]
PROOF
  <1> DEFINE tt == PushScope(ss)
  <1>1. ss \in Seq(SUBSET Names) /\ Len(ss) \in Nat
    BY DEF ScopesAgree
  <1>2. /\ tt \in Seq(SUBSET Names)
        /\ Len(tt) = Len(ss) + 1
        /\ \A j \in 1 .. Len(ss) : tt[j] = ss[j]
    BY <1>1 DEF PushScope
  <1> HIDE DEF tt
  <1>3. \A n : Declaring(ss, i, n) = Declaring(tt, i, n)
    BY <1>1, <1>2, DeclaringSame
  <1>4. Environment(ss, nl)[i] = Environment(tt, nl)[i]
    BY <1>1, <1>2, <1>3, SameScope
  <1> QED
    BY <1>4 DEF tt

-----------------------------------------------------------------------------
(* A name is declared in the innermost scope. *)

(* DeclareName adds the name to the innermost scope and to no other. *)
LEMMA DeclareShape ==
  ASSUME NEW ss \in Seq(SUBSET Names), ss # <<>>, NEW name \in Names
  PROVE  LET tt == DeclareName(ss, name) IN
         /\ tt \in Seq(SUBSET Names)
         /\ Len(tt) = Len(ss)
         /\ Len(ss) \in Nat \ {0}
         /\ tt[Len(ss)] = ss[Len(ss)] \union {name}
         /\ \A i \in 1 .. Len(ss) : i # Len(ss) => tt[i] = ss[i]
PROOF
  <1> DEFINE tt == DeclareName(ss, name)
  <1>1. Len(ss) \in Nat \ {0}
    OBVIOUS
  <1>2. ss[Len(ss)] \in SUBSET Names
    BY <1>1
  <1>3. tt = [ss EXCEPT ![Len(ss)] = ss[Len(ss)] \union {name}]
    BY DEF DeclareName
  <1>4. ss[Len(ss)] \union {name} \in SUBSET Names
    BY <1>2
  <1> QED
    BY <1>1, <1>3, <1>4

(* AddNameToLookup keeps the tables in agreement. *)
LEMMA DeclareAgrees ==
  ASSUME NEW ss, NEW nl, ScopesAgree(ss, nl), ss # <<>>,
         NEW name \in Names, NEW target \in Entities, name \notin Innermost(ss)
  PROVE  ScopesAgree(DeclareName(ss, name), AddName(nl, name, target))
PROOF
  <1> DEFINE tt == DeclareName(ss, name)
             ml == AddName(nl, name, target)
  <1>1. ss \in Seq(SUBSET Names)
    BY DEF ScopesAgree
  <1>2. /\ tt \in Seq(SUBSET Names)
        /\ Len(tt) = Len(ss)
        /\ Len(ss) \in Nat \ {0}
        /\ tt[Len(ss)] = ss[Len(ss)] \union {name}
        /\ \A i \in 1 .. Len(ss) : i # Len(ss) => tt[i] = ss[i]
    BY <1>1, DeclareShape
  <1>3. /\ DOMAIN ml = DOMAIN nl \union {name}
        /\ ml = [ n \in DOMAIN ml |-> ml[n] ]
        /\ \A n \in DOMAIN nl : n # name => ml[n] = nl[n]
        /\ name \in DOMAIN nl => ml[name] = Append(nl[name], target)
        /\ name \notin DOMAIN nl => ml[name] = <<target>>
    BY DEF AddName
  <1> HIDE DEF tt, ml
  <1>4. ASSUME NEW n PROVE n \in DOMAIN ml <=> \E i \in 1 .. Len(tt) : n \in tt[i]
    <2>1. n \in DOMAIN nl <=> \E i \in 1 .. Len(ss) : n \in ss[i]
      BY DEF ScopesAgree
    <2>2. CASE n = name
      BY <1>2, <1>3, <2>2
    <2>3. CASE n # name
      <3>1. \A i \in 1 .. Len(ss) : n \in tt[i] <=> n \in ss[i]
        BY <1>2, <2>3
      <3> QED
        BY <1>2, <1>3, <2>1, <2>3, <3>1
    <2> QED
      BY <2>2, <2>3
  <1>5. ASSUME NEW n \in DOMAIN nl, n # name
        PROVE  ml[n] \in Seq(Entities) /\ Len(ml[n]) = Cardinality(Declaring(tt, Len(tt), n))
    <2>1. \A i \in 1 .. Len(ss) : n \in ss[i] <=> n \in tt[i]
      BY <1>2, <1>5
    <2>2. Declaring(ss, Len(ss), n) = Declaring(tt, Len(ss), n)
      BY <1>2, <2>1, DeclaringSame
    <2> QED
      BY <1>2, <1>3, <1>5, <2>2 DEF ScopesAgree
  <1>6. ml[name] \in Seq(Entities) /\ Len(ml[name]) = Cardinality(Declaring(tt, Len(tt), name))
    <2> DEFINE before == Len(ss) - 1
    <2>1. before \in Nat /\ before + 1 = Len(ss)
      BY <1>2
    <2> HIDE DEF before
    <2>2. Declaring(ss, before, name) = Declaring(tt, before, name)
      BY <1>2, <2>1, DeclaringSame
    <2>3. name \notin ss[before + 1] /\ name \in tt[before + 1]
      BY <1>2, <2>1 DEF Innermost
    <2>4. Cardinality(Declaring(ss, Len(ss), name)) = Cardinality(Declaring(ss, before, name))
      BY <2>1, <2>3, DeclaringNext
    <2>5. Cardinality(Declaring(tt, Len(tt), name)) = Cardinality(Declaring(ss, before, name)) + 1
      BY <1>2, <2>1, <2>2, <2>3, DeclaringNext
    <2>6. CASE name \in DOMAIN nl
      <3>1. nl[name] \in Seq(Entities) /\ Len(nl[name]) = Cardinality(Declaring(ss, Len(ss), name))
        BY <2>6 DEF ScopesAgree
      <3> QED
        BY <1>3, <2>4, <2>5, <2>6, <3>1
    <2>7. CASE name \notin DOMAIN nl
      <3>1. Declaring(ss, Len(ss), name) = {}
        BY <2>7 DEF ScopesAgree, Declaring
      <3>2. Cardinality(Declaring(ss, Len(ss), name)) = 0
        BY <3>1, FS_EmptySet
      <3>3. ml[name] = <<target>>
        BY <1>3, <2>7
      <3>4. Cardinality(Declaring(tt, Len(tt), name)) = 1
        BY <2>4, <2>5, <3>2
      <3> QED
        BY <3>3, <3>4
    <2> QED
      BY <2>6, <2>7
  <1>7. ScopesAgree(tt, ml)
    BY <1>2, <1>3, <1>4, <1>5, <1>6 DEF ScopesAgree
  <1> QED
    BY <1>7 DEF tt, ml

(* What the scopes declared already keeps its meaning. *)
LEMMA DeclareKeeps ==
  ASSUME NEW ss, NEW nl, ScopesAgree(ss, nl), ss # <<>>,
         NEW name \in Names, NEW target \in Entities, name \notin Innermost(ss),
         NEW i \in 1 .. Len(ss), NEW n \in ss[i]
  PROVE  LET tt == DeclareName(ss, name)
             ml == AddName(nl, name, target)
         IN  ml[n][Cardinality(Declaring(tt, i, n))] = nl[n][Cardinality(Declaring(ss, i, n))]
PROOF
  <1> DEFINE tt == DeclareName(ss, name)
             ml == AddName(nl, name, target)
  <1>1. ss \in Seq(SUBSET Names)
    BY DEF ScopesAgree
  <1>2. /\ Len(ss) \in Nat \ {0}
        /\ tt[Len(ss)] = ss[Len(ss)] \union {name}
        /\ \A j \in 1 .. Len(ss) : j # Len(ss) => tt[j] = ss[j]
    BY <1>1, DeclareShape
  <1>3. n \in DOMAIN nl
    BY DEF ScopesAgree
  <1>4. /\ n # name => ml[n] = nl[n]
        /\ n = name => ml[n] = Append(nl[n], target)
    BY <1>3 DEF AddName
  <1> HIDE DEF tt, ml
  <1>5. n = name => i # Len(ss)
    BY DEF Innermost
  <1>6. \A j \in 1 .. i : n \in ss[j] <=> n \in tt[j]
    BY <1>2, <1>5
  <1>7. Declaring(ss, i, n) = Declaring(tt, i, n)
    BY <1>2, <1>6, DeclaringSame
  <1>8. Cardinality(Declaring(ss, i, n)) \in 1 .. Len(nl[n])
    <2>1. Len(nl[n]) = Cardinality(Declaring(ss, Len(ss), n))
      BY <1>3 DEF ScopesAgree
    <2>2. Cardinality(Declaring(ss, i, n)) \in 1 .. i
      BY <1>2, DeclaringCounts
    <2>3. Cardinality(Declaring(ss, i, n)) <= Cardinality(Declaring(ss, Len(ss), n))
      BY <1>2, DeclaringGrows
    <2>4. Cardinality(Declaring(ss, Len(ss), n)) \in Nat
      BY <1>2, DeclaringFinite
    <2> QED
      BY <2>1, <2>2, <2>3, <2>4
  <1>9. nl[n] \in Seq(Entities)
    BY <1>3 DEF ScopesAgree
  <1>10. ml[n][Cardinality(Declaring(tt, i, n))] = nl[n][Cardinality(Declaring(ss, i, n))]
    BY <1>4, <1>7, <1>8, <1>9
  <1> QED
    BY <1>10 DEF tt, ml

-----------------------------------------------------------------------------
(* A scope is left. *)

(* PopScope drops the innermost scope and no other. *)
LEMMA LeaveShape ==
  ASSUME NEW ss \in Seq(SUBSET Names), ss # <<>>
  PROVE  LET tt == PopScope(ss) IN
         /\ Len(ss) - 1 \in Nat
         /\ Len(ss) \in Nat
         /\ tt \in Seq(SUBSET Names)
         /\ Len(tt) = Len(ss) - 1
         /\ \A i \in 1 .. Len(ss) - 1 : tt[i] = ss[i]
PROOF
  <1> DEFINE tt == SubSeq(ss, 1, Len(ss) - 1)
  <1>1. Len(ss) \in Nat /\ Len(ss) - 1 \in Nat
    OBVIOUS
  <1>2. tt \in Seq(SUBSET Names)
    BY <1>1
  <1>3. Len(tt) = Len(ss) - 1
    <2> DEFINE m == Len(ss) - 1
    <2>1. m \in Int /\ m \in Nat /\ \A i \in 1 .. m : ss[i] \in SUBSET Names
      BY <1>1
    <2>2. Len(tt) = IF 1 <= m THEN m - 1 + 1 ELSE 0
      BY <2>1, SubSeqProperties
    <2> HIDE DEF tt, m
    <2>3. Len(tt) = m
      BY <2>1, <2>2
    <2> QED
      BY <2>3 DEF m
  <1>4. \A i \in 1 .. Len(ss) - 1 : tt[i] = ss[i]
    BY <1>1
  <1> QED
    BY <1>1, <1>2, <1>3, <1>4 DEF PopScope

(* How many entities a name has, in and around the innermost scope. *)
LEMMA LeaveCounts ==
  ASSUME NEW ss, NEW nl, ScopesAgree(ss, nl), ss # <<>>, NEW n \in DOMAIN nl
  PROVE  /\ nl[n] \in Seq(Entities)
         /\ Len(nl[n]) = Cardinality(Declaring(PopScope(ss), Len(ss) - 1, n))
                           + (IF n \in Innermost(ss) THEN 1 ELSE 0)
         /\ Cardinality(Declaring(PopScope(ss), Len(ss) - 1, n)) \in Nat
PROOF
  <1> DEFINE tt == PopScope(ss)
             before == Len(ss) - 1
  <1>1. ss \in Seq(SUBSET Names)
    BY DEF ScopesAgree
  <1>2. before \in Nat /\ before + 1 = Len(ss) /\ \A i \in 1 .. before : tt[i] = ss[i]
    BY <1>1, LeaveShape
  <1>3. nl[n] \in Seq(Entities) /\ Len(nl[n]) = Cardinality(Declaring(ss, Len(ss), n))
    BY DEF ScopesAgree
  <1> HIDE DEF tt, before
  <1>4. Declaring(ss, before, n) = Declaring(tt, before, n)
    <2>1. \A i \in 1 .. before : n \in ss[i] <=> n \in tt[i]
      BY <1>2
    <2> QED
      BY <1>2, <2>1, DeclaringSame
  <1>5. Cardinality(Declaring(ss, before + 1, n)) =
          IF n \in ss[before + 1] THEN Cardinality(Declaring(ss, before, n)) + 1
          ELSE Cardinality(Declaring(ss, before, n))
    BY <1>2, DeclaringNext
  <1>6. Cardinality(Declaring(tt, before, n)) \in Nat
    BY <1>2, DeclaringFinite
  <1>7. /\ Len(nl[n]) = Cardinality(Declaring(tt, before, n))
                           + (IF n \in Innermost(ss) THEN 1 ELSE 0)
    BY <1>2, <1>3, <1>4, <1>5, <1>6 DEF Innermost
  <1> QED
    BY <1>3, <1>6, <1>7 DEF tt, before

(* What PopScope erases of name_lookup_, and what it leaves there. *)
LEMMA PopNamesShape ==
  ASSUME NEW ss, NEW nl
  PROVE  /\ \A n : n \in DOMAIN PopNames(ss, nl) <=>
                     n \in DOMAIN nl /\ ~(n \in Innermost(ss) /\ Len(nl[n]) = 1)
         /\ PopNames(ss, nl) = [ n \in DOMAIN PopNames(ss, nl) |-> PopNames(ss, nl)[n] ]
         /\ \A n \in DOMAIN PopNames(ss, nl) :
              PopNames(ss, nl)[n] =
                IF n \in Innermost(ss) THEN SubSeq(nl[n], 1, Len(nl[n]) - 1) ELSE nl[n]
PROOF
  <1> DEFINE ml == PopNames(ss, nl)
             erased == { n \in Innermost(ss) : Len(nl[n]) = 1 }
  <1>1. ml = [ n \in DOMAIN nl \ erased |->
                 IF n \in Innermost(ss) THEN SubSeq(nl[n], 1, Len(nl[n]) - 1) ELSE nl[n] ]
    BY DEF PopNames
  <1>2. \A n : n \in DOMAIN nl \ erased <=>
                 n \in DOMAIN nl /\ ~(n \in Innermost(ss) /\ Len(nl[n]) = 1)
    OBVIOUS
  <1> HIDE DEF ml, erased
  <1>3. DOMAIN ml = DOMAIN nl \ erased
    BY <1>1
  <1>4. \A n \in DOMAIN ml :
          ml[n] = IF n \in Innermost(ss) THEN SubSeq(nl[n], 1, Len(nl[n]) - 1) ELSE nl[n]
    BY <1>1, <1>3
  <1>5. ml = [ n \in DOMAIN ml |-> ml[n] ]
    BY <1>1
  <1> QED
    BY <1>2, <1>3, <1>4, <1>5 DEF ml

(* PopScope keeps the tables in agreement. *)
LEMMA LeaveAgrees ==
  ASSUME NEW ss, NEW nl, ScopesAgree(ss, nl), ss # <<>>
  PROVE  ScopesAgree(PopScope(ss), PopNames(ss, nl))
PROOF
  <1> DEFINE tt == PopScope(ss)
             ml == PopNames(ss, nl)
  <1>1. ss \in Seq(SUBSET Names) /\ nl = [ n \in DOMAIN nl |-> nl[n] ]
    BY DEF ScopesAgree
  <1>2. /\ Len(ss) - 1 \in Nat
        /\ Len(ss) \in Nat
        /\ tt \in Seq(SUBSET Names)
        /\ Len(tt) = Len(ss) - 1
        /\ \A i \in 1 .. Len(ss) - 1 : tt[i] = ss[i]
    BY <1>1, LeaveShape
  <1>3. \A n \in DOMAIN nl :
          /\ nl[n] \in Seq(Entities)
          /\ Len(nl[n]) = Cardinality(Declaring(tt, Len(ss) - 1, n))
                            + (IF n \in Innermost(ss) THEN 1 ELSE 0)
          /\ Cardinality(Declaring(tt, Len(ss) - 1, n)) \in Nat
    BY LeaveCounts
  <1>4. /\ \A n : n \in DOMAIN ml <=> n \in DOMAIN nl /\ ~(n \in Innermost(ss) /\ Len(nl[n]) = 1)
        /\ ml = [ n \in DOMAIN ml |-> ml[n] ]
        /\ \A n \in DOMAIN ml :
             ml[n] = IF n \in Innermost(ss) THEN SubSeq(nl[n], 1, Len(nl[n]) - 1) ELSE nl[n]
    BY PopNamesShape
  <1> HIDE DEF tt, ml
  <1>5. ASSUME NEW n \in DOMAIN ml
        PROVE  /\ ml[n] \in Seq(Entities)
               /\ Len(ml[n]) = Cardinality(Declaring(tt, Len(tt), n))
    <2>1. n \in DOMAIN nl
      BY <1>4
    <2>2. CASE n \in Innermost(ss)
      <3>1. Len(nl[n]) \in Nat /\ Len(nl[n]) - 1 = Cardinality(Declaring(tt, Len(tt), n))
        BY <1>2, <1>3, <2>1, <2>2
      <3>2. ml[n] = SubSeq(nl[n], 1, Len(nl[n]) - 1)
        BY <1>4, <2>2
      <3>4. Len(nl[n]) - 1 \in Nat
        BY <1>2, <1>3, <2>1, <3>1
      <3> QED
        BY <1>3, <2>1, <3>1, <3>2, <3>4
    <2>3. CASE n \notin Innermost(ss)
      BY <1>2, <1>3, <1>4, <2>1, <2>3
    <2> QED
      BY <2>2, <2>3
  <1>6. ASSUME NEW n PROVE n \in DOMAIN ml <=> \E i \in 1 .. Len(tt) : n \in tt[i]
    <2>1. ASSUME NEW i \in 1 .. Len(tt), n \in tt[i] PROVE n \in DOMAIN ml
      <3>1. n \in DOMAIN nl
        BY <1>2, <2>1 DEF ScopesAgree
      <3>2. Cardinality(Declaring(tt, Len(tt), n)) \in 1 .. Len(tt)
        BY <1>2, <2>1, DeclaringCounts
      <3>3. Cardinality(Declaring(tt, Len(tt), n)) \in Nat \ {0}
        BY <1>2, <3>2
      <3>4. n \in Innermost(ss) => Len(nl[n]) = Cardinality(Declaring(tt, Len(tt), n)) + 1
        BY <1>2, <1>3, <3>1
      <3>5. ASSUME n \in Innermost(ss), Len(nl[n]) = 1 PROVE FALSE
        BY <3>3, <3>4, <3>5
      <3> QED
        BY <1>4, <3>1, <3>5
    <2>2. ASSUME n \in DOMAIN ml PROVE \E i \in 1 .. Len(tt) : n \in tt[i]
      <3>1. Cardinality(Declaring(tt, Len(tt), n)) # 0
        <4>1. n \in DOMAIN nl
          BY <1>4, <2>2
        <4>2. PICK i \in 1 .. Len(ss) : n \in ss[i]
          BY <4>1 DEF ScopesAgree
        <4>3. CASE i = Len(ss)
          <5>1. n \in Innermost(ss) /\ Len(nl[n]) # 1
            BY <1>4, <2>2, <4>2, <4>3 DEF Innermost
          <5>2. Len(nl[n]) = Cardinality(Declaring(tt, Len(tt), n)) + 1
            BY <1>2, <1>3, <4>1, <5>1
          <5> QED
            BY <5>1, <5>2
        <4>4. CASE i # Len(ss)
          <5>1. i \in 1 .. Len(tt) /\ n \in tt[i]
            BY <1>2, <4>2, <4>4
          <5>2. Cardinality(Declaring(tt, Len(tt), n)) \in 1 .. Len(tt)
            BY <1>2, <5>1, DeclaringCounts
          <5> QED
            BY <1>2, <5>2
        <4> QED
          BY <4>3, <4>4
      <3>2. Declaring(tt, Len(tt), n) # {}
        BY <3>1, FS_EmptySet
      <3> QED
        BY <3>2 DEF Declaring
    <2> QED
      BY <2>1, <2>2
  <1>7. ScopesAgree(tt, ml)
    BY <1>2, <1>4, <1>5, <1>6 DEF ScopesAgree
  <1> QED
    BY <1>7 DEF tt, ml

(* The scopes around keep what they declare. *)
LEMMA LeaveKeeps ==
  ASSUME NEW ss, NEW nl, ScopesAgree(ss, nl), ss # <<>>, NEW i \in 1 .. Len(ss) - 1
  PROVE  Environment(PopScope(ss), PopNames(ss, nl))[i] = Environment(ss, nl)[i]
PROOF
  <1> DEFINE tt == PopScope(ss)
             ml == PopNames(ss, nl)
  <1>1. ss \in Seq(SUBSET Names)
    BY DEF ScopesAgree
  <1>2. /\ Len(ss) - 1 \in Nat
        /\ Len(ss) \in Nat
        /\ tt \in Seq(SUBSET Names)
        /\ Len(tt) = Len(ss) - 1
        /\ \A j \in 1 .. Len(ss) - 1 : tt[j] = ss[j]
    BY <1>1, LeaveShape
  <1>3. ScopesAgree(tt, ml)
    BY LeaveAgrees
  <1>4. \A n \in DOMAIN ml :
          ml[n] = IF n \in Innermost(ss) THEN SubSeq(nl[n], 1, Len(nl[n]) - 1) ELSE nl[n]
    BY PopNamesShape
  <1>5. \A n \in DOMAIN ml : n \in DOMAIN nl
    BY PopNamesShape
  <1> HIDE DEF tt, ml
  <1>6. ASSUME NEW n \in ss[i]
        PROVE  nl[n][Cardinality(Declaring(ss, i, n))] = ml[n][Cardinality(Declaring(tt, i, n))]
    <2>1. n \in DOMAIN ml
      BY <1>2, <1>3 DEF ScopesAgree
    <2>2. nl[n] \in Seq(Entities)
      BY <1>5, <2>1 DEF ScopesAgree
    <2>3. Declaring(ss, i, n) = Declaring(tt, i, n)
      <3>1. \A j \in 1 .. i : n \in ss[j] <=> n \in tt[j]
        BY <1>2
      <3> QED
        BY <1>2, <3>1, DeclaringSame
    <2> DEFINE k == Cardinality(Declaring(tt, i, n))
    <2>4. k \in Nat /\ k >= 1
      <3>1. i \in Nat /\ i \in 1 .. i /\ n \in tt[i]
        BY <1>2
      <3>2. k \in 1 .. i
        BY <3>1, DeclaringCounts
      <3> QED
        BY <3>1, <3>2
    <2>5. k <= Len(ml[n])
      <3>1. Len(ml[n]) = Cardinality(Declaring(tt, Len(tt), n))
        BY <1>3, <2>1 DEF ScopesAgree
      <3> QED
        BY <1>2, <3>1, DeclaringGrows
    <2> HIDE DEF k
    <2>6. nl[n][k] = ml[n][k]
      <3>1. CASE n \in Innermost(ss)
        <4> DEFINE m == Len(nl[n]) - 1
        <4>1. ml[n] = SubSeq(nl[n], 1, m)
          BY <1>4, <2>1, <3>1
        <4>2. m \in Int /\ \A j \in 1 .. m : nl[n][j] \in Entities
          BY <2>2
        <4>3. /\ Len(SubSeq(nl[n], 1, m)) = IF 1 <= m THEN m - 1 + 1 ELSE 0
              /\ \A j \in 1 .. m - 1 + 1 : SubSeq(nl[n], 1, m)[j] = nl[n][1 + j - 1]
          BY <4>2, SubSeqProperties
        <4> HIDE DEF m
        <4>4. k \in 1 .. m - 1 + 1
          BY <2>4, <2>5, <4>1, <4>2, <4>3
        <4>5. 1 + k - 1 = k
          BY <2>4
        <4>6. SubSeq(nl[n], 1, m)[k] = nl[n][1 + k - 1]
          BY <4>3, <4>4
        <4> QED
          BY <4>1, <4>5, <4>6
      <3>2. CASE n \notin Innermost(ss)
        BY <1>4, <2>1, <3>2
      <3> QED
        BY <3>1, <3>2
    <2> QED
      BY <2>3, <2>6 DEF k
  <1>7. i \in 1 .. Len(ss) /\ i <= Len(tt) /\ ss[i] = tt[i]
    BY <1>2
  <1>8. Environment(ss, nl)[i] = Environment(tt, ml)[i]
    BY <1>1, <1>2, <1>6, <1>7, SameScope
  <1> QED
    BY <1>8 DEF tt, ml

-----------------------------------------------------------------------------
(* Looking names up. *)

(* The last entity of a name is the one of the innermost scope declaring it. *)
LEMMA LookupFindsInnermost ==
  ASSUME NEW ss, NEW nl, ScopesAgree(ss, nl), NEW name \in DOMAIN nl,
         NEW i \in 1 .. Len(ss), name \in ss[i],
         \A j \in 1 .. Len(ss) : name \in ss[j] => j <= i
  PROVE  Environment(ss, nl)[i][name] = Innermost(nl[name])
PROOF
  <1>1. ss \in Seq(SUBSET Names) /\ Len(ss) \in Nat
    BY DEF ScopesAgree
  <1>2. Declaring(ss, i, name) = Declaring(ss, Len(ss), name)
    BY <1>1 DEF Declaring
  <1>3. Len(nl[name]) = Cardinality(Declaring(ss, i, name))
    BY <1>2 DEF ScopesAgree
  <1>4. Environment(ss, nl)[i] = [ n \in ss[i] |-> nl[n][Cardinality(Declaring(ss, i, n))] ]
    BY <1>1 DEF Environment
  <1>5. Environment(ss, nl)[i][name] = nl[name][Cardinality(Declaring(ss, i, name))]
    BY <1>4
  <1> QED
    BY <1>3, <1>5 DEF Innermost

-----------------------------------------------------------------------------
(* Every operation keeps the tables in agreement. *)

(* The tables agree when the scope of the file is pushed. *)
LEMMA InitAgrees == ScopesInit => Agreement
PROOF
  <1> SUFFICES ASSUME ScopesInit PROVE Agreement
    OBVIOUS
  <1>1. scope_stack = << {} >> /\ DOMAIN name_lookup = {} /\ name_lookup = NoNames
    BY DEF ScopesInit, PushScope, NoNames
  <1>2. scope_stack \in Seq(SUBSET Names) /\ Len(scope_stack) = 1 /\ scope_stack[1] = {}
    BY <1>1
  <1>3. name_lookup = [ n \in DOMAIN name_lookup |-> name_lookup[n] ]
    BY <1>1 DEF NoNames
  <1>4. \A n : ~(\E i \in 1 .. Len(scope_stack) : n \in scope_stack[i])
    BY <1>2
  <1> QED
    BY <1>1, <1>2, <1>3, <1>4 DEF Agreement, ScopesAgree

(* Every operation on the scopes keeps the tables in agreement. *)
LEMMA NextAgrees == Agreement /\ [ScopesNext]_tables => Agreement'
PROOF
  <1> SUFFICES ASSUME Agreement, [ScopesNext]_tables PROVE Agreement'
    OBVIOUS
  <1> USE DEF Agreement
  <1>1. CASE scope_stack # <<>> /\ Enters
    BY <1>1, EnterAgrees DEF Enters
  <1>2. CASE scope_stack # <<>> /\ Leaves
    BY <1>2, LeaveAgrees DEF Leaves
  <1>3. ASSUME scope_stack # <<>>, NEW name \in Names, NEW target \in Entities,
               Declares(name, target)
        PROVE  Agreement'
    BY <1>3, DeclareAgrees DEF Declares
  <1>4. CASE UNCHANGED tables
    BY <1>4 DEF tables
  <1> QED
    BY <1>1, <1>2, <1>3, <1>4 DEF ScopesNext

(* scope_stack_ and name_lookup_ always agree: each name has one entity    *)
(* for each open scope that declares it, and PopScope and LookupName never *)
(* meet a name without an entry (the CHECK of LookupName, Context.cc:109). *)
THEOREM TablesAlwaysAgree == ScopesSpec => []Agreement
  BY InitAgrees, NextAgrees, PTL DEF ScopesSpec

-----------------------------------------------------------------------------
(* The refinement. *)

(* PushScope opens a scope of the environment. *)
LEMMA EntersAsScopedEnvironment ==
  ASSUME Agreement, scope_stack # <<>>, Enters
  PROVE  Lexical!Enter
PROOF
  <1> DEFINE env  == Environment(scope_stack, name_lookup)
             env2 == Environment(scope_stack', name_lookup')
             len  == Len(scope_stack)
  <1>1. scope_stack \in Seq(SUBSET Names) /\ len \in Nat /\ len # 0
    BY DEF Agreement, ScopesAgree
  <1>2. scope_stack' = PushScope(scope_stack) /\ name_lookup' = name_lookup
    BY DEF Enters
  <1>3. scope_stack' \in Seq(SUBSET Names) /\ Len(scope_stack') = len + 1
    BY <1>1, <1>2 DEF PushScope
  <1>4. \A i \in 1 .. len : env2[i] = env[i]
    BY <1>2, EnterIsLexical DEF Agreement
  <1>5. Len(env) = len /\ \E S : env \in Seq(S)
    BY <1>1, EnvironmentShape
  <1>6. Len(env2) = len + 1 /\ \E S : env2 \in Seq(S)
    BY <1>3, EnvironmentShape
  <1> HIDE DEF env, env2, len
  <1>7. SubSeq(env2, 1, len - 1) = SubSeq(env, 1, len - 1)
    <2> DEFINE m == len - 1
    <2>1. m \in Nat /\ m <= Len(env) /\ m <= Len(env2) /\ \A i \in 1 .. m : env2[i] = env[i]
      BY <1>1, <1>4, <1>5, <1>6
    <2> HIDE DEF m
    <2>2. SubSeq(env2, 1, m) = SubSeq(env, 1, m)
      BY <1>5, <1>6, <2>1, SameBeginning
    <2> QED
      BY <2>2 DEF m
  <1>8. env2[len] = env[len]
    BY <1>1, <1>4
  <1> QED
    BY <1>1, <1>5, <1>6, <1>7, <1>8
    DEF Lexical!Enter, Lexical!Outer, Lexical!Extends, env, env2

(* PopScope leaves the innermost scope and changes nothing outside of it. *)
LEMMA LeavesAsScopedEnvironment ==
  ASSUME Agreement, scope_stack # <<>>, Leaves
  PROVE  Lexical!Leave
PROOF
  <1> DEFINE env  == Environment(scope_stack, name_lookup)
             env2 == Environment(scope_stack', name_lookup')
             m    == Len(scope_stack) - 1
  <1>1. scope_stack \in Seq(SUBSET Names) /\ m \in Nat /\ Len(scope_stack) = m + 1
    BY DEF Agreement, ScopesAgree
  <1>2. scope_stack' = PopScope(scope_stack) /\ name_lookup' = PopNames(scope_stack, name_lookup)
    BY DEF Leaves
  <1>3. scope_stack' \in Seq(SUBSET Names) /\ Len(scope_stack') = m
    BY <1>1, <1>2, LeaveShape
  <1>4. \A i \in 1 .. m : env2[i] = env[i]
    BY <1>2, LeaveKeeps DEF Agreement
  <1>5. Len(env) = m + 1 /\ \E S : env \in Seq(S)
    BY <1>1, EnvironmentShape
  <1>6. Len(env2) = m /\ \E S : env2 \in Seq(S)
    BY <1>3, EnvironmentShape
  <1> HIDE DEF env, env2, m
  <1>7. SubSeq(env2, 1, m) = SubSeq(env, 1, m)
    BY <1>1, <1>4, <1>5, <1>6, SameBeginning
  <1>8. SubSeq(env2, 1, m) = env2
    BY <1>6, SubSeqFull
  <1>9. Len(env) - 1 = m
    BY <1>1, <1>5
  <1> QED
    BY <1>7, <1>8, <1>9 DEF Lexical!Leave, Lexical!Outer, env, env2

(* AddNameToLookup declares a name in the innermost scope of the environment. *)
LEMMA DeclaresAsScopedEnvironment ==
  ASSUME Agreement, scope_stack # <<>>,
         NEW name \in Names, NEW target \in Entities, Declares(name, target)
  PROVE  Lexical!Declare
PROOF
  <1> DEFINE env  == Environment(scope_stack, name_lookup)
             env2 == Environment(scope_stack', name_lookup')
             len  == Len(scope_stack)
  <1>1. scope_stack \in Seq(SUBSET Names)
    BY DEF Agreement, ScopesAgree
  <1>2. /\ scope_stack' = DeclareName(scope_stack, name)
        /\ name_lookup' = AddName(name_lookup, name, target)
        /\ name \notin Innermost(scope_stack)
    BY DEF Declares
  <1>3. /\ scope_stack' \in Seq(SUBSET Names)
        /\ Len(scope_stack') = len
        /\ len \in Nat \ {0}
        /\ scope_stack'[len] = scope_stack[len] \union {name}
        /\ \A i \in 1 .. len : i # len => scope_stack'[i] = scope_stack[i]
    BY <1>1, <1>2, DeclareShape
  <1>4. \A i \in 1 .. len : \A n \in scope_stack[i] :
          name_lookup[n][Cardinality(Declaring(scope_stack, i, n))]
            = name_lookup'[n][Cardinality(Declaring(scope_stack', i, n))]
    BY <1>2, DeclareKeeps DEF Agreement
  <1>5. \A i \in 1 .. len : i # len => env[i] = env2[i]
    BY <1>1, <1>3, <1>4, SameScope
  <1>6. /\ env[len] = [ n \in scope_stack[len] |->
                          name_lookup[n][Cardinality(Declaring(scope_stack, len, n))] ]
        /\ env2[len] = [ n \in scope_stack'[len] |->
                           name_lookup'[n][Cardinality(Declaring(scope_stack', len, n))] ]
    <2>1. len \in DOMAIN scope_stack /\ len \in DOMAIN scope_stack'
      BY <1>1, <1>3
    <2> QED
      BY <2>1 DEF Environment
  <1>7. Len(env) = len /\ \E S : env \in Seq(S)
    BY <1>1, EnvironmentShape
  <1>8. Len(env2) = len /\ \E S : env2 \in Seq(S)
    BY <1>3, EnvironmentShape
  <1> HIDE DEF env, env2, len
  <1>9. /\ DOMAIN env[len] \subseteq DOMAIN env2[len]
        /\ \A n \in DOMAIN env[len] : env2[len][n] = env[len][n]
    BY <1>3, <1>4, <1>6
  <1>10. SubSeq(env2, 1, len - 1) = SubSeq(env, 1, len - 1)
    <2> DEFINE m == len - 1
    <2>1. m \in Nat /\ m <= Len(env) /\ m <= Len(env2) /\ \A i \in 1 .. m : env2[i] = env[i]
      BY <1>3, <1>5, <1>7, <1>8
    <2> HIDE DEF m
    <2>2. SubSeq(env2, 1, m) = SubSeq(env, 1, m)
      BY <1>7, <1>8, <2>1, SameBeginning
    <2> QED
      BY <2>2 DEF m
  <1> QED
    BY <1>7, <1>8, <1>9, <1>10
    DEF Lexical!Declare, Lexical!Outer, Lexical!Extends, env, env2

(* What the checker does to its two tables is lexical scoping: in any      *)
(* order of PushScope, PopScope and AddNameToLookup, a name is only        *)
(* declared in the innermost scope, leaving a scope gives every name the   *)
(* meaning it had around it, and nothing else changes what a name means.   *)
THEOREM ScopeTableImplementsScopes == ScopesSpec => Lexical!EnvironmentSpec
PROOF
  <1> DEFINE env == Environment(scope_stack, name_lookup)
  <1>1. ScopesInit => Lexical!EnvironmentInit
    <2> SUFFICES ASSUME ScopesInit PROVE Lexical!EnvironmentInit
      OBVIOUS
    <2>1. scope_stack \in Seq(SUBSET Names) /\ Len(scope_stack) = 1 /\ scope_stack[1] = {}
      BY DEF ScopesInit, PushScope
    <2>2. Len(env) = 1
      BY <2>1, EnvironmentShape
    <2>3. 1 \in DOMAIN scope_stack
      BY <2>1
    <2>4. DOMAIN env[1] = {}
      BY <2>1, <2>3 DEF Environment
    <2> QED
      BY <2>2, <2>4 DEF Lexical!EnvironmentInit
  <1>2. Agreement /\ [ScopesNext]_tables => [Lexical!EnvironmentNext]_env
    <2> SUFFICES ASSUME Agreement, [ScopesNext]_tables PROVE [Lexical!EnvironmentNext]_env
      OBVIOUS
    <2>1. CASE UNCHANGED tables
      BY <2>1 DEF tables
    <2>2. ASSUME ScopesNext PROVE Lexical!EnvironmentNext
      <3>1. Len(env) > 0
        <4>1. scope_stack \in Seq(SUBSET Names) /\ scope_stack # <<>>
          BY <2>2 DEF Agreement, ScopesAgree, ScopesNext
        <4>2. Len(env) = Len(scope_stack)
          BY <4>1, EnvironmentShape
        <4> QED
          BY <4>1, <4>2
      <3>2. Lexical!Declare \/ Lexical!Enter \/ Lexical!Leave
        BY <2>2, EntersAsScopedEnvironment, LeavesAsScopedEnvironment,
           DeclaresAsScopedEnvironment DEF ScopesNext
      <3> QED
        BY <3>1, <3>2 DEF Lexical!EnvironmentNext
    <2> QED
      BY <2>1, <2>2
  <1> QED
    BY <1>1, <1>2, TablesAlwaysAgree, PTL DEF ScopesSpec, Lexical!EnvironmentSpec

(* Where the tables agree, LookupName gives a name its lexical meaning. *)
LEMMA AgreementGivesMeaning ==
  ASSUME Agreement, NEW name, NEW none
  PROVE  LookupUnqualified(name_lookup, name, none) = Lexical!Meaning(name, none)
PROOF
  <1> DEFINE env == Environment(scope_stack, name_lookup)
             declaring == { i \in DOMAIN env : name \in DOMAIN env[i] }
  <1>1. scope_stack \in Seq(SUBSET Names) /\ Len(scope_stack) \in Nat
    BY DEF Agreement, ScopesAgree
  <1>2. DOMAIN env = 1 .. Len(scope_stack)
    BY <1>1 DEF Environment
  <1>3. \A i \in 1 .. Len(scope_stack) : DOMAIN env[i] = scope_stack[i]
    BY <1>1 DEF Environment
  <1>4. name \in DOMAIN name_lookup <=> \E i \in 1 .. Len(scope_stack) : name \in scope_stack[i]
    BY DEF Agreement, ScopesAgree
  <1>5. CASE name \notin DOMAIN name_lookup
    <2>1. declaring = {}
      BY <1>2, <1>3, <1>4, <1>5
    <2> QED
      BY <1>5, <2>1 DEF LookupUnqualified, Lexical!Meaning
  <1>6. CASE name \in DOMAIN name_lookup
    <2>1. declaring \in SUBSET (1 .. Len(scope_stack)) /\ declaring # {}
      BY <1>2, <1>3, <1>4, <1>6
    <2> DEFINE i == CHOOSE i \in declaring : \A j \in declaring : j <= i
    <2>2. i \in declaring /\ \A j \in declaring : j <= i
      <3>1. \E k \in declaring : \A j \in declaring : j <= k
        BY <1>1, <2>1, LastPosition
      <3> QED
        BY <3>1
    <2>3. Lexical!Meaning(name, none) = env[i][name]
      BY <2>1 DEF Lexical!Meaning
    <2> HIDE DEF i
    <2>4. i \in 1 .. Len(scope_stack) /\ name \in scope_stack[i]
      BY <1>2, <1>3, <2>2
    <2>5. \A j \in 1 .. Len(scope_stack) : name \in scope_stack[j] => j <= i
      BY <1>2, <1>3, <2>2
    <2>6. env[i][name] = Innermost(name_lookup[name])
      BY <1>6, <2>4, <2>5, LookupFindsInnermost DEF Agreement
    <2> QED
      BY <1>6, <2>3, <2>6 DEF LookupUnqualified
  <1> QED
    BY <1>5, <1>6

(* LookupName without a name scope finds the entity of the innermost scope *)
(* that declares the name, and fails only if none does, at every moment.   *)
THEOREM LookupsAreAlwaysLexical == ScopesSpec => []LookupsAreLexical
PROOF
  <1>1. Agreement => LookupsAreLexical
    BY AgreementGivesMeaning DEF LookupsAreLexical
  <1> QED
    BY <1>1, TablesAlwaysAgree, PTL

=============================================================================
