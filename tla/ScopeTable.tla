----------------------------- MODULE ScopeTable -----------------------------
(***************************************************************************)
(* The names in scope, as Check::Context keeps them: for each lexical      *)
(* scope the set of the names it declares (scope_stack_), and for each     *)
(* name the entities it means, the innermost one last (name_lookup_).  A   *)
(* name that means nothing has no entry.                                   *)
(***************************************************************************)
EXTENDS Integers, Sequences, FiniteSets

NoNames == [ n \in {} |-> <<>> ]

Innermost(stack) == stack[Len(stack)]

PushScope(scope_stack) == Append(scope_stack, {})

(* Mutant: a name keeps its entry, with nothing in it. *)
PopNamesKeepingThem(scope_stack, name_lookup) ==
  [ n \in DOMAIN name_lookup |->
      IF n \in Innermost(scope_stack)
      THEN SubSeq(name_lookup[n], 1, Len(name_lookup[n]) - 1)
      ELSE name_lookup[n] ]

(* name_lookup_ after PopScope: the entries of the scope's names lose      *)
(* their last entity, and are erased when that was the only one.           *)
PopNames(scope_stack, name_lookup) ==
  LET names  == Innermost(scope_stack)
      erased == { n \in names : Len(name_lookup[n]) = 1 }
  IN  [ n \in DOMAIN name_lookup \ erased |->
          IF n \in names
          THEN SubSeq(name_lookup[n], 1, Len(name_lookup[n]) - 1)
          ELSE name_lookup[n] ]

PopScope(scope_stack) == SubSeq(scope_stack, 1, Len(scope_stack) - 1)

(* AddNameToLookup for a name the innermost scope does not declare yet. *)
DeclareName(scope_stack, name) ==
  [scope_stack EXCEPT ![Len(scope_stack)] = @ \union {name}]

(* Mutant: the entity is put outside of the ones the name has. *)
AddNameOutside(name_lookup, name, target) ==
  [ n \in DOMAIN name_lookup \union {name} |->
      IF n # name THEN name_lookup[n]
      ELSE IF n \in DOMAIN name_lookup THEN <<target>> \o name_lookup[n]
      ELSE <<target>> ]

AddName(name_lookup, name, target) ==
  [ n \in DOMAIN name_lookup \union {name} |->
      IF n # name THEN name_lookup[n]
      ELSE IF n \in DOMAIN name_lookup THEN Append(name_lookup[n], target)
      ELSE <<target>> ]

(* LookupName without a name scope; none when it is not found. *)
LookupUnqualified(name_lookup, name, none) ==
  IF name \in DOMAIN name_lookup THEN Innermost(name_lookup[name]) ELSE none

(* The scopes up to i that declare a name. *)
Declaring(scope_stack, i, name) == { j \in 1 .. i : name \in scope_stack[j] }

(* The environment the two tables stand for: for each scope what its names *)
(* mean.  A name's k-th entity belongs to the k-th scope that declares it. *)
Environment(scope_stack, name_lookup) ==
  [ i \in DOMAIN scope_stack |->
      [ n \in scope_stack[i] |-> name_lookup[n][Cardinality(Declaring(scope_stack, i, n))] ] ]

=============================================================================
