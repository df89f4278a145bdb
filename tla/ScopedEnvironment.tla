------------------------- MODULE ScopedEnvironment -------------------------
(***************************************************************************)
(* Lexical scoping, as a user of the language sees it: a stack of scopes,  *)
(* each a mapping from the names it declares to what they mean.  Inner     *)
(* scopes come and go; nothing that happens in them changes what a name    *)
(* means outside.                                                          *)
(***************************************************************************)
EXTENDS Naturals, Sequences

VARIABLE scopes

Outer == SubSeq(scopes, 1, Len(scopes) - 1)

(* scope with more names; what it declares already keeps its meaning. *)
Extends(scope, more) ==
  /\ DOMAIN scope \subseteq DOMAIN more
  /\ \A n \in DOMAIN scope : more[n] = scope[n]

EnvironmentInit == Len(scopes) = 1 /\ DOMAIN scopes[1] = {}

(* Names are declared in the innermost scope. *)
Declare ==
  /\ Len(scopes') = Len(scopes)
  /\ SubSeq(scopes', 1, Len(scopes) - 1) = Outer
  /\ Extends(scopes[Len(scopes)], scopes'[Len(scopes)])

(* A scope is opened, with the names it begins with; what the scope is for *)
(* may be declared around it in the same step.                             *)
Enter ==
  /\ Len(scopes') = Len(scopes) + 1
  /\ SubSeq(scopes', 1, Len(scopes) - 1) = Outer
  /\ Extends(scopes[Len(scopes)], scopes'[Len(scopes)])

Leave == scopes' = Outer

EnvironmentNext == Len(scopes) > 0 /\ (Declare \/ Enter \/ Leave)

EnvironmentSpec == EnvironmentInit /\ [][EnvironmentNext]_scopes

(* What a name means: its entity in the innermost scope that declares it. *)
Meaning(name, none) ==
  LET declaring == { i \in DOMAIN scopes : name \in DOMAIN scopes[i] }
  IN  IF declaring = {} THEN none
      ELSE scopes[CHOOSE i \in declaring : \A j \in declaring : j <= i][name]

=============================================================================
