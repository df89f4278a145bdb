------------------------------ MODULE MCTokens ------------------------------
(***************************************************************************)
(* Small token buffers for TLC: every balanced sequence over an alphabet   *)
(* between a fixed prefix and suffix, in a chosen layout.                  *)
(***************************************************************************)
EXTENDS TokenBuffer, FiniteSets

(* How many groups are open after the first n tokens, and after each one.  *)
Depth(kinds, n) ==
  Cardinality({ i \in 1 .. n : kinds[i] \in OpeningSymbols })
  - Cardinality({ i \in 1 .. n : kinds[i] \in ClosingSymbols })

Depths(kinds) == <<>> \o [ n \in 1 .. Len(kinds) |-> Depth(kinds, n) ]

(* The token that closes the opener i, 0 if there is none. *)
Match(depths, i) ==
  LET closers == { j \in i + 1 .. Len(depths) : depths[j] < depths[i] }
  IN  IF closers = {} THEN 0 ELSE CHOOSE j \in closers : \A k \in closers : j <= k

Balanced(kinds) ==
  LET depths == Depths(kinds) IN
  /\ depths = <<>> \/ depths[Len(kinds)] = 0
  /\ \A n \in 1 .. Len(kinds) :
       /\ depths[n] >= 0
       /\ kinds[n] \in OpeningSymbols =>
            LET m == Match(depths, n) IN m # 0 /\ kinds[m] = ClosingSymbol(kinds[n])

(* The sequences of at most n tokens of the alphabet. *)
Words(alphabet, n) == UNION { [1 .. m -> alphabet] : m \in 0 .. n }

(* The prefix and the suffix balance each other; a word may close a group  *)
(* of the prefix if it opens another for the suffix.                       *)
Sources(prefix, alphabet, n, suffix) ==
  { kinds \in { prefix \o w \o suffix :
                  w \in { v \in Words(alphabet, n) : Depth(v, Len(v)) = 0 } } :
      Balanced(kinds) }

(* One line, or a second line from token brk on that is indented or not;   *)
(* no white space after the tokens of tight (but at the line's end).       *)
Buffer(kinds, brk, indented, tight) ==
  LET all    == <<"StartOfFile">> \o kinds \o <<"EndOfFile">>
      depths == Depths(all)
  IN
  <<>> \o
  [ i \in 1 .. Len(all) |->
      [kind |-> all[i],
       line |-> IF i < brk THEN 1 ELSE 2,
       indent |-> IF i >= brk /\ indented THEN 3 ELSE 1,
       trailing_space |-> i + 1 = brk \/ i \notin tight,
       closing |-> IF all[i] \in OpeningSymbols THEN Match(depths, i) ELSE 0] ]

(* All on one line, with spaces. *)
OneLine(sources) == { Buffer(kinds, Len(kinds) + 3, FALSE, {}) : kinds \in sources }

(* With a line break before some token past the first lo. *)
TwoLines(sources, lo) ==
  UNION { { Buffer(kinds, b, indented, {}) :
              b \in lo .. Len(kinds) + 1, indented \in BOOLEAN } : kinds \in sources }

=============================================================================
