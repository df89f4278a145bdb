----------------------------- MODULE LexerProofs ----------------------------
(***************************************************************************)
(* The buffer that the lexer makes of any source text has its groups       *)
(* matched and nested.  First what adding a token does to the groups of    *)
(* any sequence of tokens, then the inductive invariant.                   *)
(***************************************************************************)
EXTENDS LexerProperties, SequenceTheorems, TLAPS

(* Tokens whose fields are anything in A: which values lines, columns and  *)
(* lengths take is of no concern to the groups.                            *)
Infos(A) ==
  [kind : A, has_trailing_space : A, is_recovery : A, token_line : A,
   column : A, value : A]

(* Setting one field of one token leaves the rest alone. *)
LEMMA SetValue ==
  ASSUME NEW A, NEW tokens \in Seq(Infos(A)), NEW g \in 1 .. Len(tokens), NEW n \in A
  PROVE  LET set == [tokens EXCEPT ![g].value = n] IN
         /\ set \in Seq(Infos(A)) /\ Len(set) = Len(tokens)
         /\ \A i \in 1 .. Len(tokens) : set[i].kind = tokens[i].kind
         /\ \A i \in 1 .. Len(tokens) : i # g => set[i] = tokens[i]
         /\ set[g].value = n
<1> DEFINE r   == [tokens[g] EXCEPT !.value = n]
           set == [tokens EXCEPT ![g] = r]
<1>1. tokens[g] \in Infos(A)
  OBVIOUS
<1>2. r \in Infos(A) /\ r.kind = tokens[g].kind /\ r.value = n
  BY <1>1 DEF Infos
<1>3. [tokens EXCEPT ![g].value = n] = set
  BY Zenon
<1> HIDE DEF r
<1>4. /\ set \in Seq(Infos(A)) /\ Len(set) = Len(tokens) /\ set[g] = r
      /\ \A i \in 1 .. Len(tokens) : i # g => set[i] = tokens[i]
  BY <1>2
<1> HIDE DEF set
<1> QED BY <1>2, <1>3, <1>4

(* Noting white space (NoteWhitespace) changes no kind and no value. *)
LEMMA SetSpace ==
  ASSUME NEW A, NEW tokens \in Seq(Infos(A)), TRUE \in A
  PROVE  /\ Spaced(tokens) \in Seq(Infos(A)) /\ Len(Spaced(tokens)) = Len(tokens)
         /\ \A i \in 1 .. Len(tokens) :
              /\ Spaced(tokens)[i].kind = tokens[i].kind
              /\ Spaced(tokens)[i].value = tokens[i].value
<1>1. CASE tokens = <<>>
  BY <1>1 DEF Spaced
<1>2. CASE tokens # <<>>
  <2> DEFINE g   == Len(tokens)
             r   == [tokens[g] EXCEPT !.has_trailing_space = TRUE]
             set == [tokens EXCEPT ![g] = r]
  <2>1. g \in 1 .. Len(tokens) /\ tokens[g] \in Infos(A)
    BY <1>2
  <2>2. r \in Infos(A) /\ r.kind = tokens[g].kind /\ r.value = tokens[g].value
    BY <2>1 DEF Infos
  <2>3. Spaced(tokens) = set
    BY <1>2, Zenon DEF Spaced
  <2> HIDE DEF r
  <2>4. /\ set \in Seq(Infos(A)) /\ Len(set) = Len(tokens) /\ set[g] = r
        /\ \A i \in 1 .. Len(tokens) : i # g => set[i] = tokens[i]
    BY <2>1, <2>2
  <2> HIDE DEF set, g
  <2> QED BY <2>1, <2>2, <2>3, <2>4
<1> QED BY <1>1, <1>2

(* A token that is no group symbol changes no group. *)
LEMMA PlainToken ==
  ASSUME NEW A, NEW tokens \in Seq(Infos(A)), NEW open \in Seq(Nat),
         NEW token \in Infos(A), GroupsOK(tokens, open),
         token.kind \notin OpeningSymbols \union ClosingSymbols
  PROVE  GroupsOK(Append(tokens, token), open)
<1> DEFINE new == Append(tokens, token)
<1>1. /\ Len(new) = Len(tokens) + 1 /\ Len(tokens) \in Nat
      /\ \A i \in 1 .. Len(tokens) : new[i] = tokens[i]
      /\ new[Len(tokens) + 1] = token
  OBVIOUS
<1> HIDE DEF new
<1>2. OpenAreOpening(new, open)
  BY <1>1 DEF GroupsOK, OpenAreOpening
<1>3. ClosedHaveClosing(new, open)
  BY <1>1 DEF GroupsOK, ClosedHaveClosing, IsOpening
<1>4. ClosingHaveOpening(new, open)
  <2> SUFFICES ASSUME NEW i \in 1 .. Len(new), IsClosing(new[i])
               PROVE  /\ new[i].value \in 1 .. (i - 1)
                      /\ IsOpening(new[new[i].value]) /\ ~IsOpen(new[i].value, open)
                      /\ new[new[i].value].value = i
    BY DEF ClosingHaveOpening
  <2>1. i \in 1 .. Len(tokens) /\ new[i] = tokens[i]
    BY <1>1 DEF IsClosing
  <2>2. /\ tokens[i].value \in 1 .. (i - 1)
        /\ IsOpening(tokens[tokens[i].value]) /\ ~IsOpen(tokens[i].value, open)
        /\ tokens[tokens[i].value].value = i
    BY <2>1 DEF GroupsOK, ClosingHaveOpening
  <2>3. new[tokens[i].value] = tokens[tokens[i].value]
    BY <1>1, <2>1, <2>2
  <2> QED BY <2>1, <2>2, <2>3
<1>5. GroupsNest(new, open)
  BY <1>1 DEF GroupsOK, GroupsNest, IsOpening
<1> QED BY <1>2, <1>3, <1>4, <1>5 DEF GroupsOK, new

(* An opening token is open, innermost. *)
LEMMA OpeningToken ==
  ASSUME NEW A, NEW tokens \in Seq(Infos(A)), NEW open \in Seq(Nat),
         NEW token \in Infos(A), GroupsOK(tokens, open),
         token.kind \in OpeningSymbols
  PROVE  GroupsOK(Append(tokens, token), Append(open, Len(tokens) + 1))
<1> DEFINE new == Append(tokens, token)
           now == Append(open, Len(tokens) + 1)
<1>1. /\ Len(new) = Len(tokens) + 1 /\ Len(tokens) \in Nat
      /\ \A i \in 1 .. Len(tokens) : new[i] = tokens[i]
      /\ new[Len(tokens) + 1] = token
  OBVIOUS
<1>2. /\ Len(now) = Len(open) + 1 /\ Len(open) \in Nat
      /\ \A k \in 1 .. Len(open) : now[k] = open[k]
      /\ now[Len(open) + 1] = Len(tokens) + 1
  BY <1>1
<1> HIDE DEF new, now
<1>3. token.kind \notin ClosingSymbols
  BY DEF OpeningSymbols, ClosingSymbols
<1>4. /\ \A i \in 1 .. Len(tokens) : IsOpen(i, now) <=> IsOpen(i, open)
      /\ IsOpen(Len(tokens) + 1, now)
  <2>1. Len(open) + 1 \in 1 .. Len(now)
    BY <1>2
  <2>2. IsOpen(Len(tokens) + 1, now)
    BY <1>2, <2>1 DEF IsOpen
  <2>3. ASSUME NEW i \in 1 .. Len(tokens), IsOpen(i, now)
        PROVE  IsOpen(i, open)
    <3>1. PICK k \in 1 .. Len(now) : now[k] = i
      BY <2>3 DEF IsOpen
    <3>2. k \in 1 .. Len(open)
      BY <1>1, <1>2, <3>1
    <3> QED BY <1>2, <3>1, <3>2 DEF IsOpen
  <2>4. ASSUME NEW i \in 1 .. Len(tokens), IsOpen(i, open)
        PROVE  IsOpen(i, now)
    BY <1>2, <2>4 DEF IsOpen
  <2> QED BY <2>2, <2>3, <2>4
<1>5. OpenAreOpening(new, now)
  <2> SUFFICES ASSUME NEW k \in 1 .. Len(now)
               PROVE  now[k] \in 1 .. Len(new) /\ IsOpening(new[now[k]])
    BY DEF OpenAreOpening
  <2>1. CASE k = Len(open) + 1
    BY <1>1, <1>2, <2>1 DEF IsOpening
  <2>2. CASE k \in 1 .. Len(open)
    <3>1. open[k] \in 1 .. Len(tokens) /\ IsOpening(tokens[open[k]])
      BY <2>2 DEF GroupsOK, OpenAreOpening
    <3> QED BY <1>1, <1>2, <2>2, <3>1
  <2> QED BY <1>2, <2>1, <2>2
<1>6. OpenInOrder(now)
  <2>1. \A k \in 1 .. Len(open) : open[k] < Len(tokens) + 1
    BY <1>1, <1>2 DEF GroupsOK, OpenAreOpening
  <2>2. \A k, l \in 1 .. Len(open) : k < l => open[k] < open[l]
    BY DEF GroupsOK, OpenInOrder
  <2> SUFFICES ASSUME NEW k \in 1 .. Len(now), NEW l \in 1 .. Len(now), k < l
               PROVE  now[k] < now[l]
    BY DEF OpenInOrder
  <2>3. k \in 1 .. Len(open)
    BY <1>2
  <2> QED BY <1>2, <2>1, <2>2, <2>3
<1>7. ClosedHaveClosing(new, now)
  <2> SUFFICES ASSUME NEW i \in 1 .. Len(new), IsOpening(new[i]), ~IsOpen(i, now)
               PROVE  /\ new[i].value \in (i + 1) .. Len(new)
                      /\ new[new[i].value].kind = ClosingSymbol(new[i].kind)
    BY DEF ClosedHaveClosing
  <2>1. i \in 1 .. Len(tokens) /\ ~IsOpen(i, open) /\ new[i] = tokens[i]
    BY <1>1, <1>4
  <2>2. /\ tokens[i].value \in (i + 1) .. Len(tokens)
        /\ tokens[tokens[i].value].kind = ClosingSymbol(tokens[i].kind)
    BY <2>1 DEF GroupsOK, ClosedHaveClosing
  <2> QED BY <1>1, <2>1, <2>2
<1>8. ClosingHaveOpening(new, now)
  BY <1>1, <1>3, <1>4 DEF GroupsOK, ClosingHaveOpening, IsClosing
<1>9. GroupsNest(new, now)
  <2> SUFFICES ASSUME NEW i \in 1 .. Len(new), NEW j \in 1 .. Len(new),
                      IsOpening(new[i]), IsOpening(new[j]), i < j, ~IsOpen(i, now)
               PROVE  \/ new[i].value < j
                      \/ ~IsOpen(j, now) /\ new[j].value < new[i].value
    BY DEF GroupsNest
  <2>1. i \in 1 .. Len(tokens) /\ ~IsOpen(i, open) /\ new[i] = tokens[i]
    BY <1>1, <1>4
  <2>2. CASE j = Len(tokens) + 1
    BY <1>1, <2>1, <2>2 DEF GroupsOK, ClosedHaveClosing
  <2>3. CASE j \in 1 .. Len(tokens)
    <3>1. new[j] = tokens[j] /\ (IsOpen(j, now) <=> IsOpen(j, open))
      BY <1>1, <1>4, <2>3
    <3>2. \/ tokens[i].value < j
          \/ ~IsOpen(j, open) /\ tokens[j].value < tokens[i].value
      BY <2>1, <2>3, <3>1 DEF GroupsOK, GroupsNest
    <3> QED BY <2>1, <3>1, <3>2
  <2>4. j = Len(tokens) + 1 \/ j \in 1 .. Len(tokens)
    BY <1>1
  <2> QED BY <2>2, <2>3, <2>4
<1> QED BY <1>5, <1>6, <1>7, <1>8, <1>9 DEF GroupsOK, new, now

(* The stack of open groups without its top. *)
LEMMA Popped ==
  ASSUME NEW S, NEW s \in Seq(S), s # <<>>
  PROVE  LET t == SubSeq(s, 1, Len(s) - 1) IN
         /\ t \in Seq(S) /\ Len(t) = Len(s) - 1
         /\ \A k \in 1 .. (Len(s) - 1) : t[k] = s[k]
<1> DEFINE m == Len(s) - 1
           t == SubSeq(s, 1, m)
<1>1. m \in Nat /\ \A i \in 1 .. m : s[i] \in S
  OBVIOUS
<1>2. /\ t \in Seq(S)
      /\ Len(t) = IF 1 <= m THEN m - 1 + 1 ELSE 0
  <2> HIDE DEF m
  <2> QED BY <1>1, SubSeqProperties
<1>3. Len(t) = m
  <2> HIDE DEF t, m
  <2> QED BY <1>1, <1>2
<1>4. \A i \in 1 .. m : t[i] = s[i]
  BY <1>1
<1> QED BY <1>2, <1>4, <1>3

(* closing_symbol of an opening kind is a closing kind. *)
LEMMA ClosingSymbolCloses ==
  ASSUME NEW kind \in OpeningSymbols
  PROVE  ClosingSymbol(kind) \in ClosingSymbols
<1>1. CASE kind = "OpenParen"
  BY <1>1, Zenon DEF ClosingSymbol, ClosingSymbols
<1>2. CASE kind = "OpenCurlyBrace"
  BY <1>2, Zenon DEF ClosingSymbol, ClosingSymbols
<1>3. CASE kind = "OpenSquareBracket"
  BY <1>3, Zenon DEF ClosingSymbol, ClosingSymbols
<1> QED BY <1>1, <1>2, <1>3 DEF OpeningSymbols

(* A closing token of the right shape closes the innermost open group. *)
LEMMA ClosingToken ==
  ASSUME NEW A, NEW tokens \in Seq(Infos(A)), NEW open \in Seq(Nat),
         NEW token \in Infos(A), GroupsOK(tokens, open), open # <<>>,
         token.kind = ClosingSymbol(tokens[open[Len(open)]].kind),
         token.value = open[Len(open)], Len(tokens) + 1 \in A
  PROVE  GroupsOK(
           Append([tokens EXCEPT ![open[Len(open)]].value = Len(tokens) + 1], token),
           SubSeq(open, 1, Len(open) - 1))
<1> DEFINE n    == Len(tokens) + 1
           g    == open[Len(open)]
           set  == [tokens EXCEPT ![g].value = n]
           new  == Append(set, token)
           now  == SubSeq(open, 1, Len(open) - 1)
<1>1. /\ Len(open) \in Nat /\ Len(open) >= 1 /\ Len(tokens) \in Nat
      /\ g \in 1 .. Len(tokens) /\ tokens[g].kind \in OpeningSymbols
  BY DEF GroupsOK, OpenAreOpening, IsOpening
<1>2. /\ Len(now) = Len(open) - 1
      /\ \A k \in 1 .. (Len(open) - 1) : now[k] = open[k]
  BY Popped
<1>3. /\ set \in Seq(Infos(A)) /\ Len(set) = Len(tokens)
      /\ \A i \in 1 .. Len(tokens) : set[i].kind = tokens[i].kind
      /\ \A i \in 1 .. Len(tokens) : i # g => set[i] = tokens[i]
      /\ set[g].value = n
  BY <1>1, SetValue
<1> HIDE DEF set
<1>4. /\ Len(new) = n
      /\ \A i \in 1 .. Len(tokens) : new[i].kind = tokens[i].kind
      /\ \A i \in 1 .. Len(tokens) : i # g => new[i].value = tokens[i].value
      /\ new[g].value = n /\ new[n] = token
  <2>1. /\ Len(new) = n /\ new[n] = token
        /\ \A i \in 1 .. Len(tokens) : new[i] = set[i]
    <3>1. set \in Seq(Infos(A)) /\ Len(set) = Len(tokens)
      BY <1>3
    <3> QED BY <3>1, AppendProperties
  <2> HIDE DEF new
  <2> QED BY <1>1, <1>3, <2>1
<1> HIDE DEF new, now
<1>5. \A i : IsOpen(i, open) <=> i = g \/ IsOpen(i, now)
  <2> SUFFICES ASSUME NEW i
               PROVE  IsOpen(i, open) <=> i = g \/ IsOpen(i, now)
    OBVIOUS
  <2>1. ASSUME IsOpen(i, open), i # g PROVE IsOpen(i, now)
    <3>1. PICK k \in 1 .. Len(open) : open[k] = i
      BY <2>1 DEF IsOpen
    <3>2. k \in 1 .. Len(now) /\ now[k] = i
      BY <1>1, <1>2, <2>1, <3>1
    <3> QED BY <3>2 DEF IsOpen
  <2>2. ASSUME IsOpen(i, now) PROVE IsOpen(i, open)
    <3>1. PICK k \in 1 .. Len(now) : now[k] = i
      BY <2>2 DEF IsOpen
    <3>2. k \in 1 .. Len(open) /\ open[k] = i
      BY <1>1, <1>2, <3>1
    <3> QED BY <3>2 DEF IsOpen
  <2>3. IsOpen(g, open)
    BY <1>1 DEF IsOpen
  <2> QED BY <2>1, <2>2, <2>3
<1>6. ~IsOpen(g, now) /\ \A i \in 1 .. Len(tokens) : IsOpen(i, now) => i < g
  BY <1>1, <1>2 DEF IsOpen, GroupsOK, OpenInOrder
<1>7. token.kind \in ClosingSymbols /\ token.kind \notin OpeningSymbols
  BY <1>1, ClosingSymbolCloses DEF OpeningSymbols, ClosingSymbols
<1>8. OpenAreOpening(new, now)
  <2> SUFFICES ASSUME NEW k \in 1 .. Len(now)
               PROVE  now[k] \in 1 .. Len(new) /\ IsOpening(new[now[k]])
    BY DEF OpenAreOpening
  <2>1. k \in 1 .. Len(open) /\ now[k] = open[k]
    BY <1>1, <1>2
  <2>2. open[k] \in 1 .. Len(tokens) /\ IsOpening(tokens[open[k]])
    BY <2>1 DEF GroupsOK, OpenAreOpening
  <2> QED BY <1>1, <1>4, <2>1, <2>2 DEF IsOpening
<1>9. OpenInOrder(now)
  BY <1>1, <1>2 DEF GroupsOK, OpenInOrder
<1>10. ClosedHaveClosing(new, now)
  <2> SUFFICES ASSUME NEW i \in 1 .. Len(new), IsOpening(new[i]), ~IsOpen(i, now)
               PROVE  /\ new[i].value \in (i + 1) .. Len(new)
                      /\ new[new[i].value].kind = ClosingSymbol(new[i].kind)
    BY DEF ClosedHaveClosing
  <2>1. i \in 1 .. Len(tokens)
    BY <1>1, <1>4, <1>7 DEF IsOpening
  <2>2. CASE i = g
    BY <1>1, <1>4, <2>2
  <2>3. CASE i # g
    <3>1. IsOpening(tokens[i]) /\ ~IsOpen(i, open)
      BY <1>4, <1>5, <2>1, <2>3 DEF IsOpening
    <3>2. /\ tokens[i].value \in (i + 1) .. Len(tokens)
          /\ tokens[tokens[i].value].kind = ClosingSymbol(tokens[i].kind)
      BY <2>1, <3>1 DEF GroupsOK, ClosedHaveClosing
    <3> QED BY <1>1, <1>4, <2>1, <2>3, <3>2
  <2> QED BY <2>2, <2>3
<1>11. ClosingHaveOpening(new, now)
  <2> SUFFICES ASSUME NEW i \in 1 .. Len(new), IsClosing(new[i])
               PROVE  /\ new[i].value \in 1 .. (i - 1)
                      /\ IsOpening(new[new[i].value]) /\ ~IsOpen(new[i].value, now)
                      /\ new[new[i].value].value = i
    BY DEF ClosingHaveOpening
  <2>1. CASE i = n
    BY <1>1, <1>4, <1>6, <2>1 DEF IsOpening
  <2>2. CASE i \in 1 .. Len(tokens)
    <3>1. IsClosing(tokens[i]) /\ i # g
      BY <1>1, <1>4, <2>2 DEF IsClosing, OpeningSymbols, ClosingSymbols
    <3>2. /\ tokens[i].value \in 1 .. (i - 1)
          /\ IsOpening(tokens[tokens[i].value]) /\ ~IsOpen(tokens[i].value, open)
          /\ tokens[tokens[i].value].value = i
      BY <2>2, <3>1 DEF GroupsOK, ClosingHaveOpening
    <3>3. tokens[i].value # g /\ ~IsOpen(tokens[i].value, now)
      BY <1>5, <3>2
    <3>4. tokens[i].value \in 1 .. Len(tokens)
      BY <1>1, <2>2, <3>2
    <3>5. new[i].value = tokens[i].value /\ i \in 1 .. Len(tokens)
      BY <1>4, <2>2, <3>1
    <3>6. /\ new[tokens[i].value].kind = tokens[tokens[i].value].kind
          /\ new[tokens[i].value].value = i
      BY <1>4, <3>2, <3>3, <3>4
    <3> QED BY <3>2, <3>3, <3>5, <3>6 DEF IsOpening
  <2> QED BY <1>1, <1>4, <2>1, <2>2
<1>12. GroupsNest(new, now)
  <2> SUFFICES ASSUME NEW i \in 1 .. Len(new), NEW j \in 1 .. Len(new),
                      IsOpening(new[i]), IsOpening(new[j]), i < j, ~IsOpen(i, now)
               PROVE  \/ new[i].value < j
                      \/ ~IsOpen(j, now) /\ new[j].value < new[i].value
    BY DEF GroupsNest
  <2>1. /\ i \in 1 .. Len(tokens) /\ j \in 1 .. Len(tokens)
        /\ IsOpening(tokens[i]) /\ IsOpening(tokens[j])
    <3>1. i # n /\ j # n
      BY <1>4, <1>7 DEF IsOpening
    <3>2. Len(new) = Len(tokens) + 1 /\ Len(tokens) \in Nat
      BY <1>1, <1>4
    <3>3. i \in 1 .. Len(tokens) /\ j \in 1 .. Len(tokens)
      BY <3>1, <3>2
    <3> QED BY <1>4, <3>3 DEF IsOpening
  <2>2. CASE i = g
    <3>1. ~IsOpen(j, open) /\ ~IsOpen(j, now) /\ j # g
      BY <1>5, <1>6, <2>1, <2>2
    <3>2. tokens[j].value \in (j + 1) .. Len(tokens)
      BY <2>1, <3>1 DEF GroupsOK, ClosedHaveClosing
    <3> QED BY <1>1, <1>4, <2>1, <2>2, <3>1, <3>2
  <2>3. CASE i # g
    <3>1. ~IsOpen(i, open)
      BY <1>5, <2>3
    <3>2. \/ tokens[i].value < j
          \/ ~IsOpen(j, open) /\ tokens[j].value < tokens[i].value
      BY <2>1, <3>1 DEF GroupsOK, GroupsNest
    <3>3. CASE j = g
      BY <1>4, <1>5, <2>1, <2>3, <3>2, <3>3
    <3>4. CASE j # g
      BY <1>4, <1>5, <2>1, <2>3, <3>2, <3>4
    <3> QED BY <3>3, <3>4
  <2> QED BY <2>2, <2>3
<1> QED BY <1>8, <1>9, <1>10, <1>11, <1>12 DEF GroupsOK, set, new, now

(* White space noted at a token is of no concern to the groups. *)
LEMMA SpacedToken ==
  ASSUME NEW A, NEW tokens \in Seq(Infos(A)), NEW open \in Seq(Nat),
         GroupsOK(tokens, open), TRUE \in A
  PROVE  /\ Spaced(tokens) \in Seq(Infos(A))
         /\ Len(Spaced(tokens)) = Len(tokens)
         /\ \A i \in 1 .. Len(tokens) : Spaced(tokens)[i].kind = tokens[i].kind
         /\ GroupsOK(Spaced(tokens), open)
<1> DEFINE new == Spaced(tokens)
<1>1. /\ new \in Seq(Infos(A)) /\ Len(new) = Len(tokens)
      /\ \A i \in 1 .. Len(tokens) :
           new[i].kind = tokens[i].kind /\ new[i].value = tokens[i].value
  BY SetSpace, Zenon
<1> HIDE DEF new
<1>2. OpenAreOpening(new, open)
  BY <1>1 DEF GroupsOK, OpenAreOpening, IsOpening
<1>3. ClosedHaveClosing(new, open)
  BY <1>1 DEF GroupsOK, ClosedHaveClosing, IsOpening
<1>4. ClosingHaveOpening(new, open)
  <2> SUFFICES ASSUME NEW i \in 1 .. Len(new), IsClosing(new[i])
               PROVE  /\ new[i].value \in 1 .. (i - 1)
                      /\ IsOpening(new[new[i].value]) /\ ~IsOpen(new[i].value, open)
                      /\ new[new[i].value].value = i
    BY DEF ClosingHaveOpening
  <2>1. /\ i \in 1 .. Len(tokens) /\ IsClosing(tokens[i])
        /\ new[i].value = tokens[i].value
    BY <1>1 DEF IsClosing
  <2>2. /\ tokens[i].value \in 1 .. (i - 1)
        /\ IsOpening(tokens[tokens[i].value]) /\ ~IsOpen(tokens[i].value, open)
        /\ tokens[tokens[i].value].value = i
    BY <2>1 DEF GroupsOK, ClosingHaveOpening
  <2>3. tokens[i].value \in 1 .. Len(tokens)
    BY <2>1, <2>2
  <2>4. /\ new[tokens[i].value].kind = tokens[tokens[i].value].kind
        /\ new[tokens[i].value].value = i
    BY <1>1, <2>2, <2>3
  <2> QED BY <2>1, <2>2, <2>4 DEF IsOpening
<1>5. GroupsNest(new, open)
  BY <1>1 DEF GroupsOK, GroupsNest, IsOpening
<1> QED BY <1>1, <1>2, <1>3, <1>4, <1>5 DEF GroupsOK, new

-----------------------------------------------------------------------------
(* The inductive invariant.  The fields of tokens hold values of whatever  *)
(* set; open_groups numbers tokens; a symbol is never the end of the file. *)

IsTokens(tokens) == \E A : tokens \in Seq(Infos(A))

IInv ==
  /\ IsTokens(token_infos)
  /\ open_groups \in Seq(Nat)
  /\ closing_for # "EndOfFile"
  /\ GroupInvariant

NoEnd(tokens) == \A i \in 1 .. Len(tokens) : tokens[i].kind # "EndOfFile"

(* What a step of the lexer keeps while it runs. *)
Sound(tokens, open) ==
  IsTokens(tokens) /\ open \in Seq(Nat) /\ GroupsOK(tokens, open) /\ NoEnd(tokens)

(* The tokens have one more, of that kind, and kept their kinds. *)
Grown(tokens, new, kind) ==
  /\ IsTokens(new)
  /\ Len(tokens) \in Nat /\ Len(new) = Len(tokens) + 1
  /\ \A i \in 1 .. Len(tokens) : new[i].kind = tokens[i].kind
  /\ new[Len(tokens) + 1].kind = kind

(* The invariant while the lexer runs, in terms of Sound. *)
LEMMA RunningIsSound ==
  /\ IInv /\ phase # "done" => Sound(token_infos, open_groups)
  /\ Sound(token_infos', open_groups') /\ phase' # "done" /\ closing_for' # "EndOfFile"
       => IInv'
  BY DEF IInv, GroupInvariant, Sound, NoEnd

(* One more token that is not the end of the file. *)
LEMMA GrownHasNoEnd ==
  ASSUME NEW tokens, NEW new, NEW kind, Grown(tokens, new, kind),
         NoEnd(tokens), kind # "EndOfFile"
  PROVE  NoEnd(new)
<1> SUFFICES ASSUME NEW i \in 1 .. Len(new) PROVE new[i].kind # "EndOfFile"
  BY DEF NoEnd
<1>1. i \in 1 .. Len(tokens) \/ i = Len(tokens) + 1
  BY DEF Grown
<1> QED BY <1>1 DEF Grown, NoEnd

(* A set of field values that also serves a new token. *)
LEMMA CommonFields ==
  ASSUME NEW tokens, IsTokens(tokens), NEW kind, NEW space, NEW recovery, NEW value
  PROVE  \E A : /\ tokens \in Seq(Infos(A)) /\ Len(tokens) + 1 \in A
                /\ [kind |-> kind, has_trailing_space |-> space,
                    is_recovery |-> recovery, token_line |-> CurrentLine,
                    column |-> current_column, value |-> value] \in Infos(A)
<1>1. PICK B : tokens \in Seq(Infos(B))
  BY DEF IsTokens
<1> DEFINE A == B \union {kind, space, recovery, CurrentLine, current_column, value,
                          Len(tokens) + 1}
<1>2. Infos(B) \subseteq Infos(A)
  BY DEF Infos
<1> HIDE DEF A
<1>3. tokens \in Seq(Infos(A))
  BY <1>1, <1>2, SeqMonotonic
<1>4. [kind |-> kind, has_trailing_space |-> space,
       is_recovery |-> recovery, token_line |-> CurrentLine,
       column |-> current_column, value |-> value] \in Infos(A)
  BY DEF Infos, A
<1>5. Len(tokens) + 1 \in A
  BY DEF A
<1> QED BY <1>3, <1>4, <1>5

(* The four ways in which tokens change. *)
LEMMA NoteSpace ==
  ASSUME NEW tokens, NEW open, Sound(tokens, open)
  PROVE  Sound(Spaced(tokens), open)
<1>1. PICK B : tokens \in Seq(Infos(B))
  BY DEF Sound, IsTokens
<1> DEFINE A == B \union {TRUE}
<1>2. tokens \in Seq(Infos(A)) /\ TRUE \in A
  <2>1. Infos(B) \subseteq Infos(A)
    BY DEF Infos
  <2>2. TRUE \in A
    OBVIOUS
  <2> HIDE DEF A
  <2> QED BY <1>1, <2>1, <2>2, SeqMonotonic
<1> HIDE DEF A
<1>3. /\ Spaced(tokens) \in Seq(Infos(A))
      /\ Len(Spaced(tokens)) = Len(tokens)
      /\ \A i \in 1 .. Len(tokens) : Spaced(tokens)[i].kind = tokens[i].kind
      /\ GroupsOK(Spaced(tokens), open)
  BY <1>2, SpacedToken DEF Sound
<1> QED BY <1>3 DEF Sound, IsTokens, NoEnd

(* AddToken with a kind that is no group symbol. *)
LEMMA AddPlain ==
  ASSUME NEW tokens, NEW open, Sound(tokens, open), NEW kind, NEW value,
         kind \notin OpeningSymbols \union ClosingSymbols
  PROVE  /\ Grown(tokens, Append(tokens, NewToken(kind, value)), kind)
         /\ GroupsOK(Append(tokens, NewToken(kind, value)), open)
<1> DEFINE token == NewToken(kind, value)
<1>1. PICK A : tokens \in Seq(Infos(A)) /\ token \in Infos(A)
  BY CommonFields DEF Sound, NewToken
<1>2. token.kind = kind
  BY DEF NewToken
<1> HIDE DEF token
<1>3. GroupsOK(Append(tokens, token), open)
  BY <1>1, <1>2, PlainToken DEF Sound
<1>4. Grown(tokens, Append(tokens, token), kind)
  BY <1>1, <1>2 DEF Grown, IsTokens
<1> QED BY <1>3, <1>4 DEF token

(* AddToken with an opening symbol, which is pushed on open_groups. *)
LEMMA AddOpening ==
  ASSUME NEW tokens, NEW open, Sound(tokens, open), NEW kind \in OpeningSymbols, NEW value
  PROVE  /\ Grown(tokens, Append(tokens, NewToken(kind, value)), kind)
         /\ Append(open, Len(tokens) + 1) \in Seq(Nat)
         /\ GroupsOK(Append(tokens, NewToken(kind, value)), Append(open, Len(tokens) + 1))
<1> DEFINE token == NewToken(kind, value)
<1>1. PICK A : tokens \in Seq(Infos(A)) /\ token \in Infos(A)
  BY CommonFields DEF Sound, NewToken
<1>2. token.kind = kind
  BY DEF NewToken
<1> HIDE DEF token
<1>3. GroupsOK(Append(tokens, token), Append(open, Len(tokens) + 1))
  BY <1>1, <1>2, OpeningToken DEF Sound
<1>4. Grown(tokens, Append(tokens, token), kind)
  BY <1>1, <1>2 DEF Grown, IsTokens
<1>5. Append(open, Len(tokens) + 1) \in Seq(Nat)
  BY <1>1 DEF Sound
<1> QED BY <1>3, <1>4, <1>5 DEF token

(* A closing token, found or inserted, that pops open_groups. *)
LEMMA AddClosing ==
  ASSUME NEW tokens, NEW open, Sound(tokens, open), open # <<>>,
         NEW kind, NEW space, NEW recovery,
         kind = ClosingSymbol(tokens[open[Len(open)]].kind)
  PROVE  LET token == [kind |-> kind, has_trailing_space |-> space,
                       is_recovery |-> recovery, token_line |-> CurrentLine,
                       column |-> current_column, value |-> open[Len(open)]]
             new == Append([tokens EXCEPT ![open[Len(open)]].value = Len(tokens) + 1], token)
         IN /\ Sound(new, SubSeq(open, 1, Len(open) - 1))
            /\ kind \in ClosingSymbols
<1> DEFINE g     == open[Len(open)]
           token == [kind |-> kind, has_trailing_space |-> space,
                     is_recovery |-> recovery, token_line |-> CurrentLine,
                     column |-> current_column, value |-> g]
           set   == [tokens EXCEPT ![g].value = Len(tokens) + 1]
           now   == SubSeq(open, 1, Len(open) - 1)
<1>1. PICK A : tokens \in Seq(Infos(A)) /\ Len(tokens) + 1 \in A /\ token \in Infos(A)
  BY CommonFields DEF Sound
<1>2. token.kind = kind /\ token.value = g
  OBVIOUS
<1>3. g \in 1 .. Len(tokens) /\ kind \in ClosingSymbols
  <2>1. Len(open) \in 1 .. Len(open)
    BY DEF Sound
  <2>2. g \in 1 .. Len(tokens) /\ tokens[g].kind \in OpeningSymbols
    BY <2>1 DEF Sound, GroupsOK, OpenAreOpening, IsOpening
  <2> QED BY <2>2, ClosingSymbolCloses
<1>4. /\ set \in Seq(Infos(A)) /\ Len(set) = Len(tokens)
      /\ \A i \in 1 .. Len(tokens) : set[i].kind = tokens[i].kind
  BY <1>1, <1>3, SetValue
<1> HIDE DEF token
<1>5. GroupsOK(Append(set, token), now)
  BY <1>1, <1>2, ClosingToken DEF Sound
<1> HIDE DEF set
<1>6. Grown(tokens, Append(set, token), kind)
  BY <1>1, <1>2, <1>4 DEF Grown, IsTokens
<1>7. now \in Seq(Nat)
  BY Popped DEF Sound
<1>8. kind # "EndOfFile"
  BY <1>3 DEF ClosingSymbols
<1>9. NoEnd(Append(set, token)) /\ IsTokens(Append(set, token))
  BY <1>6, <1>8, GrownHasNoEnd DEF Sound, Grown
<1> QED BY <1>3, <1>5, <1>7, <1>9 DEF Sound, token, set

-----------------------------------------------------------------------------
(* The steps of the lexer. *)

(* The kinds of literals and words are no group symbols, nor is any of     *)
(* them the end of the file; no symbol is.                                 *)
PlainKinds ==
  {"Error", "IntegerLiteral", "RealLiteral", "StringLiteral", "Identifier",
   "IntegerTypeLiteral", "UnsignedIntegerTypeLiteral", "FloatingPointTypeLiteral"}
  \union KeywordTokens

(* No literal or word is a group symbol or the end of the file. *)
LEMMA PlainKindsArePlain ==
  ASSUME NEW kind \in PlainKinds
  PROVE  kind \notin OpeningSymbols \union ClosingSymbols /\ kind # "EndOfFile"
  BY DEF PlainKinds, KeywordTokens, OpeningSymbols, ClosingSymbols

(* No symbol of the table is the end of the file. *)
LEMMA SymbolsAreNotEnds == \A s \in Symbols : SymbolKinds[s] # "EndOfFile"
  BY DEF Symbols, SymbolKinds

(* A step that adds a token of such a kind and goes on. *)
LEMMA PlainStep ==
  ASSUME IInv, phase # "done", NEW kind \in PlainKinds, NEW value,
         token_infos' = Append(token_infos, NewToken(kind, value)),
         UNCHANGED open_groups, phase' # "done", closing_for' # "EndOfFile"
  PROVE  IInv'
<1>1. Sound(token_infos, open_groups)
  BY RunningIsSound
<1>2. /\ Grown(token_infos, token_infos', kind)
      /\ GroupsOK(token_infos', open_groups')
  BY <1>1, AddPlain, PlainKindsArePlain
<1>3. NoEnd(token_infos')
  BY <1>1, <1>2, GrownHasNoEnd, PlainKindsArePlain DEF Sound
<1>4. Sound(token_infos', open_groups')
  BY <1>1, <1>2, <1>3 DEF Sound, Grown
<1> QED BY <1>4, RunningIsSound

(* A step that adds none. *)
LEMMA QuietStep ==
  ASSUME IInv, phase # "done", token_infos' \in {token_infos, Spaced(token_infos)},
         UNCHANGED open_groups, phase' # "done", closing_for' # "EndOfFile"
  PROVE  IInv'
<1>1. Sound(token_infos, open_groups)
  BY RunningIsSound
<1>2. Sound(token_infos', open_groups')
  BY <1>1, NoteSpace
<1> QED BY <1>2, RunningIsSound

(* SkipWhitespace keeps the invariant. *)
LEMMA SkipStep == IInv /\ SkipWhitespace => IInv'
<1> SUFFICES ASSUME IInv, SkipWhitespace PROVE IInv'
  OBVIOUS
<1>1. CASE SkipComment
  BY <1>1, QuietStep DEF SkipComment, IInv
<1>2. CASE SkipBlank
  BY <1>2, QuietStep DEF SkipBlank, IInv
<1>3. CASE SkipNewline
  BY <1>3, QuietStep DEF SkipNewline, IInv
<1>4. CASE EndText
  BY <1>4, QuietStep DEF EndText, IInv
<1>5. CASE StopAtToken
  BY <1>5, QuietStep DEF StopAtToken, IInv
<1> QED BY <1>1, <1>2, <1>3, <1>4, <1>5 DEF SkipWhitespace

(* Every Lex function keeps it. *)
LEMMA TokenStep == IInv /\ LexToken => IInv'
<1> SUFFICES ASSUME IInv, LexToken PROVE IInv'
  OBVIOUS
<1>1. CASE LexNumericLiteral
  <2>1. PICK literal \in {LexNumber(Rest)}, kind \in NumberKinds :
          token_infos' = Append(token_infos,
            NewToken(kind, IF kind = "Error" THEN Len(literal.text)
                           ELSE Len(literal_ints) + 1))
    BY <1>1, Zenon DEF LexNumericLiteral
  <2>2. kind \in PlainKinds
    BY DEF NumberKinds, PlainKinds
  <2>3. /\ phase # "done" /\ phase' # "done" /\ closing_for' # "EndOfFile"
        /\ UNCHANGED open_groups
    BY <1>1 DEF LexNumericLiteral, SkipNext, IInv
  <2> QED BY <2>1, <2>2, <2>3, PlainStep
<1>2. CASE LexStringLiteral
  <2>1. /\ phase # "done" /\ phase' # "done" /\ closing_for' # "EndOfFile"
        /\ UNCHANGED open_groups
    BY <1>2 DEF LexStringLiteral, SkipNext, IInv
  <2>2. PICK literal \in {LexString(Rest)} :
          LexTerminated(literal.text) \/ LexUnterminated(literal.text)
    BY <1>2, Zenon DEF LexStringLiteral
  <2>3. "StringLiteral" \in PlainKinds /\ "Error" \in PlainKinds
    BY DEF PlainKinds
  <2>4. CASE LexTerminated(literal.text)
    <3>1. token_infos' = Append(token_infos,
                                NewToken("StringLiteral", Len(literal_strings) + 1))
      BY <2>4 DEF LexTerminated
    <3> QED BY <3>1, <2>1, <2>3, PlainStep
  <2>5. CASE LexUnterminated(literal.text)
    <3>1. token_infos' = Append(token_infos, NewToken("Error", Len(literal.text)))
      BY <2>5 DEF LexUnterminated
    <3> QED BY <3>1, <2>1, <2>3, PlainStep
  <2> QED BY <2>2, <2>4, <2>5
<1>3. CASE LexLongSuffix
  <2>1. "Error" \in PlainKinds
    BY DEF PlainKinds
  <2> QED BY <1>3, <2>1, PlainStep DEF LexLongSuffix, AtWord, SkipNext, IInv
<1>4. CASE LexTypeLiteral
  <2> DEFINE kind == TypeLiteralKind(Word[1])
  <2>1. /\ phase # "done" /\ phase' # "done" /\ closing_for' # "EndOfFile"
        /\ token_infos' = Append(token_infos, NewToken(kind, Len(literal_ints) + 1))
        /\ UNCHANGED open_groups /\ Word[1] \in {"i", "u", "f"}
    BY <1>4 DEF LexTypeLiteral, AtWord, SkipNext, IInv, IsTypeLiteral, LooksLikeTypeLiteral
  <2>2. kind \in PlainKinds
    <3>1. CASE Word[1] = "i"
      BY <3>1, Zenon DEF TypeLiteralKind, PlainKinds
    <3>2. CASE Word[1] = "u"
      BY <3>2, Zenon DEF TypeLiteralKind, PlainKinds
    <3>3. CASE Word[1] = "f"
      BY <3>3, Zenon DEF TypeLiteralKind, PlainKinds
    <3> QED BY <2>1, <3>1, <3>2, <3>3
  <2> HIDE DEF kind
  <2> QED BY <2>1, <2>2, PlainStep
<1>5. CASE LexKeyword
  <2>1. PICK k \in Keywords : token_infos' = Append(token_infos, NewToken(k.kind, 0))
    BY <1>5 DEF LexKeyword
  <2>2. k.kind \in PlainKinds
    BY KeywordsAssumption DEF PlainKinds
  <2> QED BY <1>5, <2>1, <2>2, PlainStep DEF LexKeyword, IsOtherWord, AtWord, SkipNext, IInv
<1>6. CASE LexIdentifier
  <2>1. PICK id : token_infos' = Append(token_infos, NewToken("Identifier", id))
    BY <1>6 DEF LexIdentifier
  <2>2. "Identifier" \in PlainKinds
    BY DEF PlainKinds
  <2> QED BY <1>6, <2>1, <2>2, PlainStep DEF LexIdentifier, IsOtherWord, AtWord, SkipNext, IInv
<1>7. CASE LexError
  <2>1. PICK size : token_infos' = Append(token_infos, NewToken("Error", size))
    BY <1>7 DEF LexError
  <2>2. "Error" \in PlainKinds
    BY DEF PlainKinds
  <2> QED BY <1>7, <2>1, <2>2, PlainStep DEF LexError, SkipNext, IInv
<1>8. CASE LexSymbolToken
  <2>1. PICK s \in Symbols : closing_for' = SymbolKinds[s]
    BY <1>8 DEF LexSymbolToken
  <2> QED BY <1>8, <2>1, SymbolsAreNotEnds, QuietStep DEF LexSymbolToken
<1> QED BY <1>1, <1>2, <1>3, <1>4, <1>5, <1>6, <1>7, <1>8 DEF LexToken

(* So do the group symbols and the end of the file. *)
LEMMA CloseStep == IInv /\ Close => IInv'
<1> SUFFICES ASSUME IInv, Close PROVE IInv'
  OBVIOUS
<1>1. phase # "done" /\ Sound(token_infos, open_groups)
  BY RunningIsSound DEF Close, CloseInvalidOpenGroups, AddSymbol, AddUnmatchedClosing,
                        AddMatchedClosing, AddEndOfFileToken, AtSymbol
<1>2. CASE CloseInvalidOpenGroups
  <2> DEFINE kind  == ClosingSymbol(token_infos[Innermost].kind)
             space == token_infos[Len(token_infos)].has_trailing_space
             token == [kind |-> kind, has_trailing_space |-> space,
                       is_recovery |-> TRUE, token_line |-> CurrentLine,
                       column |-> current_column, value |-> Innermost]
  <2>1. /\ open_groups # <<>> /\ open_groups' = SubSeq(open_groups, 1, Len(open_groups) - 1)
        /\ token_infos' = Append([token_infos EXCEPT ![Innermost].value =
                                    Len(token_infos) + 1], token)
        /\ phase' = phase /\ closing_for' = closing_for
    BY <1>2 DEF CloseInvalidOpenGroups, RecoveryToken, MustClose
  <2>2. Sound(token_infos', open_groups')
    BY <1>1, <2>1, AddClosing DEF Innermost
  <2> QED BY <1>1, <2>1, <2>2, RunningIsSound DEF IInv
<1>3. CASE AddSymbol
  <2>1. /\ token_infos' = Append(token_infos, NewToken(closing_for, 0))
        /\ phase' # "done" /\ closing_for' = closing_for /\ closing_for # "EndOfFile"
        /\ closing_for \notin ClosingSymbols
        /\ open_groups' = IF closing_for \in OpeningSymbols
                          THEN Append(open_groups, Len(token_infos) + 1) ELSE open_groups
    BY <1>3 DEF AddSymbol, TakeSymbol, SkipNext, IInv
  <2>2. /\ Grown(token_infos, token_infos', closing_for)
        /\ open_groups' \in Seq(Nat) /\ GroupsOK(token_infos', open_groups')
    <3>1. CASE closing_for \in OpeningSymbols
      BY <1>1, <2>1, <3>1, AddOpening
    <3>2. CASE closing_for \notin OpeningSymbols
      BY <1>1, <2>1, <3>2, AddPlain DEF Sound
    <3> QED BY <3>1, <3>2
  <2>3. Sound(token_infos', open_groups')
    BY <1>1, <2>1, <2>2, GrownHasNoEnd DEF Sound, Grown
  <2> QED BY <2>1, <2>3, RunningIsSound
<1>4. CASE AddUnmatchedClosing
  <2>1. "Error" \in PlainKinds
    BY DEF PlainKinds
  <2> QED BY <1>1, <1>4, <2>1, PlainStep DEF AddUnmatchedClosing, TakeSymbol, SkipNext, IInv
<1>5. CASE AddMatchedClosing
  <2> DEFINE token == [kind |-> closing_for, has_trailing_space |-> FALSE,
                       is_recovery |-> FALSE, token_line |-> CurrentLine,
                       column |-> current_column, value |-> Innermost]
  <2>1. /\ open_groups # <<>> /\ open_groups' = SubSeq(open_groups, 1, Len(open_groups) - 1)
        /\ token_infos' = Append([token_infos EXCEPT ![Innermost].value =
                                    Len(token_infos) + 1], token)
        /\ phase' # "done" /\ closing_for' = closing_for
    BY <1>5 DEF AddMatchedClosing, TakeSymbol, SkipNext, NewToken
  <2>2. closing_for = ClosingSymbol(token_infos[Innermost].kind)
    BY <1>5 DEF AddMatchedClosing, AtSymbol, MustClose
  <2>3. Sound(token_infos', open_groups')
    BY <1>1, <2>1, <2>2, AddClosing DEF Innermost
  <2> QED BY <2>1, <2>3, RunningIsSound DEF IInv
<1>6. CASE AddEndOfFileToken
  <2>1. open_groups = <<>>
    <3> SUFFICES ASSUME open_groups # <<>> PROVE FALSE
      OBVIOUS
    <3>1. Len(open_groups) \in 1 .. Len(open_groups)
      BY DEF IInv
    <3>2. token_infos[Innermost].kind \in OpeningSymbols
      BY <1>1, <3>1 DEF Innermost, Sound, GroupsOK, OpenAreOpening, IsOpening
    <3>3. ClosingSymbol(token_infos[Innermost].kind) # "Error"
      BY <3>2, ClosingSymbolCloses DEF ClosingSymbols
    <3> QED BY <1>6, <3>3 DEF AddEndOfFileToken, MustClose
  <2>2. /\ token_infos' = Append(token_infos, NewToken("EndOfFile", 0))
        /\ phase' = "done" /\ open_groups' = <<>> /\ closing_for' = "Error"
    BY <1>6, <2>1 DEF AddEndOfFileToken
  <2>3. /\ Grown(token_infos, token_infos', "EndOfFile")
        /\ GroupsOK(token_infos', open_groups')
    <3>1. "EndOfFile" \notin OpeningSymbols \union ClosingSymbols
      BY DEF OpeningSymbols, ClosingSymbols
    <3> QED BY <1>1, <2>1, <2>2, <3>1, AddPlain
  <2>4. \A i \in 1 .. Len(token_infos') :
          token_infos'[i].kind = "EndOfFile" <=> i = Len(token_infos')
    <3> SUFFICES ASSUME NEW i \in 1 .. Len(token_infos')
                 PROVE  token_infos'[i].kind = "EndOfFile" <=> i = Len(token_infos')
      OBVIOUS
    <3>1. i \in 1 .. Len(token_infos) \/ i = Len(token_infos) + 1
      BY <2>3 DEF Grown
    <3> QED BY <1>1, <2>3, <3>1 DEF Grown, Sound, NoEnd
  <2>5. token_infos' # <<>>
    BY <2>3 DEF Grown
  <2>6. open_groups' \in Seq(Nat) /\ IsTokens(token_infos')
    BY <2>2, <2>3 DEF Grown
  <2> QED BY <2>2, <2>3, <2>4, <2>5, <2>6 DEF IInv, GroupInvariant
<1> QED BY <1>2, <1>3, <1>4, <1>5, <1>6 DEF Close

-----------------------------------------------------------------------------

(* The invariant holds before the first token. *)
LEMMA InitOK == Init => IInv
<1> SUFFICES ASSUME Init PROVE IInv
  OBVIOUS
<1>1. /\ token_infos = <<>> /\ open_groups = <<>> /\ closing_for = "Error"
      /\ phase = "whitespace"
  BY DEF Init
<1>2. token_infos \in Seq(Infos({})) /\ open_groups \in Seq(Nat) /\ Len(token_infos) = 0
  BY <1>1
<1>3. GroupsOK(token_infos, open_groups)
  BY <1>1, <1>2 DEF GroupsOK, OpenAreOpening, OpenInOrder, ClosedHaveClosing,
                    ClosingHaveOpening, GroupsNest
<1> QED BY <1>1, <1>2, <1>3 DEF IInv, IsTokens, GroupInvariant

(* And whenever nothing happens. *)
LEMMA Stutter == IInv /\ UNCHANGED vars => IInv'
  BY DEF IInv, GroupInvariant, vars

(* IInv is an invariant of the lexer. *)
LEMMA Inductive == Spec => []IInv
<1>1. IInv /\ [Next]_vars => IInv'
  BY SkipStep, TokenStep, CloseStep, Stutter DEF Next, Finished
<1> QED BY <1>1, InitOK, PTL DEF Spec

(* Whatever the source and however far the lexer is: the open groups are   *)
(* the opening tokens that have no partner yet, every other group symbol   *)
(* points at a partner of its shape, and groups are nested.                *)
THEOREM GroupsAreKept == Spec => []GroupInvariant
<1>1. IInv => GroupInvariant
  BY DEF IInv
<1> QED BY <1>1, Inductive, PTL

(* Hence every source, whatever its brackets, is lexed to a buffer whose   *)
(* groups the parser can rely on, with the end of the file last.           *)
THEOREM BuffersAreWellFormed == Spec => []BufferIsWellFormed
<1>1. ASSUME IInv, phase = "done" PROVE EndsFile(Buffer) /\ GroupsMatched(Buffer)
  <2> DEFINE tokens == token_infos
             b      == Buffer
  <2>1. PICK A : tokens \in Seq(Infos(A))
    BY <1>1 DEF IInv, IsTokens
  <2>2. /\ open_groups = <<>> /\ tokens # <<>> /\ GroupsOK(tokens, open_groups)
        /\ \A i \in 1 .. Len(tokens) : tokens[i].kind = "EndOfFile" <=> i = Len(tokens)
    BY <1>1 DEF IInv, GroupInvariant
  <2>3. Len(tokens) \in Nat /\ Len(tokens) >= 1
    BY <2>1, <2>2
  <2>4. /\ Len(b) = Len(tokens)
        /\ \A i \in 1 .. Len(tokens) :
             /\ b[i].kind = tokens[i].kind
             /\ b[i].closing = IF tokens[i].kind \in OpeningSymbols THEN tokens[i].value ELSE 0
    <3>1. \A i \in 1 .. Len(tokens) :
             /\ b[i].kind = tokens[i].kind
             /\ b[i].closing = IF tokens[i].kind \in OpeningSymbols THEN tokens[i].value ELSE 0
      BY DEF Buffer
    <3>2. DOMAIN b = 1 .. Len(tokens)
      BY DEF Buffer
    <3>3. b \in [1 .. Len(tokens) -> {b[i] : i \in 1 .. Len(tokens)}]
      BY <3>2, Zenon DEF Buffer
    <3> HIDE DEF b
    <3>4. b \in Seq({b[i] : i \in 1 .. Len(tokens)})
      BY <2>3, <3>3, SeqDef
    <3>5. Len(b) = Len(tokens)
      BY <2>3, <3>2, <3>4
    <3> QED BY <3>1, <3>5
  <2>5. \A i : ~IsOpen(i, open_groups)
    BY <2>2 DEF IsOpen
  <2> HIDE DEF b
  <2>6. EndsFile(b)
    BY <2>2, <2>3, <2>4 DEF EndsFile
  <2>7. \A i \in 1 .. Len(b) :
          IF b[i].kind \in OpeningSymbols
          THEN /\ b[i].closing \in (i + 1) .. Len(b)
               /\ b[b[i].closing].kind = ClosingSymbol(b[i].kind)
          ELSE b[i].closing = 0
    <3> SUFFICES ASSUME NEW i \in 1 .. Len(tokens), tokens[i].kind \in OpeningSymbols
                 PROVE  /\ b[i].closing \in (i + 1) .. Len(tokens)
                        /\ b[b[i].closing].kind = ClosingSymbol(b[i].kind)
      BY <2>4
    <3>1. /\ tokens[i].value \in (i + 1) .. Len(tokens)
          /\ tokens[tokens[i].value].kind = ClosingSymbol(tokens[i].kind)
      BY <2>2, <2>5 DEF GroupsOK, ClosedHaveClosing, IsOpening
    <3>2. tokens[i].value \in 1 .. Len(tokens)
      BY <2>3, <3>1
    <3> QED BY <2>4, <3>1, <3>2
  <2>8. \A i \in 1 .. Len(b) : b[i].kind \in ClosingSymbols =>
          \E o \in 1 .. (i - 1) : b[o].closing = i
    <3> SUFFICES ASSUME NEW i \in 1 .. Len(tokens), tokens[i].kind \in ClosingSymbols
                 PROVE  \E o \in 1 .. (i - 1) : b[o].closing = i
      BY <2>4
    <3>1. /\ tokens[i].value \in 1 .. (i - 1)
          /\ tokens[tokens[i].value].kind \in OpeningSymbols
          /\ tokens[tokens[i].value].value = i
      BY <2>2 DEF GroupsOK, ClosingHaveOpening, IsClosing, IsOpening
    <3>2. tokens[i].value \in 1 .. Len(tokens)
      BY <2>3, <3>1
    <3> QED BY <2>4, <3>1, <3>2
  <2>9. \A i, j \in 1 .. Len(b) :
          b[i].closing # 0 /\ b[j].closing # 0 /\ i < j =>
            b[i].closing < j \/ b[j].closing < b[i].closing
    <3> SUFFICES ASSUME NEW i \in 1 .. Len(tokens), NEW j \in 1 .. Len(tokens),
                        b[i].closing # 0, b[j].closing # 0, i < j
                 PROVE  b[i].closing < j \/ b[j].closing < b[i].closing
      BY <2>4
    <3>1. /\ tokens[i].kind \in OpeningSymbols /\ b[i].closing = tokens[i].value
          /\ tokens[j].kind \in OpeningSymbols /\ b[j].closing = tokens[j].value
      BY <2>4
    <3>2. tokens[i].value < j \/ tokens[j].value < tokens[i].value
      BY <2>2, <2>5, <3>1 DEF GroupsOK, GroupsNest, IsOpening
    <3> QED BY <3>1, <3>2
  <2> QED BY <2>6, <2>7, <2>8, <2>9 DEF GroupsMatched, b
<1> QED BY <1>1, Inductive, PTL DEF BufferIsWellFormed

=============================================================================
