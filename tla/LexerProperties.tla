--------------------------- MODULE LexerProperties --------------------------
(***************************************************************************)
(* What the lexer owes the parser and the reader of its diagnostics.       *)
(***************************************************************************)
EXTENDS Lexer

(* What Tree::Parse relies on: whatever brackets the source holds, in the  *)
(* buffer they are matched and nested, and the end of the file is the last *)
(* token and no other.                                                     *)
BufferIsWellFormed ==
  phase = "done" => EndsFile(Buffer) /\ GroupsMatched(Buffer)

(* Why it does: open_groups holds the opening tokens without a closing     *)
(* one, outermost first; every other group symbol points at its partner of *)
(* the same shape; groups are nested, and no closed group reaches across   *)
(* the start of an open one.                                               *)
IsOpening(token) == token.kind \in OpeningSymbols

IsClosing(token) == token.kind \in ClosingSymbols

IsOpen(i, open) == \E k \in 1 .. Len(open) : open[k] = i

OpenAreOpening(tokens, open) ==
  \A k \in 1 .. Len(open) : open[k] \in 1 .. Len(tokens) /\ IsOpening(tokens[open[k]])

OpenInOrder(open) == \A k, l \in 1 .. Len(open) : k < l => open[k] < open[l]

ClosedHaveClosing(tokens, open) ==
  \A i \in 1 .. Len(tokens) : IsOpening(tokens[i]) /\ ~IsOpen(i, open) =>
    /\ tokens[i].value \in (i + 1) .. Len(tokens)
    /\ tokens[tokens[i].value].kind = ClosingSymbol(tokens[i].kind)

ClosingHaveOpening(tokens, open) ==
  \A i \in 1 .. Len(tokens) : IsClosing(tokens[i]) =>
    /\ tokens[i].value \in 1 .. (i - 1)
    /\ IsOpening(tokens[tokens[i].value]) /\ ~IsOpen(tokens[i].value, open)
    /\ tokens[tokens[i].value].value = i

GroupsNest(tokens, open) ==
  \A i, j \in 1 .. Len(tokens) :
    IsOpening(tokens[i]) /\ IsOpening(tokens[j]) /\ i < j /\ ~IsOpen(i, open) =>
      \/ tokens[i].value < j
      \/ ~IsOpen(j, open) /\ tokens[j].value < tokens[i].value

GroupsOK(tokens, open) ==
  /\ OpenAreOpening(tokens, open)
  /\ OpenInOrder(open)
  /\ ClosedHaveClosing(tokens, open)
  /\ ClosingHaveOpening(tokens, open)
  /\ GroupsNest(tokens, open)

GroupInvariant ==
  /\ GroupsOK(token_infos, open_groups)
  /\ \A i \in 1 .. Len(token_infos) :
       token_infos[i].kind = "EndOfFile" <=> phase = "done" /\ i = Len(token_infos)
  /\ phase = "done" => open_groups = <<>> /\ token_infos # <<>>

-----------------------------------------------------------------------------
(* GetTokenText: fixed spellings, the length of an error, or the literal   *)
(* that is found again at the place of the token.                          *)

SizedTypeLiterals ==
  {"IntegerTypeLiteral", "UnsignedIntegerTypeLiteral", "FloatingPointTypeLiteral"}

TokenText(token) ==
  LET text == Drop(source, TokenOffset(token)) IN
  CASE token.kind \in SymbolTokens -> SymbolSpelling(token.kind)
    [] token.kind \in KeywordTokens ->
         (CHOOSE k \in Keywords : k.kind = token.kind).spelling
    [] token.kind = "Error" -> SubSeq(text, 1, token.value)
    [] token.kind \in {"IntegerLiteral", "RealLiteral"} -> LexNumber(text).text
    [] token.kind = "StringLiteral" -> LexString(text).text
    [] token.kind \in SizedTypeLiterals ->
         SubSeq(text, 1, 1 + PrefixLength(Tail(text), IsDecimalDigit))
    [] token.kind = "Identifier" -> identifiers[token.value]
    [] token.kind = "EndOfFile" -> <<>>

TokenEnd(token) == TokenOffset(token) + Len(TokenText(token))

(* The tokens of the source, without those that recovery inserted. *)
RealTokens == {i \in 1 .. Len(token_infos) : ~token_infos[i].is_recovery}

PreviousEnd(i) ==
  LET earlier == {j \in RealTokens : j < i} IN
  IF earlier = {} THEN 0
  ELSE TokenEnd(token_infos[CHOOSE j \in earlier : \A k \in earlier : k <= j])

(* Only blanks, newlines and comments between the offsets. *)
IsSkippable(from, to) ==
  \A p \in (from + 1) .. to :
    \/ IsSpace(source[p])
    \/ \E q \in (from + 1) .. p :
         /\ StartsWith(Drop(source, q - 1), <<"/", "/">>)
         /\ \A r \in q .. p : source[r] # "\n"

(* No character of the source is lost or counted twice: read in order, the *)
(* tokens spell what stands in the source where they say they are, and     *)
(* only white space and comments are between them.                         *)
SourceIsCovered ==
  phase = "done" =>
    \A i \in RealTokens :
      LET token == token_infos[i] IN
      /\ StartsWith(Drop(source, TokenOffset(token)), TokenText(token))
      /\ PreviousEnd(i) <= TokenOffset(token)
      /\ IsSkippable(PreviousEnd(i), TokenOffset(token))
      /\ token.kind = "EndOfFile" => IsSkippable(TokenEnd(token), Len(source))

(* HasLeadingWhitespace, which decides the fixity of operators, is true of *)
(* a token exactly when something was skipped before it; recovery tokens   *)
(* in between hide nothing.                                                *)
HasLeadingWhitespace(i) == i = 1 \/ token_infos[i - 1].has_trailing_space

WhitespaceIsKept ==
  phase = "done" =>
    \A i \in RealTokens \ {1} :
      token_infos[i].kind # "EndOfFile" =>
        (HasLeadingWhitespace(i) <=> PreviousEnd(i) < TokenOffset(token_infos[i]))

(* The position of the lexer is the column of the current line, and a line *)
(* starts exactly after each newline it has passed.                        *)
LinesFollowSource ==
  phase \in {"whitespace", "token"} =>
    /\ line_infos[CurrentLine].start + current_column = offset
    /\ {line_infos[l].start : l \in 1 .. CurrentLine} =
         {0} \union {p \in 1 .. offset : source[p] = "\n"}
    /\ \A l \in 1 .. (CurrentLine - 1) :
         line_infos[l].start + line_infos[l].length + 1 = line_infos[l + 1].start

(* A diagnostic names the line its place is on, although the lines are     *)
(* only known up to where the lexer is when it emits it.                   *)
DiagnosticsAreLocated ==
  \A d \in diagnostics :
    d.line = 1 + Cardinality({p \in 1 .. d.at : source[p] = "\n"})

(* A buffer without errors has no error token and no token the source      *)
(* lacks: the driver stops after lexing in every other case.               *)
ErrorsAreReported ==
  phase = "done" /\ ~HasErrors =>
    \A i \in 1 .. Len(token_infos) :
      token_infos[i].kind # "Error" /\ ~token_infos[i].is_recovery

(* Every literal finds its own value in the storage, a real one both the   *)
(* mantissa and the exponent, and no two literals share an entry.          *)
LiteralsAreStored ==
  \A i \in 1 .. Len(token_infos) :
    LET token == token_infos[i]
        holds(storage_, n) == n <= Len(storage_) /\ storage_[n] = i IN
    /\ token.kind = "StringLiteral" => holds(literal_strings, token.value)
    /\ token.kind \in {"IntegerLiteral", "RealLiteral"} \union SizedTypeLiterals =>
         holds(literal_ints, token.value)
    /\ token.kind = "RealLiteral" => holds(literal_ints, token.value + 1)

(* What the accessors of a token answer is what stands in the source: its  *)
(* text, the white space before it, its line and column, and its value.    *)
TokensReadBack ==
  /\ SourceIsCovered
  /\ WhitespaceIsKept
  /\ LinesFollowSource
  /\ LiteralsAreStored

(* The errors of a source are reported, each on its own line. *)
DiagnosticsAreRight == DiagnosticsAreLocated /\ ErrorsAreReported

(* Every source is lexed to its end. *)
LexingEnds == <>(phase = "done")

-----------------------------------------------------------------------------
(* A promise the code does not keep. *)

(* Tree::Parse consumes a StartOfFile token before anything else, and      *)
(* checks that it is there.                                                *)
ParserFindsStart == phase = "done" => StartsFile(Buffer)

=============================================================================
