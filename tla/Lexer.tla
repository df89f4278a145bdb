-------------------------------- MODULE Lexer -------------------------------
(***************************************************************************)
(* The lexer (TokenizedBuffer::Lex and the class TokenizedBuffer::Lexer in *)
(* Lex/TokenizedBuffer.cc): it skips white space and comments, dispatches  *)
(* on the next character, forms one token, and matches group symbols,      *)
(* inserting closing ones where the source has none.                       *)
(*                                                                         *)
(* Offsets and columns count from zero as in the code; tokens and lines    *)
(* are numbered from one.                                                  *)
(***************************************************************************)
EXTENDS TokenBuffer, TokenSpellings, NumericLiteral, StringLiteral

CONSTANT Sources   (* the source texts                                     *)

ASSUME SourcesAssumption == Sources \subseteq Seq(STRING)

VARIABLES
  source,           (* the source text                                     *)
  offset,           (* how much of it has been consumed                    *)
  token_infos,      (* the tokens                                          *)
  line_infos,       (* the lines; the last is the current one              *)
  current_column,
  set_indent,       (* the indent of the current line is known             *)
  open_groups,      (* the opening tokens without a closing one            *)
  identifiers,      (* identifier_infos_: the words, each once             *)
  literal_ints,     (* literal_int_storage_: the token each entry is for   *)
  literal_strings,  (* literal_string_storage_, likewise                   *)
  diagnostics,      (* what was emitted: name, offset, and computed line   *)
  skip_from,        (* where SkipWhitespace started                        *)
  closing_for,      (* the kind CloseInvalidOpenGroups was called with     *)
  phase             (* "whitespace", "token", "closing", "done"            *)

text_vars == <<source, offset, line_infos, current_column, set_indent>>

storage == <<identifiers, literal_ints, literal_strings>>

vars == <<text_vars, token_infos, open_groups, storage, diagnostics,
          skip_from, closing_for, phase>>

Rest == Drop(source, offset)

NPos == -1

NewLine(start) == [start |-> start, length |-> NPos, indent |-> 0]

Init ==
  /\ source \in Sources
  /\ offset = 0
  /\ token_infos = <<>>
  /\ line_infos = <<NewLine(0)>>
  /\ current_column = 0
  /\ set_indent = FALSE
  /\ open_groups = <<>>
  /\ identifiers = <<>>
  /\ literal_ints = <<>>
  /\ literal_strings = <<>>
  /\ diagnostics = {}
  /\ skip_from = 0
  /\ closing_for = "Error"
  /\ phase = "whitespace"

-----------------------------------------------------------------------------
(* Lines, locations and tokens. *)

CurrentLine == Len(line_infos)

(* Mutant: with lower_bound in place of upper_bound. *)
LineBefore(lines, at) ==
  CHOOSE l \in 1 .. Len(lines) :
    /\ l = 1 \/ lines[l].start < at
    /\ \A m \in (l + 1) .. Len(lines) : lines[m].start >= at

(* SourceBufferLocationTranslator::GetLocation: the last line that starts  *)
(* at or before the offset, among the lines known by now.                  *)
LineAt(lines, at) ==
  CHOOSE l \in 1 .. Len(lines) :
    /\ lines[l].start <= at
    /\ \A m \in (l + 1) .. Len(lines) : lines[m].start > at

Located(name, at, lines) ==
  [name |-> name, at |-> at, line |-> LineAt(lines, at)]

(* The line with its length. *)
Ended(lines, length) == [lines EXCEPT ![Len(lines)].length = length]

(* The lines when a token starts at the current column. *)
Indented ==
  IF set_indent THEN line_infos
  ELSE [line_infos EXCEPT ![CurrentLine].indent = current_column]

NewToken(kind, value) ==
  [kind |-> kind, has_trailing_space |-> FALSE, is_recovery |-> FALSE,
   token_line |-> CurrentLine, column |-> current_column, value |-> value]

(* NoteWhitespace *)
Spaced(tokens) ==
  IF tokens = <<>> THEN tokens
  ELSE [tokens EXCEPT ![Len(tokens)].has_trailing_space = TRUE]

(* n characters of the current line become a token that sets the indent. *)
TakeToken(n) ==
  /\ offset' = offset + n
  /\ current_column' = current_column + n
  /\ line_infos' = Indented
  /\ set_indent' = TRUE
  /\ UNCHANGED source

(* Back to the loop of Lex: SkipWhitespace starts after the token. *)
SkipNext ==
  /\ phase' = "whitespace"
  /\ skip_from' = offset'
  /\ UNCHANGED closing_for

-----------------------------------------------------------------------------
(* SkipWhitespace, one iteration at a time. *)

AtComment == StartsWith(Rest, <<"/", "/">>)

SkipComment ==
  LET size == Find(Rest, LAMBDA c : c = "\n") IN
  /\ phase = "whitespace"
  /\ AtComment
  /\ diagnostics' = diagnostics
       \union {d \in {Located("TrailingComment", offset, line_infos)} : set_indent}
       \union {d \in {Located("NoWhitespaceAfterCommentIntroducer", offset + 2, line_infos)} :
                 Len(Rest) > 2 /\ ~IsSpace(Rest[3])}
  /\ offset' = offset + size
  /\ current_column' = current_column + size
  /\ UNCHANGED <<source, line_infos, set_indent, token_infos, open_groups, storage,
                 skip_from, closing_for, phase>>

(* Mutant: without the character dropped. *)
SkipBlankInPlace ==
  /\ phase = "whitespace"
  /\ Rest # <<>> /\ IsHorizontalWhitespace(Rest[1])
  /\ UNCHANGED vars

SkipBlank ==
  /\ phase = "whitespace"
  /\ Rest # <<>> /\ IsHorizontalWhitespace(Rest[1])
  /\ offset' = offset + 1
  /\ current_column' = current_column + 1
  /\ UNCHANGED <<source, line_infos, set_indent, token_infos, open_groups, storage,
                 diagnostics, skip_from, closing_for, phase>>

(* HandleNewline; the newline that ends the text starts no line. *)
SkipNewline ==
  /\ phase = "whitespace"
  /\ Len(Rest) > 1 /\ Rest[1] = "\n"
  /\ offset' = offset + 1
  /\ line_infos' = Append(Ended(line_infos, current_column),
                          NewLine(line_infos[CurrentLine].start + current_column + 1))
  /\ current_column' = 0
  /\ set_indent' = FALSE
  /\ UNCHANGED <<source, token_infos, open_groups, storage, diagnostics,
                 skip_from, closing_for, phase>>

(* The end of the text: Lex notes white space and closes every group. *)
EndText ==
  /\ phase = "whitespace"
  /\ Rest \in {<<>>, <<"\n">>}
  /\ offset' = Len(source)
  /\ line_infos' = Ended(line_infos, current_column)
  /\ token_infos' = Spaced(token_infos)
  /\ closing_for' = "Error"
  /\ phase' = "closing"
  /\ UNCHANGED <<source, current_column, set_indent, open_groups, storage,
                 diagnostics, skip_from>>

StopAtToken ==
  /\ phase = "whitespace"
  /\ Rest # <<>> /\ ~IsSpace(Rest[1]) /\ ~AtComment
  /\ token_infos' = IF skip_from = offset THEN token_infos ELSE Spaced(token_infos)
  /\ phase' = "token"
  /\ UNCHANGED <<text_vars, open_groups, storage, diagnostics, skip_from, closing_for>>

-----------------------------------------------------------------------------
(* Literals. *)

NumberKinds == {"IntegerLiteral", "RealLiteral", "Error"}

LexNumericLiteral ==
  /\ phase = "token"
  /\ IsDecimalDigit(Rest[1])
  /\ \E literal \in {LexNumber(Rest)}, kind \in NumberKinds :
       /\ kind = NumberKind(literal)
       /\ TakeToken(Len(literal.text))
       /\ token_infos' = Append(token_infos,
            NewToken(kind, IF kind = "Error" THEN Len(literal.text)
                           ELSE Len(literal_ints) + 1))
       /\ literal_ints' = literal_ints \o
            (CASE kind = "IntegerLiteral" -> <<Len(token_infos) + 1>>
               [] kind = "RealLiteral"    -> <<Len(token_infos) + 1, Len(token_infos) + 1>>
               [] kind = "Error"          -> <<>>)
       /\ diagnostics' = diagnostics \union
            {Located(name, offset, line_infos) : name \in Check(literal).emitted}
  /\ SkipNext
  /\ UNCHANGED <<open_groups, identifiers, literal_strings>>

(* The k-th newline of the text, and the lines that a text of several      *)
(* lines adds: each ends where the next begins and takes the literal's     *)
(* column for its indent.                                                  *)
Newlines(text) == {p \in 1 .. Len(text) : text[p] = "\n"}

NthNewline(text, k) ==
  CHOOSE p \in Newlines(text) : Cardinality({q \in Newlines(text) : q < p}) = k - 1

(* Mutant: with lines counted from the start of the line. *)
LinesFromLineStart(text) ==
  LET count == Cardinality(Newlines(text))
      end(k) == IF k = count THEN NPos
                ELSE NthNewline(text, k + 1) - NthNewline(text, k) - 1
  IN Ended(Indented, NthNewline(text, 1) - 1) \o
     [k \in 1 .. count |-> [start  |-> line_infos[CurrentLine].start + NthNewline(text, k),
                            length |-> end(k),
                            indent |-> current_column]]

LinesOf(text) ==
  LET count == Cardinality(Newlines(text))
      start == line_infos[CurrentLine].start + current_column
      end(k) == IF k = count THEN NPos
                ELSE NthNewline(text, k + 1) - NthNewline(text, k) - 1
  IN Ended(Indented, current_column + NthNewline(text, 1) - 1) \o
     [k \in 1 .. count |-> [start  |-> start + NthNewline(text, k),
                            length |-> end(k),
                            indent |-> current_column]]

(* The lines are known by now.  Where the value is computed                *)
(* (StringLiteralValue), any place of the literal may get a diagnostic.    *)
LexTerminated(text) ==
  /\ token_infos' = Append(token_infos,
                           NewToken("StringLiteral", Len(literal_strings) + 1))
  /\ literal_strings' = Append(literal_strings, Len(token_infos) + 1)
  /\ \E places \in {{}} \union {{at} : at \in offset .. (offset + Len(text) - 1)} :
       diagnostics' = diagnostics \union
         {Located("StringValue", at, line_infos') : at \in places}

LexUnterminated(text) ==
  /\ token_infos' = Append(token_infos, NewToken("Error", Len(text)))
  /\ diagnostics' = diagnostics \union
       {Located("UnterminatedString", offset, line_infos')}
  /\ UNCHANGED literal_strings

(* A string on one line, or over several. *)
LexStringLiteral ==
  /\ phase = "token"
  /\ Rest[1] \in {"'", Quote, "#"} /\ StartsString(Rest)
  /\ \E literal \in {LexString(Rest)} :
       /\ offset' = offset + Len(literal.text)
       /\ line_infos' = IF IsMultiLine(literal) THEN LinesOf(literal.text) ELSE Indented
       /\ current_column' =
            IF IsMultiLine(literal)
            THEN Len(literal.text)
                 - NthNewline(literal.text, Cardinality(Newlines(literal.text)))
            ELSE current_column + Len(literal.text)
       /\ set_indent' = TRUE
       /\ IF literal.is_terminated THEN LexTerminated(literal.text)
          ELSE LexUnterminated(literal.text)
  /\ SkipNext
  /\ UNCHANGED <<source, open_groups, identifiers, literal_ints>>

-----------------------------------------------------------------------------
(* Words: LexKeywordOrIdentifier with LexWordAsTypeLiteralToken. *)

AtWord == phase = "token" /\ Rest # <<>> /\ (IsAlpha(Rest[1]) \/ Rest[1] = "_")

Word == SubSeq(Rest, 1, PrefixLength(Rest, IsIdByte))

TypeLiteralKind(c) ==
  CASE c = "i" -> "IntegerTypeLiteral"
    [] c = "u" -> "UnsignedIntegerTypeLiteral"
    [] c = "f" -> "FloatingPointTypeLiteral"

LooksLikeTypeLiteral(word) ==
  /\ Len(word) >= 2
  /\ word[1] \in {"i", "u", "f"}
  /\ word[2] \in Digits \ {"0"}

IsTypeLiteral(word) ==
  /\ LooksLikeTypeLiteral(word)
  /\ \A i \in 2 .. Len(word) : IsDecimalDigit(word[i])

(* The length is checked before the suffix is known to be a number. *)
LexLongSuffix ==
  /\ AtWord
  /\ LooksLikeTypeLiteral(Word) /\ ~CanLexInteger(Tail(Word))
  /\ TakeToken(Len(Word))
  /\ token_infos' = Append(token_infos, NewToken("Error", Len(Word)))
  /\ diagnostics' = diagnostics \union {Located("TooManyDigits", offset + 1, line_infos)}
  /\ SkipNext
  /\ UNCHANGED <<open_groups, storage>>

LexTypeLiteral ==
  /\ AtWord
  /\ IsTypeLiteral(Word) /\ CanLexInteger(Tail(Word))
  /\ TakeToken(Len(Word))
  /\ token_infos' = Append(token_infos,
                           NewToken(TypeLiteralKind(Word[1]), Len(literal_ints) + 1))
  /\ literal_ints' = Append(literal_ints, Len(token_infos) + 1)
  /\ SkipNext
  /\ UNCHANGED <<open_groups, identifiers, literal_strings, diagnostics>>

IsOtherWord ==
  /\ AtWord
  /\ ~(LooksLikeTypeLiteral(Word) /\ ~CanLexInteger(Tail(Word)))
  /\ ~IsTypeLiteral(Word)

LexKeyword ==
  /\ IsOtherWord
  /\ \E k \in Keywords :
       k.spelling = Word /\ token_infos' = Append(token_infos, NewToken(k.kind, 0))
  /\ TakeToken(Len(Word))
  /\ SkipNext
  /\ UNCHANGED <<open_groups, storage, diagnostics>>

(* GetOrCreateIdentifier: the words known once this one is. *)
KnownWith(word) ==
  IF \E i \in 1 .. Len(identifiers) : identifiers[i] = word THEN identifiers
  ELSE Append(identifiers, word)

LexIdentifier ==
  /\ IsOtherWord
  /\ \A k \in Keywords : k.spelling # Word
  /\ identifiers' = KnownWith(Word)
  /\ \E id \in 1 .. Len(identifiers') :
       /\ identifiers'[id] = Word
       /\ token_infos' = Append(token_infos, NewToken("Identifier", id))
  /\ TakeToken(Len(Word))
  /\ SkipNext
  /\ UNCHANGED <<open_groups, literal_ints, literal_strings, diagnostics>>

-----------------------------------------------------------------------------
(* Everything else is an error: a run of characters that start nothing.    *)
(* Blanks belong to the run, and it does not set the indent of the line.   *)

IsErrorChar(c) == ~IsAlnum(c) /\ c \notin {"_", "\t", "\n"} /\ ~IsSymbolChar(c)

LexError ==
  LET run  == PrefixLength(Rest, IsErrorChar)
      size == IF run = 0 THEN 1 ELSE run IN
  /\ phase = "token"
  /\ ~IsAlnum(Rest[1]) /\ Rest[1] # "_" /\ ~StartsSymbol(Rest)
  /\ ~(Rest[1] \in {"'", Quote, "#"} /\ StartsString(Rest))
  /\ token_infos' = Append(token_infos, NewToken("Error", size))
  /\ diagnostics' = diagnostics \union
       {Located("UnrecognizedCharacters", offset, line_infos)}
  /\ offset' = offset + size
  /\ current_column' = current_column + size
  /\ SkipNext
  /\ UNCHANGED <<source, line_infos, set_indent, open_groups, storage>>

-----------------------------------------------------------------------------
(* Symbols and groups. *)

(* LexSymbolToken up to its call of CloseInvalidOpenGroups. *)
LexSymbolToken ==
  /\ phase = "token"
  /\ \E s \in Symbols : SymbolAt(Rest, s) /\ closing_for' = SymbolKinds[s]
  /\ line_infos' = Indented
  /\ set_indent' = TRUE
  /\ phase' = "closing"
  /\ UNCHANGED <<source, offset, current_column, token_infos, open_groups, storage,
                 diagnostics, skip_from>>

Innermost == open_groups[Len(open_groups)]

(* Mutant: without the groups that are open at the end. *)
MustCloseAtClosing ==
  /\ closing_for \in ClosingSymbols
  /\ open_groups # <<>>
  /\ closing_for # ClosingSymbol(token_infos[Innermost].kind)

MustClose ==
  /\ closing_for \in ClosingSymbols \union {"Error"}
  /\ open_groups # <<>>
  /\ closing_for # ClosingSymbol(token_infos[Innermost].kind)

(* Where a token starts in the source. *)
TokenOffset(token) == line_infos[token.token_line].start + token.column

(* The recovery token that closes the innermost group, with the white      *)
(* space of the token before it.                                           *)
RecoveryToken ==
  [kind |-> ClosingSymbol(token_infos[Innermost].kind),
   has_trailing_space |-> token_infos[Len(token_infos)].has_trailing_space,
   is_recovery |-> TRUE,
   token_line |-> CurrentLine, column |-> current_column, value |-> Innermost]

(* One iteration of CloseInvalidOpenGroups. *)
CloseInvalidOpenGroups ==
  /\ phase = "closing"
  /\ MustClose
  /\ open_groups' = SubSeq(open_groups, 1, Len(open_groups) - 1)
  /\ token_infos' = Append([token_infos EXCEPT ![Innermost].value = Len(token_infos) + 1],
                           RecoveryToken)
  /\ diagnostics' = diagnostics \union
       {Located("MismatchedClosing", TokenOffset(token_infos[Innermost]), line_infos)}
  /\ UNCHANGED <<text_vars, storage, skip_from, closing_for, phase>>

(* The rest of LexSymbolToken, by the kind of symbol. *)
AtSymbol == phase = "closing" /\ closing_for # "Error" /\ ~MustClose

TakeSymbol ==
  /\ TakeToken(Len(SymbolSpelling(closing_for)))
  /\ SkipNext
  /\ UNCHANGED storage

AddSymbol ==
  /\ AtSymbol
  /\ closing_for \notin ClosingSymbols
  /\ token_infos' = Append(token_infos, NewToken(closing_for, 0))
  /\ open_groups' = IF closing_for \in OpeningSymbols
                    THEN Append(open_groups, Len(token_infos) + 1) ELSE open_groups
  /\ TakeSymbol
  /\ UNCHANGED diagnostics

AddUnmatchedClosing ==
  /\ AtSymbol
  /\ closing_for \in ClosingSymbols
  /\ open_groups = <<>>
  /\ token_infos' = Append(token_infos, NewToken("Error", Len(SymbolSpelling(closing_for))))
  /\ diagnostics' = diagnostics \union {Located("UnmatchedClosing", offset, line_infos)}
  /\ TakeSymbol
  /\ UNCHANGED open_groups

(* Mutant: without the opening token's link. *)
AddClosingOneWay ==
  /\ AtSymbol
  /\ closing_for \in ClosingSymbols
  /\ open_groups # <<>>
  /\ token_infos' = Append(token_infos, NewToken(closing_for, Innermost))
  /\ open_groups' = SubSeq(open_groups, 1, Len(open_groups) - 1)
  /\ TakeSymbol
  /\ UNCHANGED diagnostics

AddMatchedClosing ==
  /\ AtSymbol
  /\ closing_for \in ClosingSymbols
  /\ open_groups # <<>>
  /\ token_infos' = Append([token_infos EXCEPT ![Innermost].value = Len(token_infos) + 1],
                           NewToken(closing_for, Innermost))
  /\ open_groups' = SubSeq(open_groups, 1, Len(open_groups) - 1)
  /\ TakeSymbol
  /\ UNCHANGED diagnostics

AddEndOfFileToken ==
  /\ phase = "closing"
  /\ closing_for = "Error" /\ ~MustClose
  /\ token_infos' = Append(token_infos, NewToken("EndOfFile", 0))
  /\ phase' = "done"
  /\ UNCHANGED <<text_vars, open_groups, storage, diagnostics, skip_from, closing_for>>

-----------------------------------------------------------------------------

SkipWhitespace ==
  \/ SkipComment \/ SkipBlank \/ SkipNewline \/ EndText \/ StopAtToken

LexToken ==
  \/ LexNumericLiteral \/ LexStringLiteral
  \/ LexLongSuffix \/ LexTypeLiteral \/ LexKeyword \/ LexIdentifier
  \/ LexError \/ LexSymbolToken

Close ==
  \/ CloseInvalidOpenGroups
  \/ AddSymbol \/ AddUnmatchedClosing \/ AddMatchedClosing
  \/ AddEndOfFileToken

Finished == phase = "done" /\ UNCHANGED vars

Next == SkipWhitespace \/ LexToken \/ Close \/ Finished

(* Lex is a sequential loop that always takes its next step. *)
Spec == Init /\ [][Next]_vars /\ WF_vars(Next)

(* has_errors_, and the buffer as its accessors show it to the parser.     *)
HasErrors == diagnostics # {}

Buffer ==
  [i \in 1 .. Len(token_infos) |->
     [kind           |-> token_infos[i].kind,
      line           |-> token_infos[i].token_line,
      indent         |-> line_infos[token_infos[i].token_line].indent + 1,
      trailing_space |-> token_infos[i].has_trailing_space,
      closing        |-> IF token_infos[i].kind \in OpeningSymbols
                         THEN token_infos[i].value ELSE 0]]

=============================================================================
