------------------------- MODULE StringLiteralValue -------------------------
(***************************************************************************)
(* The value of a string literal (StringLiteral::ComputeValue in           *)
(* Lex/StringLiteral.cc): the indentation of the last line is removed from *)
(* every line, blanks at the end of lines go, escape sequences are         *)
(* expanded.  One action for each way through the loop of                  *)
(* ExpandEscapeSequencesAndRemoveIndent.                                   *)
(*                                                                         *)
(* The value is kept with the origin of each character: `escaped` says     *)
(* that an escape sequence produced it.                                    *)
(***************************************************************************)
EXTENDS StringLiteral, NumericLiteral

CONSTANT Literals   (* the literals whose values are computed              *)

VARIABLES
  literal,              (* the literal                                     *)
  contents,             (* what remains of its content                     *)
  result,               (* the value so far                                *)
  last_escape_length,   (* its length after the last escape of this line   *)
  emitted,              (* the diagnostics                                 *)
  phase                 (* "line", "text", "done"; "aborted" by a CHECK    *)

vars == <<literal, contents, result, last_escape_length, emitted, phase>>

-----------------------------------------------------------------------------

(* ComputeIndentOfFinalLine: the blanks that start the last line. *)
Indent ==
  LET text  == literal.text
      start == CHOOSE n \in 1 .. Len(text) :
                 text[n] = "\n" /\ \A i \in (n + 1) .. Len(text) : text[i] # "\n"
      line  == Drop(text, start)
  IN IF ~IsMultiLine(literal) THEN <<>>
     ELSE SubSeq(line, 1, PrefixLength(line, IsHorizontalWhitespace))

(* CheckIndent: the last line holds nothing before the terminator. *)
TerminatorOnItsOwnLine(lit) ==
  LET content == Content(lit)
      line    == Find([i \in 1 .. Len(content) |-> content[Len(content) - i + 1]],
                      LAMBDA c : c = "\n")
  IN \A i \in (Len(content) - line + 1) .. Len(content) :
       IsHorizontalWhitespace(content[i])

InitialDiagnostics(lit) ==
  {"MultiLineStringWithDoubleQuotes" :
     x \in {k \in {lit.kind} : k = "MultiLineWithDoubleQuotes"}}
  \union
  {"ContentBeforeStringTerminator" :
     x \in {l \in {lit} : IsMultiLine(l) /\ ~TerminatorOnItsOwnLine(l)}}

Init ==
  /\ literal \in Literals
  /\ contents = Content(literal)
  /\ result = <<>>
  /\ last_escape_length = 0
  /\ emitted = InitialDiagnostics(literal)
  /\ phase = "line"

Unescaped(text) == [i \in 1 .. Len(text) |-> [char |-> text[i], escaped |-> FALSE]]

Escaped(char) == <<[char |-> char, escaped |-> TRUE]>>

Emit(name) == emitted' = emitted \union {name}

-----------------------------------------------------------------------------

(* The start of a line: its indentation goes, a different one is reported  *)
(* unless the line is blank.                                               *)
StartLine ==
  LET blanks == PrefixLength(contents, IsHorizontalWhitespace)
      rest   == Drop(contents, blanks) IN
  /\ phase = "line"
  /\ IF StartsWith(contents, Indent)
     THEN contents' = Drop(contents, Len(Indent)) /\ UNCHANGED emitted
     ELSE /\ contents' = rest
          /\ IF StartsWith(rest, <<"\n">>) THEN UNCHANGED emitted
             ELSE Emit("MismatchedIndentInString")
  /\ last_escape_length' = 0
  /\ phase' = "text"
  /\ UNCHANGED <<literal, result>>

EndsRegularText(c) == c \in {"\n", "\\", "\t"}

RegularText ==
  LET n == Find(contents, EndsRegularText) IN
  /\ phase = "text"
  /\ n > 0
  /\ result' = result \o Unescaped(SubSeq(contents, 1, n))
  /\ contents' = Drop(contents, n)
  /\ UNCHANGED <<literal, last_escape_length, emitted, phase>>

(* Mutant: with the end looked for at the start of lines only. *)
FinishAtLineStart ==
  /\ phase = "line"
  /\ contents = <<>>
  /\ phase' = "done"
  /\ UNCHANGED <<literal, contents, result, last_escape_length, emitted>>

Finish ==
  /\ phase = "text"
  /\ contents = <<>>
  /\ phase' = "done"
  /\ UNCHANGED <<literal, contents, result, last_escape_length, emitted>>

(* Mutant: for one blank only. *)
TrimmedOnce ==
  LET n == Len(result) IN
  IF n > last_escape_length /\ IsHorizontalWhitespace(result[n].char)
  THEN SubSeq(result, 1, n - 1) ELSE result

(* The value without the blanks at its end that are younger than the last  *)
(* escape of the line.                                                     *)
Trimmed ==
  LET kept == CHOOSE n \in 0 .. Len(result) :
        /\ \A i \in (n + 1) .. Len(result) :
             i > last_escape_length /\ IsHorizontalWhitespace(result[i].char)
        /\ \/ n = 0
           \/ n <= last_escape_length
           \/ ~IsHorizontalWhitespace(result[n].char)
  IN SubSeq(result, 1, kept)

Newline ==
  /\ phase = "text"
  /\ StartsWith(contents, <<"\n">>)
  /\ result' = Trimmed \o Unescaped(<<"\n">>)
  /\ contents' = Tail(contents)
  /\ phase' = "line"
  /\ UNCHANGED <<literal, last_escape_length, emitted>>

(* A tab and the blanks after it: dropped at the end of a line, an error   *)
(* anywhere else.                                                          *)
HorizontalTab ==
  LET after_space == PrefixLength(contents, IsHorizontalWhitespace) IN
  /\ phase = "text"
  /\ StartsWith(contents, <<"\t">>)
  /\ IF StartsWith(Drop(contents, after_space), <<"\n">>)
     THEN UNCHANGED <<result, emitted>>
     ELSE /\ Emit("InvalidHorizontalWhitespaceInString")
          /\ result' = result \o Unescaped(SubSeq(contents, 1, after_space))
  /\ contents' = Drop(contents, after_space)
  /\ UNCHANGED <<literal, last_escape_length, phase>>

Mark == EscapeMark(literal.hash_level)

(* A backslash without the `#`s of the literal is a character. *)
PlainBackslash ==
  /\ phase = "text"
  /\ StartsWith(contents, <<"\\">>)
  /\ ~StartsWith(contents, Mark)
  /\ result' = result \o Unescaped(<<"\\">>)
  /\ contents' = Tail(contents)
  /\ UNCHANGED <<literal, last_escape_length, emitted, phase>>

EscapedNewline ==
  /\ phase = "text"
  /\ StartsWith(contents, Mark \o <<"\n">>)
  /\ contents' = Drop(contents, Len(Mark) + 1)
  /\ phase' = "line"
  /\ UNCHANGED <<literal, result, last_escape_length, emitted>>

-----------------------------------------------------------------------------
(* ExpandAndConsumeEscapeSequence.  `rest` is what follows the mark; an    *)
(* expansion is the character produced, the characters of rest it took,    *)
(* and the diagnostic.  Bytes and code points given by their number are    *)
(* opaque characters.                                                      *)

Expansion(char, size, diagnostic) ==
  [char |-> char, size |-> size, diagnostic |-> diagnostic]

(* ExpandUnicodeEscapeSequence *)
UnicodeDiagnostic(digits) ==
  LET code_point == ParseInteger(digits, 16) IN
  IF ~CanLexInteger(digits) THEN "TooManyDigits"
  ELSE IF code_point > 1114111 THEN "UnicodeEscapeTooLarge"
  ELSE IF code_point >= 55296 /\ code_point < 57344 THEN "UnicodeEscapeSurrogate"
  ELSE "None"

ExpandUnicode(rest) ==
  LET digits == Find(Drop(rest, 2), LAMBDA c : ~IsUpperHexDigit(c))
      number == SubSeq(rest, 3, 2 + digits) IN
  IF ~(/\ StartsWith(Tail(rest), <<"{">>) /\ digits > 0
       /\ StartsWith(Drop(rest, 2 + digits), <<"}">>))
  THEN Expansion("u", 1, "UnicodeEscapeMissingBracedDigits")
  ELSE IF UnicodeDiagnostic(number) # "None"
  THEN Expansion("u", 1, UnicodeDiagnostic(number))
  ELSE Expansion("code point", 3 + digits, "None")

Expand(rest) ==
  LET first == rest[1] IN
  CASE first = "t" -> Expansion("\t", 1, "None")
    [] first = "n" -> Expansion("\n", 1, "None")
    [] first = "r" -> Expansion("\r", 1, "None")
    [] first \in {Quote, "'", "\\"} -> Expansion(first, 1, "None")
    [] first = "0" ->
         Expansion("NUL", 1, IF Len(rest) > 1 /\ IsDecimalDigit(rest[2])
                             THEN "DecimalEscapeSequence" ELSE "None")
    [] first = "x" ->
         IF Len(rest) > 2 /\ IsUpperHexDigit(rest[2]) /\ IsUpperHexDigit(rest[3])
         THEN Expansion("byte", 3, "None")
         ELSE Expansion("x", 1, "HexadecimalEscapeMissingDigits")
    [] first = "u" -> ExpandUnicode(rest)
    [] OTHER -> Expansion(first, 1, "UnknownEscapeSequence")

(* A mark with nothing after it fails the CHECK. *)
EscapeSequence ==
  LET rest      == Drop(contents, Len(Mark))
      expansion == Expand(rest) IN
  /\ phase = "text"
  /\ StartsWith(contents, Mark)
  /\ ~StartsWith(rest, <<"\n">>)
  /\ IF rest = <<>>
     THEN phase' = "aborted" /\ UNCHANGED <<contents, result, last_escape_length, emitted>>
     ELSE /\ result' = result \o Escaped(expansion.char)
          /\ contents' = Drop(rest, expansion.size)
          /\ last_escape_length' = Len(result) + 1
          /\ emitted' = emitted \union ({expansion.diagnostic} \ {"None"})
          /\ UNCHANGED phase
  /\ UNCHANGED literal

Next ==
  \/ StartLine
  \/ RegularText
  \/ Finish
  \/ Newline
  \/ HorizontalTab
  \/ PlainBackslash
  \/ EscapedNewline
  \/ EscapeSequence

Spec == Init /\ [][Next]_vars /\ WF_vars(Next)

=============================================================================
