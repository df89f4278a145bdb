----------------------- MODULE StringLiteralProperties ----------------------
(***************************************************************************)
(* What the value of a string literal owes the text it was written as.     *)
(***************************************************************************)
EXTENDS StringLiteralValue

CONSTANT Values   (* strings that are written as literals and read back    *)

(* The text that spells a character inside a literal of one line: quotes,  *)
(* backslashes and everything that ends a line or looks like an escape are *)
(* written as escape sequences.                                            *)
Spelling(char, hash_level) ==
  LET mark == EscapeMark(hash_level) IN
  CASE char = "\n" -> mark \o <<"n">>
    [] char = "\t" -> mark \o <<"t">>
    [] char \in {Quote, "\\"} -> mark \o <<char>>
    [] OTHER -> <<char>>

Quoted(value, hash_level) ==
  LET spelled[n \in 0 .. Len(value)] ==
        IF n = 0 THEN <<>> ELSE spelled[n - 1] \o Spelling(value[n], hash_level)
  IN Hashes(hash_level) \o <<Quote>> \o spelled[Len(value)] \o <<Quote>>
     \o Hashes(hash_level)

Value == [i \in 1 .. Len(result) |-> result[i].char]

(* The content of a literal never ends inside an escape sequence: the      *)
(* scanner that looks for the terminator and the expander that runs later  *)
(* agree on what is escaped.                                               *)
EscapesAreComplete == phase # "aborted"

(* A string written with escape sequences is one literal, and its value is *)
(* that string, without a diagnostic, at every level of `#`.               *)
QuotingRoundTrips ==
  phase = "done" =>
    \A value \in Values :
      literal.text = Quoted(value, literal.hash_level) =>
        Value = value /\ emitted = {}

(* The scanner and the expander read the same escape sequences. *)
ScannerAndExpanderAgree == EscapesAreComplete /\ QuotingRoundTrips

(* Blanks at the end of a line are no part of the value, be they spaces or *)
(* tabs and wherever the last escape sequence of the line was.             *)
LinesEndWithoutBlanks ==
  \A i \in 2 .. Len(result) :
    result[i].char = "\n" /\ ~result[i].escaped =>
      result[i - 1].escaped \/ ~IsHorizontalWhitespace(result[i - 1].char)

(* In a literal without diagnostics every line had the indentation of the  *)
(* last: the text of the value's lines stands behind it in the source.     *)
Lines(text) == {i \in 1 .. Len(text) : i = 1 \/ text[i - 1] = "\n"}

IndentIsChecked ==
  phase = "done" /\ IsMultiLine(literal) /\ emitted = {} =>
    \A i \in Lines(Content(literal)) :
      LET line   == Drop(Content(literal), i - 1)
          blanks == PrefixLength(line, IsHorizontalWhitespace) IN
      \/ StartsWith(line, Indent)
      \/ StartsWith(Drop(line, blanks), <<"\n">>)

(* The value holds the lines of the literal without their indentation and  *)
(* without the blanks at their ends.                                       *)
LinesAreTrimmed == LinesEndWithoutBlanks /\ IndentIsChecked

(* Every value is computed. *)
ValueIsComputed == <>(phase = "done")

-----------------------------------------------------------------------------
(***************************************************************************)
(* The literals of the run: one line with up to three characters after the *)
(* opening quote, with and without `#`; several lines with up to five;     *)
(* every short value as it is quoted; and escapes by number.               *)
(***************************************************************************)
Words(chars, n) == UNION {[1 .. k -> chars] : k \in 0 .. n}

MCValues == Words({"a", Quote, "\\", "\n", "#"}, 3)

OneLine ==
  {Hashes(h) \o <<Quote>> \o w \o <<Quote>> \o Hashes(h) :
     w \in Words({"a", "\\", Quote, "\t", "#"}, 3), h \in {0, 1}}

SeveralLines ==
  {MultiLineIndicator \o <<"\n">> \o w \o MultiLineIndicator :
     w \in Words({"t", "\\", " ", "\t", "\n"}, 5)}
  \union
  {DoubleQuotedMultiLineIndicator \o <<"\n">> \o w \o DoubleQuotedMultiLineIndicator :
     w \in Words({"a", "\n", " "}, 3)}

ByNumber ==
  {<<Quote, "\\", "u", "{">> \o w \o <<"}", Quote>> :
     w \in {<<"1">>, <<>>, <<"D", "8", "0", "0">>, <<"D", "7", "F", "F">>, <<"E", "0", "0", "0">>,
            <<"1", "0", "F", "F", "F", "F">>, <<"1", "1", "0", "0", "0", "0">>,
            <<"0", "0", "0", "0", "0", "0", "1">>}}
  \union
  {<<Quote, "\\">> \o w \o <<Quote>> : w \in Words({"x", "0", "F", "u"}, 3)}

MCLiterals ==
  {l \in {LexString(t) : t \in OneLine \union SeveralLines \union ByNumber
             \union {Quoted(v, h) : v \in MCValues, h \in {0, 1}}} :
     l.is_terminated}

=============================================================================
