--------------------------- MODULE StringLiteral ----------------------------
(***************************************************************************)
(* The extent of string literals (StringLiteral::Lex in                    *)
(* Lex/StringLiteral.cc): the level of `#`, the introducer, and the scan   *)
(* for the terminator over escape sequences.                               *)
(***************************************************************************)
EXTENDS CharacterSet

Quote == "\""

MultiLineIndicator == <<"'", "'", "'">>

DoubleQuotedMultiLineIndicator == <<Quote, Quote, Quote>>

Hashes(n) == [i \in 1 .. n |-> "#"]

EscapeMark(hash_level) == <<"\\">> \o Hashes(hash_level)

NoIntroducer == [kind |-> "None", terminator |-> <<>>, prefix_size |-> 0]

(* Introducer::Lex: three quotes and a file type up to the end of the line *)
(* start a multi-line literal; otherwise one double quote starts another.  *)
Introducer(text) ==
  LET line_end == 3 + Find(Drop(text, 3), LAMBDA c : c \in {"#", "\n", Quote})
      multi(kind, indicator) ==
        [kind |-> kind, terminator |-> indicator, prefix_size |-> line_end + 1]
      ends_line == line_end < Len(text) /\ text[line_end + 1] = "\n"
  IN IF StartsWith(text, MultiLineIndicator) /\ ends_line
     THEN multi("MultiLine", MultiLineIndicator)
     ELSE IF StartsWith(text, DoubleQuotedMultiLineIndicator) /\ ends_line
     THEN multi("MultiLineWithDoubleQuotes", DoubleQuotedMultiLineIndicator)
     ELSE IF StartsWith(text, <<Quote>>)
     THEN [kind |-> "NotMultiLine", terminator |-> <<Quote>>, prefix_size |-> 1]
     ELSE NoIntroducer

(* The literal at the start of the text.  content_end is the offset of the *)
(* terminator, or of the end of an unterminated literal.                   *)
LexString(text) ==
  LET hash_level == PrefixLength(text, LAMBDA c : c = "#")
      introducer == Introducer(Drop(text, hash_level))
      multi_line == introducer.kind # "NotMultiLine"
      prefix     == hash_level + introducer.prefix_size
      terminator == introducer.terminator \o Hashes(hash_level)
      escape     == EscapeMark(hash_level)
      literal(content_end, size, terminated) ==
        [text |-> SubSeq(text, 1, size), hash_level |-> hash_level,
         kind |-> introducer.kind, prefix_size |-> prefix,
         content_end |-> content_end, is_terminated |-> terminated]
      unterminated(size) == literal(size, size, FALSE)
      scan[cursor \in Nat] ==
        LET rest    == Drop(text, cursor)
            escaped == cursor + Len(escape) IN
        IF cursor >= Len(text) THEN unterminated(Len(text))
        ELSE IF StartsWith(rest, escape)
        THEN IF escaped >= Len(text) THEN unterminated(Len(text))
             ELSE IF ~multi_line /\ text[escaped + 1] = "\n" THEN unterminated(escaped)
             ELSE scan[escaped + 1]
        ELSE IF ~multi_line /\ rest[1] = "\n" THEN unterminated(cursor)
        ELSE IF StartsWith(rest, terminator)
        THEN literal(cursor, cursor + Len(terminator), TRUE)
        ELSE scan[cursor + 1]
  IN scan[prefix]

(* Lex returns nothing for a text without an introducer. *)
StartsString(text) ==
  Introducer(Drop(text, PrefixLength(text, LAMBDA c : c = "#"))) # NoIntroducer

IsMultiLine(literal) == literal.kind # "NotMultiLine"

(* Mutant: without the last character. *)
ContentOneShort(literal) ==
  SubSeq(literal.text, literal.prefix_size + 1, literal.content_end - 1)

Content(literal) ==
  SubSeq(literal.text, literal.prefix_size + 1, literal.content_end)

=============================================================================
