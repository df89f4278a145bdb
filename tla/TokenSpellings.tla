--------------------------- MODULE TokenSpellings ---------------------------
(***************************************************************************)
(* The spellings of symbols (TokenKind.def), in the order in which the     *)
(* lexer tries them.  Keyword spellings are a parameter: the keywords are  *)
(* words like any other, found in a table.                                 *)
(***************************************************************************)
EXTENDS CharacterSet, TokenBuffer

CONSTANT Keywords   (* the keywords: kind and spelling                     *)

(* A keyword is a word, and each is spelled in one way only. *)
ASSUME KeywordsAssumption ==
  \A k \in Keywords :
    /\ k.kind \in KeywordTokens
    /\ k.spelling \in Seq(STRING) /\ Len(k.spelling) >= 1
    /\ \A i \in 1 .. Len(k.spelling) : IsIdByte(k.spelling[i])
    /\ \A l \in Keywords : k.kind = l.kind <=> k.spelling = l.spelling

(* The kinds, and in the same places their spellings. *)
SymbolKinds == <<
  "GreaterGreaterEqual", "LessEqualGreater", "LessLessEqual", "AmpEqual",
  "CaretEqual", "ColonEqual", "ColonExclaim", "EqualEqual",
  "EqualGreater", "ExclaimEqual", "GreaterEqual", "GreaterGreater",
  "LessEqual", "LessGreater", "LessLess", "LessMinus",
  "MinusEqual", "MinusGreater", "MinusMinus", "PercentEqual",
  "PipeEqual", "PlusEqual", "PlusPlus", "SlashEqual",
  "StarEqual", "TildeEqual", "Amp", "At",
  "Backslash", "Caret", "Colon", "Equal",
  "Exclaim", "Greater", "Less", "Minus",
  "Percent", "Period", "Pipe", "Plus",
  "Question", "Slash", "Star", "Tilde",
  "Comma", "Semi", "OpenParen", "OpenCurlyBrace",
  "OpenSquareBracket", "CloseParen", "CloseCurlyBrace", "CloseSquareBracket" >>

SymbolTexts == <<
  <<">", ">", "=">>, <<"<", "=", ">">>, <<"<", "<", "=">>, <<"&", "=">>,
  <<"^", "=">>, <<":", "=">>, <<":", "!">>, <<"=", "=">>,
  <<"=", ">">>, <<"!", "=">>, <<">", "=">>, <<">", ">">>,
  <<"<", "=">>, <<"<", ">">>, <<"<", "<">>, <<"<", "-">>,
  <<"-", "=">>, <<"-", ">">>, <<"-", "-">>, <<"%", "=">>,
  <<"|", "=">>, <<"+", "=">>, <<"+", "+">>, <<"/", "=">>,
  <<"*", "=">>, <<"~", "=">>, <<"&">>, <<"@">>,
  <<"\\">>, <<"^">>, <<":">>, <<"=">>,
  <<"!">>, <<">">>, <<"<">>, <<"-">>,
  <<"%">>, <<".">>, <<"|">>, <<"+">>,
  <<"?">>, <<"/">>, <<"*">>, <<"~">>,
  <<",">>, <<";">>, <<"(">>, <<"{">>,
  <<"[">>, <<")">>, <<"}">>, <<"]">> >>

Symbols == 1 .. Len(SymbolKinds)

(* compute_symbol_kind: the first symbol of the table that the text starts *)
(* with.                                                                   *)
SymbolAt(text, s) ==
  /\ StartsWith(text, SymbolTexts[s])
  /\ \A r \in 1 .. (s - 1) : ~StartsWith(text, SymbolTexts[r])

StartsSymbol(text) == \E s \in Symbols : SymbolAt(text, s)

(* The characters LexError takes for symbols: those that are one. *)
IsSymbolChar(c) == \E s \in Symbols : SymbolTexts[s] = <<c>>

(* TokenKind::fixed_spelling of a symbol *)
SymbolSpelling(kind) ==
  LET s == CHOOSE s \in Symbols : SymbolKinds[s] = kind IN SymbolTexts[s]

=============================================================================
