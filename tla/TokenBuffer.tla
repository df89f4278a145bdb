----------------------------- MODULE TokenBuffer ----------------------------
(***************************************************************************)
(* The interface between the lexer and the parser: a token buffer is a     *)
(* sequence of tokens with their kind, line, the indent of that line,      *)
(* whether white space follows, and the closing token of an opening one    *)
(* (0 for every other).                                                    *)
(***************************************************************************)
EXTENDS Integers, Sequences

(***************************************************************************)
(* The classes of Lex::TokenKind the parser tells apart (TokenKind.def).   *)
(* A token kind is its enumerator's name.                                  *)
(***************************************************************************)
OpeningSymbols == {"OpenParen", "OpenCurlyBrace", "OpenSquareBracket"}

ClosingSymbols == {"CloseParen", "CloseCurlyBrace", "CloseSquareBracket"}

(* TokenKind::closing_symbol *)
ClosingSymbol(kind) ==
  CASE kind = "OpenParen"         -> "CloseParen"
    [] kind = "OpenCurlyBrace"    -> "CloseCurlyBrace"
    [] kind = "OpenSquareBracket" -> "CloseSquareBracket"

SymbolTokens ==
  OpeningSymbols \union ClosingSymbols \union
  {"GreaterGreaterEqual", "LessEqualGreater", "LessLessEqual", "AmpEqual",
   "CaretEqual", "ColonEqual", "ColonExclaim", "EqualEqual", "EqualGreater",
   "ExclaimEqual", "GreaterEqual", "GreaterGreater", "LessEqual",
   "LessGreater", "LessLess", "LessMinus", "MinusEqual", "MinusGreater",
   "MinusMinus", "PercentEqual", "PipeEqual", "PlusEqual", "PlusPlus",
   "SlashEqual", "StarEqual", "TildeEqual", "Amp", "At", "Backslash",
   "Caret", "Colon", "Equal", "Exclaim", "Greater", "Less", "Minus",
   "Percent", "Period", "Pipe", "Plus", "Question", "Slash", "Star",
   "Tilde", "Comma", "Semi"}

KeywordTokens ==
  {"Abstract", "Adapt", "Addr", "Alias", "And", "Api", "As", "Auto", "Base",
   "Bool", "Break", "Case", "Choice", "Class", "Const", "Constraint",
   "Continue", "Default", "Destructor", "Else", "Extend", "False", "Final",
   "Fn", "For", "Forall", "Friend", "If", "Impl", "Impls", "Import", "In",
   "Interface", "Let", "Library", "Like", "Match", "Namespace", "Not",
   "Observe", "Or", "Override", "Package", "Partial", "Private", "Protected",
   "Require", "Return", "Returned", "SelfTypeIdentifier",
   "SelfValueIdentifier", "StringTypeLiteral", "Template", "Then", "True",
   "Type", "Underscore", "Var", "Virtual", "Where", "While"}

OtherTokens ==
  {"Identifier", "IntegerLiteral", "RealLiteral", "StringLiteral",
   "IntegerTypeLiteral", "UnsignedIntegerTypeLiteral",
   "FloatingPointTypeLiteral", "Error", "StartOfFile", "EndOfFile"}

TokenKind == SymbolTokens \union KeywordTokens \union OtherTokens

(* TokenKind::expected_parse_tree_size: `and` and `or` also get a virtual  *)
(* ShortCircuitOperand node.                                               *)
ExpectedParseTreeSize(kind) == IF kind \in {"And", "Or"} THEN 2 ELSE 1

-----------------------------------------------------------------------------
Token == [kind : STRING, line : Nat, indent : Nat, trailing_space : BOOLEAN,
          closing : Nat]

StartsFile(buf) ==
  Len(buf) >= 1 /\ \A i \in 1 .. Len(buf) : buf[i].kind = "StartOfFile" <=> i = 1

EndsFile(buf) ==
  Len(buf) >= 1 /\ \A i \in 1 .. Len(buf) : buf[i].kind = "EndOfFile" <=> i = Len(buf)

(* Every opening token knows its closing one, no closing token is without  *)
(* an opening one, and the groups are nested.                              *)
GroupsMatched(buf) ==
  LET Index == 1 .. Len(buf) IN
  /\ \A i \in Index :
       IF buf[i].kind \in OpeningSymbols
       THEN /\ buf[i].closing \in (i + 1) .. Len(buf)
            /\ buf[buf[i].closing].kind = ClosingSymbol(buf[i].kind)
       ELSE buf[i].closing = 0
  /\ \A i \in Index : buf[i].kind \in ClosingSymbols =>
       \E o \in 1 .. (i - 1) : buf[o].closing = i
  /\ \A i, j \in Index :
       buf[i].closing # 0 /\ buf[j].closing # 0 /\ i < j =>
         buf[i].closing < j \/ buf[j].closing < buf[i].closing

=============================================================================
