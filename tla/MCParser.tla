------------------------------ MODULE MCParser ------------------------------
(***************************************************************************)
(* Small files for the parser: every short run of tokens of an alphabet,   *)
(* grammatical or not, where a construct of the language begins.  The      *)
(* lexer has matched the brackets of a buffer, so each one is balanced.    *)
(***************************************************************************)
EXTENDS MCTokens, ParserProperties

-----------------------------------------------------------------------------
(***************************************************************************)
(* Declarations of a file and of a type, whole, cut short and garbled, on  *)
(* one line or broken over two; parameter lists, deduced and regular; and  *)
(* the body of a function: conditions, loops, blocks and jumps, with       *)
(* parentheses, braces and semicolons missing or misplaced.                *)
(***************************************************************************)
FileTokens ==
  {"Fn", "Class", "Namespace", "Identifier", "Period", "OpenParen",
   "CloseParen", "OpenCurlyBrace", "CloseCurlyBrace", "Semi"}

MemberTokens ==
  {"Fn", "Interface", "Constraint", "Identifier", "OpenCurlyBrace",
   "CloseCurlyBrace", "Semi", "MinusGreater"}

PackageTokens ==
  {"Identifier", "Library", "StringLiteral", "Api", "Impl", "Semi"}

VariableTokens ==
  {"Var", "Let", "Identifier", "Colon", "ColonExclaim", "Equal", "Semi"}

ListTokens ==
  {"Identifier", "Colon", "Comma", "Addr", "OpenParen", "CloseParen"}

DeducedTokens ==
  {"Identifier", "SelfValueIdentifier", "Template", "Addr", "ColonExclaim",
   "Comma"}

NameTokens ==
  {"Identifier", "Period", "OpenParen", "CloseParen", "OpenSquareBracket",
   "CloseSquareBracket"}

ConditionTokens ==
  {"Identifier", "Else", "Semi", "OpenParen", "CloseParen", "OpenCurlyBrace",
   "CloseCurlyBrace"}

ForTokens ==
  {"Var", "Identifier", "Colon", "In", "OpenParen", "CloseParen", "Semi"}

JumpTokens ==
  {"Break", "Continue", "Return", "Identifier", "Semi", "Let", "Equal"}

Body == <<"Fn", "Identifier", "OpenParen", "CloseParen", "OpenCurlyBrace">>

Method(introducer) ==
  <<introducer, "Identifier", "OpenCurlyBrace",
    "Fn", "Identifier", "OpenParen", "CloseParen">>

FileTokenBuffers ==
  OneLine(
    (* Declarations. *)
    Sources(<<>>, FileTokens, 4, <<>>)
    \union UNION { Sources(Method(i), MemberTokens, 3, <<"CloseCurlyBrace">>) :
                     i \in {"Class", "Interface", "Constraint"} }
    \union Sources(<<"Package">>, PackageTokens \union {"Fn"}, 2, <<>>)
    \union Sources(<<"Package", "Identifier">>, PackageTokens, 4, <<>>)
    \union Sources(<<"Let", "Identifier">>, VariableTokens, 3, <<"Semi">>)
    \union Sources(<<"Var">>, VariableTokens, 3, <<"Semi">>)
    (* Names and parameter lists. *)
    \union Sources(<<"Fn", "Identifier", "OpenParen">>, ListTokens, 5,
                   <<"CloseParen", "Semi">>)
    \union Sources(<<"Fn", "Identifier", "OpenSquareBracket">>, DeducedTokens, 4,
                   <<"CloseSquareBracket", "OpenParen", "CloseParen", "Semi">>)
    \union UNION { Sources(<<i>>, NameTokens, 4, <<"Semi">>) :
                     i \in {"Class", "Fn", "Namespace"} }
    (* Statements. *)
    \union Sources(Body \o <<"While", "OpenParen">>, ConditionTokens, 3,
                   <<"CloseParen", "OpenCurlyBrace", "CloseCurlyBrace",
                     "CloseCurlyBrace">>)
    \union UNION { Sources(Body \o <<s>>, ConditionTokens, 4, <<"CloseCurlyBrace">>) :
                     s \in {"If", "While"} }
    \union Sources(Body \o <<"If", "OpenParen", "Identifier", "CloseParen",
                             "OpenCurlyBrace", "CloseCurlyBrace", "Else">>,
                   {"If", "While"} \union ConditionTokens, 3, <<"CloseCurlyBrace">>)
    \union Sources(Body \o <<"For">>, ForTokens, 4,
                   <<"OpenCurlyBrace", "CloseCurlyBrace", "CloseCurlyBrace">>)
    \union Sources(Body \o <<"For", "OpenParen", "Var", "Identifier">>, ForTokens, 4,
                   <<"CloseParen", "OpenCurlyBrace", "CloseCurlyBrace",
                     "CloseCurlyBrace">>)
    \union Sources(Body, JumpTokens, 3, <<"CloseCurlyBrace">>))
  \union TwoLines(
    Sources(<<"Fn", "Identifier">>, FileTokens, 2, <<"Semi">>)
    \union Sources(<<"Class">>, FileTokens, 2, <<"Fn">>)
    \union Sources(<<"Var", "Identifier">>, VariableTokens, 2, <<>>), 3)
  \union TwoLines(Sources(Body, JumpTokens, 2, <<"CloseCurlyBrace">>), 7)

-----------------------------------------------------------------------------
(***************************************************************************)
(* Expressions: every short sequence of operators and operands, with and   *)
(* without white space around them; and brackets: tuples, calls, indexing, *)
(* arrays, struct literals and struct types, nested and with their         *)
(* elements garbled.                                                       *)
(***************************************************************************)
Initializer == <<"Var", "Identifier", "Colon", "Identifier", "Equal">>

OperatorTokens ==
  {"Identifier", "Plus", "Star", "And", "Or", "EqualEqual", "Not"}

IfTokens == {"If", "Then", "Else", "Identifier", "Plus"}

AssignTokens == {"Identifier", "Equal", "PlusPlus", "And", "Percent", "Const", "As"}

TupleTokens ==
  {"OpenParen", "CloseParen", "Identifier", "Comma", "Semi"}

PostfixTokens ==
  {"OpenParen", "CloseParen", "OpenSquareBracket", "CloseSquareBracket",
   "Period", "MinusGreater", "Identifier", "Fn"}

ArrayTokens ==
  {"OpenSquareBracket", "CloseSquareBracket", "Identifier", "Comma", "Semi"}

StructTokens ==
  {"Period", "Identifier", "Colon", "Equal", "Comma", "OpenCurlyBrace",
   "CloseCurlyBrace"}

(* Every subset of the initializer's tokens is written tight. *)
AnySpacing(sources, lo) ==
  UNION { { Buffer(kinds, Len(kinds) + 3, FALSE, tight) :
              tight \in SUBSET (lo .. Len(kinds)) } : kinds \in sources }

ExpressionTokenBuffers ==
  OneLine(
    (* Operators. *)
    Sources(Initializer, OperatorTokens, 3, <<"Semi">>)
    \union Sources(Initializer, OperatorTokens, 3, <<>>)
    \union Sources(Initializer \o <<"Identifier">>, OperatorTokens, 4, <<"Semi">>)
    \union Sources(Initializer \o <<"If">>, IfTokens, 4, <<"Semi">>)
    \union Sources(Initializer \o <<"If", "Identifier", "Then">>, IfTokens, 4,
                   <<"Semi">>)
    \union Sources(Body, AssignTokens, 3, <<"Semi", "CloseCurlyBrace">>)
    (* Brackets. *)
    \union Sources(Initializer \o <<"OpenParen">>, TupleTokens, 5, <<"CloseParen", "Semi">>)
    \union Sources(Initializer \o <<"Identifier">>, PostfixTokens, 4, <<"Semi">>)
    \union Sources(Initializer \o <<"Identifier", "OpenParen">>,
                   {"Identifier", "Comma", "Plus", "Semi"}, 5, <<"CloseParen", "Semi">>)
    \union Sources(Initializer \o <<"OpenSquareBracket">>, ArrayTokens, 4,
                   <<"CloseSquareBracket", "Semi">>)
    \union Sources(Initializer \o <<"OpenCurlyBrace">>, StructTokens, 4,
                   <<"CloseCurlyBrace", "Semi">>)
    \union Sources(Initializer \o <<"OpenCurlyBrace", "Period", "Identifier">>,
                   {"Identifier", "Period", "Colon", "Equal", "Comma"}, 5,
                   <<"CloseCurlyBrace", "Semi">>))
  \union AnySpacing(
    Sources(Initializer, {"Identifier", "Star", "Minus"}, 3, <<"Semi">>), 5)

=============================================================================
