------------------------------- MODULE MCCheck -------------------------------
(***************************************************************************)
(* Programs for the front end, written as sequences of words.              *)
(***************************************************************************)
EXTENDS CheckProperties

T == INSTANCE MCTokens

(* The words that are not names.  `*t` is the star after a type. *)
KindOf ==
  [ w \in {} |-> "" ] @@
  ("fn" :> "Fn") @@ ("(" :> "OpenParen") @@ (")" :> "CloseParen") @@
  ("{" :> "OpenCurlyBrace") @@ ("}" :> "CloseCurlyBrace") @@
  ("[" :> "OpenSquareBracket") @@ ("]" :> "CloseSquareBracket") @@
  ("," :> "Comma") @@ (";" :> "Semi") @@ (":" :> "Colon") @@ ("." :> "Period") @@
  ("->" :> "MinusGreater") @@ ("=" :> "Equal") @@ ("+" :> "Plus") @@ ("-" :> "Minus") @@
  ("&" :> "Amp") @@ ("*" :> "Star") @@ ("*t" :> "Star") @@ ("not" :> "Not") @@
  ("const" :> "Const") @@ ("and" :> "And") @@ ("or" :> "Or") @@ ("if" :> "If") @@
  ("then" :> "Then") @@ ("else" :> "Else") @@ ("while" :> "While") @@
  ("return" :> "Return") @@ ("var" :> "Var") @@ ("let" :> "Let") @@
  ("namespace" :> "Namespace") @@ ("true" :> "True") @@ ("false" :> "False") @@
  ("i32" :> "IntegerTypeLiteral") @@ ("i64" :> "IntegerTypeLiteral") @@
  ("f64" :> "FloatingPointTypeLiteral") @@ ("bool" :> "Bool") @@ ("type" :> "Type") @@
  ("String" :> "StringTypeLiteral") @@ ("1.5" :> "RealLiteral") @@
  ("'s'" :> "StringLiteral") @@ ("class" :> "Class")

Numbers ==
  ("0" :> 0) @@ ("1" :> 1) @@ ("2" :> 2) @@ ("8" :> 8) @@ ("9" :> 9) @@ ("16" :> 16) @@
  ("256" :> 256)

Kinds(words) ==
  [ i \in DOMAIN words |-> IF words[i] \in DOMAIN KindOf THEN KindOf[words[i]]
                           ELSE IF words[i] \in DOMAIN Numbers THEN "IntegerLiteral"
                           ELSE "Identifier" ]

(* A prefix operator is followed by its operand at once, and a `*t`        *)
(* follows its type at once.                                               *)
Tight(words) ==
  { i + 1 : i \in { j \in DOMAIN words :
      words[j] \in {"&", "*"} \/ (j < Len(words) /\ words[j + 1] = "*t") } }

Program(words) ==
  [tokens |-> T!Buffer(Kinds(words), Len(words) + 3, FALSE, Tight(words)),
   texts  |-> <<"">> \o [ i \in DOMAIN words |->
                            IF words[i] \in DOMAIN Numbers THEN Numbers[words[i]]
                            ELSE words[i] ] \o <<"">>]


-----------------------------------------------------------------------------

Pair == <<"(", "i32", ",", "i32", ")">>

Tuple(a, b) == <<"(">> \o a \o <<",">> \o b \o <<")">>

Call0(f) == <<f, "(", ")">>

Var(x, type, e) == <<"var", x, ":">> \o type \o <<"=">> \o e \o <<";">>

Let(x, type, e) == <<"let", x, ":">> \o type \o <<"=">> \o e \o <<";">>

Block(s) == <<"{">> \o s \o <<"}">>

If(e, s) == <<"if", "(">> \o e \o <<")">> \o Block(s)

IfElse(e, s, z) == If(e, s) \o <<"else">> \o Block(z)

IfThenElse(e, a, z) == <<"if">> \o e \o <<"then">> \o a \o <<"else">> \o z

Struct(a, b) == <<"{", ".", a, "=", "p", ",", ".", b, "=", "b", "}">>

StructType(a, b) == <<"{", ".", a, ":", "i32", ",", ".", b, ":", "bool", "}">>

ArrayOf(type, n) == <<"[">> \o type \o <<";", n, "]">>

Pointer(type) == type \o <<"*t">>

(* G returns in place, H does not; K is in a namespace. *)
G == <<"fn", "G", "(", ")", "->">> \o Pair \o <<";">>
H == <<"fn", "H", "(", "v", ":">> \o Pair \o <<",", "w", ":", "i32", ")", "->", "i32", ";">>
K == <<"namespace", "N", ";", "fn", "N", ".", "K", "(", ")", ";">>

Run(params, result) == <<"fn", "Run", "(">> \o params \o <<")">> \o result \o <<";">>

Function(name, body) ==
  <<"fn", name, "(", "p", ":", "i32", ",", "b", ":", "bool", ")", "->", "i32", "{">> \o
  body \o <<"}">>

In(body) == Function("F", body \o <<"return", "p", ";">>)

(* With a variable of a pair, and functions to call. *)
With(stmt) == G \o H \o In(Var("t", Pair, Tuple(<<"p">>, <<"1">>)) \o stmt)

-----------------------------------------------------------------------------
(* Expressions, by the type they have, and what uses one. *)

Ints ==
  { <<"p">>, <<"p", "+", "1">>, <<"(", "p", ")">>, <<"t", "[", "1", "]">>,
    <<"H", "(", "t", ",", "1", ")">>, IfThenElse(<<"b">>, <<"p">>, <<"1">>),
    Struct("a", "c") \o <<".", "a">> }

Bools ==
  { <<"true">>, <<"not", "b">>, <<"b", "and", "false">>, <<"b", "or", "b", "or", "true">> }

Pairs ==
  { <<"t">>, Tuple(<<"p">>, <<"2">>), Call0("G"), IfThenElse(<<"b">>, <<"t">>, Call0("G")) }

NestedPair == <<"(">> \o Pair \o <<",", "i32", ")">>

UsesOfInt(e) ==
  { Let("x", <<"i32">>, e), Var("x", <<"i32">>, e), <<"return">> \o e \o <<";">>,
    <<"(">> \o e \o <<")", ";">> }

UsesOfPair(e) ==
  { Let("x", Pair, e), Var("x", Pair, e), <<"t", "=">> \o e \o <<";">>,
    Let("x", NestedPair, Tuple(e, <<"p">>)), Var("x", NestedPair, Tuple(e, <<"p">>)),
    Let("x", ArrayOf(<<"i32">>, "2"), e), <<"H", "(">> \o e \o <<",", "1", ")", ";">> }

Returns == { <<"return", "p", ";">>, <<>> }

Conditionals ==
  { If(e, s) : e \in Bools, s \in Returns }
  \union { IfElse(<<"b">>, s, z) : s \in Returns, z \in Returns }
  \union { IfElse(<<"b">>, If(e, <<"return", "1", ";">>), <<"return", "2", ";">>) : e \in Bools }

(* The parameter p is shadowed, in two scopes, and then means itself again. *)
Shadows ==
  { If(<<"b">>, Let("p", <<"bool">>, <<"b">>) \o If(<<"p">>, Let("p", <<"i32">>, <<"2">>))) \o
    If(<<"b">>, Let("p", <<"i32">>, <<"1">>) \o <<"return", "p", ";">>) }

Arrays ==
  { Var("a", ArrayOf(<<"i32">>, "2"), Tuple(<<"p">>, <<"1">>)) \o s :
      s \in { <<"a", "[", "1", "]", "=", "p", ";">>, <<"a", "[", "2", "]", "=", "p", ";">>,
              Let("x", <<"i32">>, <<"a", "[", "p", "]">>) } }
  \union { Var("a", ArrayOf(Pair, "2"), Tuple(e, e)) : e \in {<<"t">>, Call0("G")} }
  \union { Let("a", ArrayOf(Pair, "2"), Tuple(e, e)) : e \in {<<"t">>, Call0("G")} }

Pointers ==
  { <<"var", "x", ":", "i32", ";">> \o Var("q", Pointer(<<"i32">>), <<"&", "x">>) \o s :
      s \in { <<"*", "q", "=", "p", ";">>, Let("y", <<"i32">>, <<"*", "q">>),
              Let("c", Pointer(<<"const", "i32">>), <<"q">>), <<"q", "=", "&", "p", ";">>,
              <<"*", "x", ";">> } }

Accepts ==
  { In(Var("t", Pair, Tuple(<<"p">>, <<"1">>)) \o s) : s \in Conditionals } \union
  { With(s) : s \in UNION { UsesOfInt(e) : e \in Ints } \union
                    UNION { UsesOfPair(e) : e \in Pairs } \union Arrays } \union
  { In(s) : s \in Pointers \union Shadows }

-----------------------------------------------------------------------------
(* Each of these types with each of these values: most do not fit. *)

SomeTypes ==
  { <<"bool">>, Pair, StructType("a", "c"), ArrayOf(<<"i32">>, "1"), <<"const", "i32">>,
    <<"i64">>, <<"U">> }

SomeValues ==
  { <<"p">>, <<"b">>, <<"U">>, Tuple(<<"b">>, <<"1">>), Struct("a", "c"), Struct("c", "a"),
    <<"{", "}">>, <<"(", "p", ",", ")">>, <<"F">>, <<"'s'">> }

Mismatches == { In(Let("x", type, e)) : type \in SomeTypes, e \in SomeValues }

WrongExpressions ==
  { <<"H", "(", "t", ")">>, <<"H", "(", "b", ",", "p", ")">>, <<"p", "(", ")">>, <<"t", ".", "a">>,
    <<"p", "[", "0", "]">>, <<"t", "[", "2", "]">>, <<"t", "[", "p", "]">>, <<"not", "p">>,
    <<"p", "and", "b">>, <<"b", "or", "t">>, <<"p", "=", "1">>, <<"&", "p">>, <<"1", "-", "1">>,
    <<"-", "p">>, Struct("a", "c") \o <<".", "d">>, <<"U", ".", "a">>,
    IfThenElse(<<"p">>, <<"p">>, <<"b">>), <<"1.5", "+", "1.5">>,
    <<"&", "(", "G", "(", ")", ")">> }

WrongStatements ==
  { <<"return", ";">>, <<"return", "b", ";">>, <<"while", "(", "b", ")", "{", "}">>,
    <<"p", "p", ";">>, <<"if", "b", "{", "}">>,
    Let("p", <<"i32">>, <<"1">>),
    Var("q", <<"i32">>, <<"q">>), Let("q", <<"i32">>, <<"q">>),
    Let("q", <<"const", "const", "i32">>, <<"p">>), Let("q", ArrayOf(<<"i32">>, "256"), <<"p">>),
    Let("q", <<"[", "i32", ";", "]">>, <<"p">>), Let("q", <<"(", "i32", ",", ")">>, <<"(", "p", ",", ")">>) }

Files ==
  { K \o In(Call0("N") \o <<";">>), K \o In(<<"N", ".", "K", "(", ")", ";">>),
    K \o In(<<"N", ".", "J", "(", ")", ";">>), <<"class", "C", ";">>,
    K \o K, K \o <<"fn", "N", ".", "K", ".", "J", "(", ")", ";">>,
    K \o <<"namespace", "N", ".", "M", ";", "fn", "N", ".", "M", ".", "J", "(", ")", ";">>,
    <<"fn", "U", ".", "J", "(", ")", ";">>, <<"fn", "U", ".", "V", ".", "J", "(", ")", ";">>,
    Function("F", <<>>), Function("F", If(<<"b">>, <<"return", "p", ";">>)),
    G \o <<"fn", "F", "(", ")", "->">> \o Pair \o <<"{", "return", "G", "(", ")", ";", "}">>,
    <<"fn", "F", "(", ")", "{", "return", ";", "}">>, <<"fn", "F", "(", ")", "{", "return", "1", ";", "}">>,
    <<"fn", "F", "(", ")", "{", "}">>, G \o G, <<";", "fn", ";">>, <<"var", "g", ":", "i32", ";">>,
    Run(<<>>, <<>>), Run(<<"x", ":", "i32">>, <<>>), Run(<<>>, <<"->">> \o Pair),
    Run(<<>>, <<"->", "String">>) }

Rejects ==
  Mismatches \union { With(e \o <<";">>) : e \in WrongExpressions } \union
  { In(s) : s \in WrongStatements } \union Files

(* Syntax errors after which the parser goes on with a declaration that    *)
(* lacks a part.                                                           *)
SyntaxErrors ==
  { Program(p) : p \in { In(<<"let", "x", ":", "i32", ";">>), <<"fn", "F", ";">> } }

(* Elements that are built before others are computed. *)
MixedElements ==
  { Program(With(Let("a", ArrayOf(Pair, "2"), Tuple(<<"t">>, Call0("G"))))) }

MCPrograms == { Program(p) : p \in Accepts \union Rejects }

=============================================================================
