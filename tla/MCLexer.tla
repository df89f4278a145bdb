------------------------------- MODULE MCLexer ------------------------------
(***************************************************************************)
(* Source texts for the lexer: every text of brackets; every text of       *)
(* words, blanks, comments and unknown characters; string literals over    *)
(* several lines among other tokens; and words and numbers.                *)
(***************************************************************************)
EXTENDS LexerProperties

Texts(chars, n) == UNION {[1 .. k -> chars] : k \in 0 .. n}

MCKeywords == {[kind |-> "If", spelling |-> <<"i", "f">>],
               [kind |-> "Underscore", spelling |-> <<"_">>]}

BracketTexts == Texts({"(", ")", "{", "}", " ", ";"}, 5)

CommentTexts == Texts({"a", "/", " ", "\n", "$", "="}, 5)

StringTexts ==
  {before \o MultiLineIndicator \o inside \o MultiLineIndicator \o after :
     before \in Texts({"a", " ", "\n"}, 1),
     inside \in Texts({"a", "\n", "'"}, 3),
     after  \in Texts({")", " ", "\n"}, 1)}
  \union Texts({Quote, "\\", "\n", "#", ")"}, 4)

WordTexts ==
  Texts({"i", "f", "1", ".", "_", " "}, 5) \union Texts({"UTF8", "u", "8", "0"}, 3)

MCSources == BracketTexts \union CommentTexts \union StringTexts \union WordTexts

=============================================================================
