---------------------------- MODULE CharacterSet ----------------------------
(***************************************************************************)
(* Characters (Common/CharacterSet.h) and the StringRef helpers the lexer  *)
(* uses.  A character is a string of length one, a text is a sequence of   *)
(* characters, an offset counts the characters before a position.  The     *)
(* character "UTF8" stands for any byte above 0x7F.                        *)
(***************************************************************************)
EXTENDS Integers, Sequences

Digits == {"0", "1", "2", "3", "4", "5", "6", "7", "8", "9"}

Lower == {"a", "b", "c", "d", "e", "f", "g", "h", "i", "j", "k", "l", "m",
          "n", "o", "p", "q", "r", "s", "t", "u", "v", "w", "x", "y", "z"}

Upper == {"A", "B", "C", "D", "E", "F", "G", "H", "I", "J", "K", "L", "M",
          "N", "O", "P", "Q", "R", "S", "T", "U", "V", "W", "X", "Y", "Z"}

IsAlpha(c) == c \in Lower \union Upper

IsDecimalDigit(c) == c \in Digits

IsAlnum(c) == IsAlpha(c) \/ IsDecimalDigit(c)

(* Lower case hexadecimal digits are not digits. *)
IsUpperHexDigit(c) == c \in Digits \union {"A", "B", "C", "D", "E", "F"}

IsLower(c) == c \in Lower

IsHorizontalWhitespace(c) == c \in {" ", "\t"}

IsVerticalWhitespace(c) == c = "\n"

IsSpace(c) == IsHorizontalWhitespace(c) \/ IsVerticalWhitespace(c)

(* IsIdByteTable: the bytes of words *)
IsIdByte(c) == IsAlnum(c) \/ c = "_"

-----------------------------------------------------------------------------

(* The text after the first n characters. *)
Drop(text, n) == SubSeq(text, n + 1, Len(text))

StartsWith(text, prefix) ==
  Len(prefix) <= Len(text) /\ SubSeq(text, 1, Len(prefix)) = prefix

(* take_while: the length of the longest prefix of characters in P. *)
PrefixLength(text, P(_)) ==
  CHOOSE n \in 0 .. Len(text) :
    /\ \A i \in 1 .. n : P(text[i])
    /\ n < Len(text) => ~P(text[n + 1])

(* find: the offset of the first character in P, npos is the length. *)
Find(text, P(_)) ==
  CHOOSE n \in 0 .. Len(text) :
    /\ \A i \in 1 .. n : ~P(text[i])
    /\ n < Len(text) => P(text[n + 1])

=============================================================================
