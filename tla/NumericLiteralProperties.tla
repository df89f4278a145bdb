---------------------- MODULE NumericLiteralProperties ----------------------
(***************************************************************************)
(* A literal read one character at a time, and what the scanner, the       *)
(* checks and the value owe the language at every length.                  *)
(***************************************************************************)
EXTENDS NumericLiteral, FiniteSetsExt

CONSTANT Families   (* each a start, the characters that may follow it,  *)
                    (* and the greatest length                           *)

VARIABLES text, family

Literal == LexNumber(text)

Init == family \in Families /\ text = family.start

(* The scan looks one character ahead of a literal, never two. *)
Next ==
  /\ Len(text) < family.length
  /\ Len(text) <= Len(Literal.text) + 1
  /\ \E c \in family.characters : text' = Append(text, c)
  /\ UNCHANGED family

Spec == Init /\ [][Next]_<<text, family>>

-----------------------------------------------------------------------------
(* The grammar, independent of the scanner. *)

Matches(word, chars) == word # <<>> /\ \A i \in 1 .. Len(word) : word[i] \in chars

WithoutSeparators(word) == SelectSeq(word, LAMBDA c : c # "_")

(* Digits in groups of n between separators, the first may be shorter. *)
Grouped(word, chars, n) ==
  /\ Matches(WithoutSeparators(word), chars)
  /\ \/ Separators(word) = {}
     \/ \A i \in 1 .. Len(word) :
          word[i] = "_" <=> (Len(word) - i + 1) % (n + 1) = 0 /\ i # 1

DecimalNumber(word) ==
  Grouped(word, Digits, 3) /\ (word[1] # "0" \/ word = <<"0">>)

HexNumber(word) ==
  StartsWith(word, <<"0", "x">>) /\ Grouped(Drop(word, 2), ValidDigits(16), 4)

BinaryNumber(word) ==
  /\ StartsWith(word, <<"0", "b">>)
  /\ LET digits == Drop(word, 2) IN
     /\ Matches(WithoutSeparators(digits), {"0", "1"})
     /\ \A i \in 1 .. Len(digits) : digits[i] = "_" =>
          i \notin {1, Len(digits)} /\ digits[i - 1] # "_"

ExponentOf(word, letter) ==
  \/ word = <<>>
  \/ /\ Len(word) >= 2 /\ word[1] = letter
     /\ \/ Grouped(Tail(word), Digits, 3)
        \/ word[2] \in {"+", "-"} /\ Grouped(Drop(word, 2), Digits, 3)

Fraction(word, chars, letter) ==
  \E n \in 1 .. Len(word) :
    Matches(SubSeq(word, 1, n), chars) /\ ExponentOf(Drop(word, n), letter)

RealNumber(word) ==
  \E p \in 1 .. Len(word) :
    /\ word[p] = "."
    /\ LET int == SubSeq(word, 1, p - 1) IN
       \/ DecimalNumber(int) /\ Fraction(Drop(word, p), Digits, "e")
       \/ HexNumber(int) /\ Fraction(Drop(word, p), ValidDigits(16), "p")

Grammatical(word) ==
  DecimalNumber(word) \/ HexNumber(word) \/ BinaryNumber(word) \/ RealNumber(word)

DigitSequencesFit(literal) ==
  /\ Len(IntPart(literal)) <= DigitLimit
  /\ Len(FractPart(literal)) <= DigitLimit
  /\ Len(ExponentPart(literal)) <= DigitLimit

-----------------------------------------------------------------------------

(* A literal is accepted without a diagnostic exactly when the grammar has *)
(* it and no digit sequence of it is too long: the checks that run one     *)
(* after the other on parts cut at a guessed point and a guessed exponent  *)
(* together decide the grammar.                                            *)
AcceptsTheGrammar ==
  Literal.text = text =>
    (Check(Literal).emitted = {} <=>
       Grammatical(text) /\ DigitSequencesFit(Literal))

(* The scan is greedy: a grammatical literal is never cut short.           *)
GrammarIsScanned == Grammatical(text) => Literal.text = text

(* Scanner and checks together recognize the grammar and nothing else. *)
RecognizesTheGrammar == AcceptsTheGrammar /\ GrammarIsScanned

(* What a literal that was not diagnosed denotes: the sum of its digits by *)
(* place, times two or ten to the exponent the text spells; whatever the   *)
(* width of the integers that computed it.                                 *)
Places(word, radix) ==
  LET digits == WithoutSeparators(word) IN
  MapThenSumSet(LAMBDA i : DigitValue(digits[i]) * radix^(Len(digits) - i),
                1 .. Len(digits))

ValueIsDenoted ==
  Check(Literal).emitted = {} =>
    LET radix == Radix(Literal)
        fract == Len(FractPart(Literal))
        shift == IF radix = 16 THEN 4 ELSE 1
        sign  == IF ExponentIsNegative(Literal) THEN -1 ELSE 1 IN
    /\ GetMantissa(Literal) =
         Places(IntPart(Literal), radix) * radix^fract
         + Places(FractPart(Literal), radix)
    /\ ~IsInteger(Literal) =>
         GetExponent(Literal) =
           sign * Places(ExponentPart(Literal), 10) - shift * fract

-----------------------------------------------------------------------------
(***************************************************************************)
(* The texts of the run: over a digit of each radix, the separator, the    *)
(* letters of prefixes and exponents, and the signs; integers with two     *)
(* groups of digits, decimal and hexadecimal reals, and fractions long     *)
(* enough to carry a negative exponent out of its width.                   *)
(***************************************************************************)
Family(start, characters, length) ==
  [start |-> start, characters |-> characters, length |-> length]

MCFamilies ==
  {Family(<<"0">>, {"0", "1", "_", "x", "b", ".", "e"}, 7),
   Family(<<"1">>, {"0", "_", "."}, 9),
   Family(<<"0", "b">>, {"0", "1", "_"}, 9),
   Family(<<"0", "x">>, {"1", "F", "_", "."}, 9),
   Family(<<"0", "x">>, {"9", "a", ".", "p", "-"}, 8),
   Family(<<"9">>, {"9", ".", "e", "p", "-", "+"}, 8),
   Family(<<"0", "x", "0", ".", "0", "0", "0">>, {"0", "9", "p", "-"}, 13)}

=============================================================================
