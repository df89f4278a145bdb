--------------------------- MODULE NumericLiteral ---------------------------
(***************************************************************************)
(* Numeric literals (Lex/NumericLiteral.cc): the greedy scan, the syntax   *)
(* checks with their diagnostics, and the value with the bit widths of the *)
(* exponent arithmetic.                                                    *)
(***************************************************************************)
EXTENDS CharacterSet, FiniteSets

CONSTANTS
  DigitLimit,      (* CanLexInteger: the longest digit sequence (1000)     *)
  ExponentWidth    (* the least width of an exponent, in bits (64)         *)

ASSUME DigitLimitAssumption == DigitLimit \in Nat \ {0}

(* 64 bits hold the place of every digit a literal may have. *)
ASSUME ExponentWidthAssumption ==
  ExponentWidth \in Nat \ {0} /\ 4 * DigitLimit < 2^(ExponentWidth - 1)

CanLexInteger(text) == Len(text) <= DigitLimit

-----------------------------------------------------------------------------
(* NumericLiteral::Lex on a text that starts with a digit. *)

(* The offset of the last lower case letter among the n characters after   *)
(* offset from: what may introduce an exponent.                            *)
LastLower(text, from, n) ==
  LET lowers == {i \in from .. (from + n - 1) : IsLower(text[i + 1])} IN
  IF lowers = {} THEN 0
  ELSE CHOOSE i \in lowers : \A j \in lowers : j <= i

(* Is the character at the offset one of `chars`, followed by an           *)
(* alphanumeric one?                                                       *)
JoinsAt(text, offset, chars) ==
  /\ offset + 2 <= Len(text)
  /\ text[offset + 1] \in chars
  /\ IsAlnum(text[offset + 2])

(* The greedy scan: a word; if a point joins it to more, the word after    *)
(* it; if that ends in a lower case letter, an exponent's sign and a last  *)
(* word.  radix_point and exponent are offsets, the size if there is none. *)
LexNumber(text) ==
  LET word(from)  == PrefixLength(Drop(text, from), IsIdByte)
      int_size    == word(0)
      has_point   == JoinsAt(text, int_size, {"."})
      fract_size  == word(int_size + 1)
      fract_end   == int_size + 1 + fract_size
      lower       == LastLower(text, int_size + 1, fract_size)
      has_sign    == /\ lower = fract_end - 1
                     /\ JoinsAt(text, fract_end, {"+", "-"})
      size        == IF ~has_point THEN int_size
                     ELSE IF ~has_sign THEN fract_end
                     ELSE fract_end + 1 + word(fract_end + 1) IN
  [text        |-> SubSeq(text, 1, size),
   radix_point |-> int_size,
   exponent    |-> IF has_point /\ lower # 0 THEN lower ELSE size]

-----------------------------------------------------------------------------
(* NumericLiteral::Parser: the parts of a literal. *)

Radix(literal) ==
  LET int == SubSeq(literal.text, 1, literal.radix_point) IN
  IF StartsWith(int, <<"0", "x">>) THEN 16
  ELSE IF StartsWith(int, <<"0", "b">>) THEN 2
  ELSE 10

IntPart(literal) ==
  Drop(SubSeq(literal.text, 1, literal.radix_point),
       IF Radix(literal) = 10 THEN 0 ELSE 2)

FractPart(literal) ==
  SubSeq(literal.text, literal.radix_point + 2, literal.exponent)

SignedExponent(literal) == Drop(literal.text, literal.exponent + 1)

ExponentIsNegative(literal) == StartsWith(SignedExponent(literal), <<"-">>)

ExponentPart(literal) ==
  LET part == SignedExponent(literal) IN
  IF StartsWith(part, <<"+">>) \/ StartsWith(part, <<"-">>)
  THEN Tail(part) ELSE part

IsInteger(literal) == literal.radix_point = Len(literal.text)

HasExponent(literal) == literal.exponent # Len(literal.text)

-----------------------------------------------------------------------------
(* The checks.  Each returns the diagnostics it emits and whether the      *)
(* literal is still usable.                                                *)

Fine == [ok |-> TRUE, emitted |-> {}]

Unusable(name) == [ok |-> FALSE, emitted |-> {name}]

ValidDigits(radix) ==
  CASE radix = 2  -> {"0", "1"}
    [] radix = 10 -> Digits
    [] radix = 16 -> Digits \union {"A", "B", "C", "D", "E", "F"}

Separators(text) == {i \in 1 .. Len(text) : text[i] = "_"}

(* A separator at the edge, beside another one, or where none is allowed.  *)
Misplaced(text, i, allowed) ==
  ~allowed \/ i = 1 \/ i = Len(text) \/ text[i - 1] = "_"

(* Mutant: with the separators one place to the left. *)
SeparatorsOneEarly(text, radix) ==
  LET stride   == IF radix = 10 THEN 4 ELSE 5
      expected == {Len(text) - stride * k : k \in 1 .. (Len(text) \div stride)}
  IN radix = 2 \/ Separators(text) = expected

(* CheckDigitSeparatorPlacement: every stride from the right, and nowhere  *)
(* else.  Only as many full strides as the text holds are looked at.       *)
RegularSeparators(text, radix) ==
  LET stride   == IF radix = 10 THEN 4 ELSE 5
      expected == {Len(text) - stride * k + 1 : k \in 1 .. (Len(text) \div stride)}
  IN radix = 2 \/ Separators(text) = expected

CheckDigitSequence(text, radix, allowed) ==
  LET size  == PrefixLength(text, LAMBDA c : c \in ValidDigits(radix) \union {"_"})
      seen  == {i \in Separators(text) : i <= size}
      found == {"InvalidDigitSeparator" : i \in {j \in seen : Misplaced(text, j, allowed)}}
      fails(name) == [ok |-> FALSE, emitted |-> found \union {name}]
      irregular == IF seen # {} /\ ~RegularSeparators(text, radix)
                   THEN {"IrregularDigitSeparators"} ELSE {}
  IN IF size < Len(text) THEN fails("InvalidDigit")
     ELSE IF Cardinality(seen) = Len(text) THEN fails("EmptyDigitSequence")
     ELSE IF ~CanLexInteger(text)
          THEN [ok |-> FALSE, emitted |-> found \union irregular \union {"TooManyDigits"}]
     ELSE [ok |-> TRUE, emitted |-> found \union irregular]

CheckLeadingZero(literal) ==
  IF /\ Radix(literal) = 10
     /\ StartsWith(IntPart(literal), <<"0">>)
     /\ IntPart(literal) # <<"0">>
  THEN Unusable("UnknownBaseSpecifier") ELSE Fine

CheckIntPart(literal) ==
  CheckDigitSequence(IntPart(literal), Radix(literal), TRUE)

CheckFractionalPart(literal) ==
  IF IsInteger(literal) THEN Fine
  ELSE LET result == CheckDigitSequence(FractPart(literal), Radix(literal), FALSE)
       IN IF Radix(literal) = 2
          THEN [result EXCEPT !.emitted = @ \union {"BinaryRealLiteral"}]
          ELSE result

CheckExponentPart(literal) ==
  IF ~HasExponent(literal) THEN Fine
  ELSE IF literal.text[literal.exponent + 1] # (IF Radix(literal) = 10 THEN "e" ELSE "p")
  THEN Unusable("WrongRealLiteralExponent")
  ELSE CheckDigitSequence(ExponentPart(literal), 10, TRUE)

(* Parser::Check: the checks in order, up to the first that fails. *)
Check(literal) ==
  LET checks == <<CheckLeadingZero(literal), CheckIntPart(literal),
                  CheckFractionalPart(literal), CheckExponentPart(literal)>>
      last   == CHOOSE n \in 1 .. 4 :
                  /\ \A i \in 1 .. (n - 1) : checks[i].ok
                  /\ n = 4 \/ ~checks[n].ok
  IN [ok      |-> checks[last].ok,
      emitted |-> UNION {checks[i].emitted : i \in 1 .. last}]

-----------------------------------------------------------------------------
(* The value of a literal whose checks passed. *)

DigitValue(c) ==
  CHOOSE v \in 0 .. 15 :
    c = <<"0", "1", "2", "3", "4", "5", "6", "7", "8", "9",
          "A", "B", "C", "D", "E", "F">>[v + 1]

(* ParseInteger: separators and the point are dropped when the literal     *)
(* was found to have any.                                                  *)
ParseInteger(text, radix) ==
  LET digits == SelectSeq(text, LAMBDA c : c \notin {"_", "."})
      read[n \in 0 .. Len(digits)] ==
        IF n = 0 THEN 0 ELSE radix * read[n - 1] + DigitValue(digits[n])
  IN read[Len(digits)]

(* StringRef::getAsInteger, in LLVM: the width of the APInt it makes of a  *)
(* decimal number, four bits a digit without the leading zeros.            *)
ParsedWidth(text) ==
  LET digits == SelectSeq(text, LAMBDA c : c # "_")
      zeros  == PrefixLength(digits, LAMBDA c : c = "0") IN
  IF zeros = Len(digits) THEN ExponentWidth ELSE 4 * (Len(digits) - zeros)

(* The integer that w bits hold, as a signed one. *)
Signed(n, w) ==
  LET bits == n % 2^w IN IF bits >= 2^(w - 1) THEN bits - 2^w ELSE bits

GetMantissa(literal) ==
  ParseInteger(IF IsInteger(literal) THEN IntPart(literal)
               ELSE IntPart(literal) \o <<".">> \o FractPart(literal),
               Radix(literal))

ExcessExponent(literal) ==
  Len(FractPart(literal)) * (IF Radix(literal) = 16 THEN 4 ELSE 1)

(* Mutant: without the correction. *)
KeptWrapped(exponent, width, is_negative) == exponent

(* A negative exponent that the excess carries past the least value gets   *)
(* one more bit.                                                           *)
Unwrapped(exponent, width, is_negative) ==
  IF is_negative /\ exponent >= 0 THEN exponent - 2^width ELSE exponent

(* A parsed exponent is widened until it has room for a sign.              *)
GetExponent(literal) ==
  LET part     == ExponentPart(literal)
      read     == IF part = <<>> THEN 0 ELSE ParseInteger(part, 10)
      parsed   == IF part = <<>> THEN ExponentWidth ELSE ParsedWidth(part)
      width    == IF parsed < ExponentWidth THEN ExponentWidth
                  ELSE IF part # <<>> /\ read >= 2^(parsed - 1) THEN parsed + 1
                  ELSE parsed
      exponent == Signed((IF ExponentIsNegative(literal) THEN -read ELSE read)
                         - ExcessExponent(literal), width)
  IN Unwrapped(exponent, width, ExponentIsNegative(literal))

(* ComputeValue: the kind of the token that is formed. *)
NumberKind(literal) ==
  IF ~Check(literal).ok THEN "Error"
  ELSE IF IsInteger(literal) THEN "IntegerLiteral"
  ELSE "RealLiteral"

=============================================================================
