------------------------------ MODULE Decimal -------------------------------
(***************************************************************************)
(* std::to_string of int and of unsigned int (programs/ministl/String.cpp) *)
(* and the way a reader takes the text: in words of Bits bits, of which    *)
(* every value is tried.                                                   *)
(***************************************************************************)
EXTENDS Integers, Sequences, FiniteSets, SequencesExt

CONSTANTS
  Bits, \* bits of int, 32 in the code
  Radix \* 10 in the code

\* A digit is an int.
ASSUME DecimalAssumption ==
  Bits \in Nat \ {0} /\ Radix \in Nat \ {0, 1} /\ Radix <= 2 ^ (Bits - 1)

VARIABLES
  value,  \* what is converted
  signed, \* whether it is an int
  text    \* the digits and the sign, or Pending

decimalVars == <<value, signed, text>>

Minus == -1
Pending == <<-2>>

\* / and % of C++ round towards zero.
Quotient(v, d) == IF v < 0 THEN -((-v) \div d) ELSE v \div d
Rest(v, d) == v - d * Quotient(v, d)

\* What an int is after a computation.
Wrapped(v) ==
  LET half == 2 ^ (Bits - 1) IN ((v + half) % (2 * half)) - half

\* Faulty variant: the digits of a negative number stay negative.
DigitSigned(v) == Rest(v, Radix)

\* if (digit < 0) digit = -digit.
Digit(v) == LET r == Rest(v, Radix) IN IF r < 0 THEN Wrapped(-r) ELSE r

\* The digits of v, the lowest first: push_back until nothing is left.
Digits(v) ==
  LET rest[n \in 0 .. Bits] ==
        IF n = 0 THEN v ELSE Quotient(rest[n - 1], Radix)
      used == {n \in 0 .. Bits - 1 : rest[n] # 0}
  IN  [i \in 1 .. Cardinality(used) |-> Digit(rest[i - 1])]

\* The text is made backwards, and its characters are exchanged in pairs.
SignedText(v) ==
  IF v = 0 THEN <<0>>
  ELSE Reverse(Digits(v) \o IF v < 0 THEN <<Minus>> ELSE <<>>)

UnsignedText(v) == IF v = 0 THEN <<0>> ELSE Reverse(Digits(v))

DecimalInit ==
  /\ signed \in BOOLEAN
  /\ value \in IF signed THEN -(2 ^ (Bits - 1)) .. 2 ^ (Bits - 1) - 1
                         ELSE 0 .. 2 ^ Bits - 1
  /\ text = Pending

Convert ==
  /\ text = Pending
  /\ text' = IF signed THEN SignedText(value) ELSE UnsignedText(value)
  /\ UNCHANGED <<value, signed>>

DecimalSpec == DecimalInit /\ [][Convert]_decimalVars

-----------------------------------------------------------------------------
(* Properties *)

\* What the digits mean.
Meaning(s) ==
  LET number[i \in 0 .. Len(s)] ==
        IF i = 0 THEN 0 ELSE Radix * number[i - 1] + s[i]
  IN  number[Len(s)]

\* The text of a value is its own, for the smallest int as well, whose
\* absolute value is no int, and it is the shortest one: digits only, after
\* a minus, and no zero in front.
RoundTrip ==
  text # Pending =>
    LET negative == Head(text) = Minus
        digits == IF negative THEN Tail(text) ELSE text
    IN  /\ digits # <<>>
        /\ \A i \in DOMAIN digits : digits[i] \in 0 .. Radix - 1
        /\ Head(digits) = 0 => text = <<0>>
        /\ value = IF negative THEN -Meaning(digits) ELSE Meaning(digits)

=============================================================================
