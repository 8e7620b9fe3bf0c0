-------------------------------- MODULE LongMath --------------------------------
(***************************************************************************)
(* libc/all*_asm.c, libc/aull*_asm.c: the 64-bit arithmetic the compiler   *)
(* calls for, on a processor with words of half that size.  A long is its  *)
(* two words, most significant first in edx:eax; here one number below     *)
(* Word^2.  div traps when the quotient does not fit in a word.            *)
(***************************************************************************)
EXTENDS Bits

CONSTANT WordBits  \* bits of a register (32)
ASSUME LongMathAssumption == WordBits \in Nat \ {0}

Word == Pow2[WordBits]
Long == Word * Word
High(a) == a \div Word
Low(a) == a % Word

-------------------------------------------------------------------------------
(* Division of unsigned longs, the core of all five routines *)

Trap == -1
div(n, d) == IF d = 0 \/ n \div d >= Word THEN Trap ELSE n \div d

\* The divisor is one word: two word divisions, the first one's remainder
\* leading the second's dividend.
ShortQuotient(a, b) == div(High(a), b) * Word + div((High(a) % b) * Word + Low(a), b)

\* The divisor is longer: both are shifted until it fits in a word; the
\* quotient of what is left is right or one too large.
Shift(b) == CHOOSE s \in 1 .. WordBits : b \div Pow2[s] < Word /\ b \div Pow2[s - 1] >= Word
Estimate(a, b) == div(a \div Pow2[Shift(b)], b \div Pow2[Shift(b)])

\* quotient * b, of which the top word is never computed, and the carry out of
\* the second.
Product(q, b) == (q * Low(b) + Low(q * High(b)) * Word) % Long
Carry(q, b) == q * Low(b) + Low(q * High(b)) * Word >= Long

\* Mutant: the carry is not looked at.
TooLarge_uncarried(q, a, b) == Product(q, b) > a

TooLarge(q, a, b) == Carry(q, b) \/ Product(q, b) > a

\* The quotient and the product that it leaves to be subtracted.
Divided(a, b) ==
  IF High(b) = 0 THEN LET q == ShortQuotient(a, b) IN
                      [quotient |-> q, product |-> (q * b) % Long]
  ELSE LET q == Estimate(a, b) IN
       IF TooLarge(q, a, b) THEN [quotient |-> q - 1, product |-> (Product(q, b) - b) % Long]
       ELSE [quotient |-> q, product |-> Product(q, b)]

-------------------------------------------------------------------------------
(* The routines *)

aulldvrm(a, b) ==
  LET d == Divided(a, b) IN [quotient |-> d.quotient, remainder |-> (a - d.product) % Long]

\* A one-word divisor needs no product for the remainder.
aullrem(a, b) ==
  IF High(b) = 0 THEN ((High(a) % b) * Word + Low(a)) % b ELSE aulldvrm(a, b).remainder

\* neg, neg, sbb on two words.
Negated(a) == (0 - a) % Long
Negative(a) == High(a) >= Word \div 2
Magnitude(a) == IF Negative(a) THEN Negated(a) ELSE a

\* A quotient is negated when one operand was negative, a remainder when the dividend was.
alldiv(a, b) ==
  LET q == Divided(Magnitude(a), Magnitude(b)).quotient
  IN IF Negative(a) # Negative(b) THEN Negated(q) ELSE q
allrem(a, b) ==
  LET r == aullrem(Magnitude(a), Magnitude(b)) IN IF Negative(a) THEN Negated(r) ELSE r
alldvrm(a, b) ==
  LET d == aulldvrm(Magnitude(a), Magnitude(b))
  IN [quotient |-> alldiv(a, b), remainder |-> IF Negative(a) THEN Negated(d.remainder) ELSE d.remainder]

\* Three word products; one when both high words are 0.
allmul(a, b) ==
  IF High(a) = 0 /\ High(b) = 0 THEN Low(a) * Low(b)
  ELSE (Low(a) * Low(b) + Low(Low(High(a) * Low(b)) + Low(Low(a) * High(b))) * Word) % Long

\* Shifts by less than a word, by less than a long, and by more.
allshl(a, n) ==
  IF n >= 2 * WordBits THEN 0
  ELSE IF n >= WordBits THEN Low(Low(a) * Pow2[n - WordBits]) * Word ELSE (a * Pow2[n]) % Long
aullshr(a, n) ==
  IF n >= 2 * WordBits THEN 0 ELSE IF n >= WordBits THEN High(a) \div Pow2[n - WordBits] ELSE a \div Pow2[n]
allshr(a, n) ==
  LET sign == IF Negative(a) THEN Word - 1 ELSE 0
      \* sar of a word
      Sar(w, k) == (w \div Pow2[k]) + IF w >= Word \div 2 THEN Word - Pow2[WordBits - k] ELSE 0
  IN IF n >= 2 * WordBits THEN sign * Word + sign
     ELSE IF n >= WordBits THEN sign * Word + Sar(High(a), n - WordBits)
     ELSE Sar(High(a), n) * Word + Low(a \div Pow2[n])

===============================================================================
