--------------------------------- MODULE Printf ---------------------------------
(***************************************************************************)
(* libc/vsprintf.c: what vsprintf and _vsnprintf make of a conversion and  *)
(* its argument.  Characters are codes; a conversion is the record of its  *)
(* flags, width, precision, qualifier and letter.                          *)
(***************************************************************************)
EXTENDS Bits, Sequences, FiniteSetsExt, SequencesExt

CONSTANTS
  IntBits,  \* bits of int and long
  LongLong  \* bits of long long, and of number's num
ASSUME PrintfAssumption == IntBits \in Nat \ {0, 1} /\ LongLong \in Nat /\ LongLong >= IntBits

Times(c, n) == [i \in 1 .. n |-> c]

-------------------------------------------------------------------------------
(* number *)

\* The tables of figures differ in what they have for ten.
Ten(large) == IF large THEN 65 ELSE 97
Figure(d, ten) == IF d < 10 THEN 48 + d ELSE ten + d - 10

\* The digits of a number without sign, most significant first.
Digits(n, base, ten) ==
  LET rest[k \in 0 .. n + 1] == IF k = 0 THEN n ELSE rest[k - 1] \div base
      size == CHOOSE k \in 1 .. n + 1 : rest[k] = 0 /\ (k = 1 \/ rest[k - 1] # 0)
  IN [i \in 1 .. size |-> Figure(rest[size - i] % base, ten)]

Sign(num, flags) ==
  IF "SIGN" \notin flags THEN <<>>
  ELSE IF num < 0 THEN <<45>> ELSE IF "PLUS" \in flags THEN <<43>>
  ELSE IF "SPACE" \in flags THEN <<32>> ELSE <<>>

Prefix(base, flags) ==
  IF "SPECIAL" \notin flags THEN <<>> ELSE CASE base = 8 -> <<48>> [] base = 16 -> <<48, 120>> [] OTHER -> <<>>

\* Mutant: blanks are put where zeros were asked for, behind the sign.
number_blanks(num, base, size, precision, type) ==
  LET sign == Sign(num, type)
      prefix == Prefix(base, type)
      digits == Digits(Wrapped(IF sign = <<45>> THEN -num ELSE num, LongLong), base, Ten("LARGE" \in type))
      figures == Times(48, precision - Len(digits)) \o digits
      rest == size - Len(sign) - Len(prefix) - Len(figures)
  IN IF "LEFT" \in type THEN sign \o prefix \o figures \o Times(32, rest)
     ELSE sign \o prefix \o Times(32, rest) \o figures

\* num is a long long; a negative one is negated, the least one onto itself.
number(num, base, size, precision, type) ==
  LET sign == Sign(num, type)
      prefix == Prefix(base, type)
      digits == Digits(Wrapped(IF sign = <<45>> THEN -num ELSE num, LongLong), base, Ten("LARGE" \in type))
      figures == Times(48, precision - Len(digits)) \o digits
      rest == size - Len(sign) - Len(prefix) - Len(figures)
  IN IF "LEFT" \in type THEN sign \o prefix \o figures \o Times(32, rest)
     ELSE IF "ZEROPAD" \in type THEN sign \o prefix \o Times(48, rest) \o figures
     ELSE Times(32, rest) \o sign \o prefix \o figures

-------------------------------------------------------------------------------
(* vsprintf *)

Base(letter) == CASE letter = "b" -> 2 [] letter = "o" -> 8 [] letter \in {"x", "X", "p"} -> 16 [] OTHER -> 10

\* The argument as va_arg reads it and as num then holds it.
Argument(c, value) ==
  LET bits == IF c.letter = "p" THEN IntBits
              ELSE CASE c.qualifier \in {"ll", "I64"} -> LongLong [] c.qualifier = "h" -> IntBits \div 2 [] OTHER -> IntBits
      signed == c.letter # "p" /\ (c.qualifier \in {"ll", "I64"} \/ (c.qualifier # "l" /\ c.letter \in {"d", "i"}))
  IN IF signed THEN Signed(value, bits) ELSE Wrapped(value, bits)

\* A conversion of a number.
Converted(c, value) ==
  LET flags == c.flags \cup (IF c.letter \in {"d", "i"} THEN {"SIGN"} ELSE {})
                       \cup (IF c.letter = "X" THEN {"LARGE"} ELSE {})
      pointer == c.letter = "p" /\ c.width = -1
  IN number(Argument(c, value), Base(c.letter),
            IF pointer THEN IntBits \div 4 ELSE c.width, c.precision,
            IF pointer THEN flags \cup {"ZEROPAD"} ELSE flags)

Field(c, s) ==
  LET blanks == Times(32, c.width - Len(s))
  IN IF "LEFT" \in c.flags THEN s \o blanks ELSE blanks \o s

\* %s: at most precision characters (all, if none is given) in a field.
Text(c, s) == Field(c, IF c.precision < 0 THEN s ELSE SubSeq(s, 1, Min({c.precision, Len(s)})))

\* %la, an Ethernet address, and %a, an Internet address.
Joined(parts, separator) ==
  FlattenSeq([i \in DOMAIN parts |-> IF i = 1 THEN parts[i] ELSE <<separator>> \o parts[i]])
eaddr(c, a) ==
  LET ten == Ten(c.letter = "A")
  IN Field(c, Joined([i \in 1 .. 6 |-> <<Figure(a[i] \div 16, ten), Figure(a[i] % 16, ten)>>], 58))
iaddr(c, a) == Field(c, Joined([i \in 1 .. 4 |-> Digits(a[i], 10, Ten(FALSE))], 46))

\* %c
One(c, char) ==
  IF "LEFT" \in c.flags THEN <<char>> \o Times(32, c.width - 1) ELSE Times(32, c.width - 1) \o <<char>>

\* vsprintf has no I64 and no %b, _vsnprintf no ll and no %a.
Knows(f, c) ==
  IF f = "vsprintf" THEN c.qualifier # "I64" /\ c.letter # "b"
  ELSE c.qualifier # "ll" /\ c.letter \notin {"a", "A"}

Code == [a |-> 97, A |-> 65, b |-> 98, d |-> 100, i |-> 105, o |-> 111, p |-> 112, u |-> 117,
         x |-> 120, X |-> 88]

\* Of a conversion they do not know they print the "%" and, from the first character
\* they cannot use on, the rest; its argument is left to the next conversion.
Literally(f, c) ==
  <<37>> \o (CASE c.qualifier = "I64" -> <<73, 54, 52>>
              [] c.qualifier = "ll" /\ f # "vsprintf" -> <<108>>
              [] OTHER -> <<>>) \o <<Code[c.letter]>>

\* A piece of a format: a literal character, or a conversion and the argument that
\* is left for it.
Printed(f, p) ==
  CASE p.kind = "literal" -> <<p.value>>
    [] p.kind = "number" -> IF Knows(f, p.conversion) THEN Converted(p.conversion, p.value)
                            ELSE Literally(f, p.conversion)
    [] p.kind = "text" -> Text(p.conversion, p.value)
    [] p.kind = "address" -> IF ~Knows(f, p.conversion) THEN Literally(f, p.conversion)
                             ELSE IF p.conversion.qualifier = "l" THEN eaddr(p.conversion, p.value)
                             ELSE iaddr(p.conversion, p.value)
    [] p.kind = "char" -> One(p.conversion, p.value)

\* The pieces of a format in order; _vsnprintf never looks at the size of the buffer.
vsprintf(pieces) == FlattenSeq([i \in DOMAIN pieces |-> Printed("vsprintf", pieces[i])])
_vsnprintf(count, pieces) == FlattenSeq([i \in DOMAIN pieces |-> Printed("_vsnprintf", pieces[i])])
_snprintf(maxlen, pieces) == _vsnprintf(maxlen, pieces)

===============================================================================
