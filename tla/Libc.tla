---------------------------------- MODULE Libc ----------------------------------
(***************************************************************************)
(* A client of the C library: one call at a time of the routines of        *)
(* modules Strings, Printf and LongMath, on any memory and with any        *)
(* arguments the caller may pass, and what each must have done when it     *)
(* returns.                                                                *)
(***************************************************************************)
EXTENDS Strings, Printf, LongMath

CONSTANTS
  Memories,   \* contents of the memory the mem and str functions work on
  Texts, Needles,  \* texts that are searched, and searched for
  Formats, Values, Addresses  \* conversions and their arguments

Letters == {"d", "i", "u", "x", "X", "o", "p", "b"}
Conversion ==
  [flags : SUBSET {"LEFT", "PLUS", "SPACE", "SPECIAL", "ZEROPAD"}, width : Int, precision : Int,
   qualifier : {"", "h", "l", "ll", "I64"}, letter : Letters]

\* Memories and texts hold characters; 0 ends a text.
ASSUME LibcAssumption ==
  /\ \A m \in Memories : m \in Seq(Nat)
  /\ \A s \in Texts \cup Needles : s \in Seq(Nat \ {0})
  /\ \A c \in Formats : c \in Conversion
  /\ Values \subseteq Int
  /\ \A octets \in Addresses : octets \in Seq(0 .. 255) \ {<<>>}

VARIABLES
  call,            \* the function and its arguments
  before, memory,  \* the memory when it was called and when it returned
  result

libcVars == <<call, before, memory, result>>

Nothing == [f |-> "none", args |-> <<>>]
LibcInit == call = Nothing /\ before = <<>> /\ memory = <<>> /\ result = 0

Calls(f, args, m, written, value) ==
  /\ call' = [f |-> f, args |-> args]
  /\ before' = m /\ memory' = written /\ result' = value

Return ==
  /\ call # Nothing
  /\ call' = Nothing /\ before' = <<>> /\ memory' = <<>> /\ result' = 0

\* What a caller owes the function.
Within(m, p, n) == p + n - 1 <= Len(m)
Apart(p, n, q, k) == p + n <= q \/ q + k <= p
Terminated(m, p) == \E i \in DOMAIN m : i >= p /\ m[i] = 0

Move ==
  \E m \in Memories : \E to, from \in DOMAIN m, n \in 0 .. Len(m) :
    /\ Within(m, to, n) /\ Within(m, from, n)
    /\ \/ Calls("memmove", <<to, from, n>>, m, memmove(m, to, from, n), to)
       \/ Apart(to, n, from, n) /\ Calls("memcpy", <<to, from, n>>, m, memcpy(m, to, from, n), to)

Copy ==
  \E m \in Memories : \E to, from \in DOMAIN m :
    /\ Terminated(m, from)
    /\ LET size == strlen(m, from) + 1 IN
       \/ /\ Within(m, to, size) /\ Apart(to, size, from, size)
          /\ Calls("strcpy", <<to, from>>, m, strcpy(m, to, from), to)
       \/ /\ Terminated(m, to) /\ Within(m, End(m, to), size)
          /\ Apart(to, strlen(m, to) + size, from, size)
          /\ Calls("strcat", <<to, from>>, m, strcat(m, to, from), to)
       \/ \E n \in 1 .. Len(m) :
            /\ Within(m, to, n) /\ Apart(to, n, from, Min({n, size}))
            /\ Calls("strncpy", <<to, from, n>>, m, strncpy(m, to, from, n), to)
       \/ \E n \in 1 .. Len(m) :
            /\ Within(m, to, n + 1) /\ Apart(to, n + 1, from, Min({n, size}))
            /\ Calls("wcsncpy", <<to, from, n>>, m, wcsncpy(m, to, from, n), to)

Compare ==
  \E m \in Memories : \E p, q \in DOMAIN m, n \in 1 .. Len(m) :
    \/ Within(m, p, n) /\ Within(m, q, n) /\ Calls("memcmp", <<p, q, n>>, m, m, memcmp(m, p, q, n))
    \/ /\ Terminated(m, p) /\ Terminated(m, q)
       /\ \/ Calls("strcmp", <<p, q, Len(m)>>, m, m, strcmp(m, p, q))
          \/ Calls("_stricmp", <<p, q, Len(m)>>, m, m, _stricmp(m, p, q))
          \/ Calls("strncmp", <<p, q, n>>, m, m, strncmp(m, p, q, n))
          \/ Calls("wcsncmp", <<p, q, n>>, m, m, wcsncmp(m, p, q, n))

Search ==
  \E s \in Texts, find \in Needles :
    LET m == s \o <<0>> \o find \o <<0>>
        needle == Len(s) + 2
    IN \/ Calls("strstr", <<1, needle>>, m, m, strstr(m, 1, needle))
       \/ Calls("strchr", <<1, needle>>, m, m, strchr(m, 1, m[needle]))
       \/ Calls("strrchr", <<1, needle>>, m, m, strrchr(m, 1, m[needle]))

\* printf("=<conversion>", value)
Show ==
  \E c \in Formats, v \in Values :
    LET pieces == <<[kind |-> "literal", value |-> 61],
                    [kind |-> "number", conversion |-> c, value |-> v]>>
    IN \/ Calls("vsprintf", pieces, <<>>, <<>>, vsprintf(pieces))
       \/ Calls("_snprintf", pieces, <<>>, <<>>, _snprintf(Len(pieces), pieces))

\* printf("%s", text), printf("%c", char), with a width and a precision; LEFT is
\* the only flag they look at.
Fields == {[flags |-> c.flags \cap {"LEFT"}, width |-> c.width, precision |-> c.precision] : c \in Formats}
ShowText ==
  \E c \in Fields, s \in Needles :
    \/ LET text == <<[kind |-> "text", conversion |-> c, value |-> s]>>
       IN Calls("vsprintf", text, <<>>, <<>>, vsprintf(text))
    \/ \E i \in DOMAIN s : LET char == <<[kind |-> "char", conversion |-> c, value |-> s[i]]>>
                          IN Calls("vsprintf", char, <<>>, <<>>, vsprintf(char))

\* printf("%a", address): four octets, or six with the qualifier l.
ShowAddress ==
  \E c \in Fields, q \in {"", "l"}, large \in BOOLEAN : \E octets \in Addresses :
    LET n == IF q = "l" THEN 6 ELSE 4
        a == <<[kind |-> "address", value |-> [i \in 1 .. n |-> octets[(i % Len(octets)) + 1]],
                conversion |-> [flags |-> c.flags, width |-> c.width, precision |-> c.precision,
                                qualifier |-> q, letter |-> IF large THEN "A" ELSE "a"]]>>
    IN Calls("vsprintf", a, <<>>, <<>>, vsprintf(a))

\* a / b, a % b and both at once; division by 0 traps and is the caller's error.
Divide ==
  \E a \in 0 .. Long - 1, b \in 1 .. Long - 1 :
    \/ Calls("alldiv", <<a, b>>, <<>>, <<>>, alldiv(a, b))
    \/ Calls("allrem", <<a, b>>, <<>>, <<>>, allrem(a, b))
    \/ Calls("alldvrm", <<a, b>>, <<>>, <<>>, alldvrm(a, b))
    \/ Calls("aullrem", <<a, b>>, <<>>, <<>>, aullrem(a, b))
    \/ Calls("aulldvrm", <<a, b>>, <<>>, <<>>, aulldvrm(a, b))

Multiply ==
  \E a, b \in 0 .. Long - 1 :
    \/ Calls("allmul", <<a, b>>, <<>>, <<>>, allmul(a, b))
    \/ Calls("allshl", <<a, b>>, <<>>, <<>>, allshl(a, b))
    \/ Calls("allshr", <<a, b>>, <<>>, <<>>, allshr(a, b))
    \/ Calls("aullshr", <<a, b>>, <<>>, <<>>, aullshr(a, b))

LibcNext ==
  \/ call = Nothing /\ (Move \/ Copy \/ Compare \/ Search \/ Show \/ ShowText \/ ShowAddress \/ Divide \/ Multiply)
  \/ Return

LibcSpec == LibcInit /\ [][LibcNext]_libcVars

-------------------------------------------------------------------------------
(* Properties *)

TextAt(m, p) == SubSeq(m, p, End(m, p) - 1)
Take(s, n) == SubSeq(s, 1, Min({n, Len(s)}))

\* Exactly these elements of the memory are new; the rest is as it was.
Holds(to, s) == \A i \in DOMAIN memory :
  memory[i] = IF i \in to .. to + Len(s) - 1 THEN s[i - to + 1] ELSE before[i]

\* A copying function leaves what its source held before the call, all of it
\* and nothing else, even where source and target overlap (memmove).  wcsncpy is
\* none of them: it writes behind its count and does not fill what is left.
CopiesWhole ==
  LET a == call.args IN
  CASE call.f \in {"memmove", "memcpy"} -> Holds(a[1], SubSeq(before, a[2], a[2] + a[3] - 1))
    [] call.f = "strcpy" -> Holds(a[1], Append(TextAt(before, a[2]), 0))
    [] call.f = "strcat" -> Holds(a[1], TextAt(before, a[1]) \o Append(TextAt(before, a[2]), 0))
    [] call.f = "strncpy" -> LET s == Take(TextAt(before, a[2]), a[3]) IN
                             Holds(a[1], s \o Times(0, a[3] - Len(s)))
    [] OTHER -> TRUE

Folded(s) == [i \in DOMAIN s |-> toupper(s[i])]

\* Dictionary order.
Precedes(s, t) ==
  \E k \in 0 .. Min({Len(s), Len(t)}) :
    /\ Take(s, k) = Take(t, k)
    /\ k < Len(t) /\ (k = Len(s) \/ (k < Len(s) /\ s[k + 1] < t[k + 1]))

Orders(s, t) == (result < 0 <=> Precedes(s, t)) /\ (result = 0 <=> s = t)

\* The place where find begins in s first; 0 if it is not in s.
Found(s, find) ==
  LET places == {i \in 1 .. Len(s) - Len(find) + 1 : SubSeq(s, i, i + Len(find) - 1) = find}
  IN IF places = {} THEN 0 ELSE Min(places)

\* The comparisons agree with the order of the texts (of their first n elements),
\* whatever lies behind a terminator, and the searches find the first (strrchr:
\* the last) occurrence.  Not so wcsncmp, which compares one element too many.
ComparesTexts ==
  LET a == call.args
      s == TextAt(before, a[1])
      t == TextAt(before, a[2])
  IN CASE call.f = "strcmp" -> Orders(s, t)
       [] call.f = "_stricmp" -> Orders(Folded(s), Folded(t))
       [] call.f = "strncmp" -> Orders(Take(s, a[3]), Take(t, a[3]))
       [] call.f = "memcmp" -> Orders(SubSeq(before, a[1], a[1] + a[3] - 1), SubSeq(before, a[2], a[2] + a[3] - 1))
       [] call.f = "strstr" -> result = IF t = <<>> THEN 1 ELSE Found(s, t)
       [] call.f = "strchr" -> result = IF t = <<>> THEN Len(s) + 1 ELSE Found(s, Take(t, 1))
       [] call.f = "strrchr" -> result = IF t = <<>> THEN Len(s) + 1
                                         ELSE (Len(s) + 1 - Found(Reverse(s), Take(t, 1))) % (Len(s) + 1)
       [] OTHER -> TRUE

\* The value C gives the argument of a conversion.
Decimal == {"d", "i"}
Meant(c, v) ==
  LET bits == IF c.letter = "p" THEN IntBits
              ELSE CASE c.qualifier \in {"ll", "I64"} -> LongLong [] c.qualifier = "h" -> IntBits \div 2 [] OTHER -> IntBits
  IN IF c.letter \in Decimal THEN Signed(v, bits) ELSE Wrapped(v, bits)

\* What is printed of a number strtol reads back (the nearest long, if it
\* is none), under all flags, widths and precisions, with the least and the
\* greatest numbers; and the field is as wide as asked, or no wider than its
\* figures.  Not so for a negative number and %ld: num takes it for unsigned.
NumberReads(c, v, field) ==
  LET width == IF c.letter = "p" /\ c.width = -1 THEN IntBits \div 4 ELSE c.width
  IN ~(c.letter \in Decimal /\ c.qualifier = "l" /\ Signed(v, IntBits) < 0) =>
     /\ strtol(field, Base(c.letter)) = Max({Min({Meant(c, v), LONG_MAX}), LONG_MIN})
     /\ Len(field) >= width
     /\ Len(field) > width /\ "SPACE" \notin c.flags => 32 \notin {field[i] : i \in DOMAIN field}

\* The text stands at one edge of its field, and the rest is blank.
Stands(text, c, field) ==
  LET blanks == IF "LEFT" \in c.flags THEN 0 ELSE Len(field) - Len(text)
  IN /\ Len(field) = Max({c.width, Len(text)})
     /\ \A i \in DOMAIN field :
          field[i] = IF i - blanks \in DOMAIN text THEN text[i - blanks] ELSE 32

\* A text or a character stands in its field whole, or cut to the precision.
TextStands(p, field) ==
  Stands(IF p.kind = "char" THEN <<p.value>>
         ELSE IF p.conversion.precision < 0 THEN p.value ELSE Take(p.value, p.conversion.precision),
         p.conversion, field)

\* The numbers of a text between separators.
Octets(text, base) ==
  LET read[k \in 0 .. Len(text)] ==
        IF k = 0 THEN <<0>>
        ELSE IF text[k] \in {46, 58} THEN Append(read[k - 1], 0)
        ELSE [read[k - 1] EXCEPT ![Len(read[k - 1])] = @ * base + Digit(text[k])]
  IN read[Len(text)]

\* The octets of an address can be told apart and read back.
AddressReads(c, octets, field) ==
  LET figures == {i \in DOMAIN field : field[i] # 32}
      text == SubSeq(field, Min(figures), Max(figures))
  IN /\ Octets(text, IF c.qualifier = "l" THEN 16 ELSE 10) = octets
     /\ Stands(text, c, field)

\* Numbers and addresses can be read back from what is printed of them, by
\* conversions the function knows, and texts stand where they should.
ReadsBack ==
  /\ call.f \in {"vsprintf", "_snprintf"} /\ Len(call.args) = 2 /\ Knows(call.f, call.args[2].conversion) =>
       NumberReads(call.args[2].conversion, call.args[2].value, Tail(result))
  /\ call.f = "vsprintf" /\ Len(call.args) = 1 =>
       IF call.args[1].kind = "address" THEN AddressReads(call.args[1].conversion, call.args[1].value, result)
       ELSE TextStands(call.args[1], result)

\* C's division: towards 0, with a remainder of the dividend's sign.
Abs(n) == IF n < 0 THEN -n ELSE n
Quotient(x, y) == IF (x < 0) # (y < 0) THEN -(Abs(x) \div Abs(y)) ELSE Abs(x) \div Abs(y)

\* The 64-bit helpers compute what C means by *, /, %, << and >>, for all
\* operands: the estimate of a quotient by a longer divisor is corrected
\* exactly when it is too large, also where the product overflows.
ArithmeticExact ==
  LET a == call.args[1]
      b == call.args[2]
      bits == 2 * WordBits
      x == Signed(a, bits)
      y == Signed(b, bits)
      remainder == Wrapped(x - y * Quotient(x, y), bits)
  IN CASE call.f = "alldiv" -> result = Wrapped(Quotient(x, y), bits)
       [] call.f = "allrem" -> result = remainder
       [] call.f = "alldvrm" -> result = [quotient |-> Wrapped(Quotient(x, y), bits), remainder |-> remainder]
       [] call.f = "aullrem" -> result = a % b
       [] call.f = "aulldvrm" -> result = [quotient |-> a \div b, remainder |-> a % b]
       [] call.f = "allmul" -> result = Wrapped(x * y, bits)
       [] call.f = "allshl" -> result = IF b < bits THEN Wrapped(a * Pow2[b], bits) ELSE 0
       [] call.f = "allshr" -> result = Wrapped(IF b < bits THEN x \div Pow2[b] ELSE Min({0, x}) \div Long, bits)
       [] call.f = "aullshr" -> result = IF b < bits THEN a \div Pow2[b] ELSE 0
       [] OTHER -> TRUE

===============================================================================
