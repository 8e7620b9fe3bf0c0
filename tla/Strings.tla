-------------------------------- MODULE Strings --------------------------------
(***************************************************************************)
(* libc/string.c: the loops of the memory and string functions, on a       *)
(* memory m (a sequence of character codes) with pointers p, q into it.    *)
(* The wide functions work on wider elements and otherwise the same way.   *)
(***************************************************************************)
EXTENDS Integers, Sequences, FiniteSetsExt

CONSTANT LONG_MAX  \* largest long
ASSUME StringsAssumption == LONG_MAX \in Nat \ {0}
LONG_MIN == -LONG_MAX - 1

-------------------------------------------------------------------------------
(* Classes of characters: the table _ctype *)

isdigit(c) == c \in 48 .. 57
isupper(c) == c \in 65 .. 90
islower(c) == c \in 97 .. 122
isalpha(c) == isupper(c) \/ islower(c)
isspace(c) == c \in 9 .. 13 \cup {32}
toupper(c) == IF islower(c) THEN c - 32 ELSE c

-------------------------------------------------------------------------------
(* Loops that write *)

\* n elements, lowest address first, each read after the ones before are written.
Up(m, to, from, n) ==
  LET f[i \in 0 .. n] == IF i = 0 THEN m ELSE [f[i - 1] EXCEPT ![to + i - 1] = f[i - 1][from + i - 1]]
  IN f[n]
\* The same, highest address first.
Down(m, to, from, n) ==
  LET f[i \in 0 .. n] == IF i = 0 THEN m ELSE [f[i - 1] EXCEPT ![to + n - i] = f[i - 1][from + n - i]]
  IN f[n]

memset(m, to, c, n) == [i \in DOMAIN m |-> IF i \in to .. to + n - 1 THEN c ELSE m[i]]
memcpy(m, to, from, n) == Up(m, to, from, n)

\* Mutant: the direction is chosen by the pointers alone.
memmove_down(m, to, from, n) ==
  IF to >= from THEN Up(m, to, from, n) ELSE Down(m, to, from, n)
memmove(m, to, from, n) ==
  IF to <= from \/ to >= from + n THEN Up(m, to, from, n) ELSE Down(m, to, from, n)

\* Where the string at p ends.
End(m, p) == Min({i \in DOMAIN m : i >= p /\ m[i] = 0})
strlen(m, p) == End(m, p) - p

strcpy(m, to, from) == Up(m, to, from, strlen(m, from) + 1)
strcat(m, s, append) == Up(m, End(m, s), append, strlen(m, append) + 1)

\* Copies up to and with the terminator, then fills with terminators.
strncpy(m, to, from, n) ==
  LET kept == Min({n, strlen(m, from) + 1}) IN memset(Up(m, to, from, kept), to + kept, 0, n - kept)

\* Not C's wcsncpy: behind count elements it writes a terminator, one place further
\* than C's, and it does not fill what is left with terminators.
wcsncpy(m, to, from, count) ==
  IF strlen(m, from) < count THEN strcpy(m, to, from)
  ELSE memset(Up(m, to, from, count), to + count, 0, 1)

-------------------------------------------------------------------------------
(* Loops that compare: they stop where the elements differ, at a terminator or *)
(* after n elements, and return the difference there                           *)

Same(c) == c
Difference(m, p, q, n, fold(_)) ==
  LET stops == {i \in 0 .. n - 1 : fold(m[p + i]) # fold(m[q + i])}
  IN IF stops = {} THEN 0 ELSE fold(m[p + Min(stops)]) - fold(m[q + Min(stops)])

\* Elements a text comparison looks at: to the first terminator at most.
Looked(m, p, q) == Min({strlen(m, p), strlen(m, q)}) + 1
strcmp(m, p, q) == Difference(m, p, q, Looked(m, p, q), Same)
_stricmp(m, p, q) == Difference(m, p, q, Looked(m, p, q), toupper)
strncmp(m, p, q, n) == Difference(m, p, q, Min({n, Looked(m, p, q)}), Same)
memcmp(m, p, q, n) == Difference(m, p, q, n, Same)
\* Not C's wcsncmp: its count runs out only after one more pair has been compared.
wcsncmp(m, p, q, count) == strncmp(m, p, q, count + 1)

-------------------------------------------------------------------------------
(* Loops that search: an address, or NULL (0) *)

First(S) == IF S = {} THEN 0 ELSE Min(S)
strchr(m, s, c) == First({i \in s .. End(m, s) : m[i] = c})
strrchr(m, s, c) == LET S == {i \in s .. End(m, s) : m[i] = c} IN IF S = {} THEN 0 ELSE Max(S)

\* Mutant: after a first character that leads nowhere the search goes on behind
\* what has been compared.
strstr_skips(m, s, find) ==
  LET len == strlen(m, find)
      starts == {i \in s .. End(m, s) - 1 : m[i] = m[find]}
  IN IF len = 0 THEN s
     ELSE First({i \in starts : strncmp(m, i, find, len) = 0
                              /\ \A j \in starts : j < i => j + len <= i})
\* The next place of the first character, then the rest is compared.
strstr(m, s, find) ==
  LET c == m[find]
      len == strlen(m, find) - 1
  IN IF c = 0 THEN s
     ELSE First({i \in s .. End(m, s) - 1 : m[i] = c /\ strncmp(m, i + 1, find + 1, len) = 0})

-------------------------------------------------------------------------------
(* strtol of text s (a sequence without its terminator) *)

Char(s, i) == IF i \in DOMAIN s THEN s[i] ELSE 0
Digit(c) == IF isdigit(c) THEN c - 48 ELSE IF isupper(c) THEN c - 55 ELSE IF islower(c) THEN c - 87 ELSE 99

strtol(s, given) ==
  LET begin == Min({i \in 1 .. Len(s) + 1 : ~isspace(Char(s, i))})
      neg == Char(s, begin) = 45
      signed == IF Char(s, begin) \in {43, 45} THEN begin + 1 ELSE begin
      hex == given \in {0, 16} /\ Char(s, signed) = 48 /\ Char(s, signed + 1) \in {88, 120}
      first == IF hex THEN signed + 2 ELSE signed
      base == IF hex THEN 16 ELSE IF given # 0 THEN given ELSE IF Char(s, signed) = 48 THEN 8 ELSE 10
      last == IF neg THEN -LONG_MIN ELSE LONG_MAX
      cutoff == last \div base
      cutlim == last % base
      stop == Min({i \in first .. Len(s) + 1 : Digit(Char(s, i)) >= base})
      \* the value after the characters before place i; -1 once it is too big
      acc[i \in first .. stop] ==
        IF i = first THEN 0
        ELSE LET a == acc[i - 1]
                 c == Digit(s[i - 1])
             IN IF a < 0 \/ a > cutoff \/ (a = cutoff /\ c > cutlim) THEN -1 ELSE a * base + c
  IN IF acc[stop] < 0 THEN IF neg THEN LONG_MIN ELSE LONG_MAX
     ELSE IF neg THEN -acc[stop] ELSE acc[stop]

===============================================================================
