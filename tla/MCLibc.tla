--------------------------------- MODULE MCLibc ---------------------------------
(* Memories of 4 elements, texts of up to 5, numbers of 8 and 16 bits. *)
EXTENDS Libc

\* A terminator, "A", "a" and a character above 127.
FourBytes == [1 .. 4 -> {0, 65, 97, 200}]
UpTo(n) == UNION {[1 .. k -> {65, 66}] : k \in 0 .. n}
FiveLetters == UpTo(5)
ThreeLetters == UpTo(3)
AllFlags == SUBSET {"LEFT", "PLUS", "SPACE", "SPECIAL", "ZEROPAD"}
Conversions ==
  [flags : AllFlags, width : {-1, 5, 12}, precision : {-1, 0, 4},
   qualifier : {"", "h", "l", "ll", "I64"}, letter : {"d", "i", "u", "x", "X", "o", "p", "b"}]
Numbers == {0, 5, 10, 127, 128, 255, 300, 32767, -1, -99, -128, -32768}
ThreeOctets == [1 .. 3 -> {0, 9, 10, 105, 255}]
===============================================================================
