---------------------------------- MODULE Bits ----------------------------------
(***************************************************************************)
(* Numbers of a given width.  The powers of 2 are a function of the        *)
(* project's own because no prover knows what ^ means.                     *)
(***************************************************************************)
EXTENDS Integers

Pow2[n \in Nat] == IF n = 0 THEN 1 ELSE 2 * Pow2[n - 1]

\* What n becomes in a word of so many bits, and what such a word means with a sign.
Wrapped(n, bits) == n % Pow2[bits]
Signed(n, bits) == IF Wrapped(n, bits) >= Pow2[bits - 1] THEN Wrapped(n, bits) - Pow2[bits] ELSE Wrapped(n, bits)

===============================================================================
