-------------------------------- MODULE Lease --------------------------------
(***************************************************************************)
(* What an allocator of units (page frames, address-space blocks) promises *)
(* its holders: a unit belongs to at most one of them at a time.           *)
(***************************************************************************)
CONSTANTS Units, Holders

VARIABLE leased   \* the units each holder has

Init == leased = [h \in Holders |-> {}]

Take(h, S) ==
  /\ leased[h] = {} /\ S # {}
  /\ \A g \in Holders : S \cap leased[g] = {}
  /\ leased' = [leased EXCEPT ![h] = S]

Give(h) ==
  /\ leased[h] # {}
  /\ leased' = [leased EXCEPT ![h] = {}]

Next == \E h \in Holders : Give(h) \/ \E S \in SUBSET Units : Take(h, S)

Spec == Init /\ [][Next]_leased
===============================================================================
