------------------------------ MODULE Heap_proofs ------------------------------
(***************************************************************************)
(* What holds of the kernel's heap for every size of page, chunk and tag,  *)
(* every number of holders and every sequence of requests.                 *)
(***************************************************************************)
EXTENDS Heap, FiniteSetTheorems, TLAPS

-------------------------------------------------------------------------------
(* The parts of the invariant, of any tags ts, so that the steps of one call *)
(* can be taken one after the other                                          *)

Word == [size : Nat, real_size : Nat \ {0}, index : Exps \cup {-1},
         left : Nat, right : Nat, next : Nat, prev : Nat]

Typed(ts) == DOMAIN ts \subseteq Nat \ {0} /\ ts \in [DOMAIN ts -> Word]

End(ts, a) == a + ts[a].real_size

\* The split links of every chunk cover it in order and without a gap.
Tiled(ts, top) ==
  \A a \in DOMAIN ts :
    /\ IF ts[a].right = NULL
         THEN End(ts, a) % PageSize = 0 /\ End(ts, a) <= top
         ELSE ts[a].right \in DOMAIN ts /\ ts[a].right = End(ts, a) /\ ts[End(ts, a)].left = a
    /\ IF ts[a].left = NULL
         THEN a % PageSize = 0
         ELSE ts[a].left \in DOMAIN ts /\ ts[ts[a].left].right = a
    /\ a < top
    /\ \A b \in DOMAIN ts : ~(a < b /\ b < End(ts, a))

\* A free tag is linked both ways on the list of its size, any other on none.
Lists(ts, heads) ==
  /\ \A a \in DOMAIN ts :
       IF ts[a].index = -1
         THEN ts[a].next = NULL /\ ts[a].prev = NULL
         ELSE /\ ts[a].next # NULL =>
                   /\ ts[a].next \in DOMAIN ts /\ ts[ts[a].next].prev = a
                   /\ ts[ts[a].next].index = ts[a].index
              /\ ts[a].prev # NULL => ts[a].prev \in DOMAIN ts /\ ts[ts[a].prev].next = a
              /\ ts[a].prev = NULL <=> heads[ts[a].index] = a
  /\ \A e \in Exps : heads[e] # NULL => heads[e] \in DOMAIN ts /\ ts[heads[e]].index = e

\* The lists have no cycle: insert_tag puts later tags in front of earlier ones.
Ranks(ts, rank, n) ==
  \A a \in DOMAIN ts : rank[a] < n /\ (ts[a].next # NULL => rank[ts[a].next] < rank[a])
Ranked(ts) == \E rank \in [Nat -> Nat], n \in Nat : Ranks(ts, rank, n)

\* Tag t aside, a free tag is on the list of its size and no two are neighbours.
FreeBut(ts, t) ==
  \A a \in DOMAIN ts \ {t} : ts[a].index # -1 =>
    /\ IsIndex(ts[a].index, ts[a].real_size - TagSize)
    /\ ts[a].right \notin {NULL, t} => ts[ts[a].right].index = -1

-------------------------------------------------------------------------------
(* remove_tag *)

HeadsWithoutIn(ts, heads, t) ==
  IF heads[ts[t].index] = t THEN [heads EXCEPT ![ts[t].index] = ts[t].next] ELSE heads

\* What remove_tag does to each field.
UnlinkFields(ts, t, us) ==
  /\ DOMAIN us = DOMAIN ts
  /\ \A a \in DOMAIN ts :
       /\ us[a].size = ts[a].size /\ us[a].real_size = ts[a].real_size
       /\ us[a].left = ts[a].left /\ us[a].right = ts[a].right
       /\ us[a].index = IF a = t THEN -1 ELSE ts[a].index
       /\ us[a].next = IF a = t THEN NULL
                       ELSE IF a = ts[t].prev THEN ts[t].next ELSE ts[a].next
       /\ us[a].prev = IF a = t THEN NULL
                       ELSE IF a = ts[t].next THEN ts[t].prev ELSE ts[a].prev

\* The neighbours of a tag on its list are two tags other than itself.
LoneLinks(ts, t) ==
  /\ ts[t].next # t /\ ts[t].prev # t
  /\ ts[t].next # NULL => ts[t].next # ts[t].prev

LEMMA UnlinkedFields ==
  ASSUME NEW ts, Typed(ts), NEW t \in DOMAIN ts, LoneLinks(ts, t)
  PROVE  UnlinkFields(ts, t, Unlinked(ts, t)) /\ Typed(Unlinked(ts, t))
<1> DEFINE us == Unlinked(ts, t)
<1>1. DOMAIN us = DOMAIN ts
  BY DEF Unlinked
<1>2. \A a \in DOMAIN ts : ts[a] \in Word
  BY DEF Typed
<1>0. 0 \notin DOMAIN ts
  BY DEF Typed
<1>3. us[t] = [ts[t] EXCEPT !.next = NULL, !.prev = NULL, !.index = -1]
  BY <1>0 DEF Unlinked, LoneLinks, NULL
<1>4. \A a \in DOMAIN ts : a = ts[t].prev => us[a] = [ts[a] EXCEPT !.next = ts[t].next]
  BY <1>0 DEF Unlinked, LoneLinks, NULL
<1>5. \A a \in DOMAIN ts : a = ts[t].next
        => us[a] = [ts[a] EXCEPT !.prev = ts[t].prev]
  BY <1>0 DEF Unlinked, LoneLinks, NULL
<1>6. \A a \in DOMAIN ts : a # t /\ a # ts[t].prev /\ a # ts[t].next => us[a] = ts[a]
  BY <1>0 DEF Unlinked, LoneLinks, NULL
<1>7. us = [a \in DOMAIN us |-> us[a]]
  BY DEF Unlinked
<1> HIDE DEF us
<1>8. us[t] \in Word
  <2>1. \A w \in Word : [w EXCEPT !.next = NULL, !.prev = NULL, !.index = -1] \in Word
    BY DEF Word, NULL
  <2>2. ts[t] \in Word
    BY <1>2
  <2> QED
    BY <1>3, <2>1, <2>2
<1>9. ASSUME NEW a \in DOMAIN ts, a # t PROVE us[a] \in Word
  <2>1. ts[a] \in Word /\ ts[t].next \in Nat /\ ts[t].prev \in Nat
    BY <1>2 DEF Word
  <2>2. CASE a = ts[t].prev
    BY <1>4, <2>1, <2>2 DEF Word
  <2>3. CASE a = ts[t].next
    BY <1>5, <2>1, <2>3 DEF Word
  <2>4. CASE a # ts[t].prev /\ a # ts[t].next
    BY <1>6, <1>9, <2>1, <2>4
  <2> QED
    BY <2>2, <2>3, <2>4
<1>10. Typed(us)
  BY <1>1, <1>7, <1>8, <1>9 DEF Typed
<1>11. UnlinkFields(ts, t, us)
  <2> SUFFICES ASSUME NEW a \in DOMAIN ts
               PROVE  /\ us[a].size = ts[a].size /\ us[a].real_size = ts[a].real_size
                      /\ us[a].left = ts[a].left /\ us[a].right = ts[a].right
                      /\ us[a].index = IF a = t THEN -1 ELSE ts[a].index
                      /\ us[a].next = IF a = t THEN NULL
                                      ELSE IF a = ts[t].prev THEN ts[t].next ELSE ts[a].next
                      /\ us[a].prev = IF a = t THEN NULL
                                      ELSE IF a = ts[t].next THEN ts[t].prev ELSE ts[a].prev
    BY <1>1 DEF UnlinkFields
  <2>1. ts[a] \in Word
    BY <1>2
  <2>2. CASE a = t
    BY <1>3, <2>1, <2>2 DEF Word
  <2>3. CASE a # t
    BY <1>0, <1>4, <1>5, <1>6, <2>1, <2>3 DEF Word, LoneLinks, NULL
  <2> QED
    BY <2>2, <2>3
<1> QED
  BY <1>10, <1>11 DEF us

\* What the lists say of a free tag's neighbours; a list has no cycle.
LEMMA ListNeighbours ==
  ASSUME NEW ts, Typed(ts), NEW heads, Lists(ts, heads), Ranked(ts),
         NEW t \in DOMAIN ts, ts[t].index # -1
  PROVE  /\ ts[t].next # NULL => /\ ts[t].next \in DOMAIN ts /\ ts[t].next # t
                                 /\ ts[ts[t].next].prev = t
                                 /\ ts[ts[t].next].index = ts[t].index
         /\ ts[t].prev # NULL => /\ ts[t].prev \in DOMAIN ts /\ ts[t].prev # t
                                 /\ ts[ts[t].prev].next = t
                                 /\ ts[ts[t].prev].index = ts[t].index
                                 /\ ts[t].prev # ts[t].next
         /\ LoneLinks(ts, t)
<1>1. PICK rank \in [Nat -> Nat], n \in Nat : Ranks(ts, rank, n)
  BY DEF Ranked
<1>2. \A a \in DOMAIN ts : /\ a \in Nat \ {0} /\ ts[a].index \in Exps \cup {-1}
                           /\ ts[a].next \in Nat /\ ts[a].prev \in Nat
  BY DEF Typed, Word
<1>3. rank[t] \in Nat
  BY <1>2
<1>4. ts[t].next # NULL => ts[t].next \in DOMAIN ts /\ rank[ts[t].next] < rank[t]
  BY <1>1 DEF Lists, Ranks
<1>5. ts[t].prev # NULL => /\ ts[t].prev \in DOMAIN ts /\ rank[t] < rank[ts[t].prev]
                           /\ ts[ts[t].prev].next = t
  BY <1>1, <1>2 DEF Lists, Ranks, NULL
<1>6. ts[t].next \in DOMAIN ts => rank[ts[t].next] \in Nat
  BY <1>2
<1>7. ts[t].prev \in DOMAIN ts => rank[ts[t].prev] \in Nat
  BY <1>2
<1>8. ts[t].prev # NULL => ts[ts[t].prev].index = ts[t].index
  BY <1>2, <1>5 DEF Lists, NULL
<1>9. ts[t].next # NULL => ts[ts[t].next].prev = t /\ ts[ts[t].next].index = ts[t].index
  BY DEF Lists
<1> QED
  BY <1>2, <1>3, <1>4, <1>5, <1>6, <1>7, <1>8, <1>9 DEF LoneLinks, NULL

\* remove_tag keeps the lists linked: its neighbours find each other.
LEMMA UnlinkedLists ==
  ASSUME NEW ts, Typed(ts), NEW heads \in [Exps -> Nat], Lists(ts, heads), Ranked(ts),
         NEW t \in DOMAIN ts, ts[t].index # -1, NEW us, UnlinkFields(ts, t, us)
  PROVE  /\ Lists(us, HeadsWithoutIn(ts, heads, t)) /\ Ranked(us)
         /\ HeadsWithoutIn(ts, heads, t) \in [Exps -> Nat]
<1> DEFINE new == HeadsWithoutIn(ts, heads, t)
<1>1. PICK rank \in [Nat -> Nat], n \in Nat : Ranks(ts, rank, n)
  BY DEF Ranked
<1>2. \A a \in DOMAIN ts : /\ a \in Nat \ {0} /\ ts[a].index \in Exps \cup {-1}
                           /\ ts[a].next \in Nat /\ ts[a].prev \in Nat
  BY DEF Typed, Word
<1>3. new \in [Exps -> Nat]
  BY <1>2 DEF HeadsWithoutIn
<1>4. \A e \in Exps : new[e] = IF e = ts[t].index /\ heads[e] = t THEN ts[t].next ELSE heads[e]
  BY DEF HeadsWithoutIn
<1>5. /\ ts[t].next # NULL => /\ ts[t].next \in DOMAIN ts /\ ts[t].next # t
                              /\ ts[ts[t].next].prev = t /\ ts[ts[t].next].index = ts[t].index
      /\ ts[t].prev # NULL => /\ ts[t].prev \in DOMAIN ts /\ ts[t].prev # t
                              /\ ts[ts[t].prev].next = t /\ ts[ts[t].prev].index = ts[t].index
                              /\ ts[t].prev # ts[t].next
  BY ListNeighbours
<1>6. Ranks(us, rank, n)
  <2> SUFFICES ASSUME NEW a \in DOMAIN ts
               PROVE  rank[a] < n /\ (us[a].next # NULL => rank[us[a].next] < rank[a])
    BY DEF Ranks, UnlinkFields
  <2>1. rank[a] < n /\ (ts[a].next # NULL => rank[ts[a].next] < rank[a])
    BY <1>1 DEF Ranks
  <2>2. CASE a = ts[t].prev /\ a # t
    <3>1. us[a].next = ts[t].next /\ ts[a].next = t
      BY <1>2, <1>5, <2>2 DEF UnlinkFields, NULL
    <3>2. rank[t] < rank[a] /\ rank[t] \in Nat /\ rank[a] \in Nat
      BY <1>2, <2>1, <3>1 DEF NULL
    <3>3. ts[t].next # NULL => rank[ts[t].next] < rank[t] /\ rank[ts[t].next] \in Nat
      BY <1>1, <1>2, <1>5 DEF Ranks
    <3> QED
      BY <2>1, <3>1, <3>2, <3>3
  <2>3. CASE ~(a = ts[t].prev /\ a # t)
    BY <2>1, <2>3 DEF UnlinkFields
  <2> QED
    BY <2>2, <2>3
<1>7. Ranked(us)
  BY <1>6 DEF Ranked
<1> HIDE DEF new
<1>8. ASSUME NEW a \in DOMAIN us
      PROVE  IF us[a].index = -1
               THEN us[a].next = NULL /\ us[a].prev = NULL
               ELSE /\ us[a].next # NULL =>
                         /\ us[a].next \in DOMAIN us /\ us[us[a].next].prev = a
                         /\ us[us[a].next].index = us[a].index
                    /\ us[a].prev # NULL => us[a].prev \in DOMAIN us /\ us[us[a].prev].next = a
                    /\ us[a].prev = NULL <=> new[us[a].index] = a
  <2>1. a \in DOMAIN ts /\ DOMAIN us = DOMAIN ts /\ a # 0
    BY <1>2, <1>8 DEF UnlinkFields
  <2>2. CASE a = t
    BY <2>1, <2>2 DEF UnlinkFields
  <2>3. CASE a # t /\ ts[a].index = -1
    <3>1. a # ts[t].prev /\ a # ts[t].next
      BY <1>2, <1>5, <2>1, <2>3 DEF NULL
    <3>2. us[a].index = -1 /\ us[a].next = ts[a].next /\ us[a].prev = ts[a].prev
      BY <2>1, <2>3, <3>1 DEF UnlinkFields
    <3> QED
      BY <2>1, <2>3, <3>2 DEF Lists
  <2>4. CASE a # t /\ ts[a].index # -1
    <3>1. us[a].index = ts[a].index /\ us[a].real_size = ts[a].real_size /\ ts[a].index \in Exps
      BY <1>2, <2>1, <2>4 DEF UnlinkFields
    <3>2. /\ ts[a].next # NULL =>
               /\ ts[a].next \in DOMAIN ts /\ ts[ts[a].next].prev = a
               /\ ts[ts[a].next].index = ts[a].index
          /\ ts[a].prev # NULL => ts[a].prev \in DOMAIN ts /\ ts[ts[a].prev].next = a
          /\ ts[a].prev = NULL <=> heads[ts[a].index] = a
      BY <2>1, <2>4 DEF Lists
    <3>3. us[a].next # NULL =>
            /\ us[a].next \in DOMAIN us /\ us[us[a].next].prev = a
            /\ us[us[a].next].index = us[a].index
      <4>1. CASE a = ts[t].prev
        BY <1>2, <1>5, <2>1, <2>4, <3>1, <4>1 DEF UnlinkFields, NULL
      <4>2. CASE a # ts[t].prev
        <5>1. us[a].next = ts[a].next
          BY <2>1, <2>4, <4>2 DEF UnlinkFields
        <5>2. ts[a].next # t
          BY <2>1, <2>4, <3>2, <4>2, <1>2 DEF NULL
        <5>3. ts[a].next # NULL => ts[a].next # ts[t].next
          BY <1>5, <2>4, <3>2
        <5> QED
          BY <2>1, <3>1, <3>2, <5>1, <5>2, <5>3 DEF UnlinkFields
      <4> QED
        BY <4>1, <4>2
    <3>4. us[a].prev # NULL => us[a].prev \in DOMAIN us /\ us[us[a].prev].next = a
      <4>1. CASE a = ts[t].next
        BY <1>2, <1>5, <2>1, <2>4, <4>1 DEF UnlinkFields, NULL
      <4>2. CASE a # ts[t].next
        <5>1. us[a].prev = ts[a].prev
          BY <2>1, <2>4, <4>2 DEF UnlinkFields
        <5>2. ts[a].prev # NULL => ts[a].prev # t /\ ts[a].prev # ts[t].prev
          <6>1. ts[a].prev # NULL => ts[a].prev # t
            BY <3>2, <4>2
          <6>2. ts[a].prev # NULL => ts[a].prev # ts[t].prev
            BY <1>5, <2>4, <3>2
          <6> QED
            BY <6>1, <6>2
        <5> QED
          BY <2>1, <3>2, <5>1, <5>2 DEF UnlinkFields
      <4> QED
        BY <4>1, <4>2
    <3>5. us[a].prev = NULL <=> new[us[a].index] = a
      <4>1. CASE a = ts[t].next
        <5>1. us[a].prev = ts[t].prev /\ ts[t].index = ts[a].index /\ ts[a].prev = t
          BY <1>2, <1>5, <2>1, <2>4, <4>1 DEF UnlinkFields, NULL
        <5>2. ts[t].prev = NULL <=> heads[ts[t].index] = t
          BY DEF Lists
        <5>3. heads[ts[a].index] # a
          BY <1>2, <3>2, <5>1 DEF NULL
        <5> QED
          BY <1>4, <3>1, <4>1, <5>1, <5>2, <5>3
      <4>2. CASE a # ts[t].next
        <5>1. us[a].prev = ts[a].prev
          BY <2>1, <2>4, <4>2 DEF UnlinkFields
        <5> QED
          BY <1>4, <2>4, <3>1, <3>2, <4>2, <5>1
      <4> QED
        BY <4>1, <4>2
    <3> QED
      BY <2>4, <3>1, <3>2, <3>3, <3>4, <3>5
  <2> QED
    BY <2>2, <2>3, <2>4
<1>9. ASSUME NEW e \in Exps, new[e] # NULL
      PROVE  new[e] \in DOMAIN us /\ us[new[e]].index = e
  <2>1. DOMAIN us = DOMAIN ts
    BY DEF UnlinkFields
  <2>2. CASE e = ts[t].index /\ heads[e] = t
    BY <1>4, <1>5, <1>9, <2>1, <2>2 DEF UnlinkFields
  <2>3. CASE ~(e = ts[t].index /\ heads[e] = t)
    <3>1. new[e] = heads[e]
      BY <1>4, <2>3
    <3>2. heads[e] \in DOMAIN ts /\ ts[heads[e]].index = e
      BY <1>9, <3>1 DEF Lists
    <3> QED
      BY <2>1, <2>3, <3>1, <3>2 DEF UnlinkFields
  <2> QED
    BY <2>2, <2>3
<1>10. Lists(us, new)
  BY <1>8, <1>9 DEF Lists
<1> QED
  BY <1>3, <1>7, <1>10 DEF new

\* All remove_tag does, on linked lists.
LEMMA Unlinking ==
  ASSUME NEW ts, Typed(ts), NEW heads \in [Exps -> Nat], Lists(ts, heads), Ranked(ts),
         NEW t \in DOMAIN ts, ts[t].index # -1
  PROVE  LET us == Unlinked(ts, t)
         IN  /\ Typed(us) /\ UnlinkFields(ts, t, us)
             /\ Lists(us, HeadsWithoutIn(ts, heads, t)) /\ Ranked(us)
             /\ HeadsWithoutIn(ts, heads, t) \in [Exps -> Nat]
<1> DEFINE us == Unlinked(ts, t)
<1>1. LoneLinks(ts, t)
  BY ListNeighbours
<1>2. Typed(us) /\ UnlinkFields(ts, t, us)
  BY <1>1, UnlinkedFields
<1> HIDE DEF us
<1>3. /\ Lists(us, HeadsWithoutIn(ts, heads, t)) /\ Ranked(us)
      /\ HeadsWithoutIn(ts, heads, t) \in [Exps -> Nat]
  BY <1>2, UnlinkedLists
<1> QED
  BY <1>2, <1>3 DEF us

\* Tilings depend on the split links and sizes only.
LEMMA SameTiles ==
  ASSUME NEW ts, NEW top, Tiled(ts, top), NEW us, DOMAIN us = DOMAIN ts,
         \A a \in DOMAIN ts : /\ us[a].real_size = ts[a].real_size
                              /\ us[a].left = ts[a].left /\ us[a].right = ts[a].right
  PROVE  Tiled(us, top)
<1> SUFFICES ASSUME NEW a \in DOMAIN ts
             PROVE  /\ IF us[a].right = NULL
                         THEN End(us, a) % PageSize = 0 /\ End(us, a) <= top
                         ELSE /\ us[a].right \in DOMAIN us /\ us[a].right = End(us, a)
                              /\ us[End(us, a)].left = a
                    /\ IF us[a].left = NULL
                         THEN a % PageSize = 0
                         ELSE us[a].left \in DOMAIN us /\ us[us[a].left].right = a
                    /\ a < top
                    /\ \A b \in DOMAIN us : ~(a < b /\ b < End(us, a))
  BY DEF Tiled
<1>1. End(us, a) = End(ts, a)
  BY DEF End
<1> QED
  BY <1>1 DEF Tiled

-------------------------------------------------------------------------------
(* insert_tag *)

LinkedIn(ts, heads, t, e) ==
  [a \in DOMAIN ts |->
     CASE a = t        -> [ts[t] EXCEPT !.index = e, !.next = IF heads[e] = NULL THEN @ ELSE heads[e]]
       [] a = heads[e] -> [ts[a] EXCEPT !.prev = t]
       [] OTHER        -> ts[a]]

LinkFields(ts, heads, t, e, us) ==
  /\ DOMAIN us = DOMAIN ts
  /\ \A a \in DOMAIN ts :
       /\ us[a].size = ts[a].size /\ us[a].real_size = ts[a].real_size
       /\ us[a].left = ts[a].left /\ us[a].right = ts[a].right
       /\ us[a].index = IF a = t THEN e ELSE ts[a].index
       /\ us[a].next = IF a = t THEN heads[e] ELSE ts[a].next
       /\ us[a].prev = IF a = heads[e] THEN t ELSE ts[a].prev

LEMMA LinkedFields ==
  ASSUME NEW ts, Typed(ts), NEW heads \in [Exps -> Nat], NEW e \in Exps,
         NEW t \in DOMAIN ts, ts[t].next = NULL, heads[e] # t
  PROVE  /\ LinkFields(ts, heads, t, e, LinkedIn(ts, heads, t, e))
         /\ Typed(LinkedIn(ts, heads, t, e))
<1> DEFINE us == LinkedIn(ts, heads, t, e)
<1>1. DOMAIN us = DOMAIN ts /\ us = [a \in DOMAIN us |-> us[a]]
  BY DEF LinkedIn
<1>2. \A a \in DOMAIN ts : a # 0 /\ a \in Nat /\ ts[a] \in Word
  BY DEF Typed
<1>3. us[t] = [ts[t] EXCEPT !.index = e, !.next = heads[e]]
  <2>1. us[t] = [ts[t] EXCEPT !.index = e, !.next = IF heads[e] = NULL THEN @ ELSE heads[e]]
    BY DEF LinkedIn
  <2> QED
    BY <2>1
<1>4. \A a \in DOMAIN ts : a = heads[e] => us[a] = [ts[a] EXCEPT !.prev = t]
  BY DEF LinkedIn
<1>5. \A a \in DOMAIN ts : a # t /\ a # heads[e] => us[a] = ts[a]
  BY DEF LinkedIn
<1> HIDE DEF us
<1>6. ASSUME NEW a \in DOMAIN ts PROVE us[a] \in Word
  <2>1. \A w \in Word : [w EXCEPT !.index = e, !.next = heads[e]] \in Word
    BY DEF Word
  <2>2. \A w \in Word : [w EXCEPT !.prev = t] \in Word
    BY <1>2 DEF Word
  <2>3. ts[a] \in Word
    BY <1>2
  <2>4. CASE a = t
    BY <1>3, <2>1, <2>3, <2>4
  <2>5. CASE a = heads[e]
    BY <1>4, <2>2, <2>3, <2>5
  <2>6. CASE a # t /\ a # heads[e]
    BY <1>5, <2>3, <2>6
  <2> QED
    BY <2>4, <2>5, <2>6
<1>7. Typed(us)
  BY <1>1, <1>6 DEF Typed
<1>8. LinkFields(ts, heads, t, e, us)
  <2> SUFFICES ASSUME NEW a \in DOMAIN ts
               PROVE  /\ us[a].size = ts[a].size /\ us[a].real_size = ts[a].real_size
                      /\ us[a].left = ts[a].left /\ us[a].right = ts[a].right
                      /\ us[a].index = IF a = t THEN e ELSE ts[a].index
                      /\ us[a].next = IF a = t THEN heads[e] ELSE ts[a].next
                      /\ us[a].prev = IF a = heads[e] THEN t ELSE ts[a].prev
    BY <1>1 DEF LinkFields
  <2>1. ts[a] \in Word
    BY <1>2
  <2>2. CASE a = t
    BY <1>3, <2>1, <2>2 DEF Word
  <2>3. CASE a # t
    BY <1>4, <1>5, <2>1, <2>3 DEF Word
  <2> QED
    BY <2>2, <2>3
<1> QED
  BY <1>7, <1>8 DEF us

\* insert_tag puts a tag that is on no list at the head of the list of its size.
LEMMA Linking ==
  ASSUME NEW ts, Typed(ts), NEW heads \in [Exps -> Nat], Lists(ts, heads), Ranked(ts),
         NEW t \in DOMAIN ts, ts[t].index = -1, NEW e \in Exps
  PROVE  LET us == LinkedIn(ts, heads, t, e)
             new == [heads EXCEPT ![e] = t]
         IN  /\ Typed(us) /\ LinkFields(ts, heads, t, e, us)
             /\ Lists(us, new) /\ Ranked(us) /\ new \in [Exps -> Nat]
<1> DEFINE us == LinkedIn(ts, heads, t, e)
           new == [heads EXCEPT ![e] = t]
           head == heads[e]
<1>1. /\ e # -1 /\ ts[t].next = NULL /\ ts[t].prev = NULL
      /\ head # NULL => /\ head \in DOMAIN ts /\ ts[head].index = e /\ head # t
                        /\ ts[head].prev = NULL
  BY HeapAssumption DEF Lists, Exps
<1>2. \A a \in DOMAIN ts : /\ a \in Nat \ {0} /\ ts[a].index \in Exps \cup {-1}
                           /\ ts[a].next \in Nat /\ ts[a].prev \in Nat
  BY DEF Typed, Word
<1>3. Typed(us) /\ LinkFields(ts, heads, t, e, us)
  BY <1>1, <1>2, LinkedFields DEF NULL
<1>4. new \in [Exps -> Nat] /\ \A d \in Exps : new[d] = IF d = e THEN t ELSE heads[d]
  BY <1>2
<1>5. Ranked(us)
  <2>1. PICK rank \in [Nat -> Nat], n \in Nat : Ranks(ts, rank, n)
    BY DEF Ranked
  <2> DEFINE above == [rank EXCEPT ![t] = n]
  <2>2. above \in [Nat -> Nat] /\ n + 1 \in Nat
    BY <1>2
  <2>3. ASSUME NEW a \in DOMAIN ts
        PROVE  above[a] < n + 1 /\ (us[a].next # NULL => above[us[a].next] < above[a])
    <3>1. /\ rank[a] \in Nat /\ rank[a] < n
          /\ ts[a].next # NULL => rank[ts[a].next] < rank[a]
      BY <1>2, <2>1 DEF Ranks
    <3>2. CASE a = t
      <4>1. head # NULL => rank[head] < n
        BY <1>1, <2>1 DEF Ranks
      <4> QED
        BY <1>1, <1>2, <1>3, <2>1, <3>2, <4>1 DEF LinkFields
    <3>3. CASE a # t
      <4>1. us[a].next = ts[a].next /\ above[a] = rank[a] /\ a \in Nat
        BY <1>2, <1>3, <3>3 DEF LinkFields
      <4>2. ts[a].next # NULL => ts[a].next # t
        BY <1>1, <1>2 DEF Lists, NULL
      <4> QED
        BY <1>2, <3>1, <4>1, <4>2
    <3> QED
      BY <3>2, <3>3
  <2> HIDE DEF above, us
  <2>4. Ranks(us, above, n + 1)
    BY <1>3, <2>3 DEF Ranks, LinkFields
  <2> QED
    BY <2>2, <2>4 DEF Ranked
<1> HIDE DEF us, new
<1>6. ASSUME NEW a \in DOMAIN us
      PROVE  IF us[a].index = -1
               THEN us[a].next = NULL /\ us[a].prev = NULL
               ELSE /\ us[a].next # NULL =>
                         /\ us[a].next \in DOMAIN us /\ us[us[a].next].prev = a
                         /\ us[us[a].next].index = us[a].index
                    /\ us[a].prev # NULL => us[a].prev \in DOMAIN us /\ us[us[a].prev].next = a
                    /\ us[a].prev = NULL <=> new[us[a].index] = a
  <2>1. a \in DOMAIN ts /\ DOMAIN us = DOMAIN ts /\ a # NULL
    BY <1>2, <1>3, <1>6 DEF LinkFields, NULL
  <2>2. CASE a = t
    <3>1. us[a].index = e /\ us[a].next = head /\ us[a].prev = NULL /\ us[a].real_size = ts[t].real_size
      BY <1>1, <1>3, <2>1, <2>2 DEF LinkFields
    <3> QED
      BY <1>1, <1>3, <1>4, <2>1, <2>2, <3>1 DEF LinkFields
  <2>3. CASE a # t /\ ts[a].index = -1
    BY <1>1, <1>3, <2>1, <2>3 DEF LinkFields, Lists
  <2>4. CASE a # t /\ ts[a].index # -1
    <3>1. /\ ts[a].next # NULL =>
               /\ ts[a].next \in DOMAIN ts /\ ts[ts[a].next].prev = a
               /\ ts[ts[a].next].index = ts[a].index
          /\ ts[a].prev # NULL => ts[a].prev \in DOMAIN ts /\ ts[ts[a].prev].next = a
          /\ ts[a].prev = NULL <=> heads[ts[a].index] = a
      BY <2>1, <2>4 DEF Lists
    <3>2. /\ us[a].index = ts[a].index /\ us[a].real_size = ts[a].real_size
          /\ us[a].next = ts[a].next /\ us[a].prev = IF a = head THEN t ELSE ts[a].prev
          /\ ts[a].index \in Exps
      BY <1>2, <1>3, <2>1, <2>4 DEF LinkFields
    <3>3. us[a].next # NULL =>
            /\ us[a].next \in DOMAIN us /\ us[us[a].next].prev = a
            /\ us[us[a].next].index = us[a].index
      <4>1. ts[a].next # NULL => ts[a].next # t /\ ts[a].next # head
        BY <1>1, <2>1, <3>1
      <4> QED
        BY <1>3, <2>1, <3>1, <3>2, <4>1 DEF LinkFields
    <3>4. us[a].prev # NULL => us[a].prev \in DOMAIN us /\ us[us[a].prev].next = a
      <4>1. CASE a = head
        BY <1>3, <2>1, <3>2, <4>1 DEF LinkFields
      <4>2. CASE a # head
        <5>1. ts[a].prev # NULL => ts[a].prev # t
          BY <1>1, <2>1, <3>1
        <5> QED
          BY <1>3, <2>1, <3>1, <3>2, <4>2, <5>1 DEF LinkFields
      <4> QED
        BY <4>1, <4>2
    <3>5. us[a].prev = NULL <=> new[us[a].index] = a
      <4>1. CASE a = head
        BY <1>1, <1>2, <1>4, <2>1, <2>4, <3>2, <4>1 DEF NULL
      <4>2. CASE a # head
        BY <1>4, <2>4, <3>1, <3>2, <4>2
      <4> QED
        BY <4>1, <4>2
    <3> QED
      BY <2>4, <3>1, <3>2, <3>3, <3>4, <3>5
  <2> QED
    BY <2>2, <2>3, <2>4
<1>7. ASSUME NEW d \in Exps, new[d] # NULL
      PROVE  new[d] \in DOMAIN us /\ us[new[d]].index = d
  <2>1. d # e => heads[d] # t
    BY <1>1, <1>2, HeapAssumption DEF Lists, Exps, NULL
  <2> QED
    BY <1>3, <1>4, <1>7, <2>1 DEF LinkFields, Lists
<1>8. Lists(us, new)
  BY <1>6, <1>7 DEF Lists
<1> QED
  BY <1>3, <1>4, <1>5, <1>8 DEF us, new

-------------------------------------------------------------------------------
(* melt_left and absorb_right, but for the free lists *)

MergeFields(ts, t, r, us) ==
  /\ DOMAIN us = DOMAIN ts \ {r}
  /\ \A a \in DOMAIN us :
       /\ us[a].size = ts[a].size /\ us[a].index = ts[a].index
       /\ us[a].next = ts[a].next /\ us[a].prev = ts[a].prev
       /\ us[a].real_size = IF a = t THEN ts[t].real_size + ts[r].real_size ELSE ts[a].real_size
       /\ us[a].right = IF a = t THEN ts[r].right ELSE ts[a].right
       /\ us[a].left = IF a = ts[r].right THEN t ELSE ts[a].left

LEMMA MergedFields ==
  ASSUME NEW ts, Typed(ts), NEW t \in DOMAIN ts, NEW r \in DOMAIN ts, t # r, ts[r].right # t
  PROVE  MergeFields(ts, t, r, Merged(ts, t, r)) /\ Typed(Merged(ts, t, r))
<1> DEFINE us == Merged(ts, t, r)
<1>1. DOMAIN us = DOMAIN ts \ {r} /\ us = [a \in DOMAIN us |-> us[a]]
  BY DEF Merged
<1>2. \A a \in DOMAIN ts : a # 0 /\ a \in Nat /\ ts[a] \in Word
  BY DEF Typed
<1>3. us[t] = [ts[t] EXCEPT !.real_size = @ + ts[r].real_size, !.right = ts[r].right]
  BY DEF Merged
<1>4. \A a \in DOMAIN us : a = ts[r].right => us[a] = [ts[a] EXCEPT !.left = t]
  BY DEF Merged
<1>5. \A a \in DOMAIN us : a # t /\ a # ts[r].right => us[a] = ts[a]
  BY DEF Merged
<1> HIDE DEF us
<1>6. ASSUME NEW a \in DOMAIN us PROVE us[a] \in Word
  <2> DEFINE both == ts[t].real_size + ts[r].real_size
             beyond == ts[r].right
  <2>1. \A w \in Word : [w EXCEPT !.left = t] \in Word
    BY <1>2 DEF Word
  <2>2. ts[a] \in Word /\ ts[t] \in Word /\ ts[r] \in Word
    BY <1>1, <1>2
  <2>3. both \in Nat \ {0} /\ beyond \in Nat
    BY <2>2 DEF Word
  <2>4. us[t] = [ts[t] EXCEPT !.real_size = both, !.right = beyond]
    BY <1>3
  <2> HIDE DEF both, beyond
  <2>5. us[t] \in Word
    <3>1. \A w \in Word : [w EXCEPT !.real_size = both, !.right = beyond] \in Word
      BY <2>3 DEF Word
    <3>2. [ts[t] EXCEPT !.real_size = both, !.right = beyond] \in Word
      BY <2>2, <3>1
    <3> QED
      BY <2>4, <3>2
  <2>6. CASE a = t
    BY <2>5, <2>6
  <2>7. CASE a = ts[r].right
    BY <1>4, <2>1, <2>2, <2>7
  <2>8. CASE a # t /\ a # ts[r].right
    BY <1>5, <2>2, <2>8
  <2> QED
    BY <2>6, <2>7, <2>8
<1>7. Typed(us)
  BY <1>1, <1>2, <1>6 DEF Typed
<1>8. MergeFields(ts, t, r, us)
  <2> SUFFICES ASSUME NEW a \in DOMAIN us
               PROVE  /\ us[a].size = ts[a].size /\ us[a].index = ts[a].index
                      /\ us[a].next = ts[a].next /\ us[a].prev = ts[a].prev
                      /\ us[a].real_size = IF a = t THEN ts[t].real_size + ts[r].real_size
                                           ELSE ts[a].real_size
                      /\ us[a].right = IF a = t THEN ts[r].right ELSE ts[a].right
                      /\ us[a].left = IF a = ts[r].right THEN t ELSE ts[a].left
    BY <1>1 DEF MergeFields
  <2>1. ts[a] \in Word
    BY <1>1, <1>2
  <2>2. CASE a = t
    BY <1>3, <2>1, <2>2 DEF Word
  <2>3. CASE a # t
    BY <1>4, <1>5, <2>1, <2>3 DEF Word
  <2> QED
    BY <2>2, <2>3
<1> QED
  BY <1>7, <1>8 DEF us

\* Melting two neighbours keeps the chunk covered.
LEMMA MergingTiles ==
  ASSUME NEW ts, Typed(ts), NEW top, Tiled(ts, top),
         NEW t \in DOMAIN ts, NEW r \in DOMAIN ts, ts[t].right = r
  PROVE  /\ Tiled(Merged(ts, t, r), top) /\ Typed(Merged(ts, t, r))
         /\ MergeFields(ts, t, r, Merged(ts, t, r))
<1> DEFINE us == Merged(ts, t, r)
<1>1. \A a \in DOMAIN ts : /\ a \in Nat \ {0} /\ ts[a].real_size \in Nat \ {0}
                           /\ ts[a].left \in Nat /\ ts[a].right \in Nat
  BY DEF Typed, Word
<1>2. r = t + ts[t].real_size /\ ts[r].left = t
  BY <1>1 DEF Tiled, End, NULL
<1>3. ts[r].right # NULL => /\ ts[r].right \in DOMAIN ts /\ ts[ts[r].right].left = r
                            /\ ts[r].right = r + ts[r].real_size
  BY DEF Tiled, End
<1>4. t # r /\ ts[r].right # t /\ ts[r].right # r
  BY <1>1, <1>2, <1>3 DEF NULL
<1>5. Typed(us) /\ MergeFields(ts, t, r, us)
  BY <1>4, MergedFields
<1> HIDE DEF us
<1>6. ASSUME NEW a \in DOMAIN us
      PROVE  /\ IF us[a].right = NULL
                  THEN End(us, a) % PageSize = 0 /\ End(us, a) <= top
                  ELSE /\ us[a].right \in DOMAIN us /\ us[a].right = End(us, a)
                       /\ us[End(us, a)].left = a
             /\ IF us[a].left = NULL
                  THEN a % PageSize = 0
                  ELSE us[a].left \in DOMAIN us /\ us[us[a].left].right = a
             /\ a < top
             /\ \A b \in DOMAIN us : ~(a < b /\ b < End(us, a))
  <2>1. a \in DOMAIN ts /\ a # r /\ DOMAIN us = DOMAIN ts \ {r}
    BY <1>5 DEF MergeFields
  <2>2. End(us, a) = IF a = t THEN End(ts, r) ELSE End(ts, a)
    BY <1>1, <1>2, <1>5, <2>1 DEF MergeFields, End
  <2>3. IF us[a].right = NULL
          THEN End(us, a) % PageSize = 0 /\ End(us, a) <= top
          ELSE us[a].right \in DOMAIN us /\ us[a].right = End(us, a) /\ us[End(us, a)].left = a
    <3>1. CASE a = t
      <4>1. us[a].right = ts[r].right
        BY <1>5, <3>1 DEF MergeFields
      <4>2. ts[r].right = NULL => End(ts, r) % PageSize = 0 /\ End(ts, r) <= top
        BY DEF Tiled
      <4>3. ts[r].right # NULL => ts[r].right \in DOMAIN us /\ us[ts[r].right].left = t
        BY <1>3, <1>4, <1>5 DEF MergeFields
      <4> QED
        BY <1>3, <2>2, <3>1, <4>1, <4>2, <4>3 DEF End
    <3>2. CASE a # t
      <4>1. us[a].right = ts[a].right
        BY <1>5, <3>2 DEF MergeFields
      <4>2. ts[a].right # NULL => /\ ts[a].right \in DOMAIN ts /\ ts[a].right = End(ts, a)
                                  /\ ts[ts[a].right].left = a
        BY <2>1 DEF Tiled
      <4>3. ts[a].right = NULL => End(ts, a) % PageSize = 0 /\ End(ts, a) <= top
        BY <2>1 DEF Tiled
      <4>4. ts[a].right # NULL => ts[a].right # r /\ ts[a].right # ts[r].right
        BY <1>2, <1>3, <2>1, <3>2, <4>2
      <4>5. ts[a].right # NULL => ts[a].right \in DOMAIN us /\ us[ts[a].right].left = a
        BY <1>5, <4>2, <4>4 DEF MergeFields
      <4> QED
        BY <2>2, <3>2, <4>1, <4>2, <4>3, <4>5
    <3> QED
      BY <3>1, <3>2
  <2>4. IF us[a].left = NULL
          THEN a % PageSize = 0
          ELSE us[a].left \in DOMAIN us /\ us[us[a].left].right = a
    <3>1. CASE a = ts[r].right
      <4>1. us[a].left = t /\ t \in DOMAIN us /\ us[t].right = ts[r].right /\ t # NULL
        BY <1>1, <1>4, <1>5, <3>1 DEF MergeFields, NULL
      <4> QED
        BY <3>1, <4>1
    <3>2. CASE a # ts[r].right
      <4>1. us[a].left = ts[a].left
        BY <1>5, <3>2 DEF MergeFields
      <4>2. IF ts[a].left = NULL THEN a % PageSize = 0
            ELSE ts[a].left \in DOMAIN ts /\ ts[ts[a].left].right = a
        BY <2>1 DEF Tiled
      <4>3. ts[a].left # NULL => ts[a].left # r /\ ts[a].left # t
        BY <2>1, <3>2, <4>2
      <4>4. ts[a].left # NULL => ts[a].left \in DOMAIN us /\ us[ts[a].left].right = a
        BY <1>5, <4>2, <4>3 DEF MergeFields
      <4> QED
        BY <4>1, <4>2, <4>4
    <3> QED
      BY <3>1, <3>2
  <2>5. a < top
    BY <2>1 DEF Tiled
  <2>6. ASSUME NEW b \in DOMAIN us, a < b, b < End(us, a) PROVE FALSE
    <3>1. b \in DOMAIN ts /\ b # r /\ b \in Nat /\ a \in Nat
      BY <1>1, <2>1, <2>6
    <3>2. ~(a < b /\ b < End(ts, a)) /\ ~(r < b /\ b < End(ts, r))
      BY <2>1, <3>1 DEF Tiled
    <3>3. a = t
      BY <2>2, <2>6, <3>2
    <3>4. End(ts, a) = r
      BY <1>2, <3>3 DEF End
    <3> QED
      BY <1>1, <2>2, <2>6, <3>1, <3>2, <3>3, <3>4
  <2> QED
    BY <2>3, <2>4, <2>5, <2>6
<1>7. Tiled(us, top)
  BY <1>6 DEF Tiled
<1> QED
  BY <1>5, <1>7 DEF us

\* A tag in use is on no list, so the lists do not notice that it is gone.
LEMMA MergingLists ==
  ASSUME NEW ts, Typed(ts), NEW heads, Lists(ts, heads), Ranked(ts),
         NEW t, NEW r \in DOMAIN ts, ts[r].index = -1,
         NEW us, MergeFields(ts, t, r, us)
  PROVE  Lists(us, heads) /\ Ranked(us)
<1>1. /\ \A a \in DOMAIN ts : /\ ts[a].next # NULL => ts[a].next # r
                              /\ ts[a].prev # NULL => ts[a].prev # r
      /\ \A e \in Exps : heads[e] # r \/ heads[e] = NULL
  <2>1. \A a \in DOMAIN ts : a # 0
    BY DEF Typed
  <2>2. \A e \in Exps : e # -1
    BY HeapAssumption DEF Exps
  <2> QED
    BY <2>1, <2>2 DEF Lists, NULL
<1>2. Lists(us, heads)
  BY <1>1 DEF Lists, MergeFields
<1>3. Ranked(us)
  <2>1. PICK rank \in [Nat -> Nat], n \in Nat : Ranks(ts, rank, n)
    BY DEF Ranked
  <2>2. Ranks(us, rank, n)
    BY <2>1 DEF Ranks, MergeFields
  <2> QED
    BY <2>2 DEF Ranked
<1> QED
  BY <1>2, <1>3

-------------------------------------------------------------------------------
(* split_tag, up to the linking of the new tag *)

CutFields(t, n, us) ==
  /\ DOMAIN us = DOMAIN tags \cup {n}
  /\ \A a \in DOMAIN us :
       /\ us[a].size = IF a = n THEN 0 ELSE tags[a].size
       /\ us[a].real_size = IF a = n THEN End(tags, t) - n
                            ELSE IF a = t THEN n - t ELSE tags[a].real_size
       /\ us[a].left = IF a = n THEN t
                       ELSE IF a = tags[t].right THEN n ELSE tags[a].left
       /\ us[a].right = IF a = n THEN tags[t].right
                        ELSE IF a = t THEN n ELSE tags[a].right
       /\ us[a].index = IF a = n THEN -1 ELSE tags[a].index
       /\ us[a].next = IF a = n THEN NULL ELSE tags[a].next
       /\ us[a].prev = IF a = n THEN NULL ELSE tags[a].prev

LEMMA CutFieldsHold ==
  ASSUME Typed(tags), NEW t \in DOMAIN tags, NEW n \in Nat,
         tags[t].right \notin {t, n}, t < n, n < End(tags, t), n \notin DOMAIN tags
  PROVE  CutFields(t, n, Cut(t, n)) /\ Typed(Cut(t, n))
<1> DEFINE us == Cut(t, n)
           first == n - t
           rest == t + tags[t].real_size - n
           new == [size |-> 0, real_size |-> rest, index |-> -1,
                   left |-> t, right |-> tags[t].right, next |-> NULL, prev |-> NULL]
<1>1. DOMAIN us = DOMAIN tags \cup {n} /\ us = [a \in DOMAIN us |-> us[a]] /\ t # n
  BY DEF Cut
<1>2. \A a \in DOMAIN tags : a # 0 /\ a \in Nat /\ tags[a] \in Word
  BY DEF Typed
<1>3. us[t] = [tags[t] EXCEPT !.real_size = first, !.right = n]
  BY DEF Cut
<1>4. us[n] = new
  BY <1>1 DEF Cut
<1>5. \A a \in DOMAIN tags : a = tags[t].right => us[a] = [tags[a] EXCEPT !.left = n]
  BY <1>1 DEF Cut
<1>6. \A a \in DOMAIN tags : a # t /\ a # tags[t].right => us[a] = tags[a]
  BY <1>1 DEF Cut
<1> HIDE DEF us
<1>7. first \in Nat \ {0} /\ rest \in Nat \ {0} /\ rest = End(tags, t) - n /\ tags[t].right \in Nat
  BY <1>2 DEF Word, End
<1> HIDE DEF first, rest
<1>8. ASSUME NEW a \in DOMAIN us PROVE us[a] \in Word
  <2>1. CASE a = t
    <3>1. \A w \in Word : [w EXCEPT !.real_size = first, !.right = n] \in Word
      BY <1>7 DEF Word
    <3> QED
      BY <1>2, <1>3, <2>1, <3>1
  <2>2. CASE a = n
    BY <1>2, <1>4, <1>7, <2>2 DEF Word, NULL
  <2>3. CASE a = tags[t].right /\ a # n
    <3>1. \A w \in Word : [w EXCEPT !.left = n] \in Word
      BY DEF Word
    <3> QED
      BY <1>1, <1>2, <1>5, <2>3, <3>1
  <2>4. CASE a # t /\ a # n /\ a # tags[t].right
    BY <1>1, <1>2, <1>6, <2>4
  <2> QED
    BY <2>1, <2>2, <2>3, <2>4
<1>9. Typed(us)
  <2>1. DOMAIN us \subseteq Nat \ {0}
    BY <1>1, <1>2
  <2> QED
    BY <1>1, <1>8, <2>1 DEF Typed
<1>10. CutFields(t, n, us)
  <2> SUFFICES ASSUME NEW a \in DOMAIN us
               PROVE  /\ us[a].size = IF a = n THEN 0 ELSE tags[a].size
                      /\ us[a].real_size = IF a = n THEN End(tags, t) - n
                                           ELSE IF a = t THEN n - t ELSE tags[a].real_size
                      /\ us[a].left = IF a = n THEN t
                                      ELSE IF a = tags[t].right THEN n ELSE tags[a].left
                      /\ us[a].right = IF a = n THEN tags[t].right
                                       ELSE IF a = t THEN n ELSE tags[a].right
                      /\ us[a].index = IF a = n THEN -1 ELSE tags[a].index
                      /\ us[a].next = IF a = n THEN NULL ELSE tags[a].next
                      /\ us[a].prev = IF a = n THEN NULL ELSE tags[a].prev
    BY <1>1 DEF CutFields
  <2>1. CASE a = n
    BY <1>4, <1>7, <2>1
  <2>2. CASE a = t
    <3>1. tags[t] \in Word
      BY <1>2
    <3> QED
      BY <1>1, <1>3, <2>2, <3>1 DEF Word, first
  <2>3. CASE a # n /\ a # t
    <3>1. a \in DOMAIN tags /\ tags[a] \in Word
      BY <1>1, <1>2, <2>3
    <3> QED
      BY <1>5, <1>6, <2>3, <3>1 DEF Word
  <2> QED
    BY <2>1, <2>2, <2>3
<1> QED
  BY <1>9, <1>10 DEF us

\* Splitting a tag keeps the chunk covered.
LEMMA CuttingTiles ==
  ASSUME Typed(tags), NEW top \in Nat, Tiled(tags, top), NEW t \in DOMAIN tags,
         NEW n \in Nat, t < n, n < End(tags, t)
  PROVE  /\ n \notin DOMAIN tags
         /\ Tiled(Cut(t, n), top) /\ Typed(Cut(t, n)) /\ CutFields(t, n, Cut(t, n))
<1> DEFINE us == Cut(t, n)
<1>1. \A a \in DOMAIN tags : /\ a \in Nat \ {0} /\ tags[a].real_size \in Nat \ {0}
                             /\ tags[a].left \in Nat /\ tags[a].right \in Nat
  BY DEF Typed, Word
<1>2. n \notin DOMAIN tags
  BY DEF Tiled
<1>3. tags[t].right # NULL => /\ tags[t].right \in DOMAIN tags /\ tags[t].right = End(tags, t)
                              /\ tags[tags[t].right].left = t
  BY DEF Tiled
<1>4. tags[t].right # t /\ tags[t].right # n
  BY <1>1, <1>2, <1>3 DEF NULL, End
<1>5. Typed(us) /\ CutFields(t, n, us)
  BY <1>2, <1>4, CutFieldsHold
<1> HIDE DEF us
<1>6. End(tags, t) \in Nat /\ n # NULL /\ t # NULL /\ n # t
  BY <1>1 DEF End, NULL
<1>7. ASSUME NEW a \in DOMAIN us
      PROVE  /\ IF us[a].right = NULL
                  THEN End(us, a) % PageSize = 0 /\ End(us, a) <= top
                  ELSE /\ us[a].right \in DOMAIN us /\ us[a].right = End(us, a)
                       /\ us[End(us, a)].left = a
             /\ IF us[a].left = NULL
                  THEN a % PageSize = 0
                  ELSE us[a].left \in DOMAIN us /\ us[us[a].left].right = a
             /\ a < top
             /\ \A b \in DOMAIN us : ~(a < b /\ b < End(us, a))
  <2>1. DOMAIN us = DOMAIN tags \cup {n}
    BY <1>5 DEF CutFields
  <2>2. End(us, a) = IF a = t THEN n ELSE IF a = n THEN End(tags, t) ELSE End(tags, a)
    BY <1>1, <1>5, <1>6, <2>1 DEF CutFields, End
  <2>3. IF us[a].right = NULL
          THEN End(us, a) % PageSize = 0 /\ End(us, a) <= top
          ELSE us[a].right \in DOMAIN us /\ us[a].right = End(us, a) /\ us[End(us, a)].left = a
    <3>1. CASE a = t
      <4>1. us[a].right = n /\ us[n].left = t
        BY <1>5, <1>6, <2>1, <3>1 DEF CutFields
      <4> QED
        BY <1>6, <2>1, <2>2, <3>1, <4>1
    <3>2. CASE a = n
      <4>1. us[a].right = tags[t].right
        BY <1>5, <3>2 DEF CutFields
      <4>2. tags[t].right # NULL => us[tags[t].right].left = n
        BY <1>3, <1>4, <1>5, <2>1 DEF CutFields
      <4>3. tags[t].right = NULL => End(tags, t) % PageSize = 0 /\ End(tags, t) <= top
        BY DEF Tiled
      <4> QED
        BY <1>3, <1>6, <2>1, <2>2, <3>2, <4>1, <4>2, <4>3
    <3>3. CASE a # t /\ a # n
      <4>1. us[a].right = tags[a].right /\ a \in DOMAIN tags
        BY <1>5, <2>1, <3>3 DEF CutFields
      <4>2. tags[a].right # NULL => /\ tags[a].right \in DOMAIN tags
                                    /\ tags[a].right = End(tags, a)
                                    /\ tags[tags[a].right].left = a
        BY <4>1 DEF Tiled
      <4>3. tags[a].right = NULL => End(tags, a) % PageSize = 0 /\ End(tags, a) <= top
        BY <4>1 DEF Tiled
      <4>4. tags[a].right # NULL => tags[a].right # n /\ tags[a].right # tags[t].right
        BY <1>2, <1>3, <3>3, <4>2
      <4>5. tags[a].right # NULL => us[tags[a].right].left = a
        BY <1>5, <2>1, <4>2, <4>4 DEF CutFields
      <4> QED
        BY <2>1, <2>2, <3>3, <4>1, <4>2, <4>3, <4>5
    <3> QED
      BY <3>1, <3>2, <3>3
  <2>4. IF us[a].left = NULL
          THEN a % PageSize = 0
          ELSE us[a].left \in DOMAIN us /\ us[us[a].left].right = a
    <3>1. CASE a = n
      BY <1>5, <1>6, <2>1, <3>1 DEF CutFields
    <3>2. CASE a # n /\ a = tags[t].right
      BY <1>5, <1>6, <2>1, <3>2 DEF CutFields
    <3>3. CASE a # n /\ a # tags[t].right
      <4>1. us[a].left = tags[a].left /\ a \in DOMAIN tags
        BY <1>5, <2>1, <3>3 DEF CutFields
      <4>2. IF tags[a].left = NULL THEN a % PageSize = 0
            ELSE tags[a].left \in DOMAIN tags /\ tags[tags[a].left].right = a
        BY <4>1 DEF Tiled
      <4>3. tags[a].left # NULL => tags[a].left # n /\ tags[a].left # t
        BY <1>2, <3>3, <4>2
      <4>4. tags[a].left # NULL => us[tags[a].left].right = a
        BY <1>5, <2>1, <4>2, <4>3 DEF CutFields
      <4> QED
        BY <2>1, <4>1, <4>2, <4>4
    <3> QED
      BY <3>1, <3>2, <3>3
  <2>5. a < top
    <3>1. CASE a # n
      BY <2>1, <3>1 DEF Tiled
    <3>2. CASE a = n
      <4>1. tags[t].right # NULL => End(tags, t) < top
        BY <1>3 DEF Tiled
      <4>2. tags[t].right = NULL => End(tags, t) <= top
        BY DEF Tiled
      <4> QED
        BY <1>6, <3>2, <4>1, <4>2
    <3> QED
      BY <3>1, <3>2
  <2>6. ASSUME NEW b \in DOMAIN us, a < b, b < End(us, a) PROVE FALSE
    <3>1. a \in Nat /\ b \in Nat /\ (a # n => a \in DOMAIN tags) /\ (b # n => b \in DOMAIN tags)
      BY <1>1, <2>1, <2>6
    <3>2. b # n => ~(t < b /\ b < End(tags, t)) /\ (a # n => ~(a < b /\ b < End(tags, a)))
      BY <3>1 DEF Tiled
    <3>3. b = n /\ a # n /\ a # t
      <4>1. CASE a = n
        BY <1>1, <1>6, <2>2, <2>6, <3>1, <3>2, <4>1
      <4>2. CASE a = t
        BY <1>6, <2>2, <2>6, <3>1, <3>2, <4>2
      <4>3. CASE a # n /\ a # t
        BY <2>2, <2>6, <3>2, <4>3
      <4> QED
        BY <4>1, <4>2, <4>3
    <3>4. ~(a < t /\ t < End(tags, a)) /\ ~(t < a /\ a < End(tags, t))
      BY <3>1, <3>3 DEF Tiled
    <3>5. End(tags, a) \in Nat /\ t \in Nat
      BY <1>1, <3>1, <3>3 DEF End
    <3> QED
      BY <1>6, <2>2, <2>6, <3>1, <3>3, <3>4, <3>5
  <2> QED
    BY <2>3, <2>4, <2>5, <2>6
<1>8. Tiled(us, top)
  BY <1>7 DEF Tiled
<1> QED
  BY <1>2, <1>5, <1>8 DEF us

-------------------------------------------------------------------------------
(* What every operation on the tags keeps *)

Sound(ts, heads, top) ==
  /\ Typed(ts) /\ heads \in [Exps -> Nat]
  /\ Tiled(ts, top) /\ Lists(ts, heads) /\ Ranked(ts) /\ FreeBut(ts, NULL)

\* The whole chunks on list e.
WholeOn(ts, e) == {a \in DOMAIN ts : ts[a].index = e /\ ts[a].left = NULL /\ ts[a].right = NULL}

\* The fields of sound tags, and what is known of neighbours.
LEMMA SoundFacts ==
  ASSUME NEW ts, NEW heads, NEW top, Sound(ts, heads, top)
  PROVE  \A a \in DOMAIN ts :
           /\ a \in Nat \ {0} /\ a # NULL
           /\ ts[a].size \in Nat /\ ts[a].real_size \in Nat \ {0}
           /\ ts[a].left \in Nat /\ ts[a].right \in Nat
           /\ ts[a].next \in Nat /\ ts[a].prev \in Nat
           /\ ts[a].index \in Exps \cup {-1}
           /\ ts[a].right # NULL => /\ ts[a].right \in DOMAIN ts /\ ts[ts[a].right].left = a
                                    /\ ts[a].right = End(ts, a) /\ ts[a].right # a
           /\ ts[a].left # NULL => /\ ts[a].left \in DOMAIN ts /\ ts[ts[a].left].right = a
                                   /\ ts[a].left # a
           /\ ts[a].index # -1 => /\ IsIndex(ts[a].index, ts[a].real_size - TagSize)
                                  /\ ts[a].right # NULL => ts[ts[a].right].index = -1
                                  /\ ts[a].left # NULL => ts[ts[a].left].index = -1
<1> SUFFICES ASSUME NEW a \in DOMAIN ts
             PROVE  /\ a \in Nat \ {0} /\ a # NULL
                    /\ ts[a].size \in Nat /\ ts[a].real_size \in Nat \ {0}
                    /\ ts[a].left \in Nat /\ ts[a].right \in Nat
                    /\ ts[a].next \in Nat /\ ts[a].prev \in Nat
                    /\ ts[a].index \in Exps \cup {-1}
                    /\ ts[a].right # NULL =>
                         /\ ts[a].right \in DOMAIN ts /\ ts[ts[a].right].left = a
                         /\ ts[a].right = End(ts, a) /\ ts[a].right # a
                    /\ ts[a].left # NULL => /\ ts[a].left \in DOMAIN ts
                                            /\ ts[ts[a].left].right = a /\ ts[a].left # a
                    /\ ts[a].index # -1 =>
                         /\ IsIndex(ts[a].index, ts[a].real_size - TagSize)
                         /\ ts[a].right # NULL => ts[ts[a].right].index = -1
                         /\ ts[a].left # NULL => ts[ts[a].left].index = -1
  OBVIOUS
<1>1. \A b \in DOMAIN ts : /\ b \in Nat \ {0} /\ b # NULL
                           /\ ts[b].size \in Nat /\ ts[b].real_size \in Nat \ {0}
                           /\ ts[b].left \in Nat /\ ts[b].right \in Nat
                           /\ ts[b].next \in Nat /\ ts[b].prev \in Nat
                           /\ ts[b].index \in Exps \cup {-1}
  BY DEF Sound, Typed, Word, NULL
<1>2. \A b \in DOMAIN ts : ts[b].right # NULL =>
        /\ ts[b].right \in DOMAIN ts /\ ts[ts[b].right].left = b
        /\ ts[b].right = End(ts, b)
  BY DEF Sound, Tiled
<1>3. \A b \in DOMAIN ts : ts[b].right # NULL => ts[b].right # b
  BY <1>1, <1>2 DEF End
<1>4. \A b \in DOMAIN ts : ts[b].left # NULL =>
        ts[b].left \in DOMAIN ts /\ ts[ts[b].left].right = b
  BY DEF Sound, Tiled
<1>5. \A b \in DOMAIN ts : ts[b].index # -1 =>
        /\ IsIndex(ts[b].index, ts[b].real_size - TagSize)
        /\ ts[b].right # NULL => ts[ts[b].right].index = -1
  BY <1>1 DEF Sound, FreeBut
<1>6. ts[a].left # NULL => ts[a].left # a
  BY <1>1, <1>3, <1>4
<1>7. ts[a].left # NULL /\ ts[a].index # -1 => ts[ts[a].left].index = -1
  BY <1>1, <1>4, <1>5
<1> QED
  BY <1>1, <1>2, <1>3, <1>4, <1>5, <1>6, <1>7

\* remove_tag: the tag is in use afterwards, everything else as it was.
LEMMA UnlinkingSound ==
  ASSUME NEW ts, NEW heads, NEW top, Sound(ts, heads, top),
         NEW t \in DOMAIN ts, ts[t].index # -1
  PROVE  /\ Sound(Unlinked(ts, t), HeadsWithoutIn(ts, heads, t), top)
         /\ UnlinkFields(ts, t, Unlinked(ts, t))
<1> DEFINE us == Unlinked(ts, t)
<1>1. /\ Typed(us) /\ UnlinkFields(ts, t, us)
      /\ Lists(us, HeadsWithoutIn(ts, heads, t)) /\ Ranked(us)
      /\ HeadsWithoutIn(ts, heads, t) \in [Exps -> Nat]
  BY Unlinking DEF Sound
<1> HIDE DEF us
<1>2. Tiled(us, top)
  BY <1>1, SameTiles DEF Sound, UnlinkFields
<1>3. FreeBut(us, NULL)
  <2> SUFFICES ASSUME NEW a \in DOMAIN us, us[a].index # -1
               PROVE  /\ IsIndex(us[a].index, us[a].real_size - TagSize)
                      /\ us[a].right # NULL => us[us[a].right].index = -1
    BY DEF FreeBut
  <2>1. a \in DOMAIN ts /\ a # t /\ us[a].index = ts[a].index
        /\ us[a].real_size = ts[a].real_size /\ us[a].right = ts[a].right
    BY <1>1 DEF UnlinkFields
  <2>2. /\ IsIndex(ts[a].index, ts[a].real_size - TagSize)
        /\ ts[a].right # NULL => ts[a].right \in DOMAIN ts /\ ts[ts[a].right].index = -1
    BY <2>1, SoundFacts
  <2> QED
    BY <1>1, <2>1, <2>2 DEF UnlinkFields
<1> QED
  BY <1>1, <1>2, <1>3 DEF Sound, us

\* insert_tag, for a tag whose neighbours are in use.
LEMMA LinkingSound ==
  ASSUME NEW ts, NEW heads, NEW top, Sound(ts, heads, top),
         NEW t \in DOMAIN ts, ts[t].index = -1, NEW e \in Exps,
         IsIndex(e, ts[t].real_size - TagSize),
         ts[t].right # NULL => ts[ts[t].right].index = -1,
         ts[t].left # NULL => ts[ts[t].left].index = -1
  PROVE  /\ Sound(LinkedIn(ts, heads, t, e), [heads EXCEPT ![e] = t], top)
         /\ LinkFields(ts, heads, t, e, LinkedIn(ts, heads, t, e))
<1> DEFINE us == LinkedIn(ts, heads, t, e)
           new == [heads EXCEPT ![e] = t]
<1>1. /\ Typed(us) /\ LinkFields(ts, heads, t, e, us)
      /\ Lists(us, new) /\ Ranked(us) /\ new \in [Exps -> Nat]
  BY Linking DEF Sound
<1> HIDE DEF us, new
<1>2. Tiled(us, top)
  BY <1>1, SameTiles DEF Sound, LinkFields
<1>3. FreeBut(us, NULL)
  <2> SUFFICES ASSUME NEW a \in DOMAIN us, us[a].index # -1
               PROVE  /\ IsIndex(us[a].index, us[a].real_size - TagSize)
                      /\ us[a].right # NULL => us[us[a].right].index = -1
    BY DEF FreeBut
  <2>1. a \in DOMAIN ts /\ us[a].index = (IF a = t THEN e ELSE ts[a].index)
        /\ us[a].real_size = ts[a].real_size /\ us[a].right = ts[a].right
    BY <1>1 DEF LinkFields
  <2>2. CASE a = t
    <3>1. ts[t].right # NULL => ts[t].right \in DOMAIN ts /\ ts[t].right # t
      BY SoundFacts
    <3> QED
      BY <1>1, <2>1, <2>2, <3>1 DEF LinkFields
  <2>3. CASE a # t
    <3>1. /\ IsIndex(ts[a].index, ts[a].real_size - TagSize)
          /\ ts[a].right # NULL => /\ ts[a].right \in DOMAIN ts /\ ts[ts[a].right].index = -1
                                   /\ ts[ts[a].right].left = a /\ a # NULL
      BY <2>1, <2>3, SoundFacts
    <3>2. ts[a].right # NULL => ts[a].right # t
      BY <2>1, <2>3, <3>1
    <3> QED
      BY <1>1, <2>1, <2>3, <3>1, <3>2 DEF LinkFields
  <2> QED
    BY <2>2, <2>3
<1> QED
  BY <1>1, <1>2, <1>3 DEF Sound, us, new

Resized(ts, t, n) == [ts EXCEPT ![t].size = n]

\* malloc notes the size asked for in the tag it found.
LEMMA ResizingSound ==
  ASSUME NEW ts, NEW heads, NEW top, Sound(ts, heads, top), NEW t \in DOMAIN ts, NEW n \in Nat
  PROVE  LET us == Resized(ts, t, n)
         IN  /\ Sound(us, heads, top) /\ DOMAIN us = DOMAIN ts
             /\ \A a \in DOMAIN ts :
                  /\ us[a].size = IF a = t THEN n ELSE ts[a].size
                  /\ us[a].real_size = ts[a].real_size /\ us[a].index = ts[a].index
                  /\ us[a].left = ts[a].left /\ us[a].right = ts[a].right
                  /\ us[a].next = ts[a].next /\ us[a].prev = ts[a].prev
<1> DEFINE us == Resized(ts, t, n)
<1>0. \A a \in DOMAIN ts : ts[a] \in Word /\ a \in Nat \ {0}
  BY DEF Sound, Typed
<1>1. /\ DOMAIN us = DOMAIN ts /\ us = [a \in DOMAIN us |-> us[a]]
      /\ us[t] = [ts[t] EXCEPT !.size = n]
      /\ \A a \in DOMAIN ts : a # t => us[a] = ts[a]
  <2>1. ts = [a \in DOMAIN ts |-> ts[a]]
    BY DEF Sound, Typed
  <2> QED
    BY <2>1 DEF Resized
<1> HIDE DEF us
<1>2. \A a \in DOMAIN ts :
         /\ us[a].size = IF a = t THEN n ELSE ts[a].size
         /\ us[a].real_size = ts[a].real_size /\ us[a].index = ts[a].index
         /\ us[a].left = ts[a].left /\ us[a].right = ts[a].right
         /\ us[a].next = ts[a].next /\ us[a].prev = ts[a].prev
  <2> TAKE a \in DOMAIN ts
  <2>1. ts[a] \in Word
    BY <1>0
  <2>2. CASE a = t
    BY <1>1, <2>1, <2>2 DEF Word
  <2>3. CASE a # t
    BY <1>1, <2>3
  <2> QED
    BY <2>2, <2>3
<1>3. Typed(us)
  <2>1. \A w \in Word : [w EXCEPT !.size = n] \in Word
    BY DEF Word
  <2>2. us[t] \in Word
    BY <1>0, <1>1, <2>1
  <2>3. \A a \in DOMAIN us : us[a] \in Word
    BY <1>0, <1>1, <2>2
  <2> QED
    BY <1>0, <1>1, <2>3 DEF Typed
<1>4. Tiled(us, top)
  BY <1>1, <1>2, SameTiles DEF Sound
<1>5. Lists(us, heads)
  <2>1. Lists(ts, heads)
    BY DEF Sound
  <2> QED
    BY <1>1, <1>2, <2>1 DEF Lists
<1>6. Ranked(us)
  <2>1. PICK rank \in [Nat -> Nat], k \in Nat : Ranks(ts, rank, k)
    BY DEF Sound, Ranked
  <2>2. Ranks(us, rank, k)
    BY <1>1, <1>2, <2>1 DEF Ranks
  <2> QED
    BY <2>2 DEF Ranked
<1>7. FreeBut(us, NULL)
  <2> SUFFICES ASSUME NEW a \in DOMAIN us, us[a].index # -1
               PROVE  /\ IsIndex(us[a].index, us[a].real_size - TagSize)
                      /\ us[a].right # NULL => us[us[a].right].index = -1
    BY DEF FreeBut
  <2>1. /\ IsIndex(ts[a].index, ts[a].real_size - TagSize)
        /\ ts[a].right # NULL => ts[a].right \in DOMAIN ts /\ ts[ts[a].right].index = -1
    BY <1>1, <1>2, SoundFacts
  <2> QED
    BY <1>1, <1>2, <2>1
<1> QED
  BY <1>1, <1>2, <1>3, <1>4, <1>5, <1>6, <1>7 DEF Sound, us

\* The tags outside S are as they were, but for links that hold no chunk together.
SameBut(ts, us, S) ==
  \A a \in DOMAIN us \ S :
    /\ a \in DOMAIN ts
    /\ us[a].size = ts[a].size /\ us[a].real_size = ts[a].real_size
    /\ us[a].index = ts[a].index
    /\ us[a].left = NULL <=> ts[a].left = NULL
    /\ us[a].right = NULL <=> ts[a].right = NULL

\* One round of "MELT LEFT".
LEMMA MeltingLeft ==
  ASSUME NEW ts, NEW heads, NEW top, Sound(ts, heads, top),
         NEW t \in DOMAIN ts, ts[t].index = -1,
         NEW l, l = ts[t].left, l # NULL, ts[l].index # -1
  PROVE  LET us == Unlinked(Merged(ts, l, t), l)
         IN  /\ Sound(us, HeadsWithoutIn(ts, heads, l), top)
             /\ DOMAIN us = DOMAIN ts \ {t} /\ us[l].index = -1
             /\ SameBut(ts, us, {l})
<1> DEFINE ms == Merged(ts, l, t)
           us == Unlinked(ms, l)
<1>1. l \in DOMAIN ts /\ ts[l].right = t /\ l # t
  BY SoundFacts
<1>2. Typed(ms) /\ Tiled(ms, top) /\ MergeFields(ts, l, t, ms)
  BY <1>1, MergingTiles DEF Sound
<1> HIDE DEF ms
<1>3. Lists(ms, heads) /\ Ranked(ms)
  BY <1>2, MergingLists DEF Sound
<1>4. l \in DOMAIN ms /\ ms[l].index = ts[l].index /\ ms[l].next = ts[l].next
  BY <1>1, <1>2 DEF MergeFields
<1>5. HeadsWithoutIn(ms, heads, l) = HeadsWithoutIn(ts, heads, l)
  BY <1>4 DEF HeadsWithoutIn
<1>6. /\ Typed(us) /\ UnlinkFields(ms, l, us)
      /\ Lists(us, HeadsWithoutIn(ts, heads, l)) /\ Ranked(us)
      /\ HeadsWithoutIn(ts, heads, l) \in [Exps -> Nat]
  <2>1. heads \in [Exps -> Nat]
    BY DEF Sound
  <2> QED
    BY <1>2, <1>3, <1>4, <1>5, <2>1, Unlinking
<1> HIDE DEF us
<1>7. Tiled(us, top)
  BY <1>2, <1>6, SameTiles DEF UnlinkFields
<1>8. /\ DOMAIN us = DOMAIN ts \ {t} /\ us[l].index = -1 /\ us[l].right = ts[t].right
      /\ \A a \in DOMAIN us \ {l} :
           /\ us[a].size = ts[a].size /\ us[a].real_size = ts[a].real_size
           /\ us[a].index = ts[a].index /\ us[a].right = ts[a].right
           /\ us[a].left = IF a = ts[t].right THEN l ELSE ts[a].left
  BY <1>1, <1>2, <1>4, <1>6 DEF MergeFields, UnlinkFields
<1>9. FreeBut(us, NULL)
  <2> SUFFICES ASSUME NEW a \in DOMAIN us, us[a].index # -1
               PROVE  /\ IsIndex(us[a].index, us[a].real_size - TagSize)
                      /\ us[a].right # NULL => us[us[a].right].index = -1
    BY DEF FreeBut
  <2>1. a \in DOMAIN ts /\ a # l /\ us[a].index = ts[a].index
        /\ us[a].real_size = ts[a].real_size /\ us[a].right = ts[a].right
    BY <1>8
  <2>2. /\ IsIndex(ts[a].index, ts[a].real_size - TagSize)
        /\ ts[a].right # NULL => /\ ts[a].right \in DOMAIN ts /\ ts[ts[a].right].index = -1
                                 /\ ts[ts[a].right].left = a
    BY <2>1, SoundFacts
  <2>3. ts[a].right # NULL => ts[a].right # t
    BY <2>1, <2>2
  <2> QED
    BY <1>8, <2>1, <2>2, <2>3
<1>10. SameBut(ts, us, {l})
  <2>1. ts[t].right # NULL => ts[ts[t].right].left = t /\ t # NULL
    BY SoundFacts
  <2>2. NULL \notin DOMAIN us
    BY <1>8, SoundFacts
  <2> QED
    BY <1>8, <2>1, <2>2 DEF SameBut
<1> QED
  BY <1>6, <1>7, <1>8, <1>9, <1>10 DEF Sound, us, ms

\* One round of "MELT RIGHT".
LEMMA MeltingRight ==
  ASSUME NEW ts, NEW heads, NEW top, Sound(ts, heads, top),
         NEW t \in DOMAIN ts, ts[t].index = -1,
         NEW r, r = ts[t].right, r # NULL, ts[r].index # -1
  PROVE  LET us == Merged(Unlinked(ts, r), t, r)
         IN  /\ Sound(us, HeadsWithoutIn(ts, heads, r), top)
             /\ DOMAIN us = DOMAIN ts \ {r} /\ us[t].index = -1
             /\ SameBut(ts, us, {t})
<1> DEFINE ms == Unlinked(ts, r)
           us == Merged(ms, t, r)
           new == HeadsWithoutIn(ts, heads, r)
<1>1. r \in DOMAIN ts /\ ts[r].left = t /\ r # t
  BY SoundFacts
<1>2. Sound(ms, new, top) /\ UnlinkFields(ts, r, ms)
  BY <1>1, UnlinkingSound
<1> HIDE DEF ms, new
<1>3. /\ DOMAIN ms = DOMAIN ts /\ ms[r].index = -1 /\ ms[t].index = -1
      /\ ms[t].right = r
  BY <1>1, <1>2 DEF UnlinkFields
<1>4. Typed(us) /\ Tiled(us, top) /\ MergeFields(ms, t, r, us)
  BY <1>1, <1>2, <1>3, MergingTiles DEF Sound
<1> HIDE DEF us
<1>5. Lists(us, new) /\ Ranked(us)
  BY <1>1, <1>2, <1>3, <1>4, MergingLists DEF Sound
<1>6. /\ DOMAIN us = DOMAIN ts \ {r} /\ us[t].index = -1
      /\ \A a \in DOMAIN us \ {t} :
           /\ us[a].size = ts[a].size /\ us[a].real_size = ts[a].real_size
           /\ us[a].index = ts[a].index /\ us[a].right = ts[a].right
           /\ us[a].left = IF a = ts[r].right THEN t ELSE ts[a].left
  BY <1>1, <1>2, <1>3, <1>4 DEF MergeFields, UnlinkFields
<1>7. FreeBut(us, NULL)
  <2> SUFFICES ASSUME NEW a \in DOMAIN us, us[a].index # -1
               PROVE  /\ IsIndex(us[a].index, us[a].real_size - TagSize)
                      /\ us[a].right # NULL => us[us[a].right].index = -1
    BY DEF FreeBut
  <2>1. a \in DOMAIN ts /\ a # t /\ us[a].index = ts[a].index
        /\ us[a].real_size = ts[a].real_size /\ us[a].right = ts[a].right
    BY <1>6
  <2>2. /\ IsIndex(ts[a].index, ts[a].real_size - TagSize)
        /\ ts[a].right # NULL => /\ ts[a].right \in DOMAIN ts /\ ts[ts[a].right].index = -1
                                 /\ ts[ts[a].right].left = a
    BY <2>1, SoundFacts
  <2>3. ts[a].right # NULL => ts[a].right # r
    BY <1>1, <2>1, <2>2
  <2> QED
    BY <1>6, <2>1, <2>2, <2>3
<1>8. SameBut(ts, us, {t})
  <2>1. (ts[r].right # NULL => ts[ts[r].right].left = r) /\ r # NULL /\ t # NULL
    BY <1>1, SoundFacts
  <2>2. NULL \notin DOMAIN us
    BY <1>6, SoundFacts
  <2> QED
    BY <1>6, <2>1, <2>2 DEF SameBut
<1>9. new \in [Exps -> Nat]
  BY <1>2 DEF Sound
<1> QED
  BY <1>4, <1>5, <1>6, <1>7, <1>8, <1>9 DEF Sound, us, ms, new

\* split_tag: the tag in use keeps its first part, the rest is a free tag.
LEMMA Splitting ==
  ASSUME NEW heads, NEW top \in Nat, Sound(tags, heads, top),
         NEW t \in DOMAIN tags, tags[t].index = -1,
         tags[t].right # NULL => tags[tags[t].right].index = -1,
         NEW n \in Nat, t < n, n < End(tags, t), NEW e \in Exps,
         IsIndex(e, Cut(t, n)[n].real_size - TagSize)
  PROVE  LET us == LinkedIn(Cut(t, n), heads, n, e)
         IN  /\ Sound(us, [heads EXCEPT ![e] = n], top)
             /\ n \notin DOMAIN tags /\ DOMAIN us = DOMAIN tags \cup {n}
             /\ us[t].index = -1 /\ us[t].size = tags[t].size /\ us[t].real_size = n - t
             /\ us[n].index = e /\ us[n].left # NULL
             /\ SameBut(tags, us, {t, n})
<1> DEFINE cs == Cut(t, n)
           us == LinkedIn(cs, heads, n, e)
<1>1. n \notin DOMAIN tags /\ Tiled(cs, top) /\ Typed(cs) /\ CutFields(t, n, cs)
  BY CuttingTiles DEF Sound
<1>2. IsIndex(e, cs[n].real_size - TagSize)
  OBVIOUS
<1> HIDE DEF cs
<1>3. \A a \in DOMAIN tags : a # n /\ a # NULL
  BY <1>1, SoundFacts
<1>4. Lists(cs, heads)
  <2>1. Lists(tags, heads)
    BY DEF Sound
  <2>2. ASSUME NEW a \in DOMAIN cs
        PROVE  IF cs[a].index = -1
                 THEN cs[a].next = NULL /\ cs[a].prev = NULL
                 ELSE /\ cs[a].next # NULL =>
                           /\ cs[a].next \in DOMAIN cs /\ cs[cs[a].next].prev = a
                           /\ cs[cs[a].next].index = cs[a].index
                      /\ cs[a].prev # NULL => cs[a].prev \in DOMAIN cs /\ cs[cs[a].prev].next = a
                      /\ cs[a].prev = NULL <=> heads[cs[a].index] = a
    <3>1. CASE a = n
      BY <1>1, <3>1 DEF CutFields
    <3>2. CASE a # n
      <4>1. a \in DOMAIN tags
        BY <1>1, <2>2, <3>2 DEF CutFields
      <4>2. cs[a].index = tags[a].index /\ cs[a].next = tags[a].next /\ cs[a].prev = tags[a].prev
        BY <1>1, <3>2 DEF CutFields
      <4> QED
        BY <1>1, <1>3, <2>1, <4>1, <4>2 DEF Lists, CutFields
    <3> QED
      BY <3>1, <3>2
  <2>3. \A d \in Exps : heads[d] # NULL => heads[d] \in DOMAIN cs /\ cs[heads[d]].index = d
    BY <1>1, <1>3, <2>1 DEF Lists, CutFields
  <2> QED
    BY <2>2, <2>3 DEF Lists
<1>5. Ranked(cs)
  <2>1. PICK rank \in [Nat -> Nat], k \in Nat : Ranks(tags, rank, k)
    BY DEF Sound, Ranked
  <2> DEFINE above == [rank EXCEPT ![n] = 0]
  <2>2. above \in [Nat -> Nat] /\ k + 1 \in Nat
    OBVIOUS
  <2>3. ASSUME NEW a \in DOMAIN cs
        PROVE  above[a] < k + 1 /\ (cs[a].next # NULL => above[cs[a].next] < above[a])
    <3>1. CASE a = n
      BY <1>1, <3>1 DEF CutFields
    <3>2. CASE a # n
      <4>1. a \in DOMAIN tags /\ a \in Nat
        BY <1>1, <2>3, <3>2, SoundFacts DEF CutFields
      <4>2. cs[a].next = tags[a].next /\ above[a] = rank[a] /\ rank[a] \in Nat
        BY <1>1, <3>2, <4>1 DEF CutFields
      <4>3. rank[a] < k /\ (tags[a].next # NULL => rank[tags[a].next] < rank[a])
        BY <2>1, <4>1 DEF Ranks
      <4>4. tags[a].next # NULL => tags[a].next \in DOMAIN tags
        <5>1. Lists(tags, heads)
          BY DEF Sound
        <5> QED
          BY <4>1, <5>1 DEF Lists
      <4>5. tags[a].next # NULL => tags[a].next # n /\ tags[a].next \in Nat
        BY <1>3, <4>4, SoundFacts
      <4> QED
        BY <4>2, <4>3, <4>5
    <3> QED
      BY <3>1, <3>2
  <2> HIDE DEF above
  <2>4. Ranks(cs, above, k + 1)
    BY <2>3 DEF Ranks
  <2> QED
    BY <2>2, <2>4 DEF Ranked
<1>6. n \in DOMAIN cs /\ cs[n].index = -1 /\ heads \in [Exps -> Nat]
  BY <1>1 DEF CutFields, Sound
<1>7. /\ Typed(us) /\ LinkFields(cs, heads, n, e, us)
      /\ Lists(us, [heads EXCEPT ![e] = n]) /\ Ranked(us) /\ [heads EXCEPT ![e] = n] \in [Exps -> Nat]
  BY <1>1, <1>4, <1>5, <1>6, Linking
<1> HIDE DEF us
<1>8. Tiled(us, top)
  BY <1>1, <1>7, SameTiles DEF LinkFields
<1>9. tags[t].right # NULL => tags[t].right \in DOMAIN tags /\ tags[tags[t].right].left = t
  BY SoundFacts
<1>10. t # n /\ t # NULL
  BY <1>3
<1>11. /\ DOMAIN us = DOMAIN tags \cup {n}
       /\ us[n].index = e /\ us[n].left = t /\ us[n].right = tags[t].right
       /\ us[t].index = -1 /\ us[t].size = tags[t].size /\ us[t].real_size = n - t
       /\ us[t].right = n
       /\ \A a \in DOMAIN us \ {t, n} :
            /\ us[a].size = tags[a].size /\ us[a].real_size = tags[a].real_size
            /\ us[a].index = tags[a].index /\ us[a].right = tags[a].right
            /\ us[a].left = IF a = tags[t].right THEN n ELSE tags[a].left
  BY <1>1, <1>7, <1>10 DEF CutFields, LinkFields
<1>12. us[n].real_size = cs[n].real_size
  BY <1>6, <1>7 DEF LinkFields
<1>13. FreeBut(us, NULL)
  <2> SUFFICES ASSUME NEW a \in DOMAIN us, us[a].index # -1
               PROVE  /\ IsIndex(us[a].index, us[a].real_size - TagSize)
                      /\ us[a].right # NULL => us[us[a].right].index = -1
    BY DEF FreeBut
  <2>1. CASE a = n
    <3>1. tags[t].right # NULL => tags[t].right # t
      BY SoundFacts
    <3> QED
      BY <1>2, <1>3, <1>9, <1>11, <1>12, <2>1, <3>1
  <2>2. CASE a # n
    <3>1. a # t /\ a \in DOMAIN tags
      BY <1>11, <2>2
    <3>2. us[a].index = tags[a].index /\ us[a].real_size = tags[a].real_size
          /\ us[a].right = tags[a].right
      BY <1>11, <2>2, <3>1
    <3>3. /\ IsIndex(tags[a].index, tags[a].real_size - TagSize)
          /\ tags[a].right # NULL =>
               tags[a].right \in DOMAIN tags /\ tags[tags[a].right].index = -1
      BY <3>1, <3>2, SoundFacts
    <3> QED
      BY <1>3, <1>11, <3>2, <3>3
  <2> QED
    BY <2>1, <2>2
<1>14. SameBut(tags, us, {t, n})
  <2>1. n # NULL
    BY <1>7, <1>11 DEF Typed, NULL
  <2>2. NULL \notin DOMAIN us
    BY <1>3, <1>11, <2>1
  <2> QED
    BY <1>9, <1>10, <1>11, <2>1, <2>2 DEF SameBut
<1> QED
  BY <1>1, <1>7, <1>8, <1>10, <1>11, <1>13, <1>14 DEF Sound, us, cs

\* allocate_new_tag: the tag of a chunk that starts where the last one ends.
LEMMA Adding ==
  ASSUME NEW ts, NEW heads, NEW top \in Nat \ {0}, Sound(ts, heads, top), top % PageSize = 0,
         NEW n \in Nat, NEW len \in Nat \ {0}, (top + len) % PageSize = 0
  PROVE  LET us == [a \in DOMAIN ts \cup {top} |->
                      IF a = top
                        THEN [size |-> n, real_size |-> len, index |-> -1,
                              left |-> NULL, right |-> NULL, next |-> NULL, prev |-> NULL]
                        ELSE ts[a]]
         IN  /\ Sound(us, heads, top + len)
             /\ top \notin DOMAIN ts /\ DOMAIN us = DOMAIN ts \cup {top}
             /\ us[top].index = -1 /\ us[top].size = n /\ us[top].real_size = len
             /\ us[top].left = NULL /\ us[top].right = NULL
             /\ \A a \in DOMAIN ts : us[a] = ts[a]
<1> DEFINE new == [size |-> n, real_size |-> len, index |-> -1,
                   left |-> NULL, right |-> NULL, next |-> NULL, prev |-> NULL]
           us == [a \in DOMAIN ts \cup {top} |-> IF a = top THEN new ELSE ts[a]]
<1>1. \A a \in DOMAIN ts : a < top /\ a \in Nat \ {0} /\ a # NULL
  BY SoundFacts DEF Sound, Tiled
<1>2. top \notin DOMAIN ts
  BY <1>1
<1>3. /\ DOMAIN us = DOMAIN ts \cup {top} /\ us = [a \in DOMAIN us |-> us[a]]
      /\ us[top] = new
      /\ \A a \in DOMAIN ts : us[a] = ts[a]
  BY <1>2
<1> HIDE DEF us
<1>4. /\ us[top].index = -1 /\ us[top].size = n /\ us[top].real_size = len
      /\ us[top].left = NULL /\ us[top].right = NULL
      /\ us[top].next = NULL /\ us[top].prev = NULL
  BY <1>3
<1>5. Typed(us)
  <2>1. us[top] \in Word
    BY <1>3 DEF Word, NULL
  <2>2. \A a \in DOMAIN us : us[a] \in Word /\ a \in Nat \ {0}
    BY <1>1, <1>3, <2>1 DEF Sound, Typed
  <2> QED
    BY <1>3, <2>2 DEF Typed
<1>6. \A a \in DOMAIN ts : End(ts, a) \in Nat /\ End(ts, a) <= top
  <2> TAKE a \in DOMAIN ts
  <2>1. End(ts, a) \in Nat
    BY <1>1, SoundFacts DEF End
  <2>2. CASE ts[a].right = NULL
    BY <2>1, <2>2 DEF Sound, Tiled
  <2>3. CASE ts[a].right # NULL
    BY <1>1, <2>1, <2>3, SoundFacts
  <2> QED
    BY <2>2, <2>3
<1>7. Tiled(us, top + len)
  <2> SUFFICES ASSUME NEW a \in DOMAIN us
      PROVE  /\ IF us[a].right = NULL
                  THEN End(us, a) % PageSize = 0 /\ End(us, a) <= top + len
                  ELSE /\ us[a].right \in DOMAIN us /\ us[a].right = End(us, a)
                       /\ us[End(us, a)].left = a
             /\ IF us[a].left = NULL
                  THEN a % PageSize = 0
                  ELSE us[a].left \in DOMAIN us /\ us[us[a].left].right = a
             /\ a < top + len
             /\ \A b \in DOMAIN us : ~(a < b /\ b < End(us, a))
    BY DEF Tiled
  <2>1. CASE a = top
    <3>1. End(us, a) = top + len
      BY <1>4, <2>1 DEF End
    <3>2. \A b \in DOMAIN us : ~(a < b /\ b < End(us, a))
      BY <1>1, <1>3, <2>1
    <3> QED
      BY <1>4, <2>1, <3>1, <3>2
  <2>2. CASE a # top
    <3>1. a \in DOMAIN ts /\ us[a] = ts[a]
      BY <1>3, <2>2
    <3>2. End(us, a) = End(ts, a) /\ End(ts, a) <= top /\ End(ts, a) \in Nat
      BY <1>6, <3>1 DEF End
    <3>3. /\ IF ts[a].right = NULL
               THEN End(ts, a) % PageSize = 0 /\ End(ts, a) <= top
               ELSE /\ ts[a].right \in DOMAIN ts /\ ts[a].right = End(ts, a)
                    /\ ts[End(ts, a)].left = a
          /\ IF ts[a].left = NULL
               THEN a % PageSize = 0
               ELSE ts[a].left \in DOMAIN ts /\ ts[ts[a].left].right = a
          /\ \A b \in DOMAIN ts : ~(a < b /\ b < End(ts, a))
      BY <3>1 DEF Sound, Tiled
    <3>4. \A b \in DOMAIN us : ~(a < b /\ b < End(us, a))
      BY <1>1, <1>3, <3>2, <3>3
    <3> QED
      BY <1>1, <1>3, <3>1, <3>2, <3>3, <3>4
  <2> QED
    BY <2>1, <2>2
<1>8. Lists(us, heads)
  <2>1. Lists(ts, heads)
    BY DEF Sound
  <2>2. ASSUME NEW a \in DOMAIN us
        PROVE  IF us[a].index = -1
                 THEN us[a].next = NULL /\ us[a].prev = NULL
                 ELSE /\ us[a].next # NULL =>
                           /\ us[a].next \in DOMAIN us /\ us[us[a].next].prev = a
                           /\ us[us[a].next].index = us[a].index
                      /\ us[a].prev # NULL => us[a].prev \in DOMAIN us /\ us[us[a].prev].next = a
                      /\ us[a].prev = NULL <=> heads[us[a].index] = a
    BY <1>3, <1>4, <2>1, <2>2 DEF Lists
  <2>3. \A d \in Exps : heads[d] # NULL => heads[d] \in DOMAIN us /\ us[heads[d]].index = d
    BY <1>3, <2>1 DEF Lists
  <2> QED
    BY <2>2, <2>3 DEF Lists
<1>9. Ranked(us)
  <2>1. PICK rank \in [Nat -> Nat], k \in Nat : Ranks(ts, rank, k)
    BY DEF Sound, Ranked
  <2> DEFINE above == [rank EXCEPT ![top] = 0]
  <2>2. above \in [Nat -> Nat] /\ k + 1 \in Nat
    OBVIOUS
  <2>3. ASSUME NEW a \in DOMAIN us
        PROVE  above[a] < k + 1 /\ (us[a].next # NULL => above[us[a].next] < above[a])
    <3>1. CASE a = top
      BY <1>4, <3>1
    <3>2. CASE a # top
      <4>1. a \in DOMAIN ts /\ us[a] = ts[a] /\ above[a] = rank[a] /\ rank[a] \in Nat
        BY <1>1, <1>3, <2>3, <3>2
      <4>2. rank[a] < k /\ (ts[a].next # NULL => rank[ts[a].next] < rank[a])
        BY <2>1, <4>1 DEF Ranks
      <4>3. ts[a].next # NULL => ts[a].next \in DOMAIN ts
        <5>1. Lists(ts, heads)
          BY DEF Sound
        <5>2. ts[a].index # -1 \/ ts[a].next = NULL
          BY <4>1, <5>1 DEF Lists
        <5> QED
          BY <4>1, <5>1, <5>2 DEF Lists
      <4>4. ts[a].next # NULL => ts[a].next # top /\ ts[a].next \in Nat
        BY <1>1, <1>2, <4>3
      <4> QED
        BY <4>1, <4>2, <4>4
    <3> QED
      BY <3>1, <3>2
  <2> HIDE DEF above
  <2>4. Ranks(us, above, k + 1)
    BY <2>3 DEF Ranks
  <2> QED
    BY <2>2, <2>4 DEF Ranked
<1>10. FreeBut(us, NULL)
  <2> SUFFICES ASSUME NEW a \in DOMAIN us, us[a].index # -1
               PROVE  /\ IsIndex(us[a].index, us[a].real_size - TagSize)
                      /\ us[a].right # NULL => us[us[a].right].index = -1
    BY DEF FreeBut
  <2>1. a \in DOMAIN ts /\ us[a] = ts[a]
    BY <1>3, <1>4
  <2>2. /\ IsIndex(ts[a].index, ts[a].real_size - TagSize)
        /\ ts[a].right # NULL => ts[a].right \in DOMAIN ts /\ ts[ts[a].right].index = -1
    BY <2>1, SoundFacts
  <2> QED
    BY <1>3, <2>1, <2>2
<1> QED
  BY <1>2, <1>3, <1>4, <1>5, <1>7, <1>8, <1>9, <1>10 DEF Sound, us, new

\* free gives a whole chunk back: nothing links to its tag.
LEMMA Dropping ==
  ASSUME NEW ts, NEW heads, NEW top, Sound(ts, heads, top),
         NEW t \in DOMAIN ts, ts[t].index = -1, ts[t].left = NULL, ts[t].right = NULL
  PROVE  Sound([a \in DOMAIN ts \ {t} |-> ts[a]], heads, top)
<1> DEFINE us == [a \in DOMAIN ts \ {t} |-> ts[a]]
<1>1. /\ DOMAIN us = DOMAIN ts \ {t} /\ us = [a \in DOMAIN us |-> us[a]]
      /\ \A a \in DOMAIN us : us[a] = ts[a] /\ a \in DOMAIN ts
  OBVIOUS
<1> HIDE DEF us
<1>2. Typed(us)
  BY <1>1 DEF Sound, Typed
<1>3. \A a \in DOMAIN ts : ts[a].right # t \/ ts[a].right = NULL
  BY SoundFacts
<1>4. \A a \in DOMAIN ts : ts[a].left # t \/ ts[a].left = NULL
  BY SoundFacts
<1>5. Tiled(us, top)
  BY <1>1, <1>3, <1>4 DEF Sound, Tiled, End
<1>6. t # NULL /\ -1 \notin Exps
  BY HeapAssumption, SoundFacts DEF Exps
<1>7. /\ \A a \in DOMAIN ts : /\ ts[a].next # NULL => ts[a].next # t
                              /\ ts[a].prev # NULL => ts[a].prev # t
      /\ \A e \in Exps : heads[e] # t
  BY <1>6, SoundFacts DEF Sound, Lists
<1>8. Lists(us, heads)
  BY <1>1, <1>7 DEF Sound, Lists
<1>9. Ranked(us)
  <2>1. PICK rank \in [Nat -> Nat], k \in Nat : Ranks(ts, rank, k)
    BY DEF Sound, Ranked
  <2>2. Ranks(us, rank, k)
    BY <1>1, <2>1 DEF Ranks
  <2> QED
    BY <2>2 DEF Ranked
<1>10. FreeBut(us, NULL)
  <2> SUFFICES ASSUME NEW a \in DOMAIN us, us[a].index # -1
               PROVE  /\ IsIndex(us[a].index, us[a].real_size - TagSize)
                      /\ us[a].right # NULL => us[us[a].right].index = -1
    BY DEF FreeBut
  <2>1. /\ IsIndex(ts[a].index, ts[a].real_size - TagSize)
        /\ ts[a].right # NULL => ts[a].right \in DOMAIN ts /\ ts[ts[a].right].index = -1
    BY <1>1, SoundFacts
  <2> QED
    BY <1>1, <1>3, <2>1
<1> QED
  BY <1>2, <1>5, <1>8, <1>9, <1>10 DEF Sound, us

-------------------------------------------------------------------------------
(* The inductive invariant *)

Types ==
  /\ l_completePages \in [Exps -> Int]
  /\ brk \in Nat \ {0} /\ brk % PageSize = 0
  /\ held \in [Holders -> Nat]
  /\ call \in [at : {"idle", "search", "split", "melt"}, holder : Holders \cup {NULL},
               size : Nat, tag : Nat, old : Nat]

Counted ==
  \A e \in Exps : /\ l_completePages[e] <= MAXCOMPLETE
                  /\ l_completePages[e] = Cardinality(WholeOn(tags, e))

InUse(t) == t \in DOMAIN tags /\ tags[t].index = -1
Fits(t) == TagSize + tags[t].size <= tags[t].real_size

\* The running call has a tag that is nobody's and on no list.
Working == call.at \in {"split", "melt"}

\* The blocks the holders have.
Held ==
  \A h \in Holders : held[h] # NULL =>
    /\ InUse(held[h]) /\ Fits(held[h])
    /\ held[h] # call.old /\ (Working => held[h] # call.tag)
    /\ \A g \in Holders \ {h} : held[g] # held[h]

\* The local variables of the running call.
Running ==
  /\ call.old # NULL => InUse(call.old) /\ call.tag # call.old
  /\ call.at = "idle" => call = Idle
  /\ call.at \in {"search", "split"} => call.holder \in Holders /\ held[call.holder] = NULL
  /\ call.at = "search" /\ call.tag # NULL =>
       call.tag \in DOMAIN tags /\ tags[call.tag].index # -1
  /\ Working => InUse(call.tag)
  /\ call.at = "split" =>
       /\ tags[call.tag].size = call.size /\ Fits(call.tag)
       /\ tags[call.tag].right # NULL => tags[tags[call.tag].right].index = -1
  /\ call.at = "melt" => call.old = NULL

\* No tag in use is lost: a holder or the running call has it.
Owned ==
  \A a \in DOMAIN tags :
    \/ tags[a].index # -1
    \/ a = call.old \/ (Working /\ a = call.tag)
    \/ \E h \in Holders : held[h] = a

IInv == Sound(tags, l_freePages, brk) /\ Types /\ Counted /\ Held /\ Running /\ Owned

\* The functions of the model are those of the lemmas, and Free says in use or not.
LEMMA Same ==
  /\ \A t : HeadsWithout(t) = HeadsWithoutIn(tags, l_freePages, t)
  /\ \A ts, t, e : Linked(ts, t, e) = LinkedIn(ts, l_freePages, t, e)
BY DEF HeadsWithout, HeadsWithoutIn, Linked, LinkedIn

LEMMA FreeTags ==
  ASSUME Sound(tags, l_freePages, brk)
  PROVE  \A t \in DOMAIN tags \cup {NULL} : Free(t) <=> t # NULL /\ tags[t].index # -1
<1>1. \A e \in Exps : e >= 0
  BY HeapAssumption DEF Exps
<1>2. \A t \in DOMAIN tags : tags[t].index \in Exps \cup {-1}
  BY SoundFacts
<1> QED
  BY <1>1, <1>2 DEF Free

\* There are finitely many tags, so the whole chunks can be counted.
LEMMA FinitelyMany ==
  ASSUME NEW ts, NEW heads, NEW top \in Nat, Sound(ts, heads, top), NEW e
  PROVE  IsFiniteSet(WholeOn(ts, e))
<1>1. DOMAIN ts \subseteq 0 .. top
  BY DEF Sound, Typed, Tiled
<1>2. WholeOn(ts, e) \subseteq 0 .. top
  BY <1>1 DEF WholeOn
<1>3. IsFiniteSet(0 .. top)
  BY FS_Interval
<1> QED
  BY <1>2, <1>3, FS_Subset

\* Tags that are not whole, or in use, do not change the number of whole chunks.
LEMMA SameWhole ==
  ASSUME NEW ts, NEW us, NEW S, SameBut(ts, us, S), NEW e \in Exps,
         \A a \in DOMAIN us \cap S : us[a].index = -1 \/ us[a].left # NULL,
         \A a \in DOMAIN ts : a \notin DOMAIN us \/ a \in S =>
           ts[a].index = -1 \/ ts[a].left # NULL \/ ts[a].right # NULL
  PROVE  WholeOn(us, e) = WholeOn(ts, e)
<1>1. e # -1
  BY HeapAssumption DEF Exps
<1>2. ASSUME NEW a \in WholeOn(us, e) PROVE a \in WholeOn(ts, e)
  <2>1. a \in DOMAIN us /\ us[a].index = e /\ us[a].left = NULL /\ us[a].right = NULL
    BY DEF WholeOn
  <2> QED
    BY <1>1, <2>1 DEF WholeOn, SameBut
<1>3. ASSUME NEW a \in WholeOn(ts, e) PROVE a \in WholeOn(us, e)
  <2>1. a \in DOMAIN ts /\ ts[a].index = e /\ ts[a].left = NULL /\ ts[a].right = NULL
    BY DEF WholeOn
  <2> QED
    BY <1>1, <2>1 DEF WholeOn, SameBut
<1> QED
  BY <1>2, <1>3

\* A block stays private when its tag is outside S and the call does not take it.
LEMMA HeldKept ==
  ASSUME Held, NEW S, SameBut(tags, tags', S), held' = held,
         \A h \in Holders : held[h] # NULL =>
           /\ held[h] \in DOMAIN tags' \ S
           /\ held[h] # call'.old /\ (Working' => held[h] # call'.tag)
  PROVE  Held'
<1> SUFFICES ASSUME NEW h \in Holders, held[h] # NULL
             PROVE  /\ InUse(held[h])' /\ Fits(held[h])'
                    /\ held[h] # call'.old /\ (Working' => held[h] # call'.tag)
                    /\ \A g \in Holders \ {h} : held[g] # held[h]
  BY DEF Held
<1>1. /\ InUse(held[h]) /\ Fits(held[h])
      /\ \A g \in Holders \ {h} : held[g] # held[h]
  BY DEF Held
<1>2. /\ held[h] \in DOMAIN tags' /\ tags'[held[h]].index = tags[held[h]].index
      /\ tags'[held[h]].size = tags[held[h]].size
      /\ tags'[held[h]].real_size = tags[held[h]].real_size
  BY DEF SameBut
<1> QED
  BY <1>1, <1>2 DEF InUse, Fits

LEMMA Division ==
  ASSUME NEW n \in Nat, NEW d \in Nat \ {0}
  PROVE  n \div d \in Nat /\ n % d \in 0 .. d - 1 /\ n = d * (n \div d) + (n % d)
<1>1. n % d \in 0 .. d - 1
  OBVIOUS
<1>2. n = d * (n \div d) + (n % d)
  OBVIOUS
<1>3. n \div d \in Nat
  OBVIOUS
<1> QED
  BY <1>1, <1>2, <1>3

LEMMA Multiples ==
  ASSUME NEW d \in Nat \ {0}, NEW n \in Nat, n % d = 0, NEW k \in Nat
  PROVE  (n + k * d) % d = 0
<1> DEFINE m == n + k * d
           q == m \div d - (n \div d + k)
<1>1. n = d * (n \div d) /\ n \div d \in Nat
  BY Division
<1>2. m \in Nat /\ m = d * (n \div d) + d * k
  BY <1>1
<1>3. m \div d \in Nat /\ m % d \in 0 .. d - 1 /\ m = d * (m \div d) + (m % d)
  BY <1>2, Division
<1>4. q \in Int /\ d * q + (m % d) = 0
  BY <1>1, <1>2, <1>3
<1> HIDE DEF q
<1>5. q >= 1 => d * q >= d
  BY <1>4
<1>6. q <= -1 => d * q <= -d
  BY <1>4
<1>7. q = 0
  BY <1>3, <1>4, <1>5, <1>6
<1> QED
  BY <1>3, <1>4, <1>7

\* A new chunk is a number of whole pages and holds the block and its header.
LEMMA ChunkSize ==
  ASSUME NEW size \in Nat, NEW top \in Nat, top % PageSize = 0
  PROVE  /\ PagesFor(size) * PageSize \in Nat \ {0}
         /\ size + TagSize <= PagesFor(size) * PageSize
         /\ (top + PagesFor(size) * PageSize) % PageSize = 0
<1> DEFINE m == size + TagSize + PageSize - 1
           q == m \div PageSize
           k == PagesFor(size)
<1>1. PageSize \in Nat \ {0} /\ PageCount \in Nat \ {0} /\ TagSize \in Nat \ {0}
  BY HeapAssumption
<1>2. m \in Nat
  BY <1>1
<1>3. q \in Nat /\ m % PageSize \in 0 .. PageSize - 1 /\ m = PageSize * q + (m % PageSize)
  BY <1>1, <1>2, Division
<1>4. PageSize * q >= size + TagSize
  BY <1>1, <1>3
<1>5. k \in Nat \ {0} /\ k >= q
  BY <1>1, <1>3 DEF PagesFor
<1> HIDE DEF k, q
<1>6. k * PageSize \in Nat \ {0}
  BY <1>1, <1>5
<1>7. k * PageSize >= q * PageSize
  <2>1. (k - q) * PageSize >= 0
    BY <1>1, <1>3, <1>5
  <2> QED
    BY <1>1, <1>3, <1>5, <2>1
<1>8. (top + k * PageSize) % PageSize = 0
  BY <1>1, <1>5, Multiples
<1>9. size + TagSize <= k * PageSize
  BY <1>1, <1>3, <1>4, <1>6, <1>7
<1> QED
  BY <1>6, <1>8, <1>9 DEF k

-------------------------------------------------------------------------------
(* Each step of a call keeps it *)

LEMMA InitHolds == Init => IInv
<1> SUFFICES ASSUME Init PROVE IInv
  OBVIOUS
<1>1. DOMAIN tags = {} /\ tags = [a \in DOMAIN tags |-> tags[a]]
  BY DEF Init
<1>2. Sound(tags, l_freePages, brk)
  <2>1. l_freePages \in [Exps -> Nat] /\ \A e \in Exps : l_freePages[e] = NULL
    BY DEF Init, NULL
  <2>2. Ranked(tags)
    <3>1. [a \in Nat |-> 0] \in [Nat -> Nat]
      OBVIOUS
    <3>2. Ranks(tags, [a \in Nat |-> 0], 0)
      BY <1>1 DEF Ranks
    <3> QED
      BY <3>1, <3>2 DEF Ranked
  <2> QED
    BY <1>1, <2>1, <2>2 DEF Sound, Typed, Tiled, Lists, FreeBut
<1>3. Types
  <2>1. PageSize % PageSize = 0
    BY HeapAssumption
  <2> QED
    BY <2>1, HeapAssumption DEF Init, Types, Idle, NULL
<1>4. Counted
  <2>1. \A e \in Exps : WholeOn(tags, e) = {}
    BY <1>1 DEF WholeOn
  <2>2. \A e \in Exps : Cardinality(WholeOn(tags, e)) = 0
    BY <2>1, FS_EmptySet
  <2>3. \A e \in Exps : l_completePages[e] = 0
    BY DEF Init
  <2> QED
    BY <2>2, <2>3, HeapAssumption DEF Counted
<1>5. Held /\ Running /\ Owned
  BY <1>1 DEF Held, Running, Owned, Init, Idle, Working, NULL
<1> QED
  BY <1>2, <1>3, <1>4, <1>5 DEF IInv

\* A call begins: it has no tag but a free one, and the block to be resized.
LEMMA StartKeeps ==
  ASSUME IInv, NEW h \in Holders, NEW size \in Nat, call.at = "idle",
         Start(h, size, held[h]), held' = [held EXCEPT ![h] = NULL], UNCHANGED <<heap, brk>>
  PROVE  IInv'
<1> PICK e \in Exps : call' = [at |-> "search", holder |-> h, size |-> size,
                               tag |-> l_freePages[e], old |-> held[h]]
  BY DEF Start
<1>1. /\ call'.at = "search" /\ call'.holder = h /\ call'.size = size
      /\ call'.tag = l_freePages[e] /\ call'.old = held[h] /\ ~Working'
      /\ tags' = tags /\ l_freePages' = l_freePages /\ brk' = brk
      /\ l_completePages' = l_completePages
  BY DEF heap, Working
<1>2. call = Idle /\ call.old = NULL /\ ~Working
  BY DEF IInv, Running, Idle, Working
<1>3. held \in [Holders -> Nat] /\ l_freePages \in [Exps -> Nat]
  BY DEF IInv, Types, Sound
<1>4. held' \in [Holders -> Nat] /\ \A g \in Holders : held'[g] = IF g = h THEN NULL ELSE held[g]
  BY <1>3 DEF NULL
<1>5. l_freePages[e] # NULL => /\ l_freePages[e] \in DOMAIN tags
                               /\ tags[l_freePages[e]].index = e /\ e # -1
  BY HeapAssumption DEF IInv, Sound, Lists, Exps
<1>6. Types'
  BY <1>1, <1>3, <1>4 DEF IInv, Types
<1>7. Sound(tags, l_freePages, brk)' /\ Counted'
  BY <1>1 DEF IInv, Counted
<1>8. Held'
  <2> SUFFICES ASSUME NEW g \in Holders, held'[g] # NULL
               PROVE  /\ InUse(held[g])' /\ Fits(held[g])' /\ held'[g] # call'.old
                      /\ \A k \in Holders \ {g} : held'[k] # held'[g]
    BY <1>1 DEF Held
  <2>1. g # h /\ held'[g] = held[g]
    BY <1>4
  <2>2. InUse(held[g]) /\ Fits(held[g]) /\ \A k \in Holders \ {g} : held[k] # held[g]
    BY <2>1 DEF IInv, Held
  <2> QED
    BY <1>1, <1>4, <2>1, <2>2 DEF InUse, Fits
<1>9. Running'
  <2>1. held[h] # NULL => InUse(held[h])
    BY DEF IInv, Held
  <2>2. call'.old # NULL => InUse(call.old)' /\ l_freePages[e] # held[h]
    BY <1>1, <1>5, <2>1 DEF InUse
  <2> QED
    BY <1>1, <1>4, <1>5, <2>2 DEF Running
<1>10. Owned'
  <2> SUFFICES ASSUME NEW a \in DOMAIN tags, tags[a].index = -1, a # held[h]
               PROVE  \E g \in Holders : held'[g] = a
    BY <1>1 DEF Owned
  <2>1. a # NULL
    BY SoundFacts DEF IInv
  <2>2. PICK g \in Holders : held[g] = a
    BY <1>2, <2>1 DEF IInv, Owned
  <2> QED
    BY <1>4, <2>2
<1> QED
  BY <1>6, <1>7, <1>8, <1>9, <1>10 DEF IInv

LEMMA mallocKeeps ==
  ASSUME IInv, NEW h \in Holders, NEW size \in Sizes, malloc(h, size)
  PROVE  IInv'
<1>1. size \in Nat /\ held \in [Holders -> Nat] /\ held[h] = NULL
  BY HeapAssumption DEF malloc, IInv, Types
<1>2. held' = [held EXCEPT ![h] = NULL]
  BY <1>1 DEF malloc
<1> QED
  BY <1>1, <1>2, StartKeeps DEF malloc

LEMMA reallocKeeps ==
  ASSUME IInv, NEW h \in Holders, NEW size \in Sizes, realloc(h, size)
  PROVE  IInv'
BY HeapAssumption, StartKeeps DEF realloc

\* The search follows the list: the next tag is free too.
LEMMA SearchOnKeeps ==
  ASSUME IInv, SearchOn
  PROVE  IInv'
<1> DEFINE n == tags[call.tag].next
<1>1. /\ tags' = tags /\ l_freePages' = l_freePages /\ brk' = brk /\ held' = held
      /\ l_completePages' = l_completePages
      /\ call.at = "search" /\ call.tag # NULL /\ call' = [call EXCEPT !.tag = n]
  BY DEF SearchOn, heap
<1>2. call.tag \in DOMAIN tags /\ tags[call.tag].index # -1
  BY <1>1 DEF IInv, Running
<1>3. n \in Nat /\ (n # NULL => n \in DOMAIN tags /\ tags[n].index # -1)
  <2>1. n # NULL => n \in DOMAIN tags /\ tags[n].index = tags[call.tag].index
    BY <1>2 DEF IInv, Sound, Lists
  <2> QED
    BY <1>2, <2>1, SoundFacts DEF IInv
<1>4. /\ call'.at = "search" /\ call'.holder = call.holder /\ call'.size = call.size
      /\ call'.tag = n /\ call'.old = call.old /\ ~Working' /\ ~Working
      /\ call' \in [at : {"idle", "search", "split", "melt"}, holder : Holders \cup {NULL},
                    size : Nat, tag : Nat, old : Nat]
  BY <1>1, <1>3 DEF IInv, Types, Working
<1> HIDE DEF n
<1>5. Sound(tags, l_freePages, brk)' /\ Counted' /\ Types'
  BY <1>1, <1>4 DEF IInv, Counted, Types
<1>6. Held' /\ Owned'
  BY <1>1, <1>4 DEF IInv, Held, Owned, InUse, Fits
<1>7. Running'
  <2>1. call.old # NULL => InUse(call.old)
    BY DEF IInv, Running
  <2>2. call.old # NULL => InUse(call.old)' /\ n # call.old
    BY <1>1, <1>3, <2>1 DEF InUse
  <2> QED
    BY <1>1, <1>3, <1>4, <2>2 DEF IInv, Running
<1> QED
  BY <1>5, <1>6, <1>7 DEF IInv

\* The tag found leaves its list, and the count of whole chunks if it is one.
LEMMA FoundKeeps ==
  ASSUME IInv, Found
  PROVE  IInv'
<1> DEFINE t == call.tag
           us == Unlinked(tags, t)
           vs == Resized(us, t, call.size)
<1>1. /\ call.at = "search" /\ t # NULL /\ Enough(t, call.size)
      /\ l_freePages' = HeadsWithoutIn(tags, l_freePages, t) /\ tags' = vs
      /\ l_completePages' = IF Whole(t)
                              THEN [l_completePages EXCEPT ![tags[t].index] = @ - 1]
                              ELSE l_completePages
      /\ call' = [call EXCEPT !.at = "split"] /\ brk' = brk /\ held' = held
  BY Same DEF Found, Resized
<1>2. Sound(tags, l_freePages, brk) /\ t \in DOMAIN tags /\ tags[t].index # -1
  BY <1>1 DEF IInv, Running
<1>3. Sound(us, l_freePages', brk) /\ UnlinkFields(tags, t, us)
  BY <1>1, <1>2, UnlinkingSound
<1>4. call.size \in Nat /\ t \in DOMAIN us /\ DOMAIN us = DOMAIN tags
  BY <1>2, <1>3 DEF IInv, Types, UnlinkFields
<1> HIDE DEF us
<1>5. /\ Sound(vs, l_freePages', brk) /\ DOMAIN vs = DOMAIN us
      /\ \A a \in DOMAIN us :
           /\ vs[a].size = IF a = t THEN call.size ELSE us[a].size
           /\ vs[a].real_size = us[a].real_size /\ vs[a].index = us[a].index
           /\ vs[a].left = us[a].left /\ vs[a].right = us[a].right
           /\ vs[a].next = us[a].next /\ vs[a].prev = us[a].prev
  BY <1>3, <1>4, ResizingSound
<1> HIDE DEF vs, t
<1>6. /\ DOMAIN tags' = DOMAIN tags
      /\ \A a \in DOMAIN tags :
           /\ tags'[a].size = IF a = t THEN call.size ELSE tags[a].size
           /\ tags'[a].real_size = tags[a].real_size
           /\ tags'[a].index = IF a = t THEN -1 ELSE tags[a].index
           /\ tags'[a].left = tags[a].left /\ tags'[a].right = tags[a].right
  BY <1>1, <1>3, <1>4, <1>5 DEF UnlinkFields
<1>7. SameBut(tags, tags', {t})
  BY <1>6 DEF SameBut
<1>8. /\ call'.at = "split" /\ call'.tag = t /\ call'.size = call.size
      /\ call'.old = call.old /\ call'.holder = call.holder /\ Working' /\ ~Working
      /\ call' \in [at : {"idle", "search", "split", "melt"}, holder : Holders \cup {NULL},
                    size : Nat, tag : Nat, old : Nat]
  BY <1>1 DEF IInv, Types, Working, t
<1>9. tags[t].index \in Exps /\ -1 \notin Exps
  BY <1>2, SoundFacts, HeapAssumption DEF Exps
<1>10. Types'
  <2>1. l_completePages' \in [Exps -> Int]
    BY <1>1, <1>9 DEF IInv, Types
  <2> QED
    BY <1>1, <1>8, <2>1 DEF IInv, Types
<1>11. Counted'
  <2> SUFFICES ASSUME NEW e \in Exps
               PROVE  /\ l_completePages'[e] <= MAXCOMPLETE
                      /\ l_completePages'[e] = Cardinality(WholeOn(tags', e))
    BY DEF Counted
  <2>1. /\ l_completePages[e] <= MAXCOMPLETE /\ l_completePages[e] \in Int
        /\ l_completePages[e] = Cardinality(WholeOn(tags, e))
    BY DEF IInv, Counted, Types
  <2>2. WholeOn(tags', e) = WholeOn(tags, e) \ {t}
    BY <1>6, <1>9 DEF WholeOn
  <2>3. IsFiniteSet(WholeOn(tags, e))
    BY <1>2, FinitelyMany DEF IInv, Types
  <2>4. t \in WholeOn(tags, e) <=> Whole(t) /\ tags[t].index = e
    BY <1>2 DEF WholeOn, Whole
  <2>5. l_completePages'[e] = IF t \in WholeOn(tags, e) THEN l_completePages[e] - 1
                              ELSE l_completePages[e]
    BY <1>1, <1>9, <2>4 DEF IInv, Types
  <2>6. Cardinality(WholeOn(tags', e)) = IF t \in WholeOn(tags, e)
                                           THEN Cardinality(WholeOn(tags, e)) - 1
                                           ELSE Cardinality(WholeOn(tags, e))
    BY <2>2, <2>3, FS_RemoveElement
  <2> QED
    BY <2>1, <2>5, <2>6, HeapAssumption
<1>12. Held'
  <2>1. \A h \in Holders : held[h] # NULL =>
          held[h] \in DOMAIN tags /\ held[h] # t /\ held[h] # call.old
    BY <1>2 DEF IInv, Held, InUse
  <2>2. \A h \in Holders : held[h] # NULL =>
          held[h] \in DOMAIN tags' \ {t} /\ held[h] # call'.old /\ (Working' => held[h] # call'.tag)
    BY <1>6, <1>8, <2>1
  <2>3. Held
    BY DEF IInv
  <2> QED
    BY <1>1, <1>7, <2>2, <2>3, HeldKept
<1>13. Running'
  <2>1. call.old # NULL => InUse(call.old) /\ t # call.old
    BY DEF IInv, Running, t
  <2>2. call.old # NULL => InUse(call.old)'
    BY <1>6, <1>8, <2>1 DEF InUse
  <2>3. call.holder \in Holders /\ held[call.holder] = NULL
    BY <1>1 DEF IInv, Running
  <2>4. TagSize + tags'[t].size <= tags'[t].real_size /\ tags'[t].size = call.size
    <3>1. tags[t].real_size - TagSize >= call.size + TagSize
      BY <1>1 DEF Enough
    <3>2. tags[t].real_size \in Nat /\ TagSize \in Nat
      BY <1>2, SoundFacts, HeapAssumption
    <3> QED
      BY <1>2, <1>4, <1>6, <3>1, <3>2
  <2>5. tags'[t].right # NULL => tags'[tags'[t].right].index = -1
    <3>1. tags[t].right # NULL => /\ tags[t].right \in DOMAIN tags
                                  /\ tags[tags[t].right].index = -1
      BY <1>2, SoundFacts
    <3> QED
      BY <1>2, <1>6, <3>1
  <2>6. t \in DOMAIN tags' /\ tags'[t].index = -1
    BY <1>2, <1>6
  <2> QED
    BY <1>1, <1>8, <2>1, <2>2, <2>3, <2>4, <2>5, <2>6 DEF Running, InUse, Fits
<1>14. Owned'
  <2> SUFFICES ASSUME NEW a \in DOMAIN tags, a # t, a # call.old, tags[a].index = -1
               PROVE  \E h \in Holders : held[h] = a
    BY <1>1, <1>6, <1>8 DEF Owned
  <2> QED
    BY <1>8 DEF IInv, Owned
<1>15. Sound(tags, l_freePages, brk)'
  BY <1>1, <1>5
<1> QED
  BY <1>10, <1>11, <1>12, <1>13, <1>14, <1>15 DEF IInv

\* A new chunk is whole and in use; the pages before it stay as they are.
LEMMA allocate_new_tagKeeps ==
  ASSUME IInv, allocate_new_tag
  PROVE  IInv'
<1> DEFINE len == PagesFor(call.size) * PageSize
<1>1. call.size \in Nat /\ brk \in Nat \ {0} /\ brk % PageSize = 0
  BY DEF IInv, Types
<1>2. len \in Nat \ {0} /\ call.size + TagSize <= len /\ (brk + len) % PageSize = 0
  BY <1>1, ChunkSize
<1>3. /\ call.at = "search" /\ call.tag = NULL /\ brk' = brk + len
      /\ tags' = [a \in DOMAIN tags \cup {brk} |->
                    IF a = brk
                      THEN [size |-> call.size, real_size |-> len, index |-> -1,
                            left |-> NULL, right |-> NULL, next |-> NULL, prev |-> NULL]
                      ELSE tags[a]]
      /\ call' = [call EXCEPT !.at = "split", !.tag = brk]
      /\ l_freePages' = l_freePages /\ l_completePages' = l_completePages /\ held' = held
  BY DEF allocate_new_tag
<1> HIDE DEF len
<1>4. /\ Sound(tags', l_freePages, brk + len)
      /\ brk \notin DOMAIN tags /\ DOMAIN tags' = DOMAIN tags \cup {brk}
      /\ tags'[brk].index = -1 /\ tags'[brk].size = call.size /\ tags'[brk].real_size = len
      /\ tags'[brk].left = NULL /\ tags'[brk].right = NULL
      /\ \A a \in DOMAIN tags : tags'[a] = tags[a]
  <2>1. Sound(tags, l_freePages, brk)
    BY DEF IInv
  <2> QED
    BY <1>1, <1>2, <1>3, <2>1, Adding
<1>5. SameBut(tags, tags', {brk})
  BY <1>4 DEF SameBut
<1>6. /\ call'.at = "split" /\ call'.tag = brk /\ call'.size = call.size
      /\ call'.old = call.old /\ call'.holder = call.holder /\ Working' /\ ~Working
      /\ call' \in [at : {"idle", "search", "split", "melt"}, holder : Holders \cup {NULL},
                    size : Nat, tag : Nat, old : Nat]
  BY <1>1, <1>3 DEF IInv, Types, Working
<1>7. Types'
  BY <1>1, <1>2, <1>3, <1>6 DEF IInv, Types
<1>8. Counted'
  <2>1. \A e \in Exps : WholeOn(tags', e) = WholeOn(tags, e)
    BY <1>4, <1>5, SameWhole
  <2> QED
    BY <1>3, <2>1 DEF IInv, Counted
<1>9. Held'
  <2>1. \A h \in Holders : held[h] # NULL => held[h] \in DOMAIN tags /\ held[h] # call.old
    BY DEF IInv, Held, InUse
  <2>2. \A h \in Holders : held[h] # NULL =>
          held[h] \in DOMAIN tags' \ {brk} /\ held[h] # call'.old /\ (Working' => held[h] # call'.tag)
    BY <1>4, <1>6, <2>1
  <2>3. Held
    BY DEF IInv
  <2> QED
    BY <1>3, <1>5, <2>2, <2>3, HeldKept
<1>10. Running'
  <2>1. call.old # NULL => InUse(call.old)
    BY DEF IInv, Running
  <2>2. call.old # NULL => call.old \in DOMAIN tags' /\ tags'[call.old].index = -1 /\ brk # call.old
    BY <1>4, <2>1 DEF InUse
  <2>3. call.holder \in Holders /\ held[call.holder] = NULL
    BY <1>3 DEF IInv, Running
  <2>4. TagSize + tags'[brk].size <= tags'[brk].real_size
    BY <1>1, <1>2, <1>4, HeapAssumption
  <2>5. brk \in DOMAIN tags'
    BY <1>4
  <2> QED
    BY <1>3, <1>4, <1>6, <2>2, <2>3, <2>4, <2>5 DEF Running, InUse, Fits
<1>11. Owned'
  <2> SUFFICES ASSUME NEW a \in DOMAIN tags', a # brk, a # call.old, tags'[a].index = -1
               PROVE  \E h \in Holders : held[h] = a
    BY <1>3, <1>6 DEF Owned
  <2> QED
    BY <1>4, <1>6 DEF IInv, Owned
<1>12. Sound(tags, l_freePages, brk)'
  BY <1>3, <1>4
<1> QED
  BY <1>7, <1>8, <1>9, <1>10, <1>11, <1>12 DEF IInv

\* What malloc and realloc leave to be done when there is, or is not, a block.
LEMMA ReturnedFields ==
  ASSUME IInv, call.at \in {"search", "split"}, NEW t \in Nat, Returned(t)
  PROVE  /\ call'.old = NULL /\ call'.tag = call.old
         /\ call'.at = IF call.old = NULL THEN "idle" ELSE "melt"
         /\ call'.at = "idle" => call' = Idle
         /\ Working' <=> call.old # NULL
         /\ call' \in [at : {"idle", "search", "split", "melt"}, holder : Holders \cup {NULL},
                       size : Nat, tag : Nat, old : Nat]
         /\ call.holder \in Holders /\ held[call.holder] = NULL
         /\ held' \in [Holders -> Nat]
         /\ \A h \in Holders : held'[h] = IF h = call.holder THEN t ELSE held[h]
<1>1. call.old \in Nat /\ held \in [Holders -> Nat]
  BY DEF IInv, Types
<1>2. call.holder \in Holders /\ held[call.holder] = NULL
  BY DEF IInv, Running
<1>3. /\ held' \in [Holders -> Nat]
      /\ \A h \in Holders : held'[h] = IF h = call.holder THEN t ELSE held[h]
  BY <1>1, <1>2 DEF Returned
<1>4. /\ call'.old = NULL /\ call'.tag = call.old
      /\ call'.at = IF call.old = NULL THEN "idle" ELSE "melt"
      /\ call'.at = "idle" => call' = Idle
      /\ call' \in [at : {"idle", "search", "split", "melt"}, holder : Holders \cup {NULL},
                    size : Nat, tag : Nat, old : Nat]
  <2>1. CASE call.old = NULL
    BY <2>1 DEF Returned, Idle, NULL
  <2>2. CASE call.old # NULL
    BY <1>1, <2>2 DEF Returned, Idle, NULL
  <2> QED
    BY <2>1, <2>2
<1> QED
  BY <1>2, <1>3, <1>4 DEF Working

\* The caller has its block, and the tags in use are the same otherwise.
LEMMA ReturnedKeeps ==
  ASSUME IInv, call.at = "split", Returned(call.tag),
         \A a \in DOMAIN tags : tags[a].index = -1 => a \in DOMAIN tags' /\ tags'[a].index = -1,
         \A a \in DOMAIN tags : InUse(a) /\ Fits(a) =>
           TagSize + tags'[a].size <= tags'[a].real_size,
         \A a \in DOMAIN tags' : tags'[a].index = -1 => a \in DOMAIN tags /\ tags[a].index = -1,
         brk' = brk, l_completePages' = l_completePages
  PROVE  Types' /\ Held' /\ Running' /\ Owned'
<1> DEFINE t == call.tag
<1>1. t \in Nat
  BY DEF IInv, Types
<1>2. /\ call'.old = NULL /\ call'.tag = call.old
      /\ call'.at = IF call.old = NULL THEN "idle" ELSE "melt"
      /\ call'.at = "idle" => call' = Idle
      /\ Working' <=> call.old # NULL
      /\ call' \in [at : {"idle", "search", "split", "melt"}, holder : Holders \cup {NULL},
                    size : Nat, tag : Nat, old : Nat]
      /\ call.holder \in Holders /\ held[call.holder] = NULL
      /\ held' \in [Holders -> Nat]
      /\ \A h \in Holders : held'[h] = IF h = call.holder THEN t ELSE held[h]
  BY <1>1, ReturnedFields
<1>3. /\ t \in DOMAIN tags /\ InUse(t) /\ Fits(t) /\ Working
      /\ call.old # NULL => InUse(call.old) /\ t # call.old
  BY DEF IInv, Running, Working, InUse
<1>4. Types'
  BY <1>2 DEF IInv, Types
<1> HIDE DEF t
<1>5. ASSUME NEW h \in Holders, held[h] # NULL
      PROVE  /\ held[h] \in DOMAIN tags /\ InUse(held[h]) /\ Fits(held[h])
             /\ held[h] # call.old /\ held[h] # t
             /\ \A g \in Holders \ {h} : held[g] # held[h]
  BY <1>3, <1>5 DEF IInv, Held, InUse, t
<1>6. Held'
  <2> SUFFICES ASSUME NEW h \in Holders, held'[h] # NULL
               PROVE  /\ held'[h] \in DOMAIN tags' /\ tags'[held'[h]].index = -1
                      /\ TagSize + tags'[held'[h]].size <= tags'[held'[h]].real_size
                      /\ held'[h] # call'.old /\ (Working' => held'[h] # call'.tag)
                      /\ \A g \in Holders \ {h} : held'[g] # held'[h]
    BY DEF Held, InUse, Fits
  <2>1. CASE h = call.holder
    <3>1. held'[h] = t
      BY <1>2, <2>1
    <3>2. \A g \in Holders \ {h} : held'[g] = held[g] /\ held[g] # t
      <4>1. t # NULL
        BY <1>3, SoundFacts DEF IInv
      <4> QED
        BY <1>2, <1>5, <2>1, <4>1
    <3> QED
      BY <1>2, <1>3, <3>1, <3>2 DEF InUse
  <2>2. CASE h # call.holder
    <3>1. held'[h] = held[h]
      BY <1>2, <2>2
    <3>2. /\ held[h] \in DOMAIN tags' /\ tags'[held[h]].index = -1
          /\ TagSize + tags'[held[h]].size <= tags'[held[h]].real_size
      BY <1>5, <3>1 DEF InUse
    <3>3. \A g \in Holders \ {h} : held'[g] # held[h]
      BY <1>2, <1>5, <3>1
    <3> QED
      BY <1>2, <1>5, <3>1, <3>2, <3>3
  <2> QED
    BY <2>1, <2>2
<1>7. Running'
  BY <1>2, <1>3 DEF Running, InUse
<1>8. Owned'
  <2> SUFFICES ASSUME NEW a \in DOMAIN tags', tags'[a].index = -1, ~(Working' /\ a = call'.tag)
               PROVE  \E h \in Holders : held'[h] = a
    BY DEF Owned
  <2>1. a \in DOMAIN tags /\ tags[a].index = -1 /\ a # NULL
    BY SoundFacts DEF IInv
  <2>2. a # call.old
    BY <1>2, <2>1
  <2>3. a = t \/ \E h \in Holders : held[h] = a
    BY <2>1, <2>2 DEF IInv, Owned, t
  <2> QED
    BY <1>2, <2>1, <2>3
<1> QED
  BY <1>4, <1>6, <1>7, <1>8

LEMMA NoSplitKeeps ==
  ASSUME IInv, NoSplit
  PROVE  IInv'
<1>1. /\ call.at = "split" /\ Returned(call.tag)
      /\ tags' = tags /\ l_freePages' = l_freePages /\ l_completePages' = l_completePages
      /\ brk' = brk
  BY DEF NoSplit, heap
<1>2. Types' /\ Held' /\ Running' /\ Owned'
  BY <1>1, ReturnedKeeps DEF Fits
<1>3. Sound(tags, l_freePages, brk)' /\ Counted'
  BY <1>1 DEF IInv, Counted
<1> QED
  BY <1>2, <1>3 DEF IInv

\* The block keeps its header and the bytes asked for, the rest is a free tag.
LEMMA SplitKeeps ==
  ASSUME IInv, Split
  PROVE  IInv'
<1> DEFINE t == call.tag
           n == t + TagSize + call.size
<1> PICK e \in Exps : /\ IsIndex(e, Cut(t, n)[n].real_size - TagSize)
                      /\ tags' = Linked(Cut(t, n), n, e)
                      /\ l_freePages' = [l_freePages EXCEPT ![e] = n]
  BY DEF Split
<1>1. /\ call.at = "split" /\ Splits /\ Returned(t)
      /\ l_completePages' = l_completePages /\ brk' = brk
      /\ tags' = LinkedIn(Cut(t, n), l_freePages, n, e)
  BY Same DEF Split
<1>2. /\ Sound(tags, l_freePages, brk) /\ t \in DOMAIN tags /\ tags[t].index = -1
      /\ tags[t].size = call.size
      /\ tags[t].right # NULL => tags[tags[t].right].index = -1
  BY <1>1 DEF IInv, Running, Working, InUse
<1>3. call.size \in Nat /\ t \in Nat /\ TagSize \in Nat \ {0} /\ tags[t].real_size \in Nat
      /\ brk \in Nat
  BY <1>2, SoundFacts, HeapAssumption DEF IInv, Types
<1>4. n \in Nat /\ t < n /\ n < End(tags, t)
  BY <1>1, <1>3 DEF Splits, Remainder, End
<1>5. /\ n - t = TagSize + call.size
  BY <1>3
<1> HIDE DEF n, t
<1>6. /\ Sound(tags', l_freePages', brk)
      /\ n \notin DOMAIN tags /\ DOMAIN tags' = DOMAIN tags \cup {n}
      /\ tags'[t].index = -1 /\ tags'[t].size = tags[t].size /\ tags'[t].real_size = n - t
      /\ tags'[n].index = e /\ tags'[n].left # NULL
      /\ SameBut(tags, tags', {t, n})
  <2> DEFINE us == LinkedIn(Cut(t, n), l_freePages, n, e)
  <2>1. /\ Sound(us, [l_freePages EXCEPT ![e] = n], brk)
        /\ n \notin DOMAIN tags /\ DOMAIN us = DOMAIN tags \cup {n}
        /\ us[t].index = -1 /\ us[t].size = tags[t].size /\ us[t].real_size = n - t
        /\ us[n].index = e /\ us[n].left # NULL
        /\ SameBut(tags, us, {t, n})
    BY <1>2, <1>3, <1>4, Splitting
  <2> QED
    BY <1>1, <2>1
<1>7. e # -1 /\ t # n
  BY <1>2, <1>6, HeapAssumption DEF Exps
<1>8. Counted'
  <2>1. \A d \in Exps : WholeOn(tags', d) = WholeOn(tags, d)
    <3>1. \A a \in DOMAIN tags' \cap {t, n} : tags'[a].index = -1 \/ tags'[a].left # NULL
      BY <1>6
    <3>2. \A a \in DOMAIN tags : a \notin DOMAIN tags' \/ a \in {t, n} =>
            tags[a].index = -1 \/ tags[a].left # NULL \/ tags[a].right # NULL
      BY <1>2, <1>6
    <3> QED
      BY <1>6, <3>1, <3>2, SameWhole
  <2> QED
    BY <1>1, <2>1 DEF IInv, Counted
<1>9. \A a \in DOMAIN tags : tags[a].index = -1 => a \in DOMAIN tags' /\ tags'[a].index = -1
  BY <1>6 DEF SameBut
<1>10. \A a \in DOMAIN tags : InUse(a) /\ Fits(a) =>
         TagSize + tags'[a].size <= tags'[a].real_size
  <2> SUFFICES ASSUME NEW a \in DOMAIN tags, Fits(a)
               PROVE  TagSize + tags'[a].size <= tags'[a].real_size
    OBVIOUS
  <2>1. CASE a = t
    BY <1>2, <1>3, <1>5, <1>6, <2>1
  <2>2. CASE a # t
    BY <1>6, <2>2 DEF SameBut, Fits
  <2> QED
    BY <2>1, <2>2
<1>11. \A a \in DOMAIN tags' : tags'[a].index = -1 => a \in DOMAIN tags /\ tags[a].index = -1
  BY <1>2, <1>6, <1>7 DEF SameBut
<1>12. Types' /\ Held' /\ Running' /\ Owned'
  BY <1>1, <1>9, <1>10, <1>11, ReturnedKeeps DEF t
<1>13. Sound(tags, l_freePages, brk)'
  BY <1>1, <1>6
<1> QED
  BY <1>8, <1>12, <1>13 DEF IInv

\* malloc returns NULL: realloc frees the old block all the same.
LEMMA malloc_failsKeeps ==
  ASSUME IInv, malloc_fails
  PROVE  IInv'
<1>1. /\ call.at = "search" /\ Returned(NULL)
      /\ tags' = tags /\ l_freePages' = l_freePages /\ l_completePages' = l_completePages
      /\ brk' = brk
  BY DEF malloc_fails, heap
<1>2. /\ call'.old = NULL /\ call'.tag = call.old
      /\ call'.at = IF call.old = NULL THEN "idle" ELSE "melt"
      /\ call'.at = "idle" => call' = Idle
      /\ Working' <=> call.old # NULL
      /\ call' \in [at : {"idle", "search", "split", "melt"}, holder : Holders \cup {NULL},
                    size : Nat, tag : Nat, old : Nat]
      /\ held' \in [Holders -> Nat]
      /\ \A h \in Holders : held'[h] = held[h]
  <2>1. NULL \in Nat
    BY DEF NULL
  <2> QED
    BY <1>1, <2>1, ReturnedFields
<1>3. Types'
  BY <1>1, <1>2 DEF IInv, Types
<1>4. Sound(tags, l_freePages, brk)' /\ Counted'
  BY <1>1 DEF IInv, Counted
<1>5. Held'
  <2> SUFFICES ASSUME NEW h \in Holders, held[h] # NULL
               PROVE  /\ held[h] \in DOMAIN tags' /\ tags'[held[h]].index = -1
                      /\ TagSize + tags'[held[h]].size <= tags'[held[h]].real_size
                      /\ held[h] # call'.old /\ (Working' => held[h] # call'.tag)
                      /\ \A g \in Holders \ {h} : held[g] # held[h]
    BY <1>2 DEF Held, InUse, Fits
  <2> QED
    BY <1>1, <1>2 DEF IInv, Held, InUse, Fits
<1>6. Running'
  <2>1. call.old # NULL => InUse(call.old)
    BY DEF IInv, Running
  <2> QED
    BY <1>1, <1>2, <2>1 DEF Running, InUse
<1>7. Owned'
  <2> SUFFICES ASSUME NEW a \in DOMAIN tags, tags[a].index = -1, ~(Working' /\ a = call'.tag)
               PROVE  \E h \in Holders : held[h] = a
    BY <1>1, <1>2 DEF Owned
  <2>1. a # NULL
    BY SoundFacts DEF IInv
  <2>2. a # call.old /\ ~Working
    BY <1>1, <1>2, <2>1 DEF Working
  <2> QED
    BY <2>2 DEF IInv, Owned
<1> QED
  BY <1>3, <1>4, <1>5, <1>6, <1>7 DEF IInv

\* free takes the block from its holder.
LEMMA freeKeeps ==
  ASSUME IInv, NEW h \in Holders, free(h)
  PROVE  IInv'
<1>1. /\ call.at = "idle" /\ held[h] # NULL
      /\ call' = [Idle EXCEPT !.at = "melt", !.tag = held[h]]
      /\ held' = [held EXCEPT ![h] = NULL]
      /\ tags' = tags /\ l_freePages' = l_freePages /\ l_completePages' = l_completePages
      /\ brk' = brk
  BY DEF free, heap
<1>2. held \in [Holders -> Nat] /\ call.old = NULL /\ ~Working
  BY <1>1 DEF IInv, Types, Running, Idle, Working
<1>3. held' \in [Holders -> Nat] /\ \A g \in Holders : held'[g] = IF g = h THEN NULL ELSE held[g]
  BY <1>1, <1>2 DEF NULL
<1>4. /\ call'.at = "melt" /\ call'.tag = held[h] /\ call'.old = NULL /\ Working'
      /\ call' \in [at : {"idle", "search", "split", "melt"}, holder : Holders \cup {NULL},
                    size : Nat, tag : Nat, old : Nat]
  BY <1>1, <1>2 DEF Idle, Working, NULL
<1>5. Types'
  BY <1>1, <1>3, <1>4 DEF IInv, Types
<1>6. Sound(tags, l_freePages, brk)' /\ Counted'
  BY <1>1 DEF IInv, Counted
<1>7. Held'
  <2> SUFFICES ASSUME NEW g \in Holders, held'[g] # NULL
               PROVE  /\ held'[g] \in DOMAIN tags' /\ tags'[held'[g]].index = -1
                      /\ TagSize + tags'[held'[g]].size <= tags'[held'[g]].real_size
                      /\ held'[g] # NULL /\ held'[g] # held[h]
                      /\ \A k \in Holders \ {g} : held'[k] # held'[g]
    BY <1>4 DEF Held, InUse, Fits
  <2>1. g # h /\ held'[g] = held[g]
    BY <1>3
  <2>2. InUse(held[g]) /\ Fits(held[g]) /\ \A k \in Holders \ {g} : held[k] # held[g]
    BY <2>1 DEF IInv, Held
  <2> QED
    BY <1>1, <1>3, <2>1, <2>2 DEF InUse, Fits
<1>8. Running'
  <2>1. InUse(held[h])
    BY <1>1 DEF IInv, Held
  <2> QED
    BY <1>1, <1>4, <2>1 DEF Running, InUse
<1>9. Owned'
  <2> SUFFICES ASSUME NEW a \in DOMAIN tags, tags[a].index = -1, a # held[h]
               PROVE  \E g \in Holders : held'[g] = a
    BY <1>1, <1>4 DEF Owned
  <2>1. a # NULL
    BY SoundFacts DEF IInv
  <2>2. PICK g \in Holders : held[g] = a
    BY <1>2, <2>1 DEF IInv, Owned
  <2> QED
    BY <1>3, <2>2
<1> QED
  BY <1>5, <1>6, <1>7, <1>8, <1>9 DEF IInv

\* What is known when the code melts.
LEMMA MeltFacts ==
  ASSUME IInv, call.at = "melt"
  PROVE  /\ Sound(tags, l_freePages, brk) /\ call.tag \in DOMAIN tags
         /\ tags[call.tag].index = -1 /\ call.old = NULL /\ Working
         /\ \A h \in Holders : held[h] # NULL =>
              held[h] \in DOMAIN tags /\ held[h] # call.tag /\ tags[held[h]].index = -1
         /\ \A a \in DOMAIN tags : \/ tags[a].index # -1 \/ a = call.tag
                                   \/ \E h \in Holders : held[h] = a
         /\ \A a \in DOMAIN tags \cup {NULL} : Free(a) <=> a # NULL /\ tags[a].index # -1
         /\ tags[call.tag].left \in DOMAIN tags \cup {NULL}
         /\ tags[call.tag].right \in DOMAIN tags \cup {NULL}
<1>1. Working
  BY DEF Working
<1>2. /\ Sound(tags, l_freePages, brk) /\ call.tag \in DOMAIN tags
      /\ tags[call.tag].index = -1 /\ call.old = NULL
  BY <1>1 DEF IInv, Running, InUse
<1>3. \A h \in Holders : held[h] # NULL =>
        held[h] \in DOMAIN tags /\ held[h] # call.tag /\ tags[held[h]].index = -1
  BY <1>1 DEF IInv, Held, InUse
<1>4. \A a \in DOMAIN tags : \/ tags[a].index # -1 \/ a = call.tag
                             \/ \E h \in Holders : held[h] = a
  BY <1>1, <1>2, SoundFacts DEF IInv, Owned
<1>5. \A a \in DOMAIN tags \cup {NULL} : Free(a) <=> a # NULL /\ tags[a].index # -1
  BY <1>2, FreeTags
<1>6. /\ tags[call.tag].left \in DOMAIN tags \cup {NULL}
      /\ tags[call.tag].right \in DOMAIN tags \cup {NULL}
  BY <1>2, SoundFacts
<1> QED
  BY <1>1, <1>2, <1>3, <1>4, <1>5, <1>6

\* The block melted into is the one the call has from now on.
LEMMA melt_leftKeeps ==
  ASSUME IInv, melt_left
  PROVE  IInv'
<1> DEFINE t == call.tag
           l == tags[t].left
<1>1. /\ call.at = "melt" /\ Free(l)
      /\ l_freePages' = HeadsWithoutIn(tags, l_freePages, l)
      /\ tags' = Unlinked(Merged(tags, l, t), l)
      /\ call' = [call EXCEPT !.tag = l]
      /\ l_completePages' = l_completePages /\ brk' = brk /\ held' = held
  BY Same DEF melt_left
<1>2. /\ Sound(tags, l_freePages, brk) /\ t \in DOMAIN tags
      /\ tags[t].index = -1 /\ call.old = NULL /\ Working
      /\ \A h \in Holders : held[h] # NULL =>
           held[h] \in DOMAIN tags /\ held[h] # t /\ tags[held[h]].index = -1
      /\ \A a \in DOMAIN tags : \/ tags[a].index # -1 \/ a = t
                                \/ \E h \in Holders : held[h] = a
      /\ l \in DOMAIN tags /\ l # NULL /\ tags[l].index # -1 /\ l = tags[t].left
  BY <1>1, MeltFacts
<1> HIDE DEF l, t
<1>3. /\ Sound(tags', l_freePages', brk)
      /\ DOMAIN tags' = DOMAIN tags \ {t} /\ tags'[l].index = -1
      /\ SameBut(tags, tags', {l})
  <2> DEFINE us == Unlinked(Merged(tags, l, t), l)
  <2>1. /\ Sound(us, HeadsWithoutIn(tags, l_freePages, l), brk)
        /\ DOMAIN us = DOMAIN tags \ {t} /\ us[l].index = -1
        /\ SameBut(tags, us, {l})
    <3>1. /\ Sound(tags, l_freePages, brk) /\ t \in DOMAIN tags /\ tags[t].index = -1
          /\ l = tags[t].left /\ l # NULL /\ tags[l].index # -1
      BY <1>2
    <3> QED
      BY <3>1, MeltingLeft
  <2> QED
    BY <1>1, <2>1
<1>4. l # t /\ tags[l].right = t /\ t # NULL /\ l \in Nat
  BY <1>2, SoundFacts
<1>5. /\ call'.at = "melt" /\ call'.tag = l /\ call'.old = NULL /\ Working'
      /\ call' \in [at : {"idle", "search", "split", "melt"}, holder : Holders \cup {NULL},
                    size : Nat, tag : Nat, old : Nat]
  BY <1>1, <1>2, <1>4 DEF IInv, Types, Working
<1>6. Types'
  BY <1>1, <1>5 DEF IInv, Types
<1>7. Counted'
  <2>1. \A a \in DOMAIN tags' \cap {l} : tags'[a].index = -1 \/ tags'[a].left # NULL
    BY <1>3
  <2>2. \A a \in DOMAIN tags : a \notin DOMAIN tags' \/ a \in {l} =>
          tags[a].index = -1 \/ tags[a].left # NULL \/ tags[a].right # NULL
    BY <1>2, <1>3, <1>4
  <2>3. \A e \in Exps : WholeOn(tags', e) = WholeOn(tags, e)
    BY <1>3, <2>1, <2>2, SameWhole
  <2> QED
    BY <1>1, <2>3 DEF IInv, Counted
<1>8. Held'
  <2>1. \A h \in Holders : held[h] # NULL =>
          held[h] \in DOMAIN tags' \ {l} /\ held[h] # call'.old /\ (Working' => held[h] # call'.tag)
    BY <1>2, <1>3, <1>5
  <2>2. Held
    BY DEF IInv
  <2> QED
    BY <1>1, <1>3, <2>1, <2>2, HeldKept
<1>9. Running'
  BY <1>2, <1>3, <1>4, <1>5 DEF Running, InUse
<1>10. Owned'
  <2> SUFFICES ASSUME NEW a \in DOMAIN tags', tags'[a].index = -1, a # l
               PROVE  \E h \in Holders : held[h] = a
    BY <1>1, <1>5 DEF Owned
  <2> QED
    BY <1>2, <1>3 DEF SameBut
<1>11. Sound(tags, l_freePages, brk)'
  BY <1>1, <1>3
<1> QED
  BY <1>6, <1>7, <1>8, <1>9, <1>10, <1>11 DEF IInv

LEMMA absorb_rightKeeps ==
  ASSUME IInv, absorb_right
  PROVE  IInv'
<1> DEFINE t == call.tag
           r == tags[t].right
<1>1. /\ call.at = "melt" /\ Free(r)
      /\ l_freePages' = HeadsWithoutIn(tags, l_freePages, r)
      /\ tags' = Merged(Unlinked(tags, r), t, r)
      /\ l_completePages' = l_completePages /\ brk' = brk /\ held' = held /\ call' = call
  BY Same DEF absorb_right
<1>2. /\ Sound(tags, l_freePages, brk) /\ t \in DOMAIN tags
      /\ tags[t].index = -1 /\ call.old = NULL /\ Working
      /\ \A h \in Holders : held[h] # NULL =>
           held[h] \in DOMAIN tags /\ held[h] # t /\ tags[held[h]].index = -1
      /\ \A a \in DOMAIN tags : \/ tags[a].index # -1 \/ a = t
                                \/ \E h \in Holders : held[h] = a
      /\ r \in DOMAIN tags /\ r # NULL /\ tags[r].index # -1
  BY <1>1, MeltFacts
<1>3. /\ Sound(tags', l_freePages', brk)
      /\ DOMAIN tags' = DOMAIN tags \ {r} /\ tags'[t].index = -1
      /\ SameBut(tags, tags', {t})
  BY <1>1, <1>2, MeltingRight
<1>4. r # t /\ tags[r].left = t /\ t # NULL
  BY <1>2, SoundFacts
<1>5. call'.at = "melt" /\ call'.tag = t /\ call'.old = NULL /\ Working'
  BY <1>1, <1>2 DEF Working
<1> HIDE DEF r, t
<1>6. Types'
  BY <1>1 DEF IInv, Types
<1>7. Counted'
  <2>1. \A a \in DOMAIN tags' \cap {t} : tags'[a].index = -1 \/ tags'[a].left # NULL
    BY <1>3
  <2>2. \A a \in DOMAIN tags : a \notin DOMAIN tags' \/ a \in {t} =>
          tags[a].index = -1 \/ tags[a].left # NULL \/ tags[a].right # NULL
    BY <1>2, <1>3, <1>4
  <2>3. \A e \in Exps : WholeOn(tags', e) = WholeOn(tags, e)
    BY <1>3, <2>1, <2>2, SameWhole
  <2> QED
    BY <1>1, <2>3 DEF IInv, Counted
<1>8. Held'
  <2>1. \A h \in Holders : held[h] # NULL =>
          held[h] \in DOMAIN tags' \ {t} /\ held[h] # call'.old /\ (Working' => held[h] # call'.tag)
    BY <1>2, <1>3, <1>5
  <2>2. Held
    BY DEF IInv
  <2> QED
    BY <1>1, <1>3, <2>1, <2>2, HeldKept
<1>9. Running'
  BY <1>2, <1>3, <1>4, <1>5 DEF Running, InUse
<1>10. Owned'
  <2> SUFFICES ASSUME NEW a \in DOMAIN tags', tags'[a].index = -1, a # t
               PROVE  \E h \in Holders : held[h] = a
    BY <1>1, <1>5 DEF Owned
  <2> QED
    BY <1>2, <1>3 DEF SameBut
<1>11. Sound(tags, l_freePages, brk)'
  BY <1>1, <1>3
<1> QED
  BY <1>6, <1>7, <1>8, <1>9, <1>10, <1>11 DEF IInv

\* The chunk given back was nobody's.
LEMMA GiveBackKeeps ==
  ASSUME IInv, GiveBack
  PROVE  IInv'
<1> DEFINE t == call.tag
<1>1. /\ call.at = "melt" /\ tags[t].left = NULL /\ tags[t].right = NULL
      /\ tags' = [a \in DOMAIN tags \ {t} |-> tags[a]] /\ call' = Idle
      /\ l_freePages' = l_freePages /\ l_completePages' = l_completePages
      /\ brk' = brk /\ held' = held
  BY DEF GiveBack, Melted, TooMany, Whole
<1>2. /\ Sound(tags, l_freePages, brk) /\ t \in DOMAIN tags
      /\ tags[t].index = -1
      /\ \A h \in Holders : held[h] # NULL =>
           held[h] \in DOMAIN tags /\ held[h] # t /\ tags[held[h]].index = -1
      /\ \A a \in DOMAIN tags : \/ tags[a].index # -1 \/ a = t
                                \/ \E h \in Holders : held[h] = a
  BY <1>1, MeltFacts
<1> HIDE DEF t
<1>3. Sound(tags', l_freePages, brk)
  BY <1>1, <1>2, Dropping
<1>4. /\ DOMAIN tags' = DOMAIN tags \ {t} /\ \A a \in DOMAIN tags' : tags'[a] = tags[a]
      /\ SameBut(tags, tags', {})
  BY <1>1 DEF SameBut
<1>5. /\ call'.at = "idle" /\ call'.tag = NULL /\ call'.old = NULL /\ ~Working'
      /\ call' \in [at : {"idle", "search", "split", "melt"}, holder : Holders \cup {NULL},
                    size : Nat, tag : Nat, old : Nat]
  BY <1>1 DEF Idle, Working, NULL
<1>6. Types'
  BY <1>1, <1>5 DEF IInv, Types
<1>7. Counted'
  <2>1. \A e \in Exps : WholeOn(tags', e) = WholeOn(tags, e)
    BY <1>2, <1>4, SameWhole
  <2> QED
    BY <1>1, <2>1 DEF IInv, Counted
<1>8. Held'
  <2>1. \A h \in Holders : held[h] # NULL =>
          held[h] \in DOMAIN tags' \ {} /\ held[h] # call'.old /\ (Working' => held[h] # call'.tag)
    BY <1>2, <1>4, <1>5
  <2>2. Held
    BY DEF IInv
  <2> QED
    BY <1>1, <1>4, <2>1, <2>2, HeldKept
<1>9. Running'
  BY <1>1, <1>5 DEF Running, Working
<1>10. Owned'
  BY <1>1, <1>2, <1>4 DEF Owned
<1>11. Sound(tags, l_freePages, brk)'
  BY <1>1, <1>3
<1> QED
  BY <1>6, <1>7, <1>8, <1>9, <1>10, <1>11 DEF IInv

\* What was freed waits on the list of its size, between tags in use.
LEMMA KeepKeeps ==
  ASSUME IInv, Keep
  PROVE  IInv'
<1> DEFINE t == call.tag
<1> PICK e \in Exps :
      /\ Melted(e) /\ ~TooMany(e)
      /\ tags' = Linked(tags, t, e)
      /\ l_freePages' = [l_freePages EXCEPT ![e] = t]
      /\ l_completePages' = IF Whole(t)
                              THEN [l_completePages EXCEPT ![e] = @ + 1] ELSE l_completePages
  BY DEF Keep
<1>1. /\ call.at = "melt" /\ ~Free(tags[t].left) /\ ~Free(tags[t].right)
      /\ IsIndex(e, tags[t].real_size - TagSize)
      /\ tags' = LinkedIn(tags, l_freePages, t, e)
      /\ call' = Idle /\ brk' = brk /\ held' = held
      /\ Whole(t) => l_completePages[e] # MAXCOMPLETE
  BY Same DEF Keep, Melted, TooMany
<1>2. /\ Sound(tags, l_freePages, brk) /\ t \in DOMAIN tags
      /\ tags[t].index = -1
      /\ \A h \in Holders : held[h] # NULL =>
           held[h] \in DOMAIN tags /\ held[h] # t /\ tags[held[h]].index = -1
      /\ \A a \in DOMAIN tags : \/ tags[a].index # -1 \/ a = t
                                \/ \E h \in Holders : held[h] = a
      /\ tags[t].right # NULL => tags[tags[t].right].index = -1
      /\ tags[t].left # NULL => tags[tags[t].left].index = -1
  BY <1>1, MeltFacts
<1> HIDE DEF t
<1>3. /\ Sound(tags', l_freePages', brk)
      /\ LinkFields(tags, l_freePages, t, e, tags')
  <2> DEFINE us == LinkedIn(tags, l_freePages, t, e)
  <2>1. /\ Sound(us, [l_freePages EXCEPT ![e] = t], brk)
        /\ LinkFields(tags, l_freePages, t, e, us)
    BY <1>1, <1>2, LinkingSound
  <2> QED
    BY <1>1, <2>1
<1>4. /\ DOMAIN tags' = DOMAIN tags
      /\ \A a \in DOMAIN tags :
           /\ tags'[a].size = tags[a].size /\ tags'[a].real_size = tags[a].real_size
           /\ tags'[a].index = IF a = t THEN e ELSE tags[a].index
           /\ tags'[a].left = tags[a].left /\ tags'[a].right = tags[a].right
  BY <1>3 DEF LinkFields
<1>5. SameBut(tags, tags', {t})
  BY <1>4 DEF SameBut
<1>6. e # -1 /\ -1 \notin Exps /\ MAXCOMPLETE \in Nat
  BY HeapAssumption DEF Exps
<1>7. /\ call'.at = "idle" /\ call'.tag = NULL /\ call'.old = NULL /\ ~Working'
      /\ call' \in [at : {"idle", "search", "split", "melt"}, holder : Holders \cup {NULL},
                    size : Nat, tag : Nat, old : Nat]
  BY <1>1 DEF Idle, Working, NULL
<1>8. Types'
  <2>1. l_completePages' \in [Exps -> Int]
    BY DEF IInv, Types
  <2> QED
    BY <1>1, <1>7, <2>1 DEF IInv, Types
<1>9. Counted'
  <2> SUFFICES ASSUME NEW d \in Exps
               PROVE  /\ l_completePages'[d] <= MAXCOMPLETE
                      /\ l_completePages'[d] = Cardinality(WholeOn(tags', d))
    BY DEF Counted
  <2>1. /\ l_completePages[d] <= MAXCOMPLETE /\ l_completePages[d] \in Int
        /\ l_completePages[d] = Cardinality(WholeOn(tags, d))
    BY DEF IInv, Counted, Types
  <2>2. l_completePages'[d] = IF Whole(t) /\ d = e THEN l_completePages[d] + 1
                              ELSE l_completePages[d]
    BY DEF IInv, Types
  <2>3. CASE Whole(t) /\ d = e
    <3>1. WholeOn(tags', d) = WholeOn(tags, d) \cup {t} /\ t \notin WholeOn(tags, d)
      BY <1>2, <1>4, <1>6, <2>3 DEF WholeOn, Whole
    <3>2. IsFiniteSet(WholeOn(tags, d))
      BY <1>2, FinitelyMany DEF IInv, Types
    <3>3. Cardinality(WholeOn(tags', d)) = Cardinality(WholeOn(tags, d)) + 1
      BY <3>1, <3>2, FS_AddElement
    <3> QED
      BY <1>1, <1>6, <2>1, <2>2, <2>3, <3>3
  <2>4. CASE ~(Whole(t) /\ d = e)
    <3>1. WholeOn(tags', d) = WholeOn(tags, d)
      BY <1>2, <1>4, <1>6, <2>4 DEF WholeOn, Whole
    <3> QED
      BY <2>1, <2>2, <2>4, <3>1
  <2> QED
    BY <2>3, <2>4
<1>10. Held'
  <2>1. \A h \in Holders : held[h] # NULL =>
          held[h] \in DOMAIN tags' \ {t} /\ held[h] # call'.old /\ (Working' => held[h] # call'.tag)
    BY <1>2, <1>4, <1>7
  <2>2. Held
    BY DEF IInv
  <2> QED
    BY <1>1, <1>5, <2>1, <2>2, HeldKept
<1>11. Running'
  BY <1>1, <1>7 DEF Running, Working
<1>12. Owned'
  BY <1>1, <1>2, <1>4, <1>6 DEF Owned
<1>13. Sound(tags, l_freePages, brk)'
  BY <1>1, <1>3
<1> QED
  BY <1>8, <1>9, <1>10, <1>11, <1>12, <1>13 DEF IInv

\* The invariant holds in every reachable state.
THEOREM Invariant == Spec => []IInv
<1>1. Init => IInv
  BY InitHolds
<1>2. IInv /\ [Next]_vars => IInv'
  <2> SUFFICES ASSUME IInv, [Next]_vars PROVE IInv'
    OBVIOUS
  <2>1. ASSUME NEW h \in Holders, free(h) PROVE IInv'
    BY <2>1, freeKeeps
  <2>2. ASSUME NEW h \in Holders, NEW size \in Sizes, malloc(h, size) PROVE IInv'
    BY <2>2, mallocKeeps
  <2>3. ASSUME NEW h \in Holders, NEW size \in Sizes, realloc(h, size) PROVE IInv'
    BY <2>3, reallocKeeps
  <2>4. CASE SearchOn
    BY <2>4, SearchOnKeeps
  <2>5. CASE Found
    BY <2>5, FoundKeeps
  <2>6. CASE allocate_new_tag
    BY <2>6, allocate_new_tagKeeps
  <2>7. CASE malloc_fails
    BY <2>7, malloc_failsKeeps
  <2>8. CASE Split
    BY <2>8, SplitKeeps
  <2>9. CASE NoSplit
    BY <2>9, NoSplitKeeps
  <2>10. CASE melt_left
    BY <2>10, melt_leftKeeps
  <2>11. CASE absorb_right
    BY <2>11, absorb_rightKeeps
  <2>12. CASE GiveBack
    BY <2>12, GiveBackKeeps
  <2>13. CASE Keep
    BY <2>13, KeepKeeps
  <2>14. CASE UNCHANGED vars
    BY <2>14 DEF vars, heap, IInv, Types, Counted, Held, Running, Owned, InUse, Fits, Working
  <2> QED
    BY <2>1, <2>2, <2>3, <2>4, <2>5, <2>6, <2>7, <2>8, <2>9, <2>10, <2>11, <2>12, <2>13,
       <2>14 DEF Next, Work
<1> QED
  BY <1>1, <1>2, PTL DEF Spec

-------------------------------------------------------------------------------
(* The properties *)

\* Every chunk stays covered by its tags, free neighbours always melt, and no tag
\* in use is lost between calls (split_tag, melt_left, absorb_right, liballoc_free).
THEOREM TilesKept == Spec => []ChunksTiled
<1>1. IInv => ChunksTiled
  <2> SUFFICES ASSUME IInv, NEW a \in DOMAIN tags
               PROVE  /\ IF tags[a].right = NULL
                           THEN End(tags, a) % PageSize = 0 /\ End(tags, a) <= brk
                           ELSE tags[a].right = End(tags, a) /\ tags[End(tags, a)].left = a
                      /\ tags[a].left = NULL => a % PageSize = 0
                      /\ \A b \in DOMAIN tags : ~(a < b /\ b < End(tags, a))
                      /\ call.at = "idle" =>
                           IF Free(a) THEN ~Free(tags[a].right)
                           ELSE \E h \in Holders : held[h] = a
    BY DEF ChunksTiled, End
  <2>1. /\ IF tags[a].right = NULL
             THEN End(tags, a) % PageSize = 0 /\ End(tags, a) <= brk
             ELSE tags[a].right = End(tags, a) /\ tags[End(tags, a)].left = a
        /\ tags[a].left = NULL => a % PageSize = 0
        /\ \A b \in DOMAIN tags : ~(a < b /\ b < End(tags, a))
    BY DEF IInv, Sound, Tiled
  <2>2. ASSUME call.at = "idle"
        PROVE  IF Free(a) THEN ~Free(tags[a].right) ELSE \E h \in Holders : held[h] = a
    <3>1. call.old = NULL /\ ~Working
      BY <2>2 DEF IInv, Running, Idle, Working
    <3>2. Free(a) <=> tags[a].index # -1
      BY FreeTags, SoundFacts DEF IInv
    <3>3. tags[a].index # -1 => ~Free(tags[a].right)
      BY FreeTags, SoundFacts DEF IInv
    <3>4. a # NULL
      BY SoundFacts DEF IInv
    <3> QED
      BY <3>1, <3>2, <3>3, <3>4 DEF IInv, Owned
  <2> QED
    BY <2>1, <2>2
<1> QED
  BY <1>1, Invariant, PTL

\* The free lists are linked both ways and hold the free tags and no others
\* (insert_tag, remove_tag and every caller of theirs).
THEOREM ListsKept == Spec => []ListsLinked
<1>1. IInv => ListsLinked
  <2> SUFFICES ASSUME IInv PROVE ListsLinked
    OBVIOUS
  <2>1. ASSUME NEW a \in DOMAIN tags
        PROVE  IF Free(a)
                 THEN /\ IsIndex(tags[a].index, tags[a].real_size - TagSize)
                      /\ tags[a].next # NULL => /\ tags[tags[a].next].prev = a
                                                /\ tags[tags[a].next].index = tags[a].index
                      /\ tags[a].prev # NULL => tags[tags[a].prev].next = a
                      /\ tags[a].prev = NULL <=> l_freePages[tags[a].index] = a
                 ELSE tags[a].next = NULL /\ tags[a].prev = NULL
    <3>1. Free(a) <=> tags[a].index # -1
      BY FreeTags, SoundFacts DEF IInv
    <3>2. tags[a].index # -1 => IsIndex(tags[a].index, tags[a].real_size - TagSize)
      BY SoundFacts DEF IInv
    <3>3. Lists(tags, l_freePages)
      BY DEF IInv, Sound
    <3> QED
      BY <3>1, <3>2, <3>3 DEF Lists
  <2>2. \A e \in Exps : l_freePages[e] # NULL => tags[l_freePages[e]].index = e
    BY DEF IInv, Sound, Lists
  <2> QED
    BY <2>1, <2>2 DEF ListsLinked
<1> QED
  BY <1>1, Invariant, PTL

\* l_completePages is the number of whole free chunks of each size, at most
\* MAXCOMPLETE (the counting in malloc and free).
THEOREM CountKept == Spec => []CompleteCounted
<1>1. IInv => CompleteCounted
  <2>1. \A e \in Exps : {a \in DOMAIN tags : tags[a].index = e /\ Whole(a)} = WholeOn(tags, e)
    BY DEF WholeOn, Whole
  <2> QED
    BY <2>1 DEF IInv, Counted, CompleteCounted
<1> QED
  BY <1>1, Invariant, PTL

\* No two callers share a block, no block is on a free list, and each is as
\* large as what was asked for (malloc, free and realloc).
THEOREM PrivateKept == Spec => []BlocksPrivate
<1>1. IInv => BlocksPrivate
  <2> SUFFICES ASSUME IInv PROVE BlocksPrivate
    OBVIOUS
  <2>1. \A t \in DOMAIN tags : tags[t].index = -1 => ~Free(t)
    BY FreeTags DEF IInv
  <2>2. Held /\ Running
    BY DEF IInv
  <2>3. call.old # NULL => ~Free(call.old) /\ call.tag # call.old
    BY <2>1, <2>2 DEF Running, InUse
  <2> QED
    BY <2>1, <2>2, <2>3 DEF BlocksPrivate, Held, InUse, Fits
<1> QED
  BY <1>1, Invariant, PTL
===============================================================================
