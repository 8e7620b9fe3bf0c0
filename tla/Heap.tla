-------------------------------- MODULE Heap --------------------------------
(***************************************************************************)
(* The kernel's heap, libc/liballoc.c: malloc, free, calloc and realloc    *)
(* over boundary tags.  Every chunk of pages liballoc_alloc returns is cut *)
(* into tags chained by split_left and split_right; a free tag (index >=   *)
(* 0) is also on the doubly linked list of its power of two.  One loop     *)
(* iteration of the code is one step.                                      *)
(*                                                                         *)
(* The contents of the blocks are left out; a tag exists in "tags" until   *)
(* the code melts it into a neighbour or gives its chunk back.             *)
(***************************************************************************)
EXTENDS Integers, FiniteSets

CONSTANTS
  TagSize,      \* sizeof(struct boundary_tag)
  MINEXP, MAXEXP, MAXCOMPLETE,
  PageSize,     \* l_pageSize
  PageCount,    \* l_pageCount
  Pages,        \* bound: pages liballoc_alloc has before it returns NULL
  Holders,      \* callers that hold one block each
  Sizes         \* what they ask for

NULL == 0
Exps == MINEXP .. MAXEXP - 1
Top == (Pages + 1) * PageSize        \* no chunk is at address 0

ASSUME HeapAssumption ==
  /\ TagSize \in Nat \ {0} /\ PageSize \in Nat \ {0} /\ PageCount \in Nat \ {0}
  /\ MINEXP \in Nat /\ MAXEXP \in Nat /\ MINEXP < MAXEXP
  /\ MAXCOMPLETE \in Nat /\ Pages \in Nat
  /\ Sizes \subseteq Nat
  /\ TagSize < PageSize

VARIABLES
  tags,             \* address -> boundary_tag, for the tags that exist
  l_freePages,      \* heads of the free lists
  l_completePages,  \* how many whole chunks wait on each list
  brk,              \* address of the next chunk
  held,             \* the tag of the block each holder has, NULL if none
  call              \* the running call: where it is and its local variables

heap == <<tags, l_freePages, l_completePages>>
vars == <<heap, brk, held, call>>

Idle == [at |-> "idle", holder |-> NULL, size |-> 0, tag |-> NULL, old |-> NULL]

Init ==
  /\ tags = [a \in {} |-> NULL]
  /\ l_freePages = [e \in Exps |-> NULL]
  /\ l_completePages = [e \in Exps |-> 0]
  /\ brk = PageSize
  /\ held = [h \in Holders |-> NULL]
  /\ call = Idle

-------------------------------------------------------------------------------
(* Helpers of liballoc.c *)

\* getexp: 2^e <= size < 2^(e+1).
IsExp(e, size) == e \in Exps /\ 2^e <= size /\ \A d \in Exps : 2^d <= size => d <= e

\* getexp(size), raised to MINEXP when it is -1.
IsIndex(e, size) == IF size < 2^MINEXP THEN e = MINEXP ELSE IsExp(e, size)

\* The tag is on a free list.
Free(t) == t # NULL /\ tags[t].index >= 0

Whole(t) == tags[t].left = NULL /\ tags[t].right = NULL

\* Mutant: the next tag keeps its link back.
Unlinked_back(ts, t) ==
  [a \in DOMAIN ts |->
     CASE a = t           -> [ts[t] EXCEPT !.next = NULL, !.prev = NULL, !.index = -1]
       [] a = ts[t].prev  -> [ts[a] EXCEPT !.next = ts[t].next]
       [] OTHER           -> ts[a]]

\* remove_tag, applied to given tags and list heads.
Unlinked(ts, t) ==
  [a \in DOMAIN ts |->
     CASE a = t           -> [ts[t] EXCEPT !.next = NULL, !.prev = NULL, !.index = -1]
       [] a = ts[t].prev  -> [ts[a] EXCEPT !.next = ts[t].next]
       [] a = ts[t].next  -> [ts[a] EXCEPT !.prev = ts[t].prev]
       [] OTHER           -> ts[a]]

HeadsWithout(t) ==
  IF l_freePages[tags[t].index] = t
    THEN [l_freePages EXCEPT ![tags[t].index] = tags[t].next] ELSE l_freePages

\* insert_tag: at the head of list e; next stays as it is when the list is empty.
Linked(ts, t, e) ==
  LET head == l_freePages[e]
  IN  [a \in DOMAIN ts |->
         CASE a = t    -> [ts[t] EXCEPT !.index = e, !.next = IF head = NULL THEN @ ELSE head]
           [] a = head -> [ts[a] EXCEPT !.prev = t]
           [] OTHER    -> ts[a]]

\* Tag t takes over the bytes and the right neighbour of tag r.
Merged(ts, t, r) ==
  [a \in DOMAIN ts \ {r} |->
     CASE a = t           -> [ts[t] EXCEPT !.real_size = @ + ts[r].real_size,
                                           !.right = ts[r].right]
       [] a = ts[r].right -> [ts[a] EXCEPT !.left = t]
       [] OTHER           -> ts[a]]

-------------------------------------------------------------------------------
(* malloc, calloc and the first half of realloc *)

\* The search starts at the head of the list for the size asked for.
Start(h, size, old) ==
  \E e \in Exps :
    /\ IsIndex(e, size)
    /\ call' = [at |-> "search", holder |-> h, size |-> size, tag |-> l_freePages[e],
                old |-> old]

malloc(h, size) ==
  /\ call.at = "idle" /\ held[h] = NULL
  /\ Start(h, size, NULL)
  /\ UNCHANGED <<heap, brk, held>>

\* realloc(p, 0) is free(p), realloc(NULL, size) is malloc(size).
realloc(h, size) ==
  /\ call.at = "idle" /\ held[h] # NULL /\ size # 0
  /\ Start(h, size, held[h])
  /\ held' = [held EXCEPT ![h] = NULL]
  /\ UNCHANGED <<heap, brk>>

\* Mutant: the header is forgotten.
Enough_tight(t, size) == tags[t].real_size >= size

Enough(t, size) == tags[t].real_size - TagSize >= size + TagSize

\* Mutant: the search goes back to the front of the list.
SearchOn_again ==
  /\ call.at = "search" /\ call.tag # NULL
  /\ ~Enough(call.tag, call.size)
  /\ call' = [call EXCEPT !.tag = l_freePages[tags[call.tag].index]]
  /\ UNCHANGED <<heap, brk, held>>

SearchOn ==
  /\ call.at = "search" /\ call.tag # NULL
  /\ ~Enough(call.tag, call.size)
  /\ call' = [call EXCEPT !.tag = tags[call.tag].next]
  /\ UNCHANGED <<heap, brk, held>>

\* Mutant: a chunk that is taken still counts as a whole one.
Found_uncounted ==
  /\ call.at = "search" /\ call.tag # NULL
  /\ Enough(call.tag, call.size)
  /\ l_freePages' = HeadsWithout(call.tag)
  /\ tags' = [Unlinked(tags, call.tag) EXCEPT ![call.tag].size = call.size]
  /\ call' = [call EXCEPT !.at = "split"]
  /\ UNCHANGED <<l_completePages, brk, held>>

Found ==
  /\ call.at = "search" /\ call.tag # NULL
  /\ Enough(call.tag, call.size)
  /\ l_freePages' = HeadsWithout(call.tag)
  /\ tags' = [Unlinked(tags, call.tag) EXCEPT ![call.tag].size = call.size]
  /\ l_completePages' = IF Whole(call.tag)
                          THEN [l_completePages EXCEPT ![tags[call.tag].index] = @ - 1]
                          ELSE l_completePages
  /\ call' = [call EXCEPT !.at = "split"]
  /\ UNCHANGED <<brk, held>>

\* The pages allocate_new_tag asks for.
PagesFor(size) ==
  LET needed == (size + TagSize + PageSize - 1) \div PageSize
  IN  IF needed < PageCount THEN PageCount ELSE needed

\* What realloc does when malloc has returned: the old block is freed whether
\* or not there is a new one.
Returned(t) ==
  /\ held' = [held EXCEPT ![call.holder] = t]
  /\ call' = IF call.old = NULL THEN Idle
             ELSE [Idle EXCEPT !.at = "melt", !.tag = call.old]

allocate_new_tag ==
  LET size == PagesFor(call.size) * PageSize
  IN  /\ call.at = "search" /\ call.tag = NULL
      /\ brk + size <= Top
      /\ brk' = brk + size
      /\ tags' = [a \in DOMAIN tags \cup {brk} |->
                    IF a = brk
                      THEN [size |-> call.size, real_size |-> size, index |-> -1,
                            left |-> NULL, right |-> NULL, next |-> NULL, prev |-> NULL]
                      ELSE tags[a]]
      /\ call' = [call EXCEPT !.at = "split", !.tag = brk]
      /\ UNCHANGED <<l_freePages, l_completePages, held>>

\* liballoc_alloc returns NULL, and so does malloc.
malloc_fails ==
  /\ call.at = "search" /\ call.tag = NULL
  /\ brk + PagesFor(call.size) * PageSize > Top
  /\ Returned(NULL)
  /\ UNCHANGED <<heap, brk>>

\* What is left of the tag after the block and the tag of the rest.
Remainder == tags[call.tag].real_size - call.size - 2 * TagSize

Splits == Remainder > 0 /\ Remainder >= 2^MINEXP

\* Mutant: the right neighbour still names the tag that was split.
Cut_left(t, n) ==
  [a \in DOMAIN tags \cup {n} |->
     CASE a = t -> [tags[t] EXCEPT !.real_size = n - t, !.right = n]
       [] a = n -> [size |-> 0, real_size |-> t + tags[t].real_size - n, index |-> -1,
                    left |-> t, right |-> tags[t].right, next |-> NULL, prev |-> NULL]
       [] OTHER -> tags[a]]

\* split_tag: the rest of tag t becomes tag n.
Cut(t, n) ==
  [a \in DOMAIN tags \cup {n} |->
     CASE a = t -> [tags[t] EXCEPT !.real_size = n - t, !.right = n]
       [] a = n -> [size |-> 0, real_size |-> t + tags[t].real_size - n, index |-> -1,
                    left |-> t, right |-> tags[t].right, next |-> NULL, prev |-> NULL]
       [] a = tags[t].right -> [tags[a] EXCEPT !.left = n]
       [] OTHER -> tags[a]]

\* The end of malloc: the excess goes back to the free lists.
Split ==
  LET new == call.tag + TagSize + call.size
      cut == Cut(call.tag, new)
  IN  /\ call.at = "split" /\ Splits
      /\ \E e \in Exps :
           /\ IsIndex(e, cut[new].real_size - TagSize)
           /\ tags' = Linked(cut, new, e)
           /\ l_freePages' = [l_freePages EXCEPT ![e] = new]
      /\ Returned(call.tag)
      /\ UNCHANGED <<l_completePages, brk>>

NoSplit ==
  /\ call.at = "split" /\ ~Splits
  /\ Returned(call.tag)
  /\ UNCHANGED <<heap, brk>>

-------------------------------------------------------------------------------
(* free, and the second half of realloc *)

free(h) ==
  /\ call.at = "idle" /\ held[h] # NULL
  /\ call' = [Idle EXCEPT !.at = "melt", !.tag = held[h]]
  /\ held' = [held EXCEPT ![h] = NULL]
  /\ UNCHANGED <<heap, brk>>

\* One iteration of "MELT LEFT": melt_left and remove_tag.
melt_left ==
  LET left == tags[call.tag].left
  IN  /\ call.at = "melt" /\ Free(left)
      /\ l_freePages' = HeadsWithout(left)
      /\ tags' = Unlinked(Merged(tags, left, call.tag), left)
      /\ call' = [call EXCEPT !.tag = left]
      /\ UNCHANGED <<l_completePages, brk, held>>

\* One iteration of "MELT RIGHT".
absorb_right ==
  LET right == tags[call.tag].right
  IN  /\ call.at = "melt" /\ ~Free(tags[call.tag].left) /\ Free(right)
      /\ l_freePages' = HeadsWithout(right)
      /\ tags' = Merged(Unlinked(tags, right), call.tag, right)
      /\ UNCHANGED <<l_completePages, brk, held, call>>

\* Where is it going back to?
Melted(e) ==
  /\ call.at = "melt"
  /\ ~Free(tags[call.tag].left) /\ ~Free(tags[call.tag].right)
  /\ IsIndex(e, tags[call.tag].real_size - TagSize)

\* Enough whole chunks stand by on list e.
TooMany(e) == Whole(call.tag) /\ l_completePages[e] = MAXCOMPLETE

\* "A whole, empty block", but too many wait on its list: liballoc_free.
GiveBack ==
  /\ \E e \in Exps : Melted(e) /\ TooMany(e)
  /\ tags' = [a \in DOMAIN tags \ {call.tag} |-> tags[a]]
  /\ call' = Idle
  /\ UNCHANGED <<l_freePages, l_completePages, brk, held>>

Keep ==
  /\ \E e \in Exps :
       /\ Melted(e) /\ ~TooMany(e)
       /\ tags' = Linked(tags, call.tag, e)
       /\ l_freePages' = [l_freePages EXCEPT ![e] = call.tag]
       /\ l_completePages' = IF Whole(call.tag)
                               THEN [l_completePages EXCEPT ![e] = @ + 1] ELSE l_completePages
  /\ call' = Idle
  /\ UNCHANGED <<brk, held>>

-------------------------------------------------------------------------------
\* One iteration or one exit of the code's loops.
Work ==
  \/ SearchOn \/ Found \/ allocate_new_tag \/ malloc_fails \/ Split \/ NoSplit
  \/ melt_left \/ absorb_right \/ GiveBack \/ Keep

Next ==
  \/ \E h \in Holders : free(h) \/ \E size \in Sizes : malloc(h, size) \/ realloc(h, size)
  \/ Work

\* A call runs on; nothing forces a caller to make the next one.
Spec == Init /\ [][Next]_vars /\ WF_vars(Work)

-------------------------------------------------------------------------------
(* Properties *)

\* The tags of a chunk cover it without gap or overlap, in the order of their
\* split links, whatever was split and melted before; between calls no two
\* neighbours are free (what was freed always melts, no memory is lost to splits)
\* and the tags in use are those of the holders.
ChunksTiled ==
  \A a \in DOMAIN tags :
    LET end == a + tags[a].real_size
    IN  /\ IF tags[a].right = NULL
             THEN end % PageSize = 0 /\ end <= brk
             ELSE tags[a].right = end /\ tags[end].left = a
        /\ tags[a].left = NULL => a % PageSize = 0
        /\ \A b \in DOMAIN tags : ~(a < b /\ b < end)
        /\ call.at = "idle" =>
             IF Free(a) THEN ~Free(tags[a].right) ELSE \E h \in Holders : held[h] = a

\* The free lists hold exactly the free tags: each is linked both ways on the
\* list of its index, every head has no predecessor, and a tag in use is on none.
ListsLinked ==
  /\ \A a \in DOMAIN tags :
       LET n == tags[a].next  p == tags[a].prev
       IN  IF Free(a)
             THEN /\ IsIndex(tags[a].index, tags[a].real_size - TagSize)
                  /\ n # NULL => tags[n].prev = a /\ tags[n].index = tags[a].index
                  /\ p # NULL => tags[p].next = a
                  /\ p = NULL <=> l_freePages[tags[a].index] = a
             ELSE n = NULL /\ p = NULL
  /\ \A e \in Exps : l_freePages[e] # NULL => tags[l_freePages[e]].index = e

\* l_completePages counts the whole chunks waiting on each list: no chunk is
\* counted twice or forgotten, so at most MAXCOMPLETE of a size are kept.
CompleteCounted ==
  \A e \in Exps :
    /\ l_completePages[e] <= MAXCOMPLETE
    /\ l_completePages[e] = Cardinality({a \in DOMAIN tags : tags[a].index = e /\ Whole(a)})

\* A tag a caller holds, or realloc still has to free, is nobody else's and on
\* no free list, and the block that was asked for fits in it behind the header.
BlocksPrivate ==
  /\ \A h \in Holders : held[h] # NULL =>
       /\ ~Free(held[h])
       /\ TagSize + tags[held[h]].size <= tags[held[h]].real_size
       /\ held[h] # call.old
       /\ \A g \in Holders \ {h} : held[g] # held[h]
  /\ call.old # NULL => ~Free(call.old) /\ call.tag # call.old

\* Every call ends: the lists it walks have no cycle and melting stops.
CallsEnd == []<>(call.at = "idle")
=============================================================================
