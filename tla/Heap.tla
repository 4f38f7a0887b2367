-------------------------------- MODULE Heap --------------------------------
(***************************************************************************)
(* The kernel heap of kernel/mm/heap.c: kmalloc(), kfree(), kbrk() and the *)
(* block list they keep inside the heap itself.  Calls are serialised by   *)
(* kheap_mutex, so each is one step (Mutex proves the exclusion).          *)
(*                                                                         *)
(* Addresses count from KHEAP_START, which is page aligned.  A header      *)
(* whose magic is intact is an element of DOMAIN block.                    *)
(***************************************************************************)
EXTENDS Naturals, FiniteSets

CONSTANTS HEADER_SIZE,   \* sizeof(hblock_t)
          PAGE_SIZE,     \* bytes of a page
          Sizes,         \* what callers ask kmalloc() for
          MaxBreak,      \* bound of the model: how far the heap may grow
          NULL           \* the null block pointer

ASSUME HeapAssumption ==
  /\ HEADER_SIZE \in Nat \ {0} /\ PAGE_SIZE \in Nat \ {0}
  /\ Sizes \subseteq Nat /\ MaxBreak \in Nat /\ NULL \notin Nat

VARIABLES block,         \* the headers: address -> available, prev, next, size
          heap_start,    \* the first block
          heap_last,     \* the last block
          kheap_break,   \* the end of the heap
          mapped,        \* the pages of the heap that are mapped
          wanted         \* ghost: the size asked for, per allocated block

vars == <<block, heap_start, heap_last, kheap_break, mapped, wanted>>

Init ==
  /\ block = [a \in {} |-> 0]
  /\ heap_start = NULL
  /\ heap_last = NULL
  /\ kheap_break = 0
  /\ mapped = {}
  /\ wanted = [a \in {} |-> 0]

Least(S) == CHOOSE a \in S : \A b \in S : a <= b

Without(f, S) == [a \in DOMAIN f \ S |-> f[a]]

With(f, a, v) == [b \in DOMAIN f \cup {a} |-> IF b = a THEN v ELSE f[b]]

-----------------------------------------------------------------------------
\* The first page that starts at or after an address.
PageAfter(a) == (a + PAGE_SIZE - 1) \div PAGE_SIZE

\* A slip: shrinking also unmaps the page that still holds data.
KbrkGreedy(old, new) ==
  IF new < old
  THEN mapped \ (new \div PAGE_SIZE .. old \div PAGE_SIZE)
  ELSE mapped \cup (PageAfter(old) .. new \div PAGE_SIZE)

\* kbrk(): the pages that are mapped after the break moved from old to new.
\* Growing maps through the page the break falls into.
Kbrk(old, new) ==
  IF new < old
  THEN mapped \ (PageAfter(new) .. old \div PAGE_SIZE)
  ELSE mapped \cup (PageAfter(old) .. new \div PAGE_SIZE)

\* A slip: the header is not counted.
FittingBare(size) == {a \in DOMAIN block : block[a].available /\ block[a].size >= size}

\* The free blocks that are large enough.  The list is in address order
\* (Linked), so the first one on it has the least address.
Fitting(size) == {a \in DOMAIN block : block[a].available /\ block[a].size >= HEADER_SIZE + size}

\* A slip: a rest that holds just a header is split off, or none at all.
CropTight(a, size) ==
  LET excess == block[a].size - size
      next   == block[a].next
      new    == a + size
      cut    == [block EXCEPT ![a].available = FALSE, ![a].size = size, ![a].next = new]
  IN IF excess = 0
     THEN [block |-> [block EXCEPT ![a].available = FALSE], last |-> heap_last]
     ELSE [block |-> With([b \in DOMAIN cut |->
                             IF b = next THEN [cut[b] EXCEPT !.prev = new] ELSE cut[b]],
                          new, [available |-> TRUE, prev |-> a, next |-> next, size |-> excess]),
           last  |-> IF next = NULL THEN new ELSE heap_last]

\* A slip: the block after the split keeps its old prev pointer.
CropUnlinked(a, size) ==
  LET excess == block[a].size - size
      next   == block[a].next
      new    == a + size
      cut    == [block EXCEPT ![a].available = FALSE, ![a].size = size, ![a].next = new]
  IN IF excess <= HEADER_SIZE
     THEN [block |-> [block EXCEPT ![a].available = FALSE], last |-> heap_last]
     ELSE [block |-> With(cut, new, [available |-> TRUE, prev |-> a, next |-> next, size |-> excess]),
           last  |-> IF next = NULL THEN new ELSE heap_last]

\* Take block a and crop() it to size: the rest becomes a free block of its own
\* when it is larger than a header.
Crop(a, size) ==
  LET excess == block[a].size - size
      next   == block[a].next
      new    == a + size
      cut    == [block EXCEPT ![a].available = FALSE, ![a].size = size, ![a].next = new]
  IN IF excess <= HEADER_SIZE
     THEN [block |-> [block EXCEPT ![a].available = FALSE], last |-> heap_last]
     ELSE [block |-> With([b \in DOMAIN cut |->
                             IF b = next THEN [cut[b] EXCEPT !.prev = new] ELSE cut[b]],
                          new, [available |-> TRUE, prev |-> a, next |-> next, size |-> excess]),
           last  |-> IF next = NULL THEN new ELSE heap_last]

\* kmalloc() finds a free block.
KmallocReuse(size) ==
  /\ Fitting(size) # {}
  /\ LET a == Least(Fitting(size))
         h == Crop(a, HEADER_SIZE + size)
     IN /\ block' = h.block
        /\ heap_last' = h.last
        /\ wanted' = With(wanted, a, size)
  /\ UNCHANGED <<heap_start, kheap_break, mapped>>

\* kmalloc() moves the break and appends a block.
KmallocGrow(size) ==
  /\ Fitting(size) = {}
  /\ kheap_break + HEADER_SIZE + size <= MaxBreak
  /\ LET a    == kheap_break
         new  == [available |-> FALSE, prev |-> heap_last, next |-> NULL,
                  size |-> HEADER_SIZE + size]
         tied == [b \in DOMAIN block |->
                    IF b = heap_last THEN [block[b] EXCEPT !.next = a] ELSE block[b]]
     IN /\ block' = With(tied, a, new)
        /\ heap_start' = IF heap_start = NULL THEN a ELSE heap_start
        /\ heap_last' = a
        /\ kheap_break' = a + HEADER_SIZE + size
        /\ mapped' = Kbrk(a, a + HEADER_SIZE + size)
        /\ wanted' = With(wanted, a, size)

-----------------------------------------------------------------------------
\* merge_blocks(): the second block of two becomes part of the first.
Merge(h, first, second) ==
  LET next == h.block[second].next
      grown == [h.block EXCEPT ![first].size = @ + h.block[second].size, ![first].next = next]
  IN [block |-> Without([b \in DOMAIN grown |->
                           IF b = next THEN [grown[b] EXCEPT !.prev = first] ELSE grown[b]],
                        {second}),
      last  |-> IF next = NULL THEN first ELSE h.last]

\* A slip: only the following block is merged.
MergeFreeForward(h, a) ==
  LET next == h.block[a].next
  IN IF next # NULL /\ h.block[next].available THEN Merge(h, a, next) ELSE h

\* Merge a freed block with its free neighbours, the following one first.
MergeFree(h, a) ==
  LET next == h.block[a].next
      prev == h.block[a].prev
      g    == IF next # NULL /\ h.block[next].available THEN Merge(h, a, next) ELSE h
  IN IF prev # NULL /\ g.block[prev].available THEN Merge(g, prev, a) ELSE g

\* The available blocks at the end of the list, which the last loop of kfree()
\* drops one by one.
Trailing(h) == {a \in DOMAIN h.block : \A b \in DOMAIN h.block : b >= a => h.block[b].available}

\* The last loop of kfree(): the block before the dropped ones is the new last
\* one and the break is where they began (the pages kbrk() unmaps add up).
Trim(h) ==
  LET drop == Trailing(h)
      cut  == h.block[Least(drop)].prev
      kept == Without(h.block, drop)
  IN IF drop = {} THEN [block |-> h.block, last |-> h.last, break |-> kheap_break]
     ELSE [block |-> [b \in DOMAIN kept |->
                        IF b = cut THEN [kept[b] EXCEPT !.next = NULL] ELSE kept[b]],
           last  |-> cut,
           break |-> Least(drop)]

\* kfree() of an allocated block.
Kfree(a) ==
  /\ a \in DOMAIN wanted
  /\ LET freed == [block EXCEPT ![a].available = TRUE]
         h     == Trim(MergeFree([block |-> freed, last |-> heap_last], a))
     IN /\ block' = h.block
        /\ heap_last' = h.last
        /\ heap_start' = IF h.last = NULL THEN NULL ELSE heap_start
        /\ kheap_break' = h.break
        /\ mapped' = IF h.break < kheap_break THEN Kbrk(kheap_break, h.break) ELSE mapped
        /\ wanted' = Without(wanted, {a})

Next ==
  \/ \E size \in Sizes : KmallocReuse(size) \/ KmallocGrow(size)
  \/ \E a \in DOMAIN wanted : Kfree(a)

Spec == Init /\ [][Next]_vars

-----------------------------------------------------------------------------
\* Where a block ends.
End(a) == a + block[a].size

\* The blocks tile the heap: each begins where another ends, or at the start,
\* and the last one ends at the break.  So no two allocations overlap and no
\* byte is lost, whatever was split, merged and trimmed before.
Tiled ==
  /\ kheap_break > 0 => 0 \in DOMAIN block
  /\ \A a \in DOMAIN block :
       /\ block[a].size >= HEADER_SIZE
       /\ End(a) \in DOMAIN block \cup {kheap_break}
       /\ \A b \in DOMAIN block : a < b => End(a) <= b

\* The prev and next pointers and heap_start and heap_last agree with the
\* addresses: following them visits every block in order.
Linked ==
  /\ heap_start = IF DOMAIN block = {} THEN NULL ELSE 0
  /\ \A a \in DOMAIN block :
       /\ block[a].next = IF End(a) = kheap_break THEN NULL ELSE End(a)
       /\ block[a].next = NULL <=> heap_last = a
       /\ block[a].prev = NULL <=> a = 0
       /\ block[a].next # NULL => block[block[a].next].prev = a
  /\ heap_last = NULL <=> DOMAIN block = {}

\* Free blocks are merged and given back: no two of them are neighbours and the
\* last block is in use, so a heap whose blocks were all freed is empty again.
Merged ==
  /\ \A a, b \in DOMAIN block : End(a) = b => ~(block[a].available /\ block[b].available)
  /\ \A a \in DOMAIN block : block[a].next = NULL => ~block[a].available
  /\ DOMAIN wanted = {} => kheap_break = 0 /\ mapped = {}

\* The blocks in use are the allocations; each has the bytes that were asked for
\* and wastes no more than a header's worth of them.
Served ==
  /\ DOMAIN wanted = {a \in DOMAIN block : ~block[a].available}
  /\ \A a \in DOMAIN wanted :
       /\ block[a].size >= HEADER_SIZE + wanted[a]
       /\ block[a].size <= HEADER_SIZE + wanted[a] + HEADER_SIZE

\* Every byte below the break is on a mapped page, however the break moved.
BreakMapped == \A p \in 0 .. MaxBreak \div PAGE_SIZE : p * PAGE_SIZE < kheap_break => p \in mapped
=============================================================================
