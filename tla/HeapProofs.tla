----------------------------- MODULE HeapProofs -----------------------------
(***************************************************************************)
(* Heap for any header and page size, any requests and any bound: the      *)
(* blocks tile the heap, the list and the addresses agree, free blocks are *)
(* merged, requests are served in full and every byte is mapped.           *)
(***************************************************************************)
EXTENDS Heap, WellFoundedInduction, TLAPS

-----------------------------------------------------------------------------
\* A set of naturals has a least element.
LEMMA LeastNat ==
  ASSUME NEW S \in SUBSET Nat, S # {}
  PROVE  Least(S) \in S /\ \A y \in S : Least(S) <= y
<1> DEFINE Less == {ss \in Nat \X Nat : ss[1] < ss[2]}
<1>1. IsWellFoundedOn(Less, Nat)
  BY NatLessThanWellFounded, Zenon DEF OpToRel
<1> HIDE DEF Less
<1>2. PICK x \in S : \A y \in S : ~(<<y, x>> \in Less)
  BY <1>1, WFMin, Zenon
<1>3. \A y \in S : ~(y < x)
  BY <1>2 DEF Less
<1>4. \A y \in S : x <= y
  BY <1>3
<1> QED
  BY <1>4 DEF Least

-----------------------------------------------------------------------------
\* What a header holds.
Hdr == [available : BOOLEAN, prev : Nat \cup {NULL}, next : Nat \cup {NULL}, size : Nat]

\* The list of blocks B is the heap from 0 to brk, cut into pieces: addresses,
\* sizes and pointers all describe the same sequence.
Shape(B, brk, last) ==
  /\ brk \in Nat /\ DOMAIN B \in SUBSET Nat /\ B \in [DOMAIN B -> Hdr]
  /\ brk > 0 => 0 \in DOMAIN B
  /\ last \in DOMAIN B \cup {NULL}
  /\ last = NULL => DOMAIN B = {}
  /\ \A a \in DOMAIN B :
       /\ B[a].size >= HEADER_SIZE
       /\ a + B[a].size <= brk
       /\ a + B[a].size = brk => B[a].next = NULL /\ last = a
       /\ a + B[a].size # brk =>
            /\ a + B[a].size \in DOMAIN B
            /\ B[a].next = a + B[a].size
            /\ B[a + B[a].size].prev = a
            /\ last # a
       /\ a = 0 => B[a].prev = NULL
       /\ a # 0 => B[a].prev \in DOMAIN B /\ B[a].prev + B[B[a].prev].size = a
       /\ \A b \in DOMAIN B : a < b => a + B[a].size <= b

\* Two free blocks side by side, neither of them block a.
Apart(B, a) ==
  \A x, y \in DOMAIN B : x + B[x].size = y /\ x # a /\ y # a => ~(B[x].available /\ B[y].available)

\* No two free blocks side by side.
NoPair(B) == \A x, y \in DOMAIN B : x + B[x].size = y => ~(B[x].available /\ B[y].available)

\* The blocks in use are the same in B and C, with the same sizes.
SameUsed(B, C) ==
  /\ \A x \in DOMAIN B : ~B[x].available => x \in DOMAIN C /\ ~C[x].available /\ C[x].size = B[x].size
  /\ \A x \in DOMAIN C : ~C[x].available => x \in DOMAIN B /\ ~B[x].available

-----------------------------------------------------------------------------
\* C is what merge_blocks() makes of B when f takes in the block s after it.
MergedInto(B, last, f, s, C, last2) ==
  /\ DOMAIN C = DOMAIN B \ {s}
  /\ C \in [DOMAIN C -> Hdr]
  /\ f # s
  /\ \A b \in DOMAIN C :
       /\ C[b].available = B[b].available
       /\ C[b].size = IF b = f THEN B[f].size + B[s].size ELSE B[b].size
       /\ C[b].next = IF b = f THEN B[s].next ELSE B[b].next
       /\ C[b].prev = IF b = B[s].next THEN f ELSE B[b].prev
  /\ last2 = IF B[s].next = NULL THEN f ELSE last

\* merge_blocks() field by field.
LEMMA MergeFields ==
  ASSUME NEW h, NEW brk, Shape(h.block, brk, h.last),
         NEW f \in DOMAIN h.block, NEW s \in DOMAIN h.block, f + h.block[f].size = s
  PROVE  MergedInto(h.block, h.last, f, s, Merge(h, f, s).block, Merge(h, f, s).last)
<1> DEFINE B == h.block
           n == B[s].next
           G == [B EXCEPT ![f].size = @ + B[s].size, ![f].next = n]
           E == [b \in DOMAIN G |-> IF b = n THEN [G[b] EXCEPT !.prev = f] ELSE G[b]]
           C == Merge(h, f, s).block
<1>1. C = [b \in DOMAIN E \ {s} |-> E[b]] /\ Merge(h, f, s).last = IF n = NULL THEN f ELSE h.last
  BY DEF Merge, Without
<1>2. B \in [DOMAIN B -> Hdr] /\ f \in Nat /\ s \in Nat /\ B[f].size >= HEADER_SIZE
  BY DEF Shape
<1>3. f # s /\ B[f].size \in Nat /\ B[s].size \in Nat /\ n \in Nat \cup {NULL}
  BY <1>2, HeapAssumption DEF Hdr
<1> HIDE DEF C, B, n
<1>4. DOMAIN G = DOMAIN B /\ DOMAIN E = DOMAIN B /\ DOMAIN C = DOMAIN B \ {s}
  BY <1>1, <1>2
<1>5. ASSUME NEW b \in DOMAIN B
      PROVE  /\ G[b] \in Hdr
             /\ G[b].available = B[b].available
             /\ G[b].prev = B[b].prev
             /\ G[b].size = IF b = f THEN B[f].size + B[s].size ELSE B[b].size
             /\ G[b].next = IF b = f THEN n ELSE B[b].next
  BY <1>2, <1>3, HeapAssumption DEF Hdr, B
<1> HIDE DEF G
<1>6. ASSUME NEW b \in DOMAIN B
      PROVE  /\ E[b] \in Hdr
             /\ E[b].available = G[b].available
             /\ E[b].prev = IF b = n THEN f ELSE G[b].prev
             /\ E[b].size = G[b].size
             /\ E[b].next = G[b].next
  <2>1. E[b] = IF b = n THEN [G[b] EXCEPT !.prev = f] ELSE G[b]
    BY <1>4
  <2> HIDE DEF E
  <2>2. G[b] \in Hdr
    BY <1>5
  <2> QED
    BY <2>1, <2>2, <1>2 DEF Hdr
<1> HIDE DEF E
<1>7. \A b \in DOMAIN C : b \in DOMAIN B /\ C[b] = E[b]
  BY <1>1, <1>4
<1>8. C \in [DOMAIN C -> Hdr]
  <2>1. \A b \in DOMAIN C : C[b] \in Hdr
    BY <1>6, <1>7
  <2> QED
    BY <1>1, <1>4, <2>1
<1>9. \A b \in DOMAIN C :
                 /\ C[b].available = B[b].available
                 /\ C[b].size = IF b = f THEN B[f].size + B[s].size ELSE B[b].size
                 /\ C[b].next = IF b = f THEN B[s].next ELSE B[b].next
                 /\ C[b].prev = IF b = B[s].next THEN f ELSE B[b].prev
  BY <1>5, <1>6, <1>7 DEF n
<1> QED
  BY <1>1, <1>3, <1>4, <1>8, <1>9 DEF B, C, n, MergedInto

\* merge_blocks() keeps the list a list of the whole heap, and the blocks in
\* use when it merges two free ones.
LEMMA MergeShape ==
  ASSUME NEW B, NEW brk, NEW last0, Shape(B, brk, last0),
         NEW f \in DOMAIN B, NEW s \in DOMAIN B, f + B[f].size = s,
         NEW C, NEW last, MergedInto(B, last0, f, s, C, last)
  PROVE  Shape(C, brk, last)
<1>1. /\ DOMAIN C = DOMAIN B \ {s}
      /\ C \in [DOMAIN C -> Hdr]
      /\ f # s
      /\ last = IF B[s].next = NULL THEN f ELSE last0
  BY DEF MergedInto
<1>2. \A b \in DOMAIN C :
        /\ C[b].available = B[b].available
        /\ C[b].size = IF b = f THEN B[f].size + B[s].size ELSE B[b].size
        /\ C[b].next = IF b = f THEN B[s].next ELSE B[b].next
        /\ C[b].prev = IF b = B[s].next THEN f ELSE B[b].prev
  BY DEF MergedInto
<1>3. Shape(B, brk, last0) /\ f \in DOMAIN B /\ s \in DOMAIN B /\ f + B[f].size = s
  OBVIOUS
<1>4. /\ brk \in Nat /\ f \in Nat /\ s \in Nat /\ DOMAIN B \in SUBSET Nat
      /\ \A b \in DOMAIN B : B[b].size \in Nat /\ B[b].size > 0
  BY <1>3, HeapAssumption, SMTT(40) DEF Shape, Hdr
<1>5. 0 # s /\ s < brk
  BY <1>3, <1>4, HeapAssumption, SMTT(40) DEF Shape
<1>6. last \in DOMAIN C \cup {NULL} /\ last # NULL /\ (brk > 0 => 0 \in DOMAIN C)
  BY <1>1, <1>3, <1>4, <1>5, HeapAssumption DEF Shape
<1>7. ASSUME NEW a \in DOMAIN C
      PROVE  /\ C[a].size >= HEADER_SIZE
             /\ a + C[a].size <= brk
             /\ a = 0 => C[a].prev = NULL
             /\ a # 0 => C[a].prev \in DOMAIN C /\ C[a].prev + C[C[a].prev].size = a
  <2>1. a \in DOMAIN B /\ a # s
    BY <1>1
  <2>2. C[a].size >= HEADER_SIZE /\ a + C[a].size <= brk
    <3>1. B[a].size >= HEADER_SIZE /\ a + B[a].size <= brk /\ s + B[s].size <= brk
      BY <1>3, <2>1 DEF Shape
    <3>2. CASE a = f
      BY <3>1, <3>2, <1>2, <1>3, <1>4, HeapAssumption
    <3>3. CASE a # f
      BY <3>1, <3>3, <1>2
    <3> QED
      BY <3>2, <3>3
  <2>3. CASE a = B[s].next
    <3>1. a = s + B[s].size /\ C[a].prev = f
      BY <1>2, <1>3, <1>4, <2>1, <2>3, HeapAssumption DEF Shape
    <3> QED
      BY <3>1, <1>1, <1>2, <1>3, <1>4, <2>2
  <2>4. CASE a # B[s].next
    <3>1. C[a].prev = B[a].prev
      BY <1>2, <2>4
    <3>2. a # 0 => B[a].prev # s
      <4> SUFFICES ASSUME a # 0, B[a].prev = s
                   PROVE  FALSE
        OBVIOUS
      <4>1. s + B[s].size = a /\ a + B[a].size <= brk
        BY <1>3, <2>1 DEF Shape
      <4>2. s + B[s].size # brk
        BY <4>1, <1>4, <2>1
      <4> QED
        BY <4>1, <4>2, <1>3, <2>4 DEF Shape
    <3>3. a # 0 => B[a].prev # f
      BY <1>3, <1>4, <2>1, <2>4, HeapAssumption DEF Shape
    <3> QED
      BY <3>1, <3>2, <3>3, <1>1, <1>2, <1>3, <1>4, <2>1, <2>2, SMTT(40) DEF Shape
  <2> QED
    BY <2>3, <2>4
<1>8. ASSUME NEW a \in DOMAIN C
      PROVE  /\ a + C[a].size = brk => C[a].next = NULL /\ last = a
             /\ a + C[a].size # brk =>
                  /\ a + C[a].size \in DOMAIN C
                  /\ C[a].next = a + C[a].size
                  /\ C[a + C[a].size].prev = a
                  /\ last # a
  <2>1. a \in DOMAIN B /\ a # s
    BY <1>1
  <2>2. CASE a = f
    <3>1. C[a].size = B[f].size + B[s].size /\ C[a].next = B[s].next /\ a + C[a].size = s + B[s].size
      BY <1>2, <1>3, <1>4, <2>2
    <3>2. CASE s + B[s].size = brk
      BY <3>1, <3>2, <1>1, <1>3, <2>2 DEF Shape
    <3>3. CASE s + B[s].size # brk
      <4>1. s + B[s].size \in DOMAIN B /\ B[s].next = s + B[s].size /\ last0 # s
        BY <3>3, <1>3 DEF Shape
      <4>2. B[s].next # NULL /\ s + B[s].size \in DOMAIN C
        BY <4>1, <1>1, <1>4, HeapAssumption
      <4>3. last0 # f
        BY <1>3, <1>4, <1>5 DEF Shape
      <4> QED
        BY <3>1, <3>3, <4>1, <4>2, <4>3, <1>1, <1>2, <2>2
    <3> QED
      BY <3>2, <3>3
  <2>3. CASE a # f
    <3>1. C[a].size = B[a].size /\ C[a].next = B[a].next
      BY <1>2, <2>3
    <3>2. a + B[a].size # s
      <4>1. a < f => a + B[a].size <= f
        BY <1>3, <2>1 DEF Shape
      <4>2. a > f => s <= a
        BY <1>3, <2>1 DEF Shape
      <4> QED
        BY <4>1, <4>2, <1>3, <1>4, <2>1, <2>3
    <3>3. CASE a + B[a].size = brk
      <4>1. B[s].next # NULL
        BY <3>3, <1>3, <1>4, <2>1, HeapAssumption DEF Shape
      <4> QED
        BY <4>1, <3>1, <3>3, <1>1, <1>3, <2>1 DEF Shape
    <3>4. CASE a + B[a].size # brk
      <4>1. a + B[a].size \in DOMAIN B /\ B[a].next = a + B[a].size /\ B[a + B[a].size].prev = a /\ last0 # a
        BY <3>4, <1>3, <2>1 DEF Shape
      <4>2. a + B[a].size # B[s].next
        BY <4>1, <1>3, <1>4, <2>1, HeapAssumption, SMTT(40) DEF Shape
      <4> QED
        BY <3>1, <3>2, <3>4, <4>1, <4>2, <1>1, <1>2, <2>3
    <3> QED
      BY <3>3, <3>4
  <2> QED
    BY <2>2, <2>3
<1>9. ASSUME NEW a \in DOMAIN C, NEW b \in DOMAIN C, a < b
      PROVE  a + C[a].size <= b
  <2>1. a \in DOMAIN B /\ a # s /\ b \in DOMAIN B /\ b # s
    BY <1>1
  <2>2. CASE a = f
    <3>1. s <= b
      BY <1>3, <1>9, <2>1, <2>2 DEF Shape
    <3>2. s + B[s].size <= b
      BY <3>1, <1>3, <1>4, <2>1 DEF Shape
    <3> QED
      BY <3>2, <1>2, <1>3, <1>4, <2>2
  <2>3. CASE a # f
    BY <1>2, <1>3, <1>9, <2>1, <2>3 DEF Shape
  <2> QED
    BY <2>2, <2>3
<1>10. DOMAIN C \in SUBSET Nat
  BY <1>1, <1>4
<1> QED
  BY <1>1, <1>4, <1>6, <1>7, <1>8, <1>9, <1>10 DEF Shape

\* Merging two free blocks leaves the blocks in use alone.
LEMMA MergeUsed ==
  ASSUME NEW B, NEW C, NEW last0, NEW last, NEW f \in DOMAIN B, NEW s \in DOMAIN B,
         MergedInto(B, last0, f, s, C, last), B[f].available, B[s].available
  PROVE  SameUsed(B, C)
<1>1. DOMAIN C = DOMAIN B \ {s} /\ \A b \in DOMAIN C : C[b].available = B[b].available
  BY DEF MergedInto
<1>2. \A b \in DOMAIN C : b # f => C[b].size = B[b].size
  BY DEF MergedInto
<1> QED
  BY <1>1, <1>2, Zenon DEF SameUsed

LEMMA SameUsedTrans ==
  ASSUME NEW B, NEW C, NEW D, SameUsed(B, C), SameUsed(C, D)
  PROVE  SameUsed(B, D)
  BY Zenon DEF SameUsed

\* The block before a is the one its prev pointer names.
LEMMA PrevUnique ==
  ASSUME NEW B, NEW brk, NEW last, Shape(B, brk, last), NEW a \in DOMAIN B,
         NEW x \in DOMAIN B, x + B[x].size = a
  PROVE  x = B[a].prev /\ a # 0 /\ B[a].prev # NULL
<1>1. x \in Nat /\ a \in Nat /\ x < a /\ a # 0 /\ B[x].size \in Nat
  BY HeapAssumption DEF Shape, Hdr
<1>2. B[a].prev \in DOMAIN B /\ B[a].prev + B[B[a].prev].size = a
  BY <1>1 DEF Shape
<1> DEFINE p == B[a].prev
<1>3. p \in DOMAIN B /\ p + B[p].size = a
  BY <1>2
<1> HIDE DEF p
<1>4. p \in Nat /\ B[p].size \in Nat /\ B[p].size > 0 /\ p # NULL
  <2>1. p \in Nat /\ B[p] \in Hdr /\ B[p].size >= HEADER_SIZE
    BY <1>3 DEF Shape
  <2> QED
    BY <2>1, HeapAssumption DEF Hdr
<1>5. (x < p => x + B[x].size <= p) /\ (p < x => p + B[p].size <= x)
  BY <1>3 DEF Shape
<1> QED
  BY <1>1, <1>3, <1>4, <1>5 DEF p

\* The block after a is the one its next pointer names.
LEMMA NextIs ==
  ASSUME NEW B, NEW brk, NEW last, Shape(B, brk, last), NEW a \in DOMAIN B
  PROVE  /\ B[a].next # NULL => B[a].next \in DOMAIN B /\ a + B[a].size = B[a].next
         /\ \A y \in DOMAIN B : a + B[a].size = y => B[a].next = y /\ y # NULL /\ y # a
<1>1. B[a].next # NULL => B[a].next \in DOMAIN B /\ a + B[a].size = B[a].next
  BY DEF Shape
<1>2. ASSUME NEW y \in DOMAIN B, a + B[a].size = y
      PROVE  B[a].next = y /\ y # NULL /\ y # a
  <2>1. y \in Nat /\ a \in Nat /\ B[a].size \in Nat /\ B[y].size \in Nat /\ B[a].size > 0 /\ B[y].size > 0 /\ brk \in Nat
    BY HeapAssumption, SMTT(40) DEF Shape, Hdr
  <2>2. y + B[y].size <= brk
    BY DEF Shape
  <2>3. a + B[a].size # brk
    BY <1>2, <2>1, <2>2
  <2> QED
    BY <1>2, <2>1, <2>3, HeapAssumption DEF Shape
<1> QED
  BY <1>1, <1>2

\* What kfree() does with a free block a and its free neighbours: the list is
\* whole again, no two free blocks are side by side, and the blocks in use
\* were left alone.
LEMMA MergeFreeResult ==
  ASSUME NEW h, NEW brk, Shape(h.block, brk, h.last), NEW a \in DOMAIN h.block,
         h.block[a].available, Apart(h.block, a)
  PROVE  LET g == MergeFree(h, a)
         IN Shape(g.block, brk, g.last) /\ NoPair(g.block) /\ SameUsed(h.block, g.block)
<1> DEFINE B == h.block
           next == B[a].next
           prev == B[a].prev
           m == IF next # NULL /\ h.block[next].available THEN Merge(h, a, next) ELSE h
           M == m.block
           r == IF prev # NULL /\ m.block[prev].available THEN Merge(m, prev, a) ELSE m
<1>1. MergeFree(h, a) = r
  BY DEF MergeFree
<1>2. /\ Shape(M, brk, m.last) /\ a \in DOMAIN M /\ M[a].available /\ M[a].prev = prev
      /\ Apart(M, a) /\ SameUsed(B, M)
      /\ \A y \in DOMAIN M : a + M[a].size = y => ~M[y].available
  <2>1. CASE next # NULL /\ B[next].available
    <3>1. m = Merge(h, a, next) /\ next \in DOMAIN B /\ a + B[a].size = next
      BY <2>1, NextIs
    <3>2. MergedInto(B, h.last, a, next, M, m.last)
      BY <3>1, MergeFields
    <3> HIDE DEF B, m, M, next
    <3>3. Shape(B, brk, h.last) /\ a \in DOMAIN B /\ B[a].available /\ Apart(B, a)
      BY DEF B
    <3>4. Shape(M, brk, m.last)
      BY <3>1, <3>2, <3>3, MergeShape
    <3>5. SameUsed(B, M)
      BY <2>1, <3>1, <3>2, <3>3, MergeUsed
    <3>6. /\ DOMAIN M = DOMAIN B \ {next} /\ a # next
          /\ \A b \in DOMAIN M :
               /\ M[b].available = B[b].available
               /\ M[b].size = IF b = a THEN B[a].size + B[next].size ELSE B[b].size
               /\ M[b].prev = IF b = B[next].next THEN a ELSE B[b].prev
      BY <3>2 DEF MergedInto
    <3>7. /\ a \in Nat /\ next \in Nat /\ B[a].size \in Nat /\ B[next].size \in Nat
          /\ B[a].size > 0 /\ B[next].size > 0
      BY <3>1, <3>3, HeapAssumption, SMTT(40) DEF Shape, Hdr
    <3>8. B[next].next # a
      BY <3>1, <3>3, <3>7, NextIs, HeapAssumption
    <3>9. a \in DOMAIN M /\ M[a].available /\ M[a].prev = prev
      BY <3>3, <3>6, <3>8 DEF prev
    <3>10. Apart(M, a)
      BY <3>3, <3>6 DEF Apart
    <3>11. ASSUME NEW y \in DOMAIN M, a + M[a].size = y
           PROVE  ~M[y].available
      <4>1. y \in DOMAIN B /\ next + B[next].size = y
        BY <3>1, <3>6, <3>7, <3>9, <3>11
      <4>2. y # a
        BY <4>1, <3>1, <3>7
      <4> QED
        BY <4>1, <4>2, <2>1, <3>1, <3>3, <3>6 DEF Apart
    <3> QED
      BY <3>4, <3>5, <3>9, <3>10, <3>11
  <2>2. CASE ~(next # NULL /\ B[next].available)
    <3>1. m = h /\ M = B
      BY <2>2
    <3>2. \A y \in DOMAIN B : a + B[a].size = y => ~B[y].available
      BY <2>2, NextIs
    <3>3. SameUsed(B, B)
      BY DEF SameUsed
    <3> QED
      BY <3>1, <3>2, <3>3
  <2> QED
    BY <2>1, <2>2
<1> HIDE DEF m, M
<1>3. Shape(r.block, brk, r.last) /\ NoPair(r.block) /\ SameUsed(B, r.block)
  <2>1. CASE prev # NULL /\ m.block[prev].available
    <3> DEFINE C == Merge(m, prev, a).block
               l == Merge(m, prev, a).last
    <3>1. r.block = C /\ r.last = l /\ M = m.block
      BY <2>1 DEF M
    <3>2. prev \in DOMAIN M /\ prev + M[prev].size = a
      BY <1>2, <2>1 DEF Shape
    <3>3. MergedInto(M, m.last, prev, a, C, l)
      BY <1>2, <3>1, <3>2, MergeFields
    <3> HIDE DEF C, l, B, prev, r
    <3>4. Shape(C, brk, l)
      BY <1>2, <3>2, <3>3, MergeShape
    <3>5. SameUsed(M, C)
      BY <1>2, <2>1, <3>1, <3>2, <3>3, MergeUsed
    <3>6. SameUsed(B, C)
      BY <1>2, <3>5, SameUsedTrans
    <3>7. /\ DOMAIN C = DOMAIN M \ {a} /\ a # prev
          /\ \A b \in DOMAIN C :
               /\ C[b].available = M[b].available
               /\ C[b].size = IF b = prev THEN M[prev].size + M[a].size ELSE M[b].size
      BY <3>3 DEF MergedInto
    <3>8. ASSUME NEW x \in DOMAIN C, NEW y \in DOMAIN C, x + C[x].size = y
          PROVE  ~(C[x].available /\ C[y].available)
      <4>1. CASE x = prev
        <5>1. prev \in Nat /\ M[prev].size \in Nat /\ M[a].size \in Nat /\ a \in Nat
          BY <1>2, <3>2 DEF Shape, Hdr
        <5>2. y = a + M[a].size
          BY <3>2, <3>7, <3>8, <4>1, <5>1
        <5> QED
          BY <5>2, <1>2, <3>7
      <4>2. CASE x # prev
        BY <4>2, <3>7, <3>8, <1>2 DEF Apart
      <4> QED
        BY <4>1, <4>2
    <3> QED
      BY <3>1, <3>4, <3>6, <3>8 DEF NoPair
  <2>2. CASE ~(prev # NULL /\ m.block[prev].available)
    <3>1. r = m /\ M = m.block
      BY <2>2 DEF M
    <3>2. ASSUME NEW x \in DOMAIN M, NEW y \in DOMAIN M, x + M[x].size = y
          PROVE  ~(M[x].available /\ M[y].available)
      <4>1. CASE x = a
        BY <4>1, <3>2, <1>2
      <4>2. CASE y = a
        <5>1. x = prev /\ prev # NULL
          BY <4>2, <3>2, <1>2, PrevUnique
        <5> QED
          BY <5>1, <2>2, <3>1
      <4>3. CASE x # a /\ y # a
        BY <4>3, <3>2, <1>2 DEF Apart
      <4> QED
        BY <4>1, <4>2, <4>3
    <3> QED
      BY <3>1, <3>2, <1>2 DEF NoPair
  <2> QED
    BY <2>1, <2>2
<1> QED
  BY <1>1, <1>3

-----------------------------------------------------------------------------
\* The last block is the one with the highest address; it ends at the break.
LEMMA LastMax ==
  ASSUME NEW B, NEW brk, NEW last, Shape(B, brk, last), NEW b \in DOMAIN B
  PROVE  /\ last \in DOMAIN B /\ last + B[last].size = brk /\ last \in Nat /\ last < brk
         /\ b <= last
         /\ B[b].next = NULL <=> b = last
<1>1. last \in DOMAIN B
  BY DEF Shape
<1>2. last + B[last].size = brk
  BY <1>1 DEF Shape
<1>3. /\ last \in Nat /\ b \in Nat /\ brk \in Nat /\ B[last].size \in Nat /\ B[b].size \in Nat
      /\ B[last].size > 0 /\ B[b].size > 0
  BY <1>1, HeapAssumption DEF Shape, Hdr
<1>4. b <= last
  <2>1. last < b => last + B[last].size <= b
    BY <1>1 DEF Shape
  <2>2. b + B[b].size <= brk
    BY DEF Shape
  <2> QED
    BY <2>1, <2>2, <1>2, <1>3
<1>5. B[b].next = NULL <=> b = last
  BY <1>2, <1>3, HeapAssumption DEF Shape
<1> QED
  BY <1>1, <1>2, <1>3, <1>4, <1>5

\* When no two free blocks are side by side at most the last one is dropped.
LEMMA TrailingIs ==
  ASSUME NEW h, NEW brk, Shape(h.block, brk, h.last), NoPair(h.block), NEW d \in Trailing(h)
  PROVE  d = h.last /\ h.last \in DOMAIN h.block /\ h.block[h.last].available
<1> DEFINE B == h.block
           l == h.last
           p == B[l].prev
<1>1. d \in DOMAIN B /\ \A b \in DOMAIN B : b >= d => B[b].available
  BY DEF Trailing
<1>2. l \in DOMAIN B /\ d <= l /\ l \in Nat /\ d \in Nat
  BY <1>1, LastMax DEF Shape
<1>3. B[l].available
  BY <1>1, <1>2
<1>4. ASSUME d # l
      PROVE  FALSE
  <2>1. l # 0 /\ d < l
    BY <1>2, <1>4
  <2>2. p \in DOMAIN B /\ p + B[p].size = l
    BY <1>2, <2>1 DEF Shape
  <2> HIDE DEF p, l, B
  <2>3. Shape(B, brk, l) /\ NoPair(B)
    BY DEF B, l
  <2>4. p \in Nat
    BY <2>2, <2>3 DEF Shape
  <2>5. p < d => l <= d
    BY <1>1, <2>2, <2>3 DEF Shape
  <2>6. B[p].available
    BY <1>1, <1>2, <2>1, <2>2, <2>4, <2>5
  <2> QED
    BY <2>2, <2>3, <2>6, <1>2, <1>3 DEF NoPair
<1> QED
  BY <1>2, <1>3, <1>4

\* The last loop of kfree() leaves a whole list that ends in a block in use.
LEMMA TrimResult ==
  ASSUME NEW h, Shape(h.block, kheap_break, h.last), NoPair(h.block)
  PROVE  LET t == Trim(h)
         IN /\ Shape(t.block, t.break, t.last) /\ NoPair(t.block) /\ SameUsed(h.block, t.block)
            /\ \A a \in DOMAIN t.block : t.block[a].next = NULL => ~t.block[a].available
            /\ t.break = kheap_break \/ t.break < kheap_break
<1> DEFINE B == h.block
           l == h.last
           t == Trim(h)
<1>1. CASE Trailing(h) = {}
  <2>1. t.block = B /\ t.last = l /\ t.break = kheap_break
    BY <1>1 DEF Trim
  <2>2. SameUsed(B, B)
    BY DEF SameUsed
  <2>3. ASSUME NEW a \in DOMAIN B, B[a].next = NULL, B[a].available
        PROVE  FALSE
    <3>1. a = l /\ \A b \in DOMAIN B : b <= a
      BY <2>3, LastMax
    <3>2. \A b \in DOMAIN B : b >= a => b = a
      BY <3>1 DEF Shape
    <3>3. a \in Trailing(h)
      BY <2>3, <3>2 DEF Trailing
    <3> QED
      BY <1>1, <3>3
  <2> QED
    BY <2>1, <2>2, <2>3
<1>2. CASE Trailing(h) # {}
  <2> DEFINE p == B[l].prev
             D == DOMAIN B \ {l}
             C == [b \in D |-> IF b = p THEN [B[b] EXCEPT !.next = NULL] ELSE B[b]]
  <2>1. l \in DOMAIN B /\ B[l].available /\ Trailing(h) = {l}
    BY <1>2, TrailingIs
  <2>2. Least(Trailing(h)) = l
    <3>1. {l} \in SUBSET Nat /\ {l} # {}
      BY <2>1 DEF Shape
    <3> QED
      BY <2>1, <3>1, LeastNat
  <2>3. t.block = C /\ t.last = p /\ t.break = l
    BY <1>2, <2>1, <2>2 DEF Trim, Without
  <2>4. Shape(B, kheap_break, l) /\ NoPair(B)
    OBVIOUS
  <2> HIDE DEF B, l, p, t
  <2>5. l \in Nat /\ l < kheap_break /\ kheap_break \in Nat /\ DOMAIN B \in SUBSET Nat /\ \A b \in DOMAIN B : b <= l
    <3>1. \A b \in DOMAIN B : b <= l
      BY <2>4, LastMax
    <3>2. l \in Nat /\ l < kheap_break
      BY <2>1, <2>4, LastMax
    <3> QED
      BY <3>1, <3>2, <2>4 DEF Shape
  <2>6. \A b \in D : /\ b \in DOMAIN B /\ b # l /\ b \in Nat /\ B[b] \in Hdr
                     /\ C[b] \in Hdr
                     /\ C[b].available = B[b].available
                     /\ C[b].size = B[b].size
                     /\ C[b].prev = B[b].prev
                     /\ C[b].next = IF b = p THEN NULL ELSE B[b].next
    <3> SUFFICES ASSUME NEW b \in D
                 PROVE  /\ b \in DOMAIN B /\ b # l /\ b \in Nat /\ B[b] \in Hdr
                        /\ C[b] \in Hdr
                        /\ C[b].available = B[b].available
                        /\ C[b].size = B[b].size
                        /\ C[b].prev = B[b].prev
                        /\ C[b].next = IF b = p THEN NULL ELSE B[b].next
      BY Zenon
    <3>1. b \in DOMAIN B /\ b # l /\ b \in Nat /\ B[b] \in Hdr
      BY <2>4, <2>5 DEF Shape
    <3>2. C[b] = IF b = p THEN [B[b] EXCEPT !.next = NULL] ELSE B[b]
      OBVIOUS
    <3> HIDE DEF C
    <3> QED
      BY <3>1, <3>2 DEF Hdr
  <2>7. DOMAIN C = D /\ C \in [D -> Hdr]
    BY <2>6
  <2> HIDE DEF C
  <2>8. /\ l = 0 => p = NULL /\ D = {}
        /\ l # 0 => p \in D /\ p + B[p].size = l /\ 0 \in D /\ p # NULL
    <3>1. CASE l = 0
      BY <3>1, <2>1, <2>4, <2>5 DEF Shape, p
    <3>2. CASE l # 0
      <4>1. p \in DOMAIN B /\ p + B[p].size = l /\ 0 \in DOMAIN B
        BY <3>2, <2>1, <2>4, <2>5 DEF Shape, p
      <4>2. p # l /\ p # NULL
        BY <4>1, <2>4, <2>5, HeapAssumption DEF Shape, Hdr
      <4> QED
        BY <4>1, <4>2, <3>2
    <3> QED
      BY <3>1, <3>2
  <2>9. ASSUME NEW a \in D
        PROVE  /\ a + B[a].size <= l
               /\ a + B[a].size = l <=> a = p
               /\ a + B[a].size # l => a + B[a].size \in D /\ B[a].next = a + B[a].size
                                        /\ B[a + B[a].size].prev = a
    <3>1. a \in DOMAIN B /\ a < l /\ B[a].size \in Nat /\ a \in Nat
      BY <2>5, <2>6 DEF Hdr
    <3>2. a + B[a].size <= l
      BY <3>1, <2>1, <2>4 DEF Shape
    <3>3. a + B[a].size = l => a = p
      BY <3>1, <2>1, <2>4, PrevUnique DEF p
    <3>4. a = p => a + B[a].size = l
      BY <2>8
    <3>5. a + B[a].size # kheap_break
      BY <3>1, <3>2, <2>5
    <3> QED
      BY <3>1, <3>2, <3>3, <3>4, <3>5, <2>4 DEF Shape
  <2>10. Shape(C, l, p)
    <3>1. ASSUME NEW a \in D
          PROVE  /\ C[a].size >= HEADER_SIZE
                 /\ a + C[a].size <= l
                 /\ a + C[a].size = l => C[a].next = NULL /\ p = a
                 /\ a + C[a].size # l =>
                      /\ a + C[a].size \in D
                      /\ C[a].next = a + C[a].size
                      /\ C[a + C[a].size].prev = a
                      /\ p # a
      BY <2>4, <2>6, <2>9 DEF Shape
    <3>2. ASSUME NEW a \in D
          PROVE  /\ a = 0 => C[a].prev = NULL
                 /\ a # 0 => C[a].prev \in D /\ C[a].prev + C[C[a].prev].size = a
      <4>1. CASE a = 0
        BY <4>1, <2>4, <2>6 DEF Shape
      <4>2. CASE a # 0
        <5>1. B[a].prev \in DOMAIN B /\ B[a].prev + B[B[a].prev].size = a
          BY <4>2, <2>4, <2>6 DEF Shape
        <5>2. B[a].prev # l
          BY <5>1, <2>4, <2>5, <2>6 DEF Shape, Hdr
        <5> QED
          BY <5>1, <5>2, <2>6, <4>2
      <4> QED
        BY <4>1, <4>2
    <3>3. ASSUME NEW a \in D, NEW b \in D, a < b
          PROVE  a + C[a].size <= b
      BY <2>4, <2>6, <3>3 DEF Shape
    <3>4. D \in SUBSET Nat
      BY <2>5
    <3>5. l > 0 => 0 \in D
      BY <2>5, <2>8
    <3>6. p \in D \cup {NULL} /\ (p = NULL => D = {})
      BY <2>8
    <3> HIDE DEF D
    <3> QED
      BY <2>5, <2>7, <3>1, <3>2, <3>3, <3>4, <3>5, <3>6 DEF Shape
  <2>11. NoPair(C)
    BY <2>4, <2>6, <2>7 DEF NoPair
  <2>12. SameUsed(B, C)
    <3> HIDE DEF D
    <3>1. \A b \in DOMAIN B : ~B[b].available => b \in D
      BY <2>1 DEF D
    <3> QED
      BY <2>6, <2>7, <3>1, Zenon DEF SameUsed
  <2>13. ASSUME NEW a \in DOMAIN C, C[a].next = NULL, C[a].available
         PROVE  FALSE
    <3>1. a = p
      BY <2>10, <2>13, LastMax
    <3>2. a \in DOMAIN B /\ a + B[a].size = l /\ B[a].available
      BY <3>1, <2>6, <2>7, <2>9, <2>13
    <3> QED
      BY <3>2, <2>1, <2>4 DEF NoPair
  <2> QED
    BY <2>3, <2>5, <2>10, <2>11, <2>12, <2>13 DEF B, t
<1> QED
  BY <1>1, <1>2

-----------------------------------------------------------------------------
\* C serves a request from block a of B: only a was taken, and it has n bytes
\* and no more than another header.
Taken(B, C, a, n) ==
  /\ a \in DOMAIN C /\ ~C[a].available /\ C[a].size >= n /\ C[a].size <= n + HEADER_SIZE
  /\ \A x \in DOMAIN B : ~B[x].available => x \in DOMAIN C /\ ~C[x].available /\ C[x].size = B[x].size
  /\ \A x \in DOMAIN C : ~C[x].available => x = a \/ (x \in DOMAIN B /\ ~B[x].available)

\* The last block is in use.
LastUsed(B) == \A a \in DOMAIN B : B[a].next = NULL => ~B[a].available

\* kmalloc() takes block a whole.
LEMMA TakeResult ==
  ASSUME NEW B, NEW brk, NEW last, Shape(B, brk, last), NoPair(B), LastUsed(B),
         NEW a \in DOMAIN B, NEW n \in Nat, B[a].size >= n, B[a].size <= n + HEADER_SIZE,
         NEW C, C = [B EXCEPT ![a].available = FALSE]
  PROVE  Shape(C, brk, last) /\ NoPair(C) /\ LastUsed(C) /\ Taken(B, C, a, n)
<1>1. DOMAIN B \in SUBSET Nat /\ B \in [DOMAIN B -> Hdr]
  BY DEF Shape
<1>2. DOMAIN C = DOMAIN B
  OBVIOUS
<1>3. \A b \in DOMAIN B : /\ C[b] \in Hdr
                          /\ C[b].available = IF b = a THEN FALSE ELSE B[b].available
                          /\ C[b].size = B[b].size
                          /\ C[b].prev = B[b].prev
                          /\ C[b].next = B[b].next
  BY <1>1 DEF Hdr
<1>4. C \in [DOMAIN B -> Hdr]
  BY <1>2, <1>3
<1>5. Shape(C, brk, last)
  BY <1>2, <1>3, <1>4 DEF Shape
<1>6. NoPair(C)
  BY <1>2, <1>3 DEF NoPair
<1>7. LastUsed(C)
  BY <1>2, <1>3 DEF LastUsed
<1>8. Taken(B, C, a, n)
  BY <1>2, <1>3 DEF Taken
<1> QED
  BY <1>5, <1>6, <1>7, <1>8

\* C is what crop() makes of B when block a keeps n bytes.
SplitInto(B, a, n, C) ==
  LET new == a + n
  IN /\ DOMAIN C = DOMAIN B \cup {new} /\ new \notin DOMAIN B
     /\ C \in [DOMAIN C -> Hdr]
     /\ ~C[a].available /\ C[a].size = n /\ C[a].next = new /\ C[a].prev = B[a].prev
     /\ C[new].available /\ C[new].size = B[a].size - n /\ C[new].next = B[a].next /\ C[new].prev = a
     /\ \A b \in DOMAIN B : b # a =>
          /\ C[b].available = B[b].available /\ C[b].size = B[b].size /\ C[b].next = B[b].next
          /\ C[b].prev = IF b = B[a].next THEN new ELSE B[b].prev

\* crop() keeps the list whole.
LEMMA SplitShape ==
  ASSUME NEW B, NEW brk, NEW last, Shape(B, brk, last), NEW a \in DOMAIN B, B[a].next # NULL,
         NEW n \in Nat, n >= HEADER_SIZE, B[a].size - n > HEADER_SIZE,
         NEW C, SplitInto(B, a, n, C)
  PROVE  Shape(C, brk, last)
<1> DEFINE new == a + n
           nx == B[a].next
<1>1. /\ DOMAIN C = DOMAIN B \cup {new} /\ new \notin DOMAIN B
      /\ C \in [DOMAIN C -> Hdr]
      /\ C[a].size = n /\ C[a].next = new /\ C[a].prev = B[a].prev
      /\ C[new].size = B[a].size - n /\ C[new].next = nx /\ C[new].prev = a
  BY DEF SplitInto
<1>2. \A b \in DOMAIN B : b # a =>
          /\ C[b].size = B[b].size /\ C[b].next = B[b].next
          /\ C[b].prev = IF b = nx THEN new ELSE B[b].prev
  BY DEF SplitInto
<1>3. /\ DOMAIN B \in SUBSET Nat /\ a \in Nat /\ brk \in Nat
      /\ \A b \in DOMAIN B : B[b].size \in Nat /\ B[b].size > 0 /\ B[b].size >= HEADER_SIZE
                              /\ b + B[b].size <= brk
  BY HeapAssumption, SMTT(40) DEF Shape, Hdr
<1>4. nx \in DOMAIN B /\ a + B[a].size = nx /\ nx # a /\ nx # NULL /\ nx < brk
  <2>1. nx \in DOMAIN B /\ a + B[a].size = nx
    BY NextIs
  <2> QED
    BY <2>1, <1>3, HeapAssumption
<1>5. new \in Nat /\ new > a /\ new + HEADER_SIZE < nx /\ new + C[new].size = nx
  BY <1>1, <1>3, <1>4, HeapAssumption
<1> HIDE DEF new, nx
<1>6. DOMAIN C \in SUBSET Nat /\ (brk > 0 => 0 \in DOMAIN C) /\ last \in DOMAIN C /\ last # a /\ last # new
  BY <1>1, <1>3, <1>4, <1>5, LastMax DEF Shape
<1>7. ASSUME NEW b \in DOMAIN B
      PROVE  /\ b < a => b + B[b].size <= a
             /\ a < b => nx <= b
  BY <1>4 DEF Shape
<1>8. ASSUME NEW b \in DOMAIN C
      PROVE  /\ C[b].size >= HEADER_SIZE
             /\ b + C[b].size <= brk
             /\ \A c \in DOMAIN C : b < c => b + C[b].size <= c
  <2>1. CASE b = new
    <3>1. C[b].size >= HEADER_SIZE /\ b + C[b].size <= brk
      BY <2>1, <1>1, <1>3, <1>4, <1>5, HeapAssumption
    <3>2. \A c \in DOMAIN C : b < c => b + C[b].size <= c
      BY <2>1, <1>1, <1>3, <1>5, <1>7
    <3> QED
      BY <3>1, <3>2
  <2>2. CASE b = a
    <3>1. C[b].size >= HEADER_SIZE /\ b + C[b].size <= brk
      BY <2>2, <1>1, <1>3, <1>4, <1>5, HeapAssumption DEF new
    <3>2. \A c \in DOMAIN C : b < c => b + C[b].size <= c
      BY <2>2, <1>1, <1>3, <1>5, <1>7, HeapAssumption DEF new
    <3> QED
      BY <3>1, <3>2
  <2>3. CASE b # a /\ b # new
    <3>1. b \in DOMAIN B /\ C[b].size = B[b].size
      BY <2>3, <1>1, <1>2
    <3>2. \A c \in DOMAIN B : b < c => b + B[b].size <= c
      BY <3>1 DEF Shape
    <3>3. b < new => b + B[b].size <= new
      <4>1. b \in Nat /\ nx \in Nat /\ B[b].size \in Nat /\ new < nx
        BY <3>1, <1>3, <1>4, <1>5, HeapAssumption
      <4>2. (b < a => b + B[b].size <= a) /\ (a < b => nx <= b)
        BY <3>1, <1>7
      <4> QED
        BY <4>1, <4>2, <2>3, <1>3, <1>5
    <3> QED
      BY <3>1, <3>2, <3>3, <1>1, <1>3
  <2> QED
    BY <2>1, <2>2, <2>3
<1>9. ASSUME NEW b \in DOMAIN C
      PROVE  /\ b + C[b].size = brk => C[b].next = NULL /\ last = b
             /\ b + C[b].size # brk =>
                  /\ b + C[b].size \in DOMAIN C
                  /\ C[b].next = b + C[b].size
                  /\ C[b + C[b].size].prev = b
                  /\ last # b
  <2>1. CASE b = new
    BY <2>1, <1>1, <1>2, <1>4, <1>5, <1>6
  <2>2. CASE b = a
    <3>1. b + C[b].size = new
      BY <2>2, <1>1 DEF new
    <3>2. nx \in Nat /\ new < nx /\ new # brk
      BY <1>3, <1>4, <1>5, HeapAssumption
    <3> QED
      BY <2>2, <3>1, <3>2, <1>1, <1>6
  <2>3. CASE b # a /\ b # new
    <3>1. b \in DOMAIN B /\ C[b].size = B[b].size /\ C[b].next = B[b].next
      BY <2>3, <1>1, <1>2
    <3>2. CASE b + B[b].size = brk
      BY <3>1, <3>2 DEF Shape
    <3>3. CASE b + B[b].size # brk
      <4>1. b + B[b].size \in DOMAIN B /\ B[b].next = b + B[b].size /\ B[b + B[b].size].prev = b /\ last # b
        BY <3>1, <3>3 DEF Shape
      <4>2. b + B[b].size # nx
        BY <3>1, <2>3, <1>4, PrevUnique
      <4>3. C[b + B[b].size].prev = b
        BY <4>1, <4>2, <1>1, <1>2
      <4> QED
        BY <3>1, <4>1, <4>3, <3>3, <1>1
    <3> QED
      BY <3>2, <3>3
  <2> QED
    BY <2>1, <2>2, <2>3
<1>10. ASSUME NEW b \in DOMAIN C
       PROVE  /\ b = 0 => C[b].prev = NULL
              /\ b # 0 => C[b].prev \in DOMAIN C /\ C[b].prev + C[C[b].prev].size = b
  <2>1. CASE b = new
    BY <2>1, <1>1, <1>3, <1>5 DEF new
  <2>2. CASE b = nx
    <3>1. C[b].prev = new /\ b # 0
      BY <2>2, <1>1, <1>2, <1>3, <1>4
    <3> QED
      BY <2>2, <3>1, <1>1, <1>5
  <2>3. CASE b # nx /\ b # new
    <3>1. b \in DOMAIN B /\ C[b].prev = B[b].prev
      BY <2>3, <1>1, <1>2
    <3>2. CASE b = 0
      BY <3>1, <3>2 DEF Shape
    <3>3. CASE b # 0
      <4>1. B[b].prev \in DOMAIN B /\ B[b].prev + B[B[b].prev].size = b
        BY <3>1, <3>3 DEF Shape
      <4>2. B[b].prev # a
        BY <4>1, <2>3, <1>4
      <4> QED
        BY <3>1, <3>3, <4>1, <4>2, <1>1, <1>2
    <3> QED
      BY <3>2, <3>3
  <2> QED
    BY <2>1, <2>2, <2>3
<1> QED
  BY <1>1, <1>3, <1>6, <1>8, <1>9, <1>10, HeapAssumption DEF Shape

\* kmalloc() crops the free block a.
LEMMA SplitResult ==
  ASSUME NEW B, NEW brk, NEW last, Shape(B, brk, last), NoPair(B), LastUsed(B),
         NEW a \in DOMAIN B, B[a].available,
         NEW n \in Nat, n >= HEADER_SIZE, B[a].size - n > HEADER_SIZE,
         NEW C, SplitInto(B, a, n, C)
  PROVE  Shape(C, brk, last) /\ NoPair(C) /\ LastUsed(C) /\ Taken(B, C, a, n)
<1> DEFINE new == a + n
           nx == B[a].next
<1>1. B[a].next # NULL
  BY DEF LastUsed
<1>2. Shape(C, brk, last)
  BY <1>1, SplitShape
<1>3. nx \in DOMAIN B /\ a + B[a].size = nx
  BY <1>1, NextIs
<1>4. ~B[nx].available
  BY <1>3 DEF NoPair
<1>5. /\ DOMAIN C = DOMAIN B \cup {new} /\ new \notin DOMAIN B /\ a \in DOMAIN C
      /\ ~C[a].available /\ C[a].size = n
      /\ C[new].available /\ C[new].size = B[a].size - n /\ C[new].next = nx
      /\ \A b \in DOMAIN B : b # a =>
          C[b].available = B[b].available /\ C[b].size = B[b].size /\ C[b].next = B[b].next
  BY DEF SplitInto
<1>6. /\ a \in Nat /\ B[a].size \in Nat /\ nx # a /\ new + C[new].size = nx
      /\ n <= n + HEADER_SIZE
  <2>1. a \in Nat /\ B[a].size \in Nat /\ B[a].size > 0
    BY HeapAssumption DEF Shape, Hdr
  <2> QED
    BY <2>1, <1>3, <1>5, HeapAssumption
<1> HIDE DEF new, nx
<1>7. ASSUME NEW x \in DOMAIN C, NEW y \in DOMAIN C, x + C[x].size = y, C[x].available, C[y].available
      PROVE  FALSE
  <2>1. CASE x = new
    <3>1. y = nx /\ ~C[nx].available
      BY <2>1, <1>3, <1>4, <1>5, <1>6, <1>7
    <3> QED
      BY <3>1, <1>7
  <2>2. CASE y = new
    <3>1. x = a
      <4>1. x = C[new].prev
        BY <2>2, <1>2, <1>7, PrevUnique
      <4>2. C[new].prev = a
        BY DEF SplitInto, new
      <4> QED
        BY <4>1, <4>2
    <3> QED
      BY <3>1, <1>5, <1>7
  <2>3. CASE x # new /\ y # new
    BY <2>3, <1>5, <1>7 DEF NoPair
  <2> QED
    BY <2>1, <2>2, <2>3
<1>8. ASSUME NEW x \in DOMAIN C, C[x].next = NULL, C[x].available
      PROVE  FALSE
  <2>1. x # new /\ x # a
    BY <1>1, <1>5, <1>8 DEF nx
  <2> QED
    BY <2>1, <1>5, <1>8 DEF LastUsed
<1>9. Taken(B, C, a, n)
  BY <1>5, <1>6 DEF Taken
<1> QED
  BY <1>2, <1>7, <1>8, <1>9 DEF NoPair, LastUsed

\* crop() field by field.
LEMMA CropResult ==
  ASSUME Shape(block, kheap_break, heap_last), NoPair(block), LastUsed(block),
         NEW a \in DOMAIN block, block[a].available,
         NEW n \in Nat, n >= HEADER_SIZE, block[a].size >= n
  PROVE  LET c == Crop(a, n)
         IN /\ Shape(c.block, kheap_break, c.last) /\ NoPair(c.block) /\ LastUsed(c.block)
            /\ Taken(block, c.block, a, n)
<1> DEFINE B == block
           next == B[a].next
           new == a + n
           cut == [B EXCEPT ![a].available = FALSE, ![a].size = n, ![a].next = new]
           tie == [b \in DOMAIN cut |-> IF b = next THEN [cut[b] EXCEPT !.prev = new] ELSE cut[b]]
           rest == [available |-> TRUE, prev |-> a, next |-> next, size |-> B[a].size - n]
           C == [b \in DOMAIN tie \cup {new} |-> IF b = new THEN rest ELSE tie[b]]
           c == Crop(a, n)
<1>1. B[a].size \in Nat /\ a \in Nat /\ DOMAIN B \in SUBSET Nat /\ B \in [DOMAIN B -> Hdr]
  BY DEF Shape, Hdr
<1>2. CASE B[a].size - n <= HEADER_SIZE
  <2>1. c.block = [B EXCEPT ![a].available = FALSE] /\ c.last = heap_last
    BY <1>2 DEF Crop
  <2>2. B[a].size <= n + HEADER_SIZE
    BY <1>1, <1>2, HeapAssumption
  <2> QED
    BY <2>1, <2>2, TakeResult
<1>3. CASE B[a].size - n > HEADER_SIZE
  <2>1. ~(B[a].size - n <= HEADER_SIZE)
    BY <1>1, <1>3, HeapAssumption
  <2>2. c.block = C /\ c.last = IF next = NULL THEN new ELSE heap_last
    BY <2>1 DEF Crop, With
  <2>3. next # NULL
    BY DEF LastUsed
  <2>4. next \in DOMAIN B /\ a + B[a].size = next
    BY <2>3, NextIs
  <2> HIDE DEF B, next, new, c
  <2>5. new \in Nat /\ new # a /\ new \notin DOMAIN B /\ new < next /\ next # a /\ next # new
    <3>1. new \in Nat /\ new > a /\ new < a + B[a].size
      BY <1>1, <1>3, HeapAssumption DEF new
    <3>2. new \in DOMAIN B => a + B[a].size <= new
      BY <3>1 DEF Shape, B
    <3> QED
      BY <3>1, <3>2, <2>4, <1>1
  <2>6. a \in DOMAIN B /\ DOMAIN cut = DOMAIN B /\ DOMAIN tie = DOMAIN B /\ DOMAIN C = DOMAIN B \cup {new}
    BY DEF B
  <2>7. ASSUME NEW b \in DOMAIN B
        PROVE  /\ cut[b] \in Hdr
               /\ cut[b].prev = B[b].prev
               /\ b = a => ~cut[b].available /\ cut[b].size = n /\ cut[b].next = new
               /\ b # a => cut[b].available = B[b].available /\ cut[b].size = B[b].size /\ cut[b].next = B[b].next
    <3>1. B[b] \in Hdr
      BY <1>1
    <3>2. CASE b = a
      <4>1. cut[b] = [available |-> FALSE, prev |-> B[a].prev, next |-> new, size |-> n]
        BY <3>1, <3>2, <1>1, <2>6 DEF Hdr
      <4> HIDE DEF cut
      <4> QED
        BY <3>1, <3>2, <4>1, <2>5 DEF Hdr
    <3>3. CASE b # a
      <4>1. cut[b] = B[b]
        BY <3>3, <1>1, <2>6
      <4> QED
        BY <3>1, <3>3, <4>1
    <3> QED
      BY <3>2, <3>3
  <2> HIDE DEF cut
  <2>8. ASSUME NEW b \in DOMAIN B
        PROVE  /\ tie[b] \in Hdr
               /\ tie[b].available = cut[b].available
               /\ tie[b].size = cut[b].size
               /\ tie[b].next = cut[b].next
               /\ tie[b].prev = IF b = next THEN new ELSE cut[b].prev
    <3>1. tie[b] = IF b = next THEN [cut[b] EXCEPT !.prev = new] ELSE cut[b]
      BY <2>6
    <3> HIDE DEF tie
    <3>2. cut[b] \in Hdr
      BY <2>7
    <3> QED
      BY <3>1, <3>2, <2>5 DEF Hdr
  <2> HIDE DEF tie
  <2>9. rest \in Hdr
    BY <1>1, <1>3, <2>4, HeapAssumption DEF Hdr
  <2>10. C[new] = rest /\ \A b \in DOMAIN B : C[b] = tie[b]
    BY <2>5, <2>6
  <2>11. C \in [DOMAIN C -> Hdr]
    BY <2>6, <2>8, <2>9
  <2>12. C[new].available /\ C[new].size = B[a].size - n /\ C[new].next = next /\ C[new].prev = a
    BY <2>10
  <2> HIDE DEF C, rest
  <2>13. SplitInto(B, a, n, C)
    <3>1. ~C[a].available /\ C[a].size = n /\ C[a].next = new /\ C[a].prev = B[a].prev
      BY <2>5, <2>6, <2>7, <2>8, <2>10
    <3>2. ASSUME NEW b \in DOMAIN B, b # a
          PROVE  /\ C[b].available = B[b].available /\ C[b].size = B[b].size /\ C[b].next = B[b].next
                 /\ C[b].prev = IF b = B[a].next THEN new ELSE B[b].prev
      BY <2>7, <2>8, <2>10, <3>2 DEF next
    <3> QED
      BY <2>5, <2>6, <2>11, <2>12, <3>1, <3>2 DEF SplitInto, new, next
  <2>14. Shape(C, kheap_break, heap_last) /\ NoPair(C) /\ LastUsed(C) /\ Taken(B, C, a, n)
    BY <1>3, <2>6, <2>13, SplitResult DEF B
  <2> QED
    BY <2>2, <2>3, <2>14 DEF c, B
<1> QED
  BY <1>1, <1>2, <1>3, HeapAssumption

\* C is B with a block of n bytes appended.
Appended(B, brk, last, n, C) ==
  /\ DOMAIN C = DOMAIN B \cup {brk}
  /\ C \in [DOMAIN C -> Hdr]
  /\ ~C[brk].available /\ C[brk].prev = last /\ C[brk].next = NULL /\ C[brk].size = n
  /\ \A b \in DOMAIN B :
       /\ C[b].available = B[b].available
       /\ C[b].size = B[b].size
       /\ C[b].prev = B[b].prev
       /\ C[b].next = IF b = last THEN brk ELSE B[b].next

\* A block lies below the break.
LEMMA BelowBreak ==
  ASSUME NEW B, NEW brk, NEW last, Shape(B, brk, last)
  PROVE  /\ brk \in Nat /\ DOMAIN B \in SUBSET Nat
         /\ \A b \in DOMAIN B : /\ B[b] \in Hdr /\ B[b].size \in Nat /\ B[b].size >= HEADER_SIZE
                                /\ b + B[b].size <= brk /\ b < brk
<1>1. brk \in Nat /\ DOMAIN B \in SUBSET Nat
  BY DEF Shape
<1>2. ASSUME NEW b \in DOMAIN B
      PROVE  B[b] \in Hdr /\ B[b].size \in Nat /\ B[b].size >= HEADER_SIZE /\ b + B[b].size <= brk
  BY DEF Shape, Hdr
<1> QED
  BY <1>1, <1>2, HeapAssumption

\* The new header of kmalloc(), field by field.
LEMMA AppendFields ==
  ASSUME NEW B, NEW brk, NEW last, Shape(B, brk, last), NEW n \in Nat,
         NEW tied, tied = [b \in DOMAIN B |-> IF b = last THEN [B[b] EXCEPT !.next = brk] ELSE B[b]]
  PROVE  Appended(B, brk, last, n,
                  With(tied, brk, [available |-> FALSE, prev |-> last, next |-> NULL, size |-> n]))
<1> DEFINE new == [available |-> FALSE, prev |-> last, next |-> NULL, size |-> n]
           C == With(tied, brk, new)
<1>1. brk \in Nat /\ DOMAIN B \in SUBSET Nat /\ \A b \in DOMAIN B : B[b] \in Hdr /\ b < brk
  BY BelowBreak
<1>2. brk \notin DOMAIN B /\ last \in DOMAIN B \cup {NULL}
  BY <1>1 DEF Shape
<1>3. DOMAIN tied = DOMAIN B /\ DOMAIN C = DOMAIN B \cup {brk} /\ C[brk] = new
      /\ \A b \in DOMAIN B : C[b] = tied[b]
  BY <1>2 DEF With
<1>4. ASSUME NEW b \in DOMAIN B
      PROVE  /\ C[b] \in Hdr
             /\ C[b].available = B[b].available
             /\ C[b].size = B[b].size
             /\ C[b].prev = B[b].prev
             /\ C[b].next = IF b = last THEN brk ELSE B[b].next
  <2>1. C[b] = IF b = last THEN [B[b] EXCEPT !.next = brk] ELSE B[b]
    BY <1>3
  <2>2. B[b] \in Hdr
    BY <1>1
  <2> HIDE DEF C
  <2> QED
    BY <2>1, <2>2, <1>1 DEF Hdr
<1>5. new \in Hdr
  BY <1>1, <1>2 DEF Hdr
<1>6. ~C[brk].available /\ C[brk].prev = last /\ C[brk].next = NULL /\ C[brk].size = n
  BY <1>3
<1>7. C \in [DOMAIN C -> Hdr]
  <2>1. \A b \in DOMAIN C : C[b] \in Hdr
    BY <1>3, <1>4, <1>5
  <2>2. C = [b \in DOMAIN C |-> C[b]]
    BY DEF With
  <2> QED
    BY <2>1, <2>2
<1> HIDE DEF C, new
<1>8. Appended(B, brk, last, n, C)
  BY <1>3, <1>4, <1>6, <1>7 DEF Appended
<1> QED
  BY <1>8 DEF C, new

\* kmalloc() appends a block at the break.
LEMMA GrowResult ==
  ASSUME NEW B, NEW brk, NEW last, Shape(B, brk, last), NoPair(B), LastUsed(B),
         NEW n \in Nat, n >= HEADER_SIZE, NEW C, Appended(B, brk, last, n, C)
  PROVE  Shape(C, brk + n, brk) /\ NoPair(C) /\ LastUsed(C) /\ Taken(B, C, brk, n)
<1>1. /\ brk \in Nat /\ DOMAIN B \in SUBSET Nat
      /\ \A b \in DOMAIN B : /\ B[b] \in Hdr /\ B[b].size \in Nat /\ B[b].size >= HEADER_SIZE
                             /\ b + B[b].size <= brk /\ b < brk
  BY BelowBreak
<1>2. brk \notin DOMAIN B /\ last \in DOMAIN B \cup {NULL} /\ (last = NULL => DOMAIN B = {})
  BY <1>1 DEF Shape
<1>3. DOMAIN C = DOMAIN B \cup {brk}
  BY DEF Appended
<1>4. \A b \in DOMAIN B :
             /\ C[b].available = B[b].available
             /\ C[b].size = B[b].size
             /\ C[b].prev = B[b].prev
             /\ C[b].next = IF b = last THEN brk ELSE B[b].next
  BY DEF Appended
<1>5. C \in [DOMAIN C -> Hdr]
  BY DEF Appended
<1>6. ~C[brk].available /\ C[brk].prev = last /\ C[brk].next = NULL /\ C[brk].size = n
  BY DEF Appended
<1>8. ASSUME NEW b \in DOMAIN B
      PROVE  /\ last \in DOMAIN B /\ last + B[last].size = brk
             /\ b + B[b].size = brk <=> b = last
             /\ b + B[b].size # brk =>
                  b + B[b].size \in DOMAIN B /\ B[b].next = b + B[b].size /\ B[b + B[b].size].prev = b
             /\ 0 \in DOMAIN B /\ brk # 0
  <2>1. last \in DOMAIN B /\ last + B[last].size = brk
    BY LastMax
  <2>2. brk > 0
    BY <1>1
  <2> QED
    BY <2>1, <2>2 DEF Shape
<1>9. brk + n \in Nat /\ brk + n > brk
  BY <1>1, HeapAssumption
<1>10. ASSUME NEW b \in DOMAIN B
       PROVE  /\ C[b].size >= HEADER_SIZE
              /\ b + C[b].size <= brk + n
              /\ b + C[b].size # brk + n
              /\ b + C[b].size \in DOMAIN C
              /\ C[b].next = b + C[b].size
              /\ C[b + C[b].size].prev = b
              /\ brk # b
              /\ b = 0 => C[b].prev = NULL
              /\ b # 0 => C[b].prev \in DOMAIN C /\ C[b].prev + C[C[b].prev].size = b
              /\ \A c \in DOMAIN C : b < c => b + C[b].size <= c
  <2>1. C[b].size >= HEADER_SIZE /\ b + C[b].size <= brk + n /\ b + C[b].size # brk + n /\ brk # b
    BY <1>1, <1>4, <1>9
  <2>2. b + C[b].size \in DOMAIN C /\ C[b].next = b + C[b].size /\ C[b + C[b].size].prev = b
    <3>1. CASE b = last
      BY <3>1, <1>3, <1>4, <1>6, <1>8
    <3>2. CASE b # last
      BY <3>2, <1>3, <1>4, <1>8
    <3> QED
      BY <3>1, <3>2
  <2>3. b = 0 => C[b].prev = NULL
    BY <1>4 DEF Shape
  <2>4. b # 0 => C[b].prev \in DOMAIN C /\ C[b].prev + C[C[b].prev].size = b
    BY <1>3, <1>4 DEF Shape
  <2>5. \A c \in DOMAIN C : b < c => b + C[b].size <= c
    <3>1. \A c \in DOMAIN B : b < c => b + B[b].size <= c
      BY DEF Shape
    <3> QED
      BY <3>1, <1>1, <1>3, <1>4
  <2> QED
    BY <2>1, <2>2, <2>3, <2>4, <2>5
<1>11. /\ C[brk].size >= HEADER_SIZE /\ brk + C[brk].size = brk + n
       /\ brk = 0 => C[brk].prev = NULL
       /\ brk # 0 => C[brk].prev \in DOMAIN C /\ C[brk].prev + C[C[brk].prev].size = brk
       /\ \A c \in DOMAIN C : ~(brk < c)
  <2>1. CASE DOMAIN B = {}
    <3>1. brk = 0 /\ last = NULL
      BY <2>1, <1>1, <1>2 DEF Shape
    <3> QED
      BY <2>1, <3>1, <1>3, <1>6
  <2>2. CASE DOMAIN B # {}
    BY <2>2, <1>1, <1>3, <1>4, <1>6, <1>8
  <2> QED
    BY <2>1, <2>2
<1>12. Shape(C, brk + n, brk)
  <2>1. DOMAIN C \in SUBSET Nat /\ brk \in DOMAIN C /\ brk # NULL
    BY <1>1, <1>3, HeapAssumption
  <2>2. 0 \in DOMAIN C
    BY <1>1, <1>3 DEF Shape
  <2>3. \A b \in DOMAIN C : b = brk \/ b \in DOMAIN B
    BY <1>3
  <2> QED
    BY <2>1, <2>2, <2>3, <1>5, <1>6, <1>9, <1>10, <1>11 DEF Shape
<1>13. NoPair(C)
  BY <1>3, <1>4, <1>6 DEF NoPair
<1>14. LastUsed(C)
  BY <1>6, <1>12, LastMax DEF LastUsed
<1>15. Taken(B, C, brk, n)
  <2>1. n <= n + HEADER_SIZE /\ n >= n
    BY HeapAssumption
  <2> QED
    BY <2>1, <1>3, <1>4, <1>6 DEF Taken
<1> QED
  BY <1>12, <1>13, <1>14, <1>15

-----------------------------------------------------------------------------
\* Pages and addresses.
LEMMA DivMod ==
  ASSUME NEW b \in Nat, NEW n \in Nat \ {0}
  PROVE  b = (b \div n) * n + (b % n) /\ b \div n \in Nat /\ b % n \in 0 .. n - 1
  BY Z3

LEMMA Multiples ==
  ASSUME NEW q \in Nat, NEW r \in Nat, NEW n \in Nat \ {0}, q < r
  PROVE  r * n >= q * n + n /\ q * n \in Nat /\ r * n \in Nat
<1>1. r * n = (r - q) * n + q * n
  BY Z3
<1>2. (r - q) * n >= n
  BY Z3
<1>3. q * n \in Nat /\ r * n \in Nat
  BY Z3
<1> QED
  BY <1>1, <1>2, <1>3, Z3

\* A page is among those up to the one of address b exactly if it starts at or
\* before b.
LEMMA PageUpTo ==
  ASSUME NEW p \in Nat, NEW b \in Nat
  PROVE  p <= b \div PAGE_SIZE <=> p * PAGE_SIZE <= b
<1> DEFINE q == b \div PAGE_SIZE
           r == b % PAGE_SIZE
<1>1. b = q * PAGE_SIZE + r /\ q \in Nat /\ r \in 0 .. PAGE_SIZE - 1
  BY HeapAssumption, DivMod
<1> HIDE DEF q, r
<1>2. q * PAGE_SIZE \in Nat /\ p * PAGE_SIZE \in Nat
  BY <1>1, HeapAssumption
<1>3. CASE p < q
  BY <1>1, <1>2, <1>3, Multiples, HeapAssumption DEF q
<1>4. CASE q < p
  BY <1>1, <1>2, <1>4, Multiples, HeapAssumption DEF q
<1>5. CASE p = q
  BY <1>1, <1>2, <1>5 DEF q
<1> QED
  BY <1>1, <1>3, <1>4, <1>5

\* A page is among those from PageAfter(b) on exactly if it starts at or after b.
LEMMA PageFrom ==
  ASSUME NEW p \in Nat, NEW b \in Nat
  PROVE  PageAfter(b) <= p <=> b <= p * PAGE_SIZE
<1> DEFINE q == PageAfter(b)
           r == (b + PAGE_SIZE - 1) % PAGE_SIZE
<1>1. b + PAGE_SIZE - 1 \in Nat /\ PAGE_SIZE \in Nat \ {0}
  BY HeapAssumption
<1>2. b + PAGE_SIZE - 1 = q * PAGE_SIZE + r /\ q \in Nat /\ r \in 0 .. PAGE_SIZE - 1
  BY <1>1, DivMod DEF PageAfter
<1> HIDE DEF q, r
<1>3. q * PAGE_SIZE \in Nat /\ p * PAGE_SIZE \in Nat
  BY <1>1, <1>2
<1>4. CASE p < q
  <2>1. q * PAGE_SIZE >= p * PAGE_SIZE + PAGE_SIZE
    BY <1>1, <1>2, <1>4, Multiples
  <2> QED
    BY <2>1, <1>1, <1>2, <1>3, <1>4 DEF q
<1>5. CASE q < p
  <2>1. p * PAGE_SIZE >= q * PAGE_SIZE + PAGE_SIZE
    BY <1>1, <1>2, <1>5, Multiples
  <2> QED
    BY <2>1, <1>1, <1>2, <1>3, <1>5 DEF q
<1>6. CASE p = q
  BY <1>1, <1>2, <1>3, <1>6 DEF q
<1> QED
  BY <1>2, <1>4, <1>5, <1>6

-----------------------------------------------------------------------------
\* The pages that are mapped reach up to the break, and not beyond its page.
Pages(map, brk) ==
  /\ map \in SUBSET Nat
  /\ \A p \in map : p * PAGE_SIZE <= brk
  /\ \A p \in Nat : p * PAGE_SIZE < brk => p \in map
  /\ brk = 0 => map = {}

\* kbrk() moves the pages with the break.
LEMMA KbrkPages ==
  ASSUME kheap_break \in Nat, Pages(mapped, kheap_break), NEW new \in Nat, new # kheap_break
  PROVE  Pages(Kbrk(kheap_break, new), new)
<1> DEFINE old == kheap_break
           after(b) == PageAfter(b)
           upto(b) == b \div PAGE_SIZE
<1>1. \A p \in Nat : p * PAGE_SIZE \in Nat
  BY HeapAssumption
<1>2. \A b \in Nat : PageAfter(b) \in Nat /\ b \div PAGE_SIZE \in Nat
  <2>1. \A b \in Nat : b + PAGE_SIZE - 1 \in Nat /\ PAGE_SIZE \in Nat \ {0}
    BY HeapAssumption
  <2> QED
    BY <2>1, DivMod, HeapAssumption DEF PageAfter
<1>3. /\ mapped \in SUBSET Nat
      /\ \A p \in mapped : p * PAGE_SIZE <= old
      /\ \A p \in Nat : p * PAGE_SIZE < old => p \in mapped
  BY DEF Pages
<1>4. CASE new < old
  <2>1. Kbrk(old, new) = mapped \ (after(new) .. upto(old))
    BY <1>4 DEF Kbrk
  <2>2. ASSUME NEW p \in mapped
        PROVE  p \in after(new) .. upto(old) <=> new <= p * PAGE_SIZE
    <3>1. p \in Nat /\ p * PAGE_SIZE <= old
      BY <1>3
    <3>2. p <= upto(old) /\ (after(new) <= p <=> new <= p * PAGE_SIZE)
      BY <3>1, PageUpTo, PageFrom
    <3>3. after(new) \in Nat /\ upto(old) \in Nat
      BY <1>2
    <3> HIDE DEF after, upto
    <3> QED
      BY <3>1, <3>2, <3>3
  <2> HIDE DEF after, upto
  <2>3. \A p \in Kbrk(old, new) : p \in Nat /\ p * PAGE_SIZE < new
    <3> SUFFICES ASSUME NEW p \in Kbrk(old, new)
                 PROVE  p \in Nat /\ p * PAGE_SIZE < new
      OBVIOUS
    <3>1. p \in mapped /\ ~(new <= p * PAGE_SIZE)
      BY <2>1, <2>2
    <3>2. p \in Nat /\ p * PAGE_SIZE \in Nat
      BY <3>1, <1>1, <1>3
    <3> QED
      BY <3>1, <3>2
  <2>4. \A p \in Nat : p * PAGE_SIZE < new => p \in Kbrk(old, new)
    <3> SUFFICES ASSUME NEW p \in Nat, p * PAGE_SIZE < new
                 PROVE  p \in Kbrk(old, new)
      OBVIOUS
    <3>1. p \in mapped
      BY <1>1, <1>3, <1>4
    <3> QED
      BY <3>1, <2>1, <2>2, <1>1
  <2>5. new = 0 => Kbrk(old, new) = {}
    BY <2>3, <1>1
  <2>6. \A p \in Kbrk(old, new) : p * PAGE_SIZE <= new
    BY <2>3, <1>1
  <2> QED
    BY <2>3, <2>4, <2>5, <2>6 DEF Pages
<1>5. CASE old < new
  <2>1. Kbrk(old, new) = mapped \cup (after(old) .. upto(new))
    BY <1>5 DEF Kbrk
  <2>2. ASSUME NEW p \in Nat
        PROVE  p \in after(old) .. upto(new) <=> old <= p * PAGE_SIZE /\ p * PAGE_SIZE <= new
    <3>1. (p <= upto(new) <=> p * PAGE_SIZE <= new) /\ (after(old) <= p <=> old <= p * PAGE_SIZE)
      BY PageUpTo, PageFrom
    <3>2. after(old) \in Nat /\ upto(new) \in Nat
      BY <1>2
    <3> HIDE DEF after, upto
    <3> QED
      BY <3>1, <3>2
  <2>3. \A p \in after(old) .. upto(new) : p \in Nat
    BY <1>2
  <2> HIDE DEF after, upto
  <2>4. Kbrk(old, new) \in SUBSET Nat
    BY <2>1, <2>3, <1>3
  <2>5. \A p \in Kbrk(old, new) : p * PAGE_SIZE <= new
    <3> SUFFICES ASSUME NEW p \in Kbrk(old, new)
                 PROVE  p * PAGE_SIZE <= new
      OBVIOUS
    <3>1. CASE p \in mapped
      <4>1. p * PAGE_SIZE \in Nat /\ p * PAGE_SIZE <= old
        BY <3>1, <1>1, <1>3
      <4> QED
        BY <4>1, <1>5
    <3>2. CASE p \in after(old) .. upto(new)
      BY <3>2, <2>2, <2>3
    <3> QED
      BY <3>1, <3>2, <2>1
  <2>6. \A p \in Nat : p * PAGE_SIZE < new => p \in Kbrk(old, new)
    BY <2>1, <2>2, <1>1, <1>3, <1>5
  <2>7. new # 0
    BY <1>5
  <2> QED
    BY <2>4, <2>5, <2>6, <2>7 DEF Pages
<1> QED
  BY <1>4, <1>5

\* F is B with block a marked available.
FreedInto(B, a, F) ==
  /\ DOMAIN F = DOMAIN B /\ F[a].available
  /\ \A b \in DOMAIN B : F[b].size = B[b].size /\ (b # a => F[b].available = B[b].available)

\* The block that kfree() marks: the list is whole, and only its own neighbours
\* can be free beside it.
LEMMA FreedBlock ==
  ASSUME NEW B, NEW brk, NEW last, Shape(B, brk, last), NoPair(B), NEW a \in DOMAIN B,
         NEW F, F = [B EXCEPT ![a].available = TRUE]
  PROVE  Shape(F, brk, last) /\ Apart(F, a) /\ FreedInto(B, a, F)
<1>1. B \in [DOMAIN B -> Hdr]
  BY DEF Shape
<1>2. DOMAIN F = DOMAIN B
  OBVIOUS
<1>3. \A b \in DOMAIN B : /\ F[b] \in Hdr
                          /\ F[b].available = IF b = a THEN TRUE ELSE B[b].available
                          /\ F[b].size = B[b].size
                          /\ F[b].prev = B[b].prev
                          /\ F[b].next = B[b].next
  BY <1>1 DEF Hdr
<1>4. F \in [DOMAIN B -> Hdr]
  BY <1>2, <1>3
<1>5. Shape(F, brk, last)
  BY <1>2, <1>3, <1>4 DEF Shape
<1>6. Apart(F, a)
  BY <1>2, <1>3 DEF Apart, NoPair
<1>7. FreedInto(B, a, F)
  BY <1>2, <1>3 DEF FreedInto
<1> QED
  BY <1>5, <1>6, <1>7

-----------------------------------------------------------------------------
\* The inductive invariant: the list is the heap, what kfree() promises about
\* free blocks, what kmalloc() promises about the others, and the pages.
HeapInv ==
  /\ Shape(block, kheap_break, heap_last)
  /\ NoPair(block)
  /\ LastUsed(block)
  /\ heap_start = IF DOMAIN block = {} THEN NULL ELSE 0
  /\ Served
  /\ \A a \in DOMAIN wanted : wanted[a] \in Nat
  /\ Pages(mapped, kheap_break)

LEMMA HeapInit == Init => HeapInv
<1> SUFFICES ASSUME Init PROVE HeapInv
  OBVIOUS
<1> USE DEF Init
<1>1. DOMAIN block = {} /\ DOMAIN wanted = {}
  OBVIOUS
<1>2. Shape(block, kheap_break, heap_last)
  <2>1. block \in [DOMAIN block -> Hdr]
    BY <1>1
  <2> QED
    BY <1>1, <2>1 DEF Shape
<1>3. NoPair(block) /\ LastUsed(block)
  BY <1>1 DEF NoPair, LastUsed
<1>4. Pages(mapped, kheap_break)
  <2>1. \A p \in Nat : p * PAGE_SIZE \in Nat
    BY HeapAssumption
  <2> QED
    BY <2>1 DEF Pages
<1>5. Served
  BY <1>1 DEF Served
<1> QED
  BY <1>1, <1>2, <1>3, <1>4, <1>5 DEF HeapInv

\* What kmalloc() records keeps Served.
LEMMA ServedByTaken ==
  ASSUME Served, \A x \in DOMAIN wanted : wanted[x] \in Nat, HEADER_SIZE \in Nat,
         NEW a, a \notin DOMAIN wanted, NEW size \in Nat,
         Taken(block, block', a, HEADER_SIZE + size), wanted' = With(wanted, a, size)
  PROVE  Served' /\ \A x \in DOMAIN wanted' : wanted'[x] \in Nat
<1>1. /\ DOMAIN wanted' = DOMAIN wanted \cup {a}
      /\ wanted'[a] = size
      /\ \A x \in DOMAIN wanted : wanted'[x] = wanted[x]
  BY DEF With
<1>2. DOMAIN wanted = {x \in DOMAIN block : ~block[x].available}
  BY DEF Served
<1>3. /\ a \in DOMAIN block' /\ ~block'[a].available
      /\ block'[a].size >= HEADER_SIZE + size /\ block'[a].size <= HEADER_SIZE + size + HEADER_SIZE
      /\ \A x \in DOMAIN wanted : x \in DOMAIN block' /\ ~block'[x].available /\ block'[x].size = block[x].size
      /\ \A x \in DOMAIN block' : ~block'[x].available => x = a \/ x \in DOMAIN wanted
  BY <1>2 DEF Taken
<1>4. DOMAIN wanted' = {x \in DOMAIN block' : ~block'[x].available}
  BY <1>1, <1>3
<1>5. ASSUME NEW x \in DOMAIN wanted'
      PROVE  block'[x].size >= HEADER_SIZE + wanted'[x] /\ block'[x].size <= HEADER_SIZE + wanted'[x] + HEADER_SIZE
  <2>1. CASE x = a
    BY <2>1, <1>1, <1>3
  <2>2. CASE x # a
    <3>1. x \in DOMAIN wanted
      BY <2>2, <1>1
    <3> QED
      BY <3>1, <1>1, <1>3 DEF Served
  <2> QED
    BY <2>1, <2>2
<1>6. \A x \in DOMAIN wanted' : wanted'[x] \in Nat
  BY <1>1
<1> QED
  BY <1>4, <1>5, <1>6 DEF Served

LEMMA ReuseStep ==
  ASSUME HeapInv, NEW size \in Sizes, KmallocReuse(size)
  PROVE  HeapInv'
<1> USE HeapAssumption DEF HeapInv
<1> DEFINE a == Least(Fitting(size))
           n == HEADER_SIZE + size
           c == Crop(a, n)
<1>1. size \in Nat /\ n \in Nat /\ n >= HEADER_SIZE
  OBVIOUS
<1>2. a \in DOMAIN block /\ block[a].available /\ block[a].size >= n
  <2>1. Fitting(size) \in SUBSET Nat /\ Fitting(size) # {}
    BY DEF Fitting, KmallocReuse, Shape
  <2>2. a \in Fitting(size)
    BY <2>1, LeastNat
  <2> QED
    BY <2>2 DEF Fitting
<1>3. /\ block' = c.block /\ heap_last' = c.last /\ wanted' = With(wanted, a, size)
      /\ heap_start' = heap_start /\ kheap_break' = kheap_break /\ mapped' = mapped
  BY DEF KmallocReuse
<1> HIDE DEF a, n
<1>4. /\ Shape(c.block, kheap_break, c.last) /\ NoPair(c.block) /\ LastUsed(c.block)
      /\ Taken(block, c.block, a, n)
  BY <1>1, <1>2, CropResult
<1> HIDE DEF c
<1>5. Shape(block', kheap_break', heap_last') /\ NoPair(block') /\ LastUsed(block') /\ Taken(block, block', a, n)
  BY <1>3, <1>4
<1>6. a \notin DOMAIN wanted
  BY <1>2 DEF Served
<1>7. Served' /\ \A x \in DOMAIN wanted' : wanted'[x] \in Nat
  BY <1>1, <1>3, <1>5, <1>6, ServedByTaken DEF n
<1>8. heap_start' = IF DOMAIN block' = {} THEN NULL ELSE 0
  BY <1>2, <1>3, <1>5 DEF Taken
<1> QED
  BY <1>3, <1>5, <1>7, <1>8

LEMMA GrowStep ==
  ASSUME HeapInv, NEW size \in Sizes, KmallocGrow(size)
  PROVE  HeapInv'
<1> USE HeapAssumption DEF HeapInv
<1> DEFINE a == kheap_break
           n == HEADER_SIZE + size
           new == [available |-> FALSE, prev |-> heap_last, next |-> NULL, size |-> n]
           tied == [b \in DOMAIN block |->
                      IF b = heap_last THEN [block[b] EXCEPT !.next = a] ELSE block[b]]
<1>1. size \in Nat /\ n \in Nat /\ n >= HEADER_SIZE /\ a \in Nat
  BY DEF Shape
<1>2. /\ block' = With(tied, a, new) /\ heap_last' = a /\ wanted' = With(wanted, a, size)
      /\ heap_start' = IF heap_start = NULL THEN a ELSE heap_start
      /\ kheap_break' = a + HEADER_SIZE + size
      /\ mapped' = Kbrk(a, a + HEADER_SIZE + size)
  BY DEF KmallocGrow
<1>3. a + HEADER_SIZE + size = a + n /\ a + n \in Nat /\ a + n # a
  BY <1>1
<1>4. Appended(block, a, heap_last, n, With(tied, a, new))
  BY <1>1, AppendFields
<1> HIDE DEF a, n, new, tied
<1>5. Appended(block, a, heap_last, n, block')
  BY <1>2, <1>4
<1>6. Shape(block', a + n, a) /\ NoPair(block') /\ LastUsed(block') /\ Taken(block, block', a, n)
  BY <1>1, <1>5, GrowResult DEF a
<1>7. a \notin DOMAIN wanted
  <2>1. a \notin DOMAIN block
    BY BelowBreak DEF a
  <2> QED
    BY <2>1 DEF Served
<1>8. Served' /\ \A x \in DOMAIN wanted' : wanted'[x] \in Nat
  BY <1>1, <1>2, <1>6, <1>7, ServedByTaken DEF n
<1>9. Pages(mapped', kheap_break')
  BY <1>1, <1>2, <1>3, KbrkPages DEF a
<1>10. heap_start' = IF DOMAIN block' = {} THEN NULL ELSE 0
  <2>1. DOMAIN block = {} => a = 0
    BY DEF Shape, a
  <2>2. DOMAIN block' # {}
    BY <1>6 DEF Taken
  <2> QED
    BY <2>1, <2>2, <1>2
<1>11. Shape(block', kheap_break', heap_last')
  BY <1>2, <1>3, <1>6
<1> QED
  BY <1>6, <1>8, <1>9, <1>10, <1>11

LEMMA FreeStep ==
  ASSUME HeapInv, NEW a \in DOMAIN wanted, Kfree(a)
  PROVE  HeapInv'
<1> USE HeapAssumption DEF HeapInv
<1> DEFINE freed == [block EXCEPT ![a].available = TRUE]
           h == [block |-> freed, last |-> heap_last]
           g == MergeFree(h, a)
           t == Trim(g)
<1>1. a \in DOMAIN block /\ ~block[a].available
  BY DEF Served
<1>2. /\ block' = t.block /\ heap_last' = t.last
      /\ heap_start' = IF t.last = NULL THEN NULL ELSE heap_start
      /\ kheap_break' = t.break
      /\ mapped' = IF t.break < kheap_break THEN Kbrk(kheap_break, t.break) ELSE mapped
      /\ wanted' = Without(wanted, {a})
  BY DEF Kfree
<1>3. h.block = freed /\ h.last = heap_last
  OBVIOUS
<1>4. /\ Shape(freed, kheap_break, heap_last) /\ Apart(freed, a)
      /\ DOMAIN freed = DOMAIN block /\ freed[a].available
      /\ \A b \in DOMAIN block : freed[b].size = block[b].size /\ (b # a => freed[b].available = block[b].available)
  <2>1. freed = [block EXCEPT ![a].available = TRUE]
    OBVIOUS
  <2>2. Shape(block, kheap_break, heap_last) /\ NoPair(block)
    OBVIOUS
  <2> HIDE DEF freed, h, g, t, HeapInv
  <2>3. Shape(freed, kheap_break, heap_last) /\ Apart(freed, a) /\ FreedInto(block, a, freed)
    BY <1>1, <2>1, <2>2, FreedBlock, Zenon
  <2> QED
    BY <2>3 DEF FreedInto
<1> HIDE DEF h, freed
<1>5. Shape(g.block, kheap_break, g.last) /\ NoPair(g.block) /\ SameUsed(freed, g.block)
  BY <1>1, <1>3, <1>4, MergeFreeResult
<1> HIDE DEF g
<1>6. /\ Shape(t.block, t.break, t.last) /\ NoPair(t.block) /\ SameUsed(g.block, t.block)
      /\ LastUsed(t.block)
      /\ t.break = kheap_break \/ t.break < kheap_break
  BY <1>5, TrimResult DEF LastUsed
<1> HIDE DEF t
<1>7. Shape(block', kheap_break', heap_last') /\ NoPair(block') /\ LastUsed(block')
  BY <1>2, <1>6
<1>8. SameUsed(freed, block')
  BY <1>2, <1>5, <1>6, SameUsedTrans
<1>9. Served' /\ \A x \in DOMAIN wanted' : wanted'[x] \in Nat
  <2>1. DOMAIN wanted' = DOMAIN wanted \ {a} /\ \A x \in DOMAIN wanted' : wanted'[x] = wanted[x]
    BY <1>2 DEF Without
  <2>2. \A x \in DOMAIN wanted' : /\ x \in DOMAIN block /\ x # a /\ ~block[x].available
                                  /\ x \in DOMAIN freed /\ ~freed[x].available /\ freed[x].size = block[x].size
    BY <2>1, <1>4 DEF Served
  <2>3. \A x \in DOMAIN wanted' : x \in DOMAIN block' /\ ~block'[x].available /\ block'[x].size = block[x].size
    BY <2>2, <1>8 DEF SameUsed
  <2>4. ASSUME NEW x \in DOMAIN block', ~block'[x].available
        PROVE  x \in DOMAIN wanted'
    <3>1. x \in DOMAIN freed /\ ~freed[x].available
      BY <1>8, <2>4 DEF SameUsed
    <3>2. x \in DOMAIN block /\ x # a /\ ~block[x].available
      BY <3>1, <1>4
    <3> QED
      BY <3>2, <2>1 DEF Served
  <2>5. DOMAIN wanted' = {x \in DOMAIN block' : ~block'[x].available}
    BY <2>3, <2>4
  <2>6. \A x \in DOMAIN wanted' :
          block'[x].size >= HEADER_SIZE + wanted'[x] /\ block'[x].size <= HEADER_SIZE + wanted'[x] + HEADER_SIZE
    BY <2>1, <2>3 DEF Served
  <2> QED
    BY <2>1, <2>5, <2>6 DEF Served
<1>10. Pages(mapped', kheap_break')
  <2>1. t.break \in Nat /\ kheap_break \in Nat
    BY <1>6 DEF Shape
  <2>2. CASE t.break < kheap_break
    BY <2>1, <2>2, <1>2, KbrkPages
  <2>3. CASE t.break = kheap_break
    BY <2>1, <2>3, <1>2
  <2> QED
    BY <2>2, <2>3, <1>6
<1>11. heap_start' = IF DOMAIN block' = {} THEN NULL ELSE 0
  <2>1. heap_start = 0
    BY <1>1
  <2>2. heap_last' = NULL <=> DOMAIN block' = {}
    BY <1>7 DEF Shape
  <2> QED
    BY <2>1, <2>2, <1>2
<1> QED
  BY <1>7, <1>9, <1>10, <1>11

LEMMA HeapStep == HeapInv /\ [Next]_vars => HeapInv'
<1> SUFFICES ASSUME HeapInv, [Next]_vars
             PROVE  HeapInv'
  OBVIOUS
<1>1. CASE UNCHANGED vars
  BY <1>1 DEF vars, HeapInv, Served
<1>2. ASSUME NEW size \in Sizes, KmallocReuse(size)
      PROVE  HeapInv'
  BY <1>2, ReuseStep
<1>3. ASSUME NEW size \in Sizes, KmallocGrow(size)
      PROVE  HeapInv'
  BY <1>3, GrowStep
<1>4. ASSUME NEW a \in DOMAIN wanted, Kfree(a)
      PROVE  HeapInv'
  BY <1>4, FreeStep
<1> QED
  BY <1>1, <1>2, <1>3, <1>4 DEF Next

\* The parts of the invariant are what the runs check.
LEMMA HeapImplies == HeapInv => Tiled /\ Linked /\ Merged /\ Served /\ BreakMapped
<1> SUFFICES ASSUME HeapInv PROVE Tiled /\ Linked /\ Merged /\ Served /\ BreakMapped
  OBVIOUS
<1> USE HeapAssumption DEF HeapInv
<1>1. Tiled
  BY DEF Tiled, Shape, End
<1>2. Linked
  <2>1. ASSUME NEW a \in DOMAIN block
        PROVE  /\ block[a].next = IF End(a) = kheap_break THEN NULL ELSE End(a)
               /\ block[a].next = NULL <=> heap_last = a
               /\ block[a].prev = NULL <=> a = 0
               /\ block[a].next # NULL => block[block[a].next].prev = a
    <3>1. block[a].next = IF End(a) = kheap_break THEN NULL ELSE End(a)
      BY DEF Shape, End
    <3>2. block[a].next = NULL <=> heap_last = a
      BY LastMax
    <3>3. block[a].prev = NULL <=> a = 0
      BY DEF Shape
    <3>4. block[a].next # NULL => block[block[a].next].prev = a
      BY DEF Shape
    <3> QED
      BY <3>1, <3>2, <3>3, <3>4
  <2>2. heap_last = NULL <=> DOMAIN block = {}
    BY DEF Shape
  <2> QED
    BY <2>1, <2>2 DEF Linked
<1>3. Merged
  <2>1. \A a, b \in DOMAIN block : End(a) = b => ~(block[a].available /\ block[b].available)
    BY DEF NoPair, End
  <2>2. ASSUME DOMAIN wanted = {}
        PROVE  kheap_break = 0 /\ mapped = {}
    <3>1. DOMAIN block = {}
      <4> SUFFICES ASSUME NEW b \in DOMAIN block PROVE FALSE
        OBVIOUS
      <4>1. heap_last \in DOMAIN block /\ block[heap_last].next = NULL
        BY LastMax
      <4> QED
        BY <4>1, <2>2 DEF LastUsed, Served
    <3>2. kheap_break = 0
      BY <3>1 DEF Shape
    <3> QED
      BY <3>2 DEF Pages
  <2> QED
    BY <2>1, <2>2 DEF Merged, LastUsed
<1>4. BreakMapped
  <2>1. MaxBreak \div PAGE_SIZE \in Nat
    BY DivMod
  <2>2. \A p \in 0 .. MaxBreak \div PAGE_SIZE : p \in Nat
    BY <2>1
  <2> QED
    BY <2>2 DEF BreakMapped, Pages
<1> QED
  BY <1>1, <1>2, <1>3, <1>4

\* HeapInv holds in every reachable state.
THEOREM HeapInvariant == Spec => []HeapInv
<1> QED
  BY HeapInit, HeapStep, PTL DEF Spec

\* kmalloc() and kfree() keep the heap tiled: no two blocks overlap, no byte
\* between 0 and the break is lost.
THEOREM HeapTiled == Spec => []Tiled
  BY HeapInvariant, HeapImplies, PTL

\* The prev and next pointers that crop(), merge_blocks() and the trimming loop
\* rewrite agree with the addresses.
THEOREM HeapLinked == Spec => []Linked
  BY HeapInvariant, HeapImplies, PTL

\* kfree() leaves no two free neighbours and no free block at the end, so a
\* heap whose blocks were all freed is empty and unmapped.
THEOREM HeapMerged == Spec => []Merged
  BY HeapInvariant, HeapImplies, PTL

\* Every block kmalloc() returned keeps the size that was asked for until it is
\* freed, and wastes no more than a header.
THEOREM HeapServed == Spec => []Served
  BY HeapInvariant, HeapImplies, PTL

\* kbrk() keeps every byte below the break on a mapped page.
THEOREM HeapBreakMapped == Spec => []BreakMapped
  BY HeapInvariant, HeapImplies, PTL
=============================================================================
