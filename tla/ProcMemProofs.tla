--------------------------- MODULE ProcMemProofs ---------------------------
(***************************************************************************)
(* ProcMem for any number of processes and frames, any page size, any      *)
(* depth of the page tables, any binary and any calls: frames are neither  *)
(* lost nor shared, the whole stack is unwound, and sbrk() unmaps what it  *)
(* gives back.                                                             *)
(***************************************************************************)
EXTENDS ProcMem, FiniteSetTheorems, TLAPS

-----------------------------------------------------------------------------
(* Arithmetic *)

\* Division with rest.
LEMMA DivMod ==
  ASSUME NEW a \in Nat, NEW n \in Nat \ {0}
  PROVE  /\ a \div n \in Nat
         /\ a % n \in 0 .. n - 1
         /\ a = (a \div n) * n + (a % n)
  BY Z3

\* Multiples of n are n apart.
LEMMA Multiples ==
  ASSUME NEW q \in Nat, NEW r \in Nat, NEW n \in Nat, q < r
  PROVE  q * n + n <= r * n
<1>1. r * n = q * n + (r - q) * n /\ (r - q) - 1 \in Nat
  BY Z3
<1>2. (r - q) * n = n + ((r - q) - 1) * n /\ ((r - q) - 1) * n >= 0
  BY <1>1, Z3
<1> QED
  BY <1>1, <1>2, Z3

\* The first multiple of n that is not below b, and the last that is.
LEMMA RoundUp ==
  ASSUME NEW b \in Nat, NEW n \in Nat \ {0}, NEW u \in Nat
  PROVE  u >= (b + n - 1) \div n <=> u * n >= b
<1> DEFINE q == (b + n - 1) \div n
           r == (b + n - 1) % n
<1>1. b + n - 1 \in Nat
  OBVIOUS
<1>2. q \in Nat /\ r \in 0 .. n - 1 /\ b + n - 1 = q * n + r
  BY <1>1, DivMod
<1> HIDE DEF q, r
<1>3. q * n \in Nat /\ u * n \in Nat
  BY <1>2, Z3
<1>4. u < q => u * n + n <= q * n
  BY <1>2, Multiples
<1>5. q < u => q * n + n <= u * n
  BY <1>2, Multiples
<1>6. u >= q <=> u * n >= b
  BY <1>2, <1>3, <1>4, <1>5
<1> QED
  BY <1>6 DEF q

LEMMA LastBelow ==
  ASSUME NEW b \in Nat, NEW n \in Nat \ {0}, NEW u \in Nat
  PROVE  u <= (IF b % n = 0 THEN b \div n - 1 ELSE b \div n) <=> u * n < b
<1> DEFINE q == b \div n
           r == b % n
<1>1. q \in Nat /\ r \in 0 .. n - 1 /\ b = q * n + r
  BY DivMod
<1> HIDE DEF q, r
<1>2. q * n \in Nat /\ u * n \in Nat
  BY <1>1, Z3
<1>3. u < q => u * n + n <= q * n
  BY <1>1, Multiples
<1>4. q < u => q * n + n <= u * n
  BY <1>1, Multiples
<1>5. u <= (IF r = 0 THEN q - 1 ELSE q) <=> u * n < b
  BY <1>1, <1>2, <1>3, <1>4
<1> QED
  BY <1>5 DEF q, r

\* Numbers that do not wrap around.
LEMMA Modulo ==
  ASSUME NEW x \in Int, NEW n \in Nat \ {0}
  PROVE  x % n \in 0 .. n - 1 /\ (x >= 0 /\ x < n => x % n = x)
  BY Z3

\* A set of naturals has a least element.
LEMMA LeastNat ==
  ASSUME NEW S \in SUBSET Nat, S # {}
  PROVE  \E x \in S : \A y \in S : x <= y
<1> DEFINE Less == {ss \in Nat \X Nat : ss[1] < ss[2]}
<1>1. IsWellFoundedOn(Less, Nat)
  BY NatLessThanWellFounded, Zenon DEF OpToRel
<1> HIDE DEF Less
<1>2. PICK x \in S : \A y \in S : ~(<<y, x>> \in Less)
  BY <1>1, WFMin, Zenon
<1>3. \A y \in S : ~(y < x)
  BY <1>2 DEF Less
<1> QED
  BY <1>3

-----------------------------------------------------------------------------
(* Counting *)

Below(S, x) == {g \in S : g < x}
Above(S, x) == {g \in S : g > x}

\* The n-th lowest member of S.
Nth(S, n) == CHOOSE f \in S : Cardinality(Below(S, f)) = n - 1

\* A bounded set of naturals is finite.
LEMMA Bounded ==
  ASSUME NEW N \in Nat, NEW S, \A g \in S : g \in Nat /\ g <= N
  PROVE  IsFiniteSet(S)
<1>1. IsFiniteSet(0 .. N)
  BY FS_Interval
<1>2. S \in SUBSET (0 .. N)
  OBVIOUS
<1> QED
  BY <1>1, <1>2, FS_Subset, Zenon

\* The members of S below the next number are one more, or as many.
LEMMA BelowNext ==
  ASSUME NEW S, \A g \in S : g \in Nat, IsFiniteSet(S), NEW x \in Nat
  PROVE  /\ IsFiniteSet(Below(S, x)) /\ Cardinality(Below(S, x)) \in Nat
         /\ Cardinality(Below(S, x + 1)) = Cardinality(Below(S, x)) + (IF x \in S THEN 1 ELSE 0)
<1>1. IsFiniteSet(Below(S, x)) /\ Cardinality(Below(S, x)) \in Nat
  BY FS_Subset, FS_CardinalityType DEF Below
<1>2. CASE x \in S
  <2>1. x \notin Below(S, x)
    BY DEF Below
  <2>2. \A g : g \in Below(S, x + 1) <=> g \in Below(S, x) \/ g = x
    <3>1. \A g \in S : g < x + 1 <=> g < x \/ g = x
      OBVIOUS
    <3> QED
      BY <1>2, <3>1, Zenon DEF Below
  <2>3. Below(S, x + 1) = Below(S, x) \cup {x}
    BY <2>2
  <2> QED
    BY <1>1, <1>2, <2>1, <2>3, FS_AddElement
<1>3. CASE x \notin S
  <2>1. Below(S, x + 1) = Below(S, x)
    BY <1>3 DEF Below
  <2> QED
    BY <1>1, <1>3, <2>1
<1> QED
  BY <1>2, <1>3

\* A bounded set of naturals has a member of every rank.
LEMMA Ranked ==
  ASSUME NEW N \in Nat, NEW S, \A g \in S : g \in Nat /\ g <= N, NEW m \in Nat, m < Cardinality(S)
  PROVE  \E f \in S : Cardinality(Below(S, f)) = m
<1> DEFINE T == {x \in Nat : Cardinality(Below(S, x)) > m}
<1>1. IsFiniteSet(S)
  BY Bounded
<1>2. N + 1 \in T
  <2>1. Below(S, N + 1) = S
    BY DEF Below
  <2> QED
    BY <2>1
<1>3. PICK x \in T : \A y \in T : x <= y
  <2> HIDE DEF T
  <2>1. T \in SUBSET Nat /\ T # {}
    BY <1>2 DEF T
  <2> QED
    BY <2>1, LeastNat
<1>4. x # 0
  <2>1. Below(S, 0) = {}
    BY DEF Below
  <2>2. Cardinality(Below(S, 0)) = 0
    BY <2>1, FS_EmptySet
  <2> QED
    BY <2>2
<1>5. x - 1 \in Nat /\ x - 1 \notin T /\ (x - 1) + 1 = x
  BY <1>3, <1>4
<1>6. /\ Cardinality(Below(S, x - 1)) \in Nat
      /\ Cardinality(Below(S, x)) = Cardinality(Below(S, x - 1)) + (IF x - 1 \in S THEN 1 ELSE 0)
  <2>1. \A y \in Nat : /\ Cardinality(Below(S, y)) \in Nat
                       /\ Cardinality(Below(S, y + 1)) = Cardinality(Below(S, y)) + (IF y \in S THEN 1 ELSE 0)
    BY <1>1, BelowNext
  <2> QED
    BY <2>1, <1>5
<1>7. Cardinality(Below(S, x)) > m /\ Cardinality(Below(S, x - 1)) <= m
  BY <1>3, <1>5, <1>6
<1>8. x - 1 \in S /\ Cardinality(Below(S, x - 1)) = m
  BY <1>6, <1>7
<1> QED
  BY <1>8

\* So the n-th lowest member is what its name says, and there is one of each rank.
LEMMA NthMember ==
  ASSUME NEW N \in Nat, NEW S, \A g \in S : g \in Nat /\ g <= N, NEW n \in 1 .. Cardinality(S)
  PROVE  Nth(S, n) \in S /\ Cardinality(Below(S, Nth(S, n))) = n - 1
<1>1. n - 1 \in Nat /\ n - 1 < Cardinality(S)
  <2>1. IsFiniteSet(S)
    BY Bounded
  <2>2. Cardinality(S) \in Nat
    BY <2>1, FS_CardinalityType
  <2> QED
    BY <2>2
<1>2. \E f \in S : Cardinality(Below(S, f)) = n - 1
  BY <1>1, Ranked
<1> QED
  BY <1>2 DEF Nth

\* The members above and below a member of S make up the rest of it.
LEMMA AboveBelow ==
  ASSUME NEW N \in Nat, NEW S, \A g \in S : g \in Nat /\ g <= N, NEW a \in S
  PROVE  /\ Cardinality(Above(S, a)) \in Nat /\ Cardinality(Below(S, a)) \in Nat
         /\ Cardinality(S) = Cardinality(Above(S, a)) + Cardinality(Below(S, a)) + 1
<1>1. IsFiniteSet(S)
  BY Bounded
<1>2. IsFiniteSet(Above(S, a)) /\ IsFiniteSet(Below(S, a))
  BY <1>1, FS_Subset DEF Above, Below
<1>3. Cardinality(Above(S, a)) \in Nat /\ Cardinality(Below(S, a)) \in Nat
  BY <1>2, FS_CardinalityType
<1>4. Above(S, a) \cap Below(S, a) = {}
  BY DEF Above, Below
<1>5. /\ IsFiniteSet(Above(S, a) \cup Below(S, a))
      /\ Cardinality(Above(S, a) \cup Below(S, a)) = Cardinality(Above(S, a)) + Cardinality(Below(S, a))
  <2>1. Cardinality({}) = 0
    BY FS_EmptySet
  <2> QED
    BY <1>2, <1>3, <1>4, <2>1, FS_Union
<1>6. a \notin Above(S, a) \cup Below(S, a)
  BY DEF Above, Below
<1>7. \A g : g \in S <=> g \in Above(S, a) \cup Below(S, a) \/ g = a
  BY DEF Above, Below
<1> DEFINE R == Above(S, a) \cup Below(S, a)
<1> HIDE DEF R
<1>8. S = R \cup {a} /\ a \notin R
  BY <1>6, <1>7 DEF R
<1>9. Cardinality(S) = Cardinality(R) + 1
  BY <1>5, <1>8, FS_AddElement DEF R
<1> QED
  BY <1>3, <1>5, <1>9 DEF R

\* Every rank from the top is that of one member.
LEMMA RankedAbove ==
  ASSUME NEW N \in Nat, NEW S, \A g \in S : g \in Nat /\ g <= N
  PROVE  /\ \A a \in S : Cardinality(Above(S, a)) \in 0 .. Cardinality(S) - 1
         /\ \A a, b \in S : Cardinality(Above(S, a)) = Cardinality(Above(S, b)) => a = b
         /\ \A m \in 0 .. Cardinality(S) - 1 : \E a \in S : Cardinality(Above(S, a)) = m
<1>1. IsFiniteSet(S)
  BY Bounded
<1>2. Cardinality(S) \in Nat
  BY <1>1, FS_CardinalityType
<1>3. \A a \in S : /\ Cardinality(Above(S, a)) \in Nat /\ Cardinality(Below(S, a)) \in Nat
                   /\ Cardinality(S) = Cardinality(Above(S, a)) + Cardinality(Below(S, a)) + 1
  BY AboveBelow
<1>4. \A a, b \in S : a < b => Cardinality(Above(S, a)) > Cardinality(Above(S, b))
  <2> SUFFICES ASSUME NEW a \in S, NEW b \in S, a < b
               PROVE  Cardinality(Above(S, a)) > Cardinality(Above(S, b))
    OBVIOUS
  <2>1. Above(S, b) \subseteq Above(S, a) /\ b \in Above(S, a) /\ b \notin Above(S, b)
    BY DEF Above
  <2>2. IsFiniteSet(Above(S, a))
    BY <1>1, FS_Subset DEF Above
  <2>3. /\ Cardinality(Above(S, b)) <= Cardinality(Above(S, a))
        /\ Cardinality(Above(S, b)) # Cardinality(Above(S, a))
    BY <2>1, <2>2, FS_Subset
  <2> QED
    BY <2>3, <1>3
<1>5. \A m \in 0 .. Cardinality(S) - 1 : \E a \in S : Cardinality(Above(S, a)) = m
  <2> SUFFICES ASSUME NEW m \in 0 .. Cardinality(S) - 1
               PROVE  \E a \in S : Cardinality(Above(S, a)) = m
    OBVIOUS
  <2>1. Cardinality(S) - 1 - m \in Nat /\ Cardinality(S) - 1 - m < Cardinality(S)
    BY <1>2
  <2>2. PICK a \in S : Cardinality(Below(S, a)) = Cardinality(S) - 1 - m
    BY <2>1, Ranked
  <2> QED
    BY <2>2, <1>2, <1>3
<1>6. \A a, b \in S : Cardinality(Above(S, a)) = Cardinality(Above(S, b)) => a = b
  <2> SUFFICES ASSUME NEW a \in S, NEW b \in S, Cardinality(Above(S, a)) = Cardinality(Above(S, b))
               PROVE  a = b
    OBVIOUS
  <2>1. ~(a < b) /\ ~(b < a)
    BY <1>3, <1>4
  <2> QED
    BY <2>1
<1> QED
  BY <1>2, <1>3, <1>5, <1>6

-----------------------------------------------------------------------------
(* load_heap_brk() *)

\* The break after a segment, from the one before it.
BrkStep(k, b) ==
  LET end == Segments[k].p_vaddr + Segments[k].p_memsz
  IN  IF end > b THEN (end \div PAGE_SIZE + 1) * PAGE_SIZE ELSE b

\* The function f computes the break for the first n segments.
Computes(f, n) == f = [k \in 0 .. n |-> IF k = 0 THEN 0 ELSE BrkStep(k, f[k - 1])]

\* There is such a function.
LEMMA BrkExists ==
  ASSUME NEW N \in Nat
  PROVE  \E f : Computes(f, N)
<1> DEFINE T == {n \in Nat : ~\E f : Computes(f, n)}
<1>1. SUFFICES ASSUME T # {} PROVE FALSE
  OBVIOUS
<1>2. PICK n \in T : \A y \in T : n <= y
  BY <1>1, LeastNat
<1>3. n # 0
  <2>1. Computes([k \in 0 .. 0 |-> 0], 0)
    BY DEF Computes
  <2> QED
    BY <2>1
<1>4. n \in Nat /\ n - 1 \in Nat /\ n - 1 \notin T
  BY <1>2, <1>3
<1>5. PICK f : Computes(f, n - 1)
  BY <1>4
<1> DEFINE g == [k \in 0 .. n |-> IF k = n THEN BrkStep(n, f[n - 1]) ELSE f[k]]
<1>6. \A k \in 0 .. n - 1 : g[k] = f[k] /\ f[k] = IF k = 0 THEN 0 ELSE BrkStep(k, f[k - 1])
  BY <1>4, <1>5 DEF Computes
<1>7. \A k \in 0 .. n : g[k] = IF k = 0 THEN 0 ELSE BrkStep(k, g[k - 1])
  <2> SUFFICES ASSUME NEW k \in 0 .. n
               PROVE  g[k] = IF k = 0 THEN 0 ELSE BrkStep(k, g[k - 1])
    OBVIOUS
  <2>1. CASE k = n
    <3>1. n - 1 \in 0 .. n - 1
      BY <1>4
    <3>2. g[n - 1] = f[n - 1]
      BY <1>6, <3>1
    <3>3. g[n] = BrkStep(n, f[n - 1])
      BY <1>4
    <3> QED
      BY <1>3, <2>1, <3>2, <3>3
  <2>2. CASE k # n
    <3>1. k \in 0 .. n - 1 /\ (k # 0 => k - 1 \in 0 .. n - 1)
      BY <1>4, <2>2
    <3> QED
      BY <1>6, <3>1
  <2> QED
    BY <2>1, <2>2
<1>8. Computes(g, n)
  BY <1>7 DEF Computes
<1> QED
  BY <1>2, <1>8

LEMMA SegmentTypes ==
  /\ Len(Segments) \in Nat
  /\ \A k \in 1 .. Len(Segments) :
       /\ Segments[k].p_vaddr \in Nat /\ Segments[k].p_memsz \in Nat /\ Segments[k].p_memsz > 0
       /\ Segments[k].write \in BOOLEAN /\ Segments[k].exec \in BOOLEAN
<1> DEFINE Segs == [p_vaddr : Nat, p_memsz : Nat \ {0}, write : BOOLEAN, exec : BOOLEAN]
<1>1. Segments \in Seq(Segs)
  BY ProcMemAssumption
<1> HIDE DEF Segs
<1>2. Len(Segments) \in Nat /\ \A k \in 1 .. Len(Segments) : Segments[k] \in Segs
  BY <1>1
<1> QED
  BY <1>2 DEF Segs

LEMMA BrkComputed ==
  Computes(HeapBrkAfter, Len(Segments))
<1>1. \E f : Computes(f, Len(Segments))
  BY BrkExists, SegmentTypes
<1> QED
  BY <1>1 DEF HeapBrkAfter, Computes, BrkStep

\* The break after k segments is a natural number and behind the first j.
LEMMA BrkBehind ==
  /\ min_heap_break \in Nat
  /\ \A j \in 1 .. Len(Segments) : Segments[j].p_vaddr + Segments[j].p_memsz <= min_heap_break
<1> DEFINE N == Len(Segments)
           B(k) == HeapBrkAfter[k]
           E(k) == Segments[k].p_vaddr + Segments[k].p_memsz
           Right(k) == B(k) \in Nat /\ \A j \in 1 .. k : E(j) <= B(k)
<1>1. N \in Nat /\ \A k \in 1 .. N : E(k) \in Nat
  BY SegmentTypes
<1>2. B(0) = 0 /\ \A k \in 1 .. N : B(k) = BrkStep(k, B(k - 1))
  <2>1. \A k \in 0 .. N : B(k) = IF k = 0 THEN 0 ELSE BrkStep(k, B(k - 1))
    BY BrkComputed, Zenon DEF Computes
  <2> QED
    BY <1>1, <2>1
<1>3. \A k \in 1 .. N : \A b \in Nat : BrkStep(k, b) \in Nat /\ BrkStep(k, b) >= b /\ BrkStep(k, b) >= E(k)
  <2> SUFFICES ASSUME NEW k \in 1 .. N, NEW b \in Nat
               PROVE  BrkStep(k, b) \in Nat /\ BrkStep(k, b) >= b /\ BrkStep(k, b) >= E(k)
    OBVIOUS
  <2> DEFINE e == E(k)
             q == e \div PAGE_SIZE
  <2>1. e \in Nat /\ PAGE_SIZE \in Nat \ {0}
    BY <1>1, ProcMemAssumption
  <2>2. BrkStep(k, b) = IF e > b THEN (q + 1) * PAGE_SIZE ELSE b
    BY DEF BrkStep
  <2> HIDE DEF e
  <2>3. q \in Nat /\ e % PAGE_SIZE \in 0 .. PAGE_SIZE - 1 /\ e = q * PAGE_SIZE + (e % PAGE_SIZE)
    BY <2>1, DivMod
  <2> HIDE DEF q
  <2>4. (q + 1) * PAGE_SIZE = q * PAGE_SIZE + PAGE_SIZE /\ q * PAGE_SIZE \in Nat
    BY <2>1, <2>3, Z3
  <2>5. (q + 1) * PAGE_SIZE > e /\ (q + 1) * PAGE_SIZE \in Nat
    BY <2>1, <2>3, <2>4, Z3
  <2>6. BrkStep(k, b) \in Nat /\ BrkStep(k, b) >= b /\ BrkStep(k, b) >= e
    BY <2>1, <2>2, <2>5
  <2> QED
    BY <2>6 DEF e
<1> HIDE DEF B, E, N
<1>4. ASSUME NEW k \in 0 .. N, ~Right(k)
      PROVE  FALSE
  <2> DEFINE T == {x \in 0 .. N : ~Right(x)}
  <2>1. T # {} /\ T \in SUBSET Nat
    BY <1>4
  <2>2. PICK x \in T : \A y \in T : x <= y
    BY <2>1, LeastNat
  <2>3. x # 0
    BY <1>2
  <2>4. x \in 1 .. N /\ x - 1 \in 0 .. N /\ Right(x - 1)
    BY <1>1, <2>2, <2>3
  <2>5. B(x) = BrkStep(x, B(x - 1)) /\ B(x - 1) \in Nat
    BY <1>2, <2>4
  <2>6. B(x) \in Nat /\ B(x) >= B(x - 1) /\ B(x) >= E(x)
    BY <1>3, <2>4, <2>5
  <2>7. \A j \in 1 .. x : E(j) <= B(x)
    <3> SUFFICES ASSUME NEW j \in 1 .. x PROVE E(j) <= B(x)
      OBVIOUS
    <3>1. CASE j = x
      BY <2>6, <3>1, <1>1, <2>4
    <3>2. CASE j # x
      <4>1. j \in 1 .. x - 1 /\ j \in 1 .. N
        BY <3>2, <2>4, <1>1
      <4>2. E(j) <= B(x - 1) /\ E(j) \in Nat
        BY <4>1, <2>4, <1>1
      <4> QED
        BY <4>2, <2>5, <2>6
    <3> QED
      BY <3>1, <3>2
  <2> QED
    BY <2>2, <2>6, <2>7
<1>5. N \in 0 .. N
  BY <1>1
<1>6. Right(N)
  BY <1>4, <1>5
<1> QED
  BY <1>6 DEF B, E, N, min_heap_break

-----------------------------------------------------------------------------
(* The inductive invariant *)

\* Two conditions on the binary and the program under which more can be said.
\* What the code does without them is among the deviations in the README.

\* What the entries that page_fault() makes for page v allow.
MayWrite(v) == v \in StackPages \/ SegmentOf(v) = 0 \/ Segments[SegmentOf(v)].write
MayExec(v) == v \notin StackPages /\ (SegmentOf(v) = 0 \/ Segments[SegmentOf(v)].exec)

\* The program makes no access that its pages do not allow: it writes no read-only
\* page and executes no no-execute page (pagefault.c ignores "present").
Permitted ==
  \A v \in Nat : /\ <<v, "write">> \in Accesses => MayWrite(v)
                 /\ <<v, "exec">> \in Accesses => MayExec(v)

\* No increment of sbrk() takes the break around the end of the address space.
NoWrap ==
  /\ min_heap_break < ADDRESSES /\ MAX_BREAK < ADDRESSES
  /\ \A i \in Increments : min_heap_break + i >= 0

Control ==
  /\ state \in [Procs -> {"none", "running", "killed", "unwound"}]
  /\ pages_mapped \in [Procs -> Nat]
  /\ heap_brk \in [Procs -> Nat]
  /\ ldr_lock \in [Procs -> BOOLEAN]

\* The shape of the page tables.
Memory ==
  /\ pt = [q \in Procs |-> pt[q]] /\ tables = [q \in Procs |-> tables[q]]
  /\ \A f \in free : f \in Frames
  /\ \A q \in Procs :
       /\ \A v \in DOMAIN pt[q] : v \in Pages /\ pt[q][v].ppn \in Frames
       /\ \A x \in DOMAIN tables[q] : tables[q][x].ppn \in Frames

\* No frame has two uses.
Once ==
  \A p, q \in Procs :
    /\ \A v \in DOMAIN pt[p] :
         /\ pt[p][v].ppn \notin free
         /\ \A w \in DOMAIN pt[q] : pt[p][v].ppn = pt[q][w].ppn => p = q /\ v = w
         /\ \A x \in DOMAIN tables[q] : pt[p][v].ppn # tables[q][x].ppn
    /\ \A x \in DOMAIN tables[p] :
         /\ tables[p][x].ppn \notin free
         /\ \A y \in DOMAIN tables[q] : tables[p][x].ppn = tables[q][y].ppn => p = q /\ x = y

\* No frame is lost.
Kept ==
  \A f \in Frames :
    \/ f \in free
    \/ \E q \in Procs : \E v \in DOMAIN pt[q] : pt[q][v].ppn = f
    \/ \E q \in Procs : \E x \in DOMAIN tables[q] : tables[q][x].ppn = f

\* A process that is not there has no memory.
Blank == \A q \in Procs : state[q] = "none" => pt[q] = None /\ tables[q] = None

\* The entry of a page allows what a page of its kind should allow.
Flags ==
  \A q \in Procs : \A v \in DOMAIN pt[q] :
    (MayWrite(v) => pt[q][v].write) /\ (MayExec(v) => pt[q][v].exec)

Runs(q) == state[q] = "running" /\ ~ldr_lock[q]

\* The break is where load_heap_brk() or a sys_sbrk() has put it.
Breaks ==
  \A q \in Procs : Runs(q) =>
    heap_brk[q] >= min_heap_break /\ (heap_brk[q] = min_heap_break \/ heap_brk[q] < ADDRESSES)

\* The stack's counter is at least the number of its mapped pages.
Counted ==
  \A q \in Procs : state[q] \in {"running", "killed"} =>
    pages_mapped[q] >= Cardinality(StackPages \cap DOMAIN pt[q])

\* Of the pages above the segments only those below the break are mapped, and
\* those of the stack.
HeapPages ==
  \A q \in Procs : Runs(q) =>
    \A v \in DOMAIN pt[q] : v \in StackPages \/ v * PAGE_SIZE < min_heap_break
                                             \/ v * PAGE_SIZE < heap_brk[q]

IInv ==
  /\ Control /\ Memory /\ Once /\ Blank /\ Flags /\ Breaks
  /\ Counted /\ StackUnwound
  /\ Permitted => Kept
  /\ NoWrap => HeapPages

-----------------------------------------------------------------------------
(* What vspace_map() takes *)

Made(p, v) == {TableOf(v, l) : l \in Missing(p, v)}
FrameOf(p, v, x) == AllocPage(1 + 1 + Cardinality({l \in Missing(p, v) : l > x[1]}))
Taken(p, v) == {AllocPage(k) : k \in 1 .. 1 + Cardinality(Missing(p, v))}

LEMMA FreeFinite ==
  ASSUME Memory
  PROVE  IsFiniteSet(free) /\ Cardinality(free) \in Nat
<1>1. \A g \in free : g \in Nat /\ g <= FRAMES
  BY ProcMemAssumption DEF Memory, Frames
<1>2. IsFiniteSet(free)
  BY <1>1, Bounded, ProcMemAssumption
<1> QED
  BY <1>2, FS_CardinalityType

\* The frames of the first n calls of alloc_page() are free, and different.
LEMMA Allocated ==
  ASSUME Memory
  PROVE  \A n \in 1 .. Cardinality(free) :
           /\ AllocPage(n) \in free
           /\ \A m \in 1 .. Cardinality(free) : AllocPage(m) = AllocPage(n) => m = n
<1>1. FRAMES \in Nat /\ \A g \in free : g \in Nat /\ g <= FRAMES
  BY ProcMemAssumption DEF Memory, Frames
<1>2. \A n : AllocPage(n) = Nth(free, n)
  BY DEF AllocPage, Nth, Below
<1>3. \A n \in 1 .. Cardinality(free) :
         Nth(free, n) \in free /\ Cardinality(Below(free, Nth(free, n))) = n - 1
  BY <1>1, NthMember
<1>4. Cardinality(free) \in Nat
  BY FreeFinite
<1> QED
  BY <1>2, <1>3, <1>4

\* One frame for the page and one for every missing table: all different, all
\* free before, and together all that is taken.
LEMMA TakenFrames ==
  ASSUME Memory, NEW p \in Procs, NEW v, Enough(p, v)
  PROVE  /\ AllocPage(1) \in free
         /\ \A x \in Made(p, v) : FrameOf(p, v, x) \in free /\ FrameOf(p, v, x) # AllocPage(1)
         /\ \A x, y \in Made(p, v) : FrameOf(p, v, x) = FrameOf(p, v, y) => x = y
         /\ \A f \in Taken(p, v) : f = AllocPage(1) \/ \E x \in Made(p, v) : f = FrameOf(p, v, x)
         /\ AllocPage(1) \in Taken(p, v)
         /\ \A x \in Made(p, v) : FrameOf(p, v, x) \in Taken(p, v)
<1> DEFINE L == Missing(p, v)
           c == Cardinality(L)
           rank(l) == Cardinality(Above(L, l))
<1>1. LEVELS \in Nat /\ \A g \in L : g \in Nat /\ g <= LEVELS
  BY ProcMemAssumption DEF Missing
<1>2. IsFiniteSet(L)
  BY <1>1, Bounded
<1>3. c \in Nat
  BY <1>2, FS_CardinalityType
<1>4. c < Cardinality(free) /\ Cardinality(free) \in Nat
  BY <1>3, FreeFinite DEF Enough
<1>5. /\ \A a \in L : rank(a) \in 0 .. c - 1
      /\ \A a, b \in L : rank(a) = rank(b) => a = b
      /\ \A m \in 0 .. c - 1 : \E a \in L : rank(a) = m
  BY <1>1, RankedAbove
<1>6. \A l \in L : /\ TableOf(v, l) \in Made(p, v)
                   /\ FrameOf(p, v, TableOf(v, l)) = AllocPage(1 + 1 + rank(l))
  BY DEF Made, FrameOf, TableOf, Above
<1>7. \A x \in Made(p, v) : \E l \in L : x = TableOf(v, l)
  BY DEF Made
<1>8. Taken(p, v) = {AllocPage(k) : k \in 1 .. 1 + c}
  BY DEF Taken
<1> HIDE DEF L, c, rank
<1>9. \A n \in 1 .. 1 + c :
         /\ AllocPage(n) \in free
         /\ \A m \in 1 .. 1 + c : AllocPage(m) = AllocPage(n) => m = n
  <2>1. \A n \in 1 .. 1 + c : n \in 1 .. Cardinality(free)
    BY <1>3, <1>4
  <2> QED
    BY <2>1, Allocated
<1>a. 1 \in 1 .. 1 + c /\ \A l \in L : 1 + 1 + rank(l) \in 1 .. 1 + c /\ 1 + 1 + rank(l) # 1
  BY <1>3, <1>5
<1>b. \A x \in Made(p, v) : FrameOf(p, v, x) \in free /\ FrameOf(p, v, x) # AllocPage(1)
                               /\ FrameOf(p, v, x) \in Taken(p, v)
  <2> SUFFICES ASSUME NEW l \in L
               PROVE  /\ AllocPage(1 + 1 + rank(l)) \in free
                      /\ AllocPage(1 + 1 + rank(l)) # AllocPage(1)
                      /\ AllocPage(1 + 1 + rank(l)) \in Taken(p, v)
    BY <1>6, <1>7
  <2> QED
    BY <1>8, <1>9, <1>a
<1>c. \A x, y \in Made(p, v) : FrameOf(p, v, x) = FrameOf(p, v, y) => x = y
  <2> SUFFICES ASSUME NEW l \in L, NEW m \in L,
                      AllocPage(1 + 1 + rank(l)) = AllocPage(1 + 1 + rank(m))
               PROVE  TableOf(v, l) = TableOf(v, m)
    BY <1>6, <1>7
  <2>1. 1 + 1 + rank(l) = 1 + 1 + rank(m)
    BY <1>9, <1>a
  <2>2. rank(l) = rank(m)
    BY <2>1, <1>3, <1>5
  <2> QED
    BY <2>2, <1>5
<1>d. \A f \in Taken(p, v) : f = AllocPage(1) \/ \E x \in Made(p, v) : f = FrameOf(p, v, x)
  <2> SUFFICES ASSUME NEW k \in 1 .. 1 + c, k # 1
               PROVE  \E x \in Made(p, v) : AllocPage(k) = FrameOf(p, v, x)
    BY <1>8
  <2>1. k - 1 - 1 \in 0 .. c - 1
    BY <1>3
  <2>2. PICK l \in L : rank(l) = k - 1 - 1
    BY <2>1, <1>5
  <2>3. 1 + 1 + rank(l) = k
    BY <2>2, <1>3
  <2> QED
    BY <2>3, <1>6
<1> QED
  BY <1>8, <1>9, <1>a, <1>b, <1>c, <1>d

-----------------------------------------------------------------------------
(* The steps of vspace_map() and vspace_unmap() *)

\* Page tables are functions.
Functional == pt = [q \in Procs |-> pt[q]] /\ tables = [q \in Procs |-> tables[q]]

\* What vspace_map() does to each table.
MapsTo(p, v, w) ==
  /\ Functional'
  /\ \A q \in Procs : q # p => pt'[q] = pt[q] /\ tables'[q] = tables[q]
  /\ DOMAIN tables'[p] = DOMAIN tables[p] \cup Made(p, v)
  /\ \A x \in DOMAIN tables[p] : tables'[p][x] = tables[p][x]
  /\ \A x \in Made(p, v) : x \notin DOMAIN tables[p] /\ tables'[p][x].ppn = FrameOf(p, v, x)
  /\ DOMAIN pt'[p] = DOMAIN pt[p] \cup {v}
  /\ \A u \in DOMAIN pt[p] : pt'[p][u] = pt[p][u]
  /\ v \notin DOMAIN pt[p] => /\ pt'[p][v].ppn = AllocPage(1)
                           /\ pt'[p][v].write = w.write /\ pt'[p][v].exec = w.exec
  /\ \A f : f \in free' <=> f \in free /\ f \notin Taken(p, v)

LEMMA MapIs ==
  ASSUME Functional, NEW p \in Procs, NEW v, NEW w, VspaceMap(p, v, 1, w)
  PROVE  MapsTo(p, v, w)
<1> DEFINE newtables == [x \in DOMAIN tables[p] \cup Made(p, v) |->
                           IF x \in Made(p, v) THEN [ppn |-> FrameOf(p, v, x)] ELSE tables[p][x]]
           newpt == [x \in DOMAIN pt[p] \cup {v} |->
                       IF x = v THEN [ppn |-> AllocPage(1), write |-> w.write, exec |-> w.exec]
                       ELSE pt[p][x]]
<1>1. tables' = [tables EXCEPT ![p] = newtables]
  BY DEF VspaceMap, Made, FrameOf
<1>2. pt' = IF v \in DOMAIN pt[p] THEN pt ELSE [pt EXCEPT ![p] = newpt]
  BY DEF VspaceMap
<1>3. free' = free \ Taken(p, v)
  BY DEF VspaceMap, Taken
<1>4. \A x \in Made(p, v) : x \notin DOMAIN tables[p]
  BY DEF Made, Missing
<1>5. /\ tables' = [q \in Procs |-> tables'[q]]
      /\ tables'[p] = newtables /\ \A q \in Procs : q # p => tables'[q] = tables[q]
  <2> HIDE DEF newtables
  <2> QED
    BY <1>1 DEF Functional
<1>6. /\ DOMAIN tables'[p] = DOMAIN tables[p] \cup Made(p, v)
      /\ \A x \in DOMAIN tables[p] : tables'[p][x] = tables[p][x]
      /\ \A x \in Made(p, v) : tables'[p][x].ppn = FrameOf(p, v, x)
  BY <1>4, <1>5
<1>7. /\ pt' = [q \in Procs |-> pt'[q]]
      /\ pt'[p] = (IF v \in DOMAIN pt[p] THEN pt[p] ELSE newpt)
      /\ \A q \in Procs : q # p => pt'[q] = pt[q]
  <2> HIDE DEF newpt
  <2>1. CASE v \in DOMAIN pt[p]
    BY <1>2, <2>1 DEF Functional
  <2>2. CASE v \notin DOMAIN pt[p]
    BY <1>2, <2>2 DEF Functional
  <2> QED
    BY <2>1, <2>2
<1>8. /\ DOMAIN pt'[p] = DOMAIN pt[p] \cup {v}
      /\ \A u \in DOMAIN pt[p] : pt'[p][u] = pt[p][u]
      /\ v \notin DOMAIN pt[p] => /\ pt'[p][v].ppn = AllocPage(1)
                           /\ pt'[p][v].write = w.write /\ pt'[p][v].exec = w.exec
  <2>1. CASE v \in DOMAIN pt[p]
    BY <1>7, <2>1
  <2>2. CASE v \notin DOMAIN pt[p]
    BY <1>7, <2>2
  <2> QED
    BY <2>1, <2>2
<1>9. \A f : f \in free' <=> f \in free /\ f \notin Taken(p, v)
  BY <1>3
<1> QED
  BY <1>4, <1>5, <1>6, <1>7, <1>8, <1>9 DEF MapsTo, Functional

\* vspace_map() shares no frame, and loses none if the page was not mapped.
LEMMA MapKeeps ==
  ASSUME Memory, Once, NEW p \in Procs, NEW v \in Pages, NEW w, Enough(p, v),
         MapsTo(p, v, w)
  PROVE  /\ Memory' /\ Once'
         /\ Kept /\ v \notin DOMAIN pt[p] => Kept'
<1>1. /\ AllocPage(1) \in free
      /\ \A x \in Made(p, v) : FrameOf(p, v, x) \in free /\ FrameOf(p, v, x) # AllocPage(1)
      /\ \A x, y \in Made(p, v) : FrameOf(p, v, x) = FrameOf(p, v, y) => x = y
      /\ \A f \in Taken(p, v) : f = AllocPage(1) \/ \E x \in Made(p, v) : f = FrameOf(p, v, x)
      /\ AllocPage(1) \in Taken(p, v)
      /\ \A x \in Made(p, v) : FrameOf(p, v, x) \in Taken(p, v)
  BY TakenFrames
<1> DEFINE OldPage(q, u) == u \in DOMAIN pt[q] /\ pt'[q][u] = pt[q][u]
           NewPage(q, u) == q = p /\ u = v /\ pt'[q][u].ppn = AllocPage(1)
           OldTable(q, x) == x \in DOMAIN tables[q] /\ tables'[q][x] = tables[q][x]
           NewTable(q, x) == q = p /\ x \in Made(p, v) /\ tables'[q][x].ppn = FrameOf(p, v, x)
<1>2. \A q \in Procs : \A u \in DOMAIN pt'[q] : OldPage(q, u) \/ NewPage(q, u)
  BY DEF MapsTo
<1>3. \A q \in Procs : \A x \in DOMAIN tables'[q] : OldTable(q, x) \/ NewTable(q, x)
  BY DEF MapsTo
<1>4. \A q \in Procs : /\ \A u \in DOMAIN pt[q] : u \in DOMAIN pt'[q] /\ OldPage(q, u)
                       /\ \A x \in DOMAIN tables[q] : x \in DOMAIN tables'[q] /\ OldTable(q, x)
  BY DEF MapsTo
<1>5. \A f : f \in free' <=> f \in free /\ f \notin Taken(p, v)
  BY DEF MapsTo
<1>6. Memory'
  <2>1. \A q \in Procs : \A u \in DOMAIN pt'[q] : u \in Pages /\ pt'[q][u].ppn \in Frames
    BY <1>1, <1>2 DEF Memory
  <2>2. \A q \in Procs : \A x \in DOMAIN tables'[q] : tables'[q][x].ppn \in Frames
    BY <1>1, <1>3 DEF Memory
  <2> QED
    BY <2>1, <2>2, <1>5 DEF Memory, MapsTo, Functional
<1>7. Once'
  <2> SUFFICES ASSUME NEW a \in Procs, NEW b \in Procs
               PROVE  /\ \A u \in DOMAIN pt'[a] :
                           /\ pt'[a][u].ppn \notin free'
                           /\ \A z \in DOMAIN pt'[b] : pt'[a][u].ppn = pt'[b][z].ppn => a = b /\ u = z
                           /\ \A x \in DOMAIN tables'[b] : pt'[a][u].ppn # tables'[b][x].ppn
                      /\ \A x \in DOMAIN tables'[a] :
                           /\ tables'[a][x].ppn \notin free'
                           /\ \A y \in DOMAIN tables'[b] :
                                tables'[a][x].ppn = tables'[b][y].ppn => a = b /\ x = y
    BY DEF Once
  <2>1. ASSUME NEW u \in DOMAIN pt'[a]
        PROVE  /\ pt'[a][u].ppn \notin free'
               /\ \A z \in DOMAIN pt'[b] : pt'[a][u].ppn = pt'[b][z].ppn => a = b /\ u = z
               /\ \A x \in DOMAIN tables'[b] : pt'[a][u].ppn # tables'[b][x].ppn
    <3>1. CASE OldPage(a, u)
      BY <3>1, <1>1, <1>2, <1>3, <1>5 DEF Once
    <3>2. CASE NewPage(a, u)
      BY <3>2, <1>1, <1>2, <1>3, <1>5 DEF Once
    <3> QED
      BY <1>2, <2>1, <3>1, <3>2
  <2>2. ASSUME NEW x \in DOMAIN tables'[a]
        PROVE  /\ tables'[a][x].ppn \notin free'
               /\ \A y \in DOMAIN tables'[b] : tables'[a][x].ppn = tables'[b][y].ppn => a = b /\ x = y
    <3>1. CASE OldTable(a, x)
      BY <3>1, <1>1, <1>3, <1>5 DEF Once
    <3>2. CASE NewTable(a, x)
      BY <3>2, <1>1, <1>3, <1>5 DEF Once
    <3> QED
      BY <1>3, <2>2, <3>1, <3>2
  <2> QED
    BY <2>1, <2>2
<1>8. ASSUME Kept, v \notin DOMAIN pt[p]
      PROVE  Kept'
  <2> SUFFICES ASSUME NEW f \in Frames
               PROVE  \/ f \in free'
                      \/ \E q \in Procs : \E u \in DOMAIN pt'[q] : pt'[q][u].ppn = f
                      \/ \E q \in Procs : \E x \in DOMAIN tables'[q] : tables'[q][x].ppn = f
    BY DEF Kept
  <2>1. CASE f \in Taken(p, v)
    <3>1. CASE f = AllocPage(1)
      BY <3>1, <1>8 DEF MapsTo
    <3>2. ASSUME NEW x \in Made(p, v), f = FrameOf(p, v, x) PROVE x \in DOMAIN tables'[p] /\ tables'[p][x].ppn = f
      BY <3>2 DEF MapsTo
    <3> QED
      BY <1>1, <2>1, <3>1, <3>2
  <2>2. CASE f \notin Taken(p, v)
    BY <2>2, <1>4, <1>5, <1>8 DEF Kept
  <2> QED
    BY <2>1, <2>2
<1> QED
  BY <1>6, <1>7, <1>8

\* Entries are removed, and exactly their frames are given back.
Releases ==
  /\ Functional'
  /\ \A q \in Procs :
       /\ \A u \in DOMAIN pt'[q] : u \in DOMAIN pt[q] /\ pt'[q][u] = pt[q][u]
       /\ \A x \in DOMAIN tables'[q] : x \in DOMAIN tables[q] /\ tables'[q][x] = tables[q][x]
  /\ \A f : f \in free' <=>
       \/ f \in free
       \/ \E q \in Procs : \E u \in DOMAIN pt[q] : u \notin DOMAIN pt'[q] /\ f = pt[q][u].ppn
       \/ \E q \in Procs : \E x \in DOMAIN tables[q] : x \notin DOMAIN tables'[q] /\ f = tables[q][x].ppn

LEMMA ReleaseKeeps ==
  ASSUME Memory, Once, Releases
  PROVE  Memory' /\ Once' /\ (Kept => Kept')
<1>1. Memory'
  <2>1. \A q \in Procs : \A u \in DOMAIN pt'[q] : u \in Pages /\ pt'[q][u].ppn \in Frames
    BY DEF Memory, Releases
  <2>2. \A q \in Procs : \A x \in DOMAIN tables'[q] : tables'[q][x].ppn \in Frames
    BY DEF Memory, Releases
  <2>3. \A f \in free' : f \in Frames
    BY DEF Memory, Releases
  <2> QED
    BY <2>1, <2>2, <2>3 DEF Memory, Releases, Functional
<1>2. Once'
  <2>1. \A a \in Procs : \A u \in DOMAIN pt'[a] : pt'[a][u].ppn \notin free'
    BY DEF Once, Releases
  <2>2. \A a \in Procs : \A x \in DOMAIN tables'[a] : tables'[a][x].ppn \notin free'
    BY DEF Once, Releases
  <2>3. \A a, b \in Procs : \A u \in DOMAIN pt'[a] :
           /\ \A z \in DOMAIN pt'[b] : pt'[a][u].ppn = pt'[b][z].ppn => a = b /\ u = z
           /\ \A x \in DOMAIN tables'[b] : pt'[a][u].ppn # tables'[b][x].ppn
    BY DEF Once, Releases
  <2>4. \A a, b \in Procs : \A x \in DOMAIN tables'[a] : \A y \in DOMAIN tables'[b] :
           tables'[a][x].ppn = tables'[b][y].ppn => a = b /\ x = y
    BY DEF Once, Releases
  <2> QED
    BY <2>1, <2>2, <2>3, <2>4 DEF Once
<1>3. ASSUME Kept PROVE Kept'
  <2> SUFFICES ASSUME NEW f \in Frames, f \notin free'
               PROVE  \/ \E q \in Procs : \E u \in DOMAIN pt'[q] : pt'[q][u].ppn = f
                      \/ \E q \in Procs : \E x \in DOMAIN tables'[q] : tables'[q][x].ppn = f
    BY DEF Kept
  <2>1. f \notin free
    BY DEF Releases
  <2>2. CASE \E q \in Procs : \E u \in DOMAIN pt[q] : pt[q][u].ppn = f
    BY <2>2 DEF Releases
  <2>3. CASE \E q \in Procs : \E x \in DOMAIN tables[q] : tables[q][x].ppn = f
    BY <2>3 DEF Releases
  <2> QED
    BY <2>1, <2>2, <2>3, <1>3 DEF Kept
<1> QED
  BY <1>1, <1>2, <1>3

\* vspace_unmap() of a set of pages.
UnmapsTo(p, S) ==
  /\ \A q \in Procs : q # p => pt'[q] = pt[q]
  /\ DOMAIN pt'[p] = DOMAIN pt[p] \ S
  /\ \A u \in DOMAIN pt'[p] : pt'[p][u] = pt[p][u]

LEMMA UnmapIs ==
  ASSUME Functional, NEW p \in Procs, NEW S, VspaceUnmap(p, S), UNCHANGED tables
  PROVE  UnmapsTo(p, S) /\ Releases
<1> DEFINE newpt == [x \in DOMAIN pt[p] \ S |-> pt[p][x]]
<1>1. pt' = [pt EXCEPT ![p] = newpt]
  BY DEF VspaceUnmap, Without
<1>2. /\ pt' = [q \in Procs |-> pt'[q]]
      /\ pt'[p] = newpt /\ \A q \in Procs : q # p => pt'[q] = pt[q]
  <2> HIDE DEF newpt
  <2> QED
    BY <1>1 DEF Functional
<1>3. /\ DOMAIN pt'[p] = DOMAIN pt[p] \ S
      /\ \A u \in DOMAIN pt'[p] : pt'[p][u] = pt[p][u]
  BY <1>2
<1>4. UnmapsTo(p, S)
  BY <1>2, <1>3 DEF UnmapsTo
<1>5. \A f : f \in free' <=> f \in free \/ \E u \in DOMAIN pt[p] : u \in S /\ f = pt[p][u].ppn
  BY DEF VspaceUnmap
<1>6. \A f : f \in free' <=>
         \/ f \in free
         \/ \E q \in Procs : \E u \in DOMAIN pt[q] : u \notin DOMAIN pt'[q] /\ f = pt[q][u].ppn
         \/ \E q \in Procs : \E x \in DOMAIN tables[q] : x \notin DOMAIN tables'[q] /\ f = tables[q][x].ppn
  BY <1>2, <1>3, <1>5
<1>7. \A q \in Procs :
         /\ \A u \in DOMAIN pt'[q] : u \in DOMAIN pt[q] /\ pt'[q][u] = pt[q][u]
         /\ \A x \in DOMAIN tables'[q] : x \in DOMAIN tables[q] /\ tables'[q][x] = tables[q][x]
  BY <1>2, <1>3
<1>8. Functional'
  BY <1>2 DEF Functional
<1> QED
  BY <1>4, <1>6, <1>7, <1>8 DEF Releases

\* proc_delete() gives back all that is left.
LEMMA DeleteReleases ==
  ASSUME Functional, NEW p \in Procs, DeleteProc(p)
  PROVE  Releases /\ pt'[p] = None /\ tables'[p] = None
         /\ \A q \in Procs : q # p => pt'[q] = pt[q] /\ tables'[q] = tables[q]
<1>1. /\ Functional' /\ pt'[p] = None /\ tables'[p] = None
      /\ \A q \in Procs : q # p => pt'[q] = pt[q] /\ tables'[q] = tables[q]
  BY DEF DeleteProc, Functional
<1>2. DOMAIN pt'[p] = {} /\ DOMAIN tables'[p] = {}
  BY <1>1 DEF None
<1>3. \A f : f \in free' <=> \/ f \in free
                             \/ \E u \in DOMAIN pt[p] : f = pt[p][u].ppn
                             \/ \E x \in DOMAIN tables[p] : f = tables[p][x].ppn
  BY DEF DeleteProc, Ppns
<1>4. \A f : f \in free' <=>
         \/ f \in free
         \/ \E q \in Procs : \E u \in DOMAIN pt[q] : u \notin DOMAIN pt'[q] /\ f = pt[q][u].ppn
         \/ \E q \in Procs : \E x \in DOMAIN tables[q] : x \notin DOMAIN tables'[q] /\ f = tables[q][x].ppn
  BY <1>1, <1>2, <1>3
<1>5. \A q \in Procs :
         /\ \A u \in DOMAIN pt'[q] : u \in DOMAIN pt[q] /\ pt'[q][u] = pt[q][u]
         /\ \A x \in DOMAIN tables'[q] : x \in DOMAIN tables[q] /\ tables'[q][x] = tables[q][x]
  BY <1>1, <1>2
<1> QED
  BY <1>1, <1>4, <1>5 DEF Releases

\* proc_start() takes one frame for the root table.
LEMMA StartKeeps ==
  ASSUME Memory, Once, Blank, NEW p \in Procs, NEW readable \in BOOLEAN, ProcStart(p, readable)
  PROVE  Memory' /\ Once' /\ (Kept => Kept')
<1>1. AllocPage(1) \in free
  <2>1. Cardinality(free) \in Nat /\ IsFiniteSet(free) /\ free # {}
    BY FreeFinite DEF ProcStart
  <2>2. Cardinality(free) # 0
    BY <2>1, FS_EmptySet
  <2>3. 1 \in 1 .. Cardinality(free)
    BY <2>1, <2>2
  <2> QED
    BY <2>3, Allocated
<1> DEFINE g == AllocPage(1)
<1>2. tables[p] = None /\ DOMAIN tables[p] = {}
  BY DEF Blank, ProcStart, None
<1>3. /\ Functional' /\ pt' = pt
      /\ DOMAIN tables'[p] = {Root} /\ tables'[p][Root].ppn = g
      /\ \A q \in Procs : q # p => tables'[q] = tables[q]
  <2>1. tables' = [tables EXCEPT ![p] = [x \in {Root} |-> [ppn |-> g]]] /\ pt' = pt
    BY DEF ProcStart
  <2> HIDE DEF g
  <2> QED
    BY <2>1 DEF Functional, Memory
<1>4. \A f : f \in free' <=> f \in free /\ f # g
  BY DEF ProcStart
<1>5. \A q \in Procs : \A x \in DOMAIN tables'[q] :
         \/ x \in DOMAIN tables[q] /\ tables'[q][x] = tables[q][x]
         \/ q = p /\ x = Root /\ tables'[q][x].ppn = g
  BY <1>3
<1> HIDE DEF g
<1>6. g \in free
  BY <1>1 DEF g
<1>7. Memory'
  <2>1. \A q \in Procs : \A x \in DOMAIN tables'[q] : tables'[q][x].ppn \in Frames
    BY <1>5, <1>6 DEF Memory
  <2> QED
    BY <2>1, <1>3, <1>4 DEF Memory, Functional
<1>8. Once'
  <2>1. \A a \in Procs : \A u \in DOMAIN pt'[a] : pt'[a][u].ppn \notin free'
    BY <1>3, <1>4 DEF Once
  <2>2. \A a \in Procs : \A x \in DOMAIN tables'[a] : tables'[a][x].ppn \notin free'
    BY <1>4, <1>5 DEF Once
  <2>3. \A a, b \in Procs : \A u \in DOMAIN pt'[a] :
           /\ \A z \in DOMAIN pt'[b] : pt'[a][u].ppn = pt'[b][z].ppn => a = b /\ u = z
           /\ \A x \in DOMAIN tables'[b] : pt'[a][u].ppn # tables'[b][x].ppn
    BY <1>3, <1>5, <1>6 DEF Once
  <2>4. \A a, b \in Procs : \A x \in DOMAIN tables'[a] : \A y \in DOMAIN tables'[b] :
           tables'[a][x].ppn = tables'[b][y].ppn => a = b /\ x = y
    BY <1>5, <1>6 DEF Once
  <2> QED
    BY <2>1, <2>2, <2>3, <2>4 DEF Once
<1>9. ASSUME Kept PROVE Kept'
  <2> SUFFICES ASSUME NEW f \in Frames, f \notin free'
               PROVE  \/ \E q \in Procs : \E u \in DOMAIN pt'[q] : pt'[q][u].ppn = f
                      \/ \E q \in Procs : \E x \in DOMAIN tables'[q] : tables'[q][x].ppn = f
    BY DEF Kept
  <2>1. CASE f = g
    BY <2>1, <1>3
  <2>2. CASE f # g
    BY <2>2, <1>2, <1>3, <1>4, <1>9 DEF Kept
  <2> QED
    BY <2>1, <2>2
<1> QED
  BY <1>7, <1>8, <1>9

-----------------------------------------------------------------------------
(* Page faults *)

LEMMA Sizes ==
  /\ PAGE_SIZE \in Nat \ {0} /\ USER_PAGES \in Nat /\ ADDRESSES \in Nat \ {0}
  /\ StackStart \in Nat /\ STACK_PAGES \in Nat \ {0} /\ MAX_BREAK \in Nat
<1>1. /\ PAGE_SIZE \in Nat \ {0} /\ USER_PAGES \in Nat /\ ADDRESSES \in Nat
      /\ STACK_PAGES \in Nat \ {0} /\ MAX_BREAK \in Nat
      /\ 2 * STACK_PAGES <= USER_PAGES /\ USER_PAGES * PAGE_SIZE <= ADDRESSES
  BY ProcMemAssumption
<1>2. StackStart \in Nat /\ 0 < USER_PAGES
  BY <1>1 DEF StackStart
<1>3. 0 * PAGE_SIZE + PAGE_SIZE <= USER_PAGES * PAGE_SIZE
  BY <1>1, <1>2, Multiples
<1>4. 0 * PAGE_SIZE = 0 /\ USER_PAGES * PAGE_SIZE \in Nat
  BY <1>1, Z3
<1>5. ADDRESSES # 0
  BY <1>1, <1>3, <1>4
<1> QED
  BY <1>1, <1>2, <1>5

\* The page of an address.
LEMMA PageOf ==
  ASSUME NEW a \in 0 .. USER_PAGES * PAGE_SIZE - 1
  PROVE  a \div PAGE_SIZE \in Pages /\ (a \div PAGE_SIZE) * PAGE_SIZE <= a
<1> DEFINE v == a \div PAGE_SIZE
<1>1. USER_PAGES * PAGE_SIZE \in Nat
  BY Sizes, Z3
<1>2. a \in Nat /\ a < USER_PAGES * PAGE_SIZE
  BY <1>1
<1>3. v \in Nat /\ a % PAGE_SIZE \in 0 .. PAGE_SIZE - 1 /\ a = v * PAGE_SIZE + (a % PAGE_SIZE)
  BY <1>2, Sizes, DivMod
<1> HIDE DEF v
<1>4. v * PAGE_SIZE \in Nat
  BY <1>3, Sizes, Z3
<1>5. v * PAGE_SIZE <= a
  BY <1>2, <1>3, <1>4, Sizes
<1>6. USER_PAGES < v => USER_PAGES * PAGE_SIZE + PAGE_SIZE <= v * PAGE_SIZE
  BY <1>3, Sizes, Multiples
<1>7. v < USER_PAGES
  BY <1>1, <1>2, <1>3, <1>4, <1>5, <1>6, Sizes
<1> QED
  BY <1>3, <1>5, <1>7, Sizes DEF v, Pages

\* The segment of a page is one that contains its address.
LEMMA SegmentFound ==
  ASSUME NEW v, SegmentOf(v) # 0
  PROVE  /\ SegmentOf(v) \in 1 .. Len(Segments)
         /\ v * PAGE_SIZE < Segments[SegmentOf(v)].p_vaddr + Segments[SegmentOf(v)].p_memsz
<1> DEFINE hit == {k \in 1 .. Len(Segments) :
                     /\ v * PAGE_SIZE >= Segments[k].p_vaddr
                     /\ v * PAGE_SIZE < Segments[k].p_vaddr + Segments[k].p_memsz}
<1>1. hit # {} /\ SegmentOf(v) = CHOOSE k \in hit : \A j \in hit : k <= j
  BY DEF SegmentOf
<1>2. hit \in SUBSET Nat
  OBVIOUS
<1>3. \A k \in hit : /\ k \in 1 .. Len(Segments)
                     /\ v * PAGE_SIZE < Segments[k].p_vaddr + Segments[k].p_memsz
  OBVIOUS
<1> HIDE DEF hit
<1>4. \E k \in hit : \A j \in hit : k <= j
  BY <1>1, <1>2, LeastNat
<1>5. SegmentOf(v) \in hit
  BY <1>1, <1>4
<1> QED
  BY <1>3, <1>5

\* What all the handlers of a fault have in common.
Loads(p, v, w) ==
  /\ Enough(p, v) /\ VspaceMap(p, v, 1, w)
  /\ UNCHANGED <<state, heap_brk, ldr_lock>>
  /\ MayWrite(v) => w.write
  /\ MayExec(v) => w.exec

LEMMA LoadKeeps ==
  ASSUME IInv, NEW p \in Procs, NEW v \in Pages, NEW w, NEW access \in {"read", "write", "exec"},
         <<v, access>> \in Accesses, Alive(p), Faults(p, v, access), Loads(p, v, w)
  PROVE  /\ MapsTo(p, v, w) /\ Memory' /\ Once' /\ Blank' /\ Flags' /\ Breaks'
         /\ Permitted => Kept'
<1>1. MapsTo(p, v, w)
  <2>1. Functional
    BY DEF IInv, Memory, Functional
  <2> QED
    BY <2>1, MapIs DEF Loads
<1>2. Memory' /\ Once' /\ (Kept /\ v \notin DOMAIN pt[p] => Kept')
  BY <1>1, MapKeeps DEF IInv, Loads
<1>3. v \in DOMAIN pt[p] => (access = "write" /\ ~pt[p][v].write) \/ (access = "exec" /\ ~pt[p][v].exec)
  BY DEF Faults
<1>4. v \in Nat
  BY Sizes DEF Pages
<1>5. Permitted => v \notin DOMAIN pt[p]
  BY <1>3, <1>4 DEF IInv, Flags, Permitted
<1>6. Blank'
  BY <1>1 DEF IInv, Blank, Loads, MapsTo, Alive
<1>7. Flags'
  <2> SUFFICES ASSUME NEW q \in Procs, NEW u \in DOMAIN pt'[q]
               PROVE  (MayWrite(u) => pt'[q][u].write) /\ (MayExec(u) => pt'[q][u].exec)
    BY DEF Flags, MayWrite, MayExec
  <2>1. CASE u \in DOMAIN pt[q]
    <3>1. pt'[q][u] = pt[q][u]
      BY <1>1, <2>1 DEF MapsTo
    <3> QED
      BY <2>1, <3>1 DEF IInv, Flags
  <2>2. CASE u \notin DOMAIN pt[q]
    <3>1. q = p /\ u = v /\ pt'[q][u].write = w.write /\ pt'[q][u].exec = w.exec
      BY <1>1, <2>2 DEF MapsTo
    <3> QED
      BY <3>1 DEF Loads
  <2> QED
    BY <2>1, <2>2
<1>8. Breaks'
  BY DEF IInv, Breaks, Runs, Loads
<1> QED
  BY <1>1, <1>2, <1>5, <1>6, <1>7, <1>8 DEF IInv

\* A page that is below the segments' end, below the break or of the stack may be mapped.
LEMMA LoadHeapPages ==
  ASSUME HeapPages, NEW p \in Procs, NEW v, NEW w, MapsTo(p, v, w),
         UNCHANGED <<state, heap_brk, ldr_lock>>,
         v \in StackPages \/ v * PAGE_SIZE < min_heap_break \/ v * PAGE_SIZE < heap_brk[p]
  PROVE  HeapPages'
<1> SUFFICES ASSUME NEW q \in Procs, Runs(q)', NEW u \in DOMAIN pt'[q]
             PROVE  u \in StackPages \/ u * PAGE_SIZE < min_heap_break \/ u * PAGE_SIZE < heap_brk'[q]
  BY DEF HeapPages
<1>1. Runs(q) /\ heap_brk'[q] = heap_brk[q]
  BY DEF Runs
<1>2. u \in DOMAIN pt[q] \/ (q = p /\ u = v)
  BY DEF MapsTo
<1> QED
  BY <1>1, <1>2 DEF HeapPages

\* The mapped pages of the stack are finitely many.
LEMMA StackFinite ==
  ASSUME NEW S
  PROVE  IsFiniteSet(StackPages \cap S) /\ Cardinality(StackPages \cap S) \in Nat
<1>1. IsFiniteSet(StackPages)
  BY Sizes, FS_Interval DEF StackPages
<1>2. IsFiniteSet(StackPages \cap S)
  BY <1>1, FS_Intersection
<1> QED
  BY <1>2, FS_CardinalityType

LEMMA FlagsKept ==
  ASSUME Flags, \A q \in Procs : \A u \in DOMAIN pt'[q] : u \in DOMAIN pt[q] /\ pt'[q][u] = pt[q][u]
  PROVE  Flags'
<1> SUFFICES ASSUME NEW q \in Procs, NEW u \in DOMAIN pt'[q]
             PROVE  (MayWrite(u) => pt'[q][u].write) /\ (MayExec(u) => pt'[q][u].exec)
  BY DEF Flags, MayWrite, MayExec
<1> QED
  BY DEF Flags

\* The counter of the stack keeps up, whether or not the page is one of its own
\* and whether or not it was mapped before.
LEMMA LoadCounted ==
  ASSUME Counted, StackUnwound, Control, NEW p \in Procs, NEW v, NEW w, MapsTo(p, v, w), state' = state,
         state[p] = "running",
         pages_mapped' = IF v \in StackPages THEN [pages_mapped EXCEPT ![p] = @ + 1] ELSE pages_mapped
  PROVE  Counted' /\ StackUnwound'
<1>1. ASSUME NEW q \in Procs, state[q] \in {"running", "killed"}
      PROVE  pages_mapped'[q] >= Cardinality(StackPages \cap DOMAIN pt'[q])
  <2> DEFINE S == StackPages \cap DOMAIN pt[q]
             T == StackPages \cap DOMAIN pt'[q]
  <2>1. pages_mapped[q] >= Cardinality(S)
    BY <1>1 DEF Counted
  <2>2. IsFiniteSet(S) /\ Cardinality(S) \in Nat /\ pages_mapped[q] \in Nat
    BY StackFinite DEF Control
  <2>3. CASE q # p \/ v \notin StackPages \/ v \in DOMAIN pt[q]
    <3>1. T = S /\ pages_mapped'[q] >= pages_mapped[q] /\ pages_mapped'[q] \in Nat
      BY <2>2, <2>3 DEF MapsTo, Control
    <3> QED
      BY <2>1, <2>2, <3>1
  <2>4. CASE q = p /\ v \in StackPages /\ v \notin DOMAIN pt[q]
    <3>1. T = S \cup {v} /\ v \notin S
      BY <2>4 DEF MapsTo
    <3>2. pages_mapped'[q] = pages_mapped[q] + 1
      BY <2>4 DEF Control
    <3> HIDE DEF S, T
    <3>3. Cardinality(T) = Cardinality(S) + 1
      BY <2>2, <3>1, FS_AddElement
    <3>4. pages_mapped'[q] >= Cardinality(T)
      BY <2>1, <2>2, <3>2, <3>3
    <3> QED
      BY <3>4 DEF T
  <2> QED
    BY <2>3, <2>4
<1>2. StackUnwound'
  BY DEF StackUnwound, MapsTo
<1> QED
  BY <1>1, <1>2 DEF Counted

\* Fewer pages, and the same counter.
LEMMA LessCounted ==
  ASSUME NEW n \in Nat, NEW S, NEW T, T \subseteq S, n >= Cardinality(StackPages \cap S)
  PROVE  n >= Cardinality(StackPages \cap T)
<1> DEFINE A == StackPages \cap S
           B == StackPages \cap T
<1>1. IsFiniteSet(A) /\ Cardinality(A) \in Nat /\ Cardinality(B) \in Nat /\ B \in SUBSET A
  BY StackFinite
<1> HIDE DEF A, B
<1>2. Cardinality(B) <= Cardinality(A)
  BY <1>1, FS_Subset
<1> QED
  BY <1>1, <1>2 DEF A, B

\* Where pages are only unmapped their flags stay, and the counter is still enough.
LEMMA FewerPages ==
  ASSUME Control, Flags, Counted, StackUnwound, UNCHANGED <<state, pages_mapped>>,
         \A q \in Procs : \A u \in DOMAIN pt'[q] : u \in DOMAIN pt[q] /\ pt'[q][u] = pt[q][u]
  PROVE  Flags' /\ Counted' /\ StackUnwound'
<1>1. Flags'
  BY FlagsKept
<1>2. Counted'
  <2> SUFFICES ASSUME NEW q \in Procs, state[q] \in {"running", "killed"}
               PROVE  pages_mapped[q] >= Cardinality(StackPages \cap DOMAIN pt'[q])
    BY DEF Counted
  <2>1. pages_mapped[q] \in Nat /\ pages_mapped[q] >= Cardinality(StackPages \cap DOMAIN pt[q])
    BY DEF Counted, Control
  <2>2. DOMAIN pt'[q] \subseteq DOMAIN pt[q]
    OBVIOUS
  <2> QED
    BY <2>1, <2>2, LessCounted
<1>3. StackUnwound'
  BY DEF StackUnwound
<1> QED
  BY <1>1, <1>2, <1>3

\* A trap stops the machine and leaves everything as it is.
LEMMA StopKeeps == ASSUME IInv, NEW how, Stop(how) PROVE IInv'
  BY DEF Stop, IInv, Control, Memory, Once, Blank, Flags, Breaks, Kept, Counted, StackUnwound, HeapPages, Runs,
         MayWrite, MayExec, Permitted, NoWrap

\* Every handler of page_fault() keeps the invariant.
LEMMA FaultStep ==
  ASSUME IInv, NEW p \in Procs, NEW a \in 0 .. ADDRESSES - 1,
         NEW access \in {"read", "write", "exec"}, <<a \div PAGE_SIZE, access>> \in Accesses,
         PageFault(p, a, access)
  PROVE  IInv'
<1> DEFINE v == a \div PAGE_SIZE
<1>1. v \in Pages /\ v * PAGE_SIZE <= a /\ a \in Nat /\ v * PAGE_SIZE \in Nat
  <2>1. USER_PAGES * PAGE_SIZE \in Nat
    BY Sizes, Z3
  <2>2. a \in 0 .. USER_PAGES * PAGE_SIZE - 1 /\ a \in Nat
    BY <2>1, Sizes DEF PageFault
  <2>3. v \in Pages /\ v * PAGE_SIZE <= a
    BY <2>2, PageOf
  <2> HIDE DEF v
  <2>4. v \in Nat
    BY <2>3, Sizes DEF Pages
  <2>5. v * PAGE_SIZE \in Nat
    BY <2>4, Sizes, Z3
  <2> QED
    BY <2>2, <2>3, <2>5
<1>2. Alive(p) /\ Faults(p, v, access) /\ <<v, access>> \in Accesses
  BY DEF PageFault
<1>3. StackLoad(p, v) \/ HeapLoad(p, a) \/ LoaderLoad(p, a) \/ FaultPanic(p, a)
  BY DEF PageFault
<1>4. ASSUME NEW w, Loads(p, v, w), Control',
             pages_mapped' = IF v \in StackPages THEN [pages_mapped EXCEPT ![p] = @ + 1] ELSE pages_mapped,
             v \in StackPages \/ v * PAGE_SIZE < min_heap_break \/ v * PAGE_SIZE < heap_brk[p]
      PROVE  IInv'
  <2> HIDE DEF v
  <2>1. /\ MapsTo(p, v, w) /\ Memory' /\ Once' /\ Blank' /\ Flags' /\ Breaks'
        /\ Permitted => Kept'
    BY <1>1, <1>2, <1>4, LoadKeeps
  <2>2. UNCHANGED <<state, heap_brk, ldr_lock>> /\ state[p] = "running"
    BY <1>2, <1>4 DEF Loads, Alive
  <2>3. Counted' /\ StackUnwound'
    BY <1>4, <2>1, <2>2, LoadCounted DEF IInv
  <2>4. NoWrap => HeapPages'
    BY <1>4, <2>1, <2>2, LoadHeapPages DEF IInv
  <2> QED
    BY <1>4, <2>1, <2>3, <2>4 DEF IInv, Permitted, NoWrap, MayWrite, MayExec
<1>5. CASE StackLoad(p, v)
  <2> HIDE DEF v
  <2>1. Loads(p, v, StackFlags)
    BY <1>5 DEF StackLoad, Loads, StackFlags, MayWrite, MayExec
  <2>2. Control' /\ v \in StackPages /\ pages_mapped' = [pages_mapped EXCEPT ![p] = @ + 1]
    BY <1>5 DEF StackLoad, IInv, Control
  <2> QED
    BY <1>4, <2>1, <2>2
<1>6. CASE HeapLoad(p, a)
  <2>1. /\ Enough(p, v) /\ VspaceMap(p, v, 1, HeapFlags) /\ v \notin StackPages /\ InHeap(p, a)
        /\ UNCHANGED <<state, pages_mapped, heap_brk, ldr_lock, machine>>
    BY <1>6 DEF HeapLoad
  <2> HIDE DEF v
  <2>2. Loads(p, v, HeapFlags) /\ Control'
    BY <2>1 DEF Loads, HeapFlags, IInv, Control
  <2>3. v * PAGE_SIZE < heap_brk[p]
    BY <1>1, <2>1 DEF InHeap, IInv, Control
  <2> QED
    BY <1>4, <2>1, <2>2, <2>3
<1>7. CASE LoaderLoad(p, a)
  <2>1. /\ Enough(p, v) /\ VspaceMap(p, v, 1, SegmentFlags(v)) /\ v \notin StackPages /\ SegmentOf(v) # 0
        /\ UNCHANGED <<state, pages_mapped, heap_brk, ldr_lock, machine>>
    BY <1>7 DEF LoaderLoad
  <2> HIDE DEF v
  <2>2. /\ SegmentOf(v) \in 1 .. Len(Segments)
        /\ v * PAGE_SIZE < Segments[SegmentOf(v)].p_vaddr + Segments[SegmentOf(v)].p_memsz
    BY <2>1, SegmentFound
  <2>3. (MayWrite(v) => SegmentFlags(v).write) /\ (MayExec(v) => SegmentFlags(v).exec)
    BY <2>1 DEF MayWrite, MayExec, SegmentFlags
  <2> DEFINE e == Segments[SegmentOf(v)].p_vaddr + Segments[SegmentOf(v)].p_memsz
  <2>4. e \in Nat /\ e <= min_heap_break /\ min_heap_break \in Nat /\ v * PAGE_SIZE < e
    BY <2>2, SegmentTypes, BrkBehind
  <2> HIDE DEF e
  <2>5. v * PAGE_SIZE < min_heap_break
    BY <1>1, <2>4
  <2>6. Loads(p, v, SegmentFlags(v)) /\ Control'
    BY <2>1, <2>3 DEF Loads, IInv, Control
  <2> QED
    BY <1>4, <2>1, <2>5, <2>6
<1>8. CASE FaultPanic(p, a)
  BY <1>8, StopKeeps DEF FaultPanic
<1> QED
  BY <1>3, <1>5, <1>6, <1>7, <1>8

-----------------------------------------------------------------------------
(* sys_sbrk() *)

LEMMA BreakIs ==
  ASSUME Control, Breaks, NEW p \in Procs, Runs(p), NEW i \in Increments
  PROVE  /\ NewBreak(p, i) \in Nat /\ NewBreak(p, i) >= min_heap_break
         /\ NewBreak(p, i) = min_heap_break \/ NewBreak(p, i) < ADDRESSES
         /\ NoWrap /\ (i < 0 \/ heap_brk[p] + i <= MAX_BREAK) => NewBreak(p, i) = Wanted(p, i)
<1>1. /\ heap_brk[p] \in Nat /\ heap_brk[p] >= min_heap_break
      /\ heap_brk[p] = min_heap_break \/ heap_brk[p] < ADDRESSES
      /\ min_heap_break \in Nat /\ i \in Int
  BY BrkBehind, ProcMemAssumption DEF Control, Breaks
<1> DEFINE x == heap_brk[p] + i
<1>2. x \in Int
  BY <1>1
<1>3. x % ADDRESSES \in 0 .. ADDRESSES - 1 /\ (x >= 0 /\ x < ADDRESSES => x % ADDRESSES = x)
  BY <1>2, Sizes, Modulo
<1>4. NewBreak(p, i) = IF x % ADDRESSES < min_heap_break THEN min_heap_break ELSE x % ADDRESSES
  BY DEF NewBreak
<1>5. Wanted(p, i) = IF x < min_heap_break THEN min_heap_break ELSE x
  BY DEF Wanted
<1>6. NoWrap /\ (i < 0 \/ heap_brk[p] + i <= MAX_BREAK) => x >= 0 /\ x < ADDRESSES
  BY <1>1, Sizes DEF NoWrap
<1> HIDE DEF x
<1>7. x % ADDRESSES \in Nat
  BY <1>3, Sizes
<1>8. /\ NewBreak(p, i) \in Nat /\ NewBreak(p, i) >= min_heap_break
      /\ NewBreak(p, i) = min_heap_break \/ NewBreak(p, i) < ADDRESSES
  BY <1>1, <1>3, <1>4, <1>7, Sizes
<1>9. x >= 0 /\ x < ADDRESSES => NewBreak(p, i) = Wanted(p, i)
  BY <1>1, <1>2, <1>3, <1>4, <1>5
<1> QED
  BY <1>6, <1>8, <1>9

\* The pages that are unmapped are those between the new break and the old one.
LEMMA UnmappedIs ==
  ASSUME Control, Breaks, NEW p \in Procs, Runs(p), NEW i \in Increments, NEW u \in Pages
  PROVE  u \in UnmappedBySbrk(p, i) <=> u * PAGE_SIZE >= NewBreak(p, i) /\ u * PAGE_SIZE < heap_brk[p]
<1> DEFINE new == NewBreak(p, i)
           old == heap_brk[p]
           first == (new + PAGE_SIZE - 1) \div PAGE_SIZE
           last == IF old % PAGE_SIZE = 0 THEN old \div PAGE_SIZE - 1 ELSE old \div PAGE_SIZE
<1>1. new \in Nat /\ old \in Nat /\ u \in Nat /\ PAGE_SIZE \in Nat \ {0}
  BY BreakIs, Sizes DEF Control, Pages
<1>2. UnmappedBySbrk(p, i) = first .. last
  BY DEF UnmappedBySbrk
<1> HIDE DEF new, old
<1>3. u >= first <=> u * PAGE_SIZE >= new
  BY <1>1, RoundUp
<1>4. u <= last <=> u * PAGE_SIZE < old
  BY <1>1, LastBelow
<1>5. first \in Int /\ last \in Int
  <2>1. new + PAGE_SIZE - 1 \in Nat
    BY <1>1
  <2> QED
    BY <1>1, <2>1, DivMod
<1> HIDE DEF first, last
<1>6. u \in first .. last <=> u >= first /\ u <= last
  BY <1>1, <1>5
<1> QED
  BY <1>2, <1>3, <1>4, <1>6 DEF new, old

\* What a step of sys_sbrk() leaves mapped.
Shrinks(p, i) ==
  /\ \A q \in Procs : q # p => pt'[q] = pt[q]
  /\ \A u \in DOMAIN pt'[p] : u \in DOMAIN pt[p] /\ pt'[p][u] = pt[p][u]
  /\ \A u \in DOMAIN pt[p] :
       u \in DOMAIN pt'[p] <=>
         ~(i < 0 /\ u * PAGE_SIZE >= NewBreak(p, i) /\ u * PAGE_SIZE < heap_brk[p])

\* A sys_sbrk() that keeps to the user's half.
Moves(p, i) ==
  /\ Alive(p)
  /\ heap_brk' = [heap_brk EXCEPT ![p] = NewBreak(p, i)]
  /\ IF i < 0 THEN VspaceUnmap(p, UnmappedBySbrk(p, i)) ELSE UNCHANGED <<pt, free>>
  /\ UNCHANGED <<state, tables, pages_mapped, ldr_lock, machine>>

LEMMA SbrkMoves ==
  ASSUME NEW p \in Procs, NEW i \in Increments, Sbrk(p, i)
  PROVE  Moves(p, i) \/ (Stop("corrupt") /\ machine' = "corrupt")
  BY DEF Sbrk, Moves, Stop

LEMMA SbrkIs ==
  ASSUME IInv, NEW p \in Procs, NEW i \in Increments, Moves(p, i)
  PROVE  Shrinks(p, i) /\ Memory' /\ Once' /\ (Kept => Kept')
<1>1. Runs(p) /\ Functional /\ tables' = tables
  BY DEF Moves, Alive, Runs, IInv, Memory, Functional
<1>2. CASE i < 0
  <2> DEFINE S == UnmappedBySbrk(p, i)
  <2>1. VspaceUnmap(p, S)
    BY <1>2 DEF Moves
  <2>2. \A u \in DOMAIN pt[p] : u \in S <=> u * PAGE_SIZE >= NewBreak(p, i) /\ u * PAGE_SIZE < heap_brk[p]
    BY <1>1, UnmappedIs DEF IInv, Memory
  <2> HIDE DEF S
  <2>3. UnmapsTo(p, S) /\ Releases
    BY <1>1, <2>1, UnmapIs
  <2>4. Shrinks(p, i)
    BY <1>2, <2>2, <2>3 DEF UnmapsTo, Shrinks
  <2> QED
    BY <2>3, <2>4, ReleaseKeeps DEF IInv
<1>3. CASE ~(i < 0)
  <2>1. pt' = pt /\ free' = free
    BY <1>3 DEF Moves
  <2> QED
    BY <1>1, <1>3, <2>1 DEF Shrinks, IInv, Memory, Once, Kept
<1> QED
  BY <1>2, <1>3

LEMMA SbrkStep ==
  ASSUME IInv, NEW p \in Procs, NEW i \in Increments, Moves(p, i), heap_brk[p] + i <= MAX_BREAK
  PROVE  IInv'
<1>1. /\ Runs(p) /\ state[p] = "running"
      /\ heap_brk' = [heap_brk EXCEPT ![p] = NewBreak(p, i)]
      /\ UNCHANGED <<state, tables, pages_mapped, ldr_lock, machine>>
  BY DEF Moves, Alive, Runs
<1>2. Shrinks(p, i) /\ Memory' /\ Once' /\ (Kept => Kept')
  BY SbrkIs
<1>3. /\ NewBreak(p, i) \in Nat /\ NewBreak(p, i) >= min_heap_break
      /\ NewBreak(p, i) = min_heap_break \/ NewBreak(p, i) < ADDRESSES
      /\ NoWrap => NewBreak(p, i) = Wanted(p, i)
  BY <1>1, BreakIs DEF IInv
<1>4. heap_brk[p] \in Nat /\ heap_brk[p] >= min_heap_break /\ min_heap_break \in Nat
  BY <1>1, BrkBehind DEF IInv, Control, Breaks
<1>5. Control'
  BY <1>1, <1>3 DEF IInv, Control
<1>6. Blank'
  BY <1>1, <1>2 DEF IInv, Blank, Shrinks
<1>7. \A q \in Procs : \A u \in DOMAIN pt'[q] : u \in DOMAIN pt[q] /\ pt'[q][u] = pt[q][u]
  BY <1>2 DEF Shrinks
<1>8. \A q \in Procs : heap_brk'[q] = IF q = p THEN NewBreak(p, i) ELSE heap_brk[q]
  BY <1>1 DEF IInv, Control
<1>9. Breaks'
  BY <1>1, <1>3, <1>8 DEF IInv, Breaks, Runs
<1>10. Flags' /\ Counted' /\ StackUnwound'
  BY <1>1, <1>7, FewerPages DEF IInv
<1>11. ASSUME NoWrap PROVE HeapPages'
  <2> SUFFICES ASSUME NEW q \in Procs, Runs(q), NEW u \in DOMAIN pt'[q]
               PROVE  u \in StackPages \/ u * PAGE_SIZE < min_heap_break \/ u * PAGE_SIZE < heap_brk'[q]
    BY <1>1 DEF HeapPages, Runs
  <2>1. /\ u \in DOMAIN pt[q] /\ u \in Pages
        /\ u \in StackPages \/ u * PAGE_SIZE < min_heap_break \/ u * PAGE_SIZE < heap_brk[q]
    BY <1>2, <1>11 DEF Shrinks, IInv, HeapPages, Memory
  <2>2. CASE q # p
    BY <2>1, <2>2, <1>8
  <2>3. CASE q = p
    <3>1. u * PAGE_SIZE \in Nat
      <4>1. u \in Nat
        BY <2>1, Sizes DEF Pages
      <4> QED
        BY <4>1, Sizes, Z3
    <3>2. CASE i < 0
      BY <1>2, <1>3, <1>8, <2>1, <2>3, <3>1, <3>2 DEF Shrinks
    <3>3. CASE ~(i < 0)
      <4>1. i \in Int
        BY ProcMemAssumption
      <4>2. NewBreak(p, i) >= heap_brk[p]
        BY <1>3, <1>4, <1>11, <3>3, <4>1 DEF Wanted
      <4> QED
        BY <1>3, <1>4, <1>8, <2>1, <2>3, <3>1, <4>2
    <3> QED
      BY <3>2, <3>3
  <2> QED
    BY <2>2, <2>3
<1> QED
  BY <1>2, <1>5, <1>6, <1>9, <1>10, <1>11 DEF IInv, Permitted, NoWrap, MayWrite, MayExec

-----------------------------------------------------------------------------
(* The life of a process *)

LEMMA StartStep ==
  ASSUME IInv, NEW p \in Procs, NEW readable \in BOOLEAN, ProcStart(p, readable)
  PROVE  IInv'
<1>1. Memory' /\ Once' /\ (Kept => Kept')
  BY StartKeeps DEF IInv
<1>2. /\ pt' = pt /\ state[p] = "none" /\ pt[p] = None /\ DOMAIN pt[p] = {}
      /\ state' = [state EXCEPT ![p] = "running"]
      /\ pages_mapped' = [pages_mapped EXCEPT ![p] = 0]
      /\ heap_brk' = [heap_brk EXCEPT ![p] = IF readable THEN min_heap_break ELSE ADDRESSES - 1]
      /\ ldr_lock' = [ldr_lock EXCEPT ![p] = ~readable]
      /\ tables' = [tables EXCEPT ![p] = [x \in {Root} |-> [ppn |-> AllocPage(1)]]]
  BY DEF ProcStart, IInv, Blank, None
<1>3. Control'
  <2>1. min_heap_break \in Nat /\ ADDRESSES - 1 \in Nat
    BY BrkBehind, Sizes
  <2> QED
    BY <1>2, <2>1 DEF IInv, Control
<1>4. Blank'
  <2>1. \A q \in Procs : q # p => tables'[q] = tables[q]
    BY <1>2 DEF IInv, Memory
  <2> QED
    BY <1>2, <2>1 DEF IInv, Blank, Control
<1>5. Flags'
  BY <1>2, FlagsKept DEF IInv
<1>6. Breaks'
  <2> SUFFICES ASSUME NEW q \in Procs, Runs(q)'
               PROVE  /\ heap_brk'[q] >= min_heap_break
                      /\ heap_brk'[q] = min_heap_break \/ heap_brk'[q] < ADDRESSES
    BY DEF Breaks
  <2>1. CASE q = p
    <3>1. readable
      BY <1>2, <2>1 DEF Runs, IInv, Control
    <3> QED
      BY <1>2, <2>1, <3>1, BrkBehind DEF IInv, Control
  <2>2. CASE q # p
    BY <1>2, <2>2 DEF IInv, Breaks, Runs, Control
  <2> QED
    BY <2>1, <2>2
<1>7. Counted' /\ StackUnwound'
  <2>1. ASSUME NEW q \in Procs, state'[q] \in {"running", "killed"}
        PROVE  pages_mapped'[q] >= Cardinality(StackPages \cap DOMAIN pt'[q])
    <3>1. CASE q = p
      <4>1. StackPages \cap DOMAIN pt'[q] = {}
        BY <1>2, <3>1
      <4>2. pages_mapped'[q] = 0
        BY <1>2, <3>1 DEF IInv, Control
      <4>3. Cardinality(StackPages \cap DOMAIN pt'[q]) = 0
        BY <4>1, FS_EmptySet
      <4> QED
        BY <4>2, <4>3
    <3>2. CASE q # p
      BY <1>2, <2>1, <3>2 DEF IInv, Counted, Control
    <3> QED
      BY <3>1, <3>2
  <2>2. StackUnwound'
    BY <1>2 DEF IInv, StackUnwound, Control
  <2> QED
    BY <2>1, <2>2 DEF Counted
<1>8. ASSUME NoWrap PROVE HeapPages'
  BY <1>2, <1>8 DEF IInv, HeapPages, Runs, Control
<1> QED
  BY <1>1, <1>3, <1>4, <1>5, <1>6, <1>7, <1>8 DEF IInv, Permitted, NoWrap, MayWrite, MayExec

LEMMA ExitStep ==
  ASSUME IInv, NEW p \in Procs, SysExit(p)
  PROVE  IInv'
<1>1. /\ state' = [state EXCEPT ![p] = "killed"] /\ state[p] = "running"
      /\ UNCHANGED <<pt, tables, pages_mapped, heap_brk, ldr_lock, free, machine>>
  BY DEF SysExit, Alive
<1>2. Control' /\ Memory' /\ Once' /\ Blank' /\ Flags' /\ (Kept => Kept')
  BY <1>1, FlagsKept DEF IInv, Control, Memory, Once, Blank, Kept
<1>3. \A q \in Procs : Runs(q)' => Runs(q)
  BY <1>1 DEF Runs, IInv, Control
<1>4. Breaks' /\ (HeapPages => HeapPages')
  BY <1>1, <1>3 DEF IInv, Breaks, HeapPages
<1>5. Counted' /\ StackUnwound'
  BY <1>1 DEF IInv, Counted, StackUnwound, Control
<1> QED
  BY <1>2, <1>4, <1>5 DEF IInv, Permitted, NoWrap, MayWrite, MayExec

\* Every mapped page of the stack is among the first pages_mapped below its end.
LEMMA AllUnwound ==
  ASSUME IInv, NEW p \in Procs, state[p] = "killed", NEW v \in StackPages, v \in DOMAIN pt[p]
  PROVE  v \in Unwound(p)
<1> DEFINE below == {u \in DOMAIN pt[p] : u < StackStart + STACK_PAGES}
           higher == {w \in below : w > v}
           mine == StackPages \cap DOMAIN pt[p]
<1>1. \A u \in DOMAIN pt[p] : u \in Nat
  BY Sizes DEF IInv, Memory, Pages
<1>2. v \in Nat /\ v >= StackStart /\ v < StackStart + STACK_PAGES
  BY Sizes DEF StackPages
<1>3. higher \in SUBSET mine /\ v \in mine /\ v \notin higher
  BY <1>1, <1>2, Sizes DEF StackPages
<1>4. IsFiniteSet(mine) /\ Cardinality(mine) \in Nat /\ Cardinality(higher) \in Nat
  <2>1. IsFiniteSet(mine) /\ Cardinality(mine) \in Nat
    BY StackFinite
  <2> HIDE DEF mine, higher
  <2>2. IsFiniteSet(higher)
    BY <1>3, <2>1, FS_Subset
  <2> QED
    BY <2>1, <2>2, FS_CardinalityType
<1>5. pages_mapped[p] \in Nat /\ pages_mapped[p] >= Cardinality(mine)
  BY DEF IInv, Control, Counted
<1>6. Cardinality(higher) < Cardinality(mine)
  <2> HIDE DEF mine, higher
  <2>1. Cardinality(higher) <= Cardinality(mine) /\ Cardinality(higher) # Cardinality(mine)
    BY <1>3, <1>4, FS_Subset
  <2> QED
    BY <1>4, <2>1
<1>7. v \in below
  BY <1>2
<1>8. Cardinality(higher) < pages_mapped[p]
  <2> HIDE DEF mine, higher
  <2> QED
    BY <1>4, <1>5, <1>6
<1> QED
  BY <1>7, <1>8 DEF Unwound

LEMMA UnwindStep ==
  ASSUME IInv, NEW p \in Procs, DeleteStack(p)
  PROVE  IInv'
<1> SUFFICES ASSUME ~Stop("corrupt") PROVE IInv'
  BY StopKeeps
<1>1. /\ state[p] = "killed" /\ state' = [state EXCEPT ![p] = "unwound"]
      /\ VspaceUnmap(p, Unwound(p)) /\ UNCHANGED tables /\ UNCHANGED <<heap_brk, ldr_lock>>
      /\ pages_mapped' = [pages_mapped EXCEPT ![p] = 0]
  BY DEF DeleteStack
<1>2. Functional
  BY DEF IInv, Memory, Functional
<1>3. UnmapsTo(p, Unwound(p)) /\ Releases
  BY <1>1, <1>2, UnmapIs
<1>4. Memory' /\ Once' /\ (Kept => Kept')
  BY <1>3, ReleaseKeeps DEF IInv
<1>5. Control'
  BY <1>1 DEF IInv, Control
<1>6. Blank'
  BY <1>1, <1>3 DEF IInv, Blank, UnmapsTo, Control
<1>7. Flags'
  BY <1>3, FlagsKept DEF IInv, Releases
<1>8. \A q \in Procs : Runs(q)' => Runs(q) /\ q # p
  BY <1>1 DEF Runs, IInv, Control
<1>9. Breaks' /\ (HeapPages => HeapPages')
  BY <1>1, <1>3, <1>8 DEF IInv, Breaks, HeapPages, UnmapsTo
<1>10. Counted'
  BY <1>1, <1>3 DEF IInv, Counted, Control, UnmapsTo
<1>11. StackUnwound'
  <2>1. StackPages \cap DOMAIN pt'[p] = {}
    BY <1>1, <1>3, AllUnwound DEF UnmapsTo
  <2> QED
    BY <1>1, <1>3, <2>1 DEF IInv, StackUnwound, Control, UnmapsTo
<1> QED
  BY <1>4, <1>5, <1>6, <1>7, <1>9, <1>10, <1>11 DEF IInv, Permitted, NoWrap, MayWrite, MayExec

LEMMA DeleteStep ==
  ASSUME IInv, NEW p \in Procs, DeleteProc(p)
  PROVE  IInv'
<1>1. /\ state[p] = "unwound" /\ state' = [state EXCEPT ![p] = "none"]
      /\ heap_brk' = [heap_brk EXCEPT ![p] = 0]
      /\ UNCHANGED <<pages_mapped, ldr_lock>>
  BY DEF DeleteProc
<1>2. Functional
  BY DEF IInv, Memory, Functional
<1>3. Releases /\ pt'[p] = None /\ tables'[p] = None
      /\ \A q \in Procs : q # p => pt'[q] = pt[q] /\ tables'[q] = tables[q]
  BY <1>2, DeleteReleases
<1>4. Memory' /\ Once' /\ (Kept => Kept')
  BY <1>3, ReleaseKeeps DEF IInv
<1>5. Control'
  BY <1>1 DEF IInv, Control
<1>6. Blank'
  BY <1>1, <1>3 DEF IInv, Blank, Control
<1>7. Flags'
  BY <1>3, FlagsKept DEF IInv, Releases
<1>8. \A q \in Procs : Runs(q)' => Runs(q) /\ q # p /\ heap_brk'[q] = heap_brk[q]
  BY <1>1 DEF Runs, IInv, Control
<1>9. Breaks' /\ (HeapPages => HeapPages')
  BY <1>3, <1>8 DEF IInv, Breaks, HeapPages
<1>10. Counted' /\ StackUnwound'
  BY <1>1, <1>3 DEF IInv, Counted, StackUnwound, Control
<1> QED
  BY <1>4, <1>5, <1>6, <1>7, <1>9, <1>10 DEF IInv, Permitted, NoWrap, MayWrite, MayExec

-----------------------------------------------------------------------------
(* The theorems *)

LEMMA InitHolds == Init => IInv
<1> SUFFICES ASSUME Init PROVE IInv
  OBVIOUS
<1>1. Control
  BY DEF Init, Control
<1>2. \A q \in Procs : /\ pt[q] = None /\ tables[q] = None /\ state[q] = "none"
                       /\ DOMAIN pt[q] = {} /\ DOMAIN tables[q] = {}
  BY DEF Init, None
<1>3. Memory
  BY <1>2 DEF Init, Memory
<1>4. Once /\ Blank /\ Flags /\ Breaks /\ Counted /\ StackUnwound /\ HeapPages
  BY <1>2 DEF Once, Blank, Flags, Breaks, Counted, StackUnwound, HeapPages, Runs
<1>5. Kept
  BY DEF Init, Kept
<1> QED
  BY <1>1, <1>3, <1>4, <1>5 DEF IInv

LEMMA NextKeeps == IInv /\ [Next]_vars => IInv'
<1> SUFFICES ASSUME IInv, [Next]_vars PROVE IInv'
  OBVIOUS
<1>1. CASE UNCHANGED vars
  BY <1>1 DEF vars, IInv, Control, Memory, Once, Blank, Flags, Breaks, Kept, Counted, StackUnwound, HeapPages, Runs,
              MayWrite, MayExec, Permitted, NoWrap
<1>2. ASSUME NEW p \in Procs, NEW readable \in BOOLEAN, ProcStart(p, readable) PROVE IInv'
  BY <1>2, StartStep
<1>3. ASSUME NEW p \in Procs, NEW a \in 0 .. ADDRESSES - 1, NEW access \in {"read", "write", "exec"},
             <<a \div PAGE_SIZE, access>> \in Accesses, PageFault(p, a, access) \/ KernelFault(p, a)
      PROVE  IInv'
  <2>1. CASE PageFault(p, a, access)
    BY <1>3, <2>1, FaultStep
  <2>2. CASE KernelFault(p, a)
    BY <2>2, StopKeeps DEF KernelFault
  <2> QED
    BY <1>3, <2>1, <2>2
<1>4. ASSUME NEW p \in Procs, NEW i \in Increments, heap_brk[p] + i <= MAX_BREAK, Sbrk(p, i) PROVE IInv'
  BY <1>4, SbrkMoves, SbrkStep, StopKeeps
<1>5. ASSUME NEW p \in Procs, SysExit(p) PROVE IInv'
  BY <1>5, ExitStep
<1>6. ASSUME NEW p \in Procs, DeleteStack(p) PROVE IInv'
  BY <1>6, UnwindStep
<1>7. ASSUME NEW p \in Procs, DeleteProc(p) PROVE IInv'
  BY <1>7, DeleteStep
<1> QED
  BY <1>1, <1>2, <1>3, <1>4, <1>5, <1>6, <1>7 DEF Next

\* The inductive invariant of the memory of processes: what every entry of every
\* table refers to, and where the break and the stack are.
THEOREM ProcMemInvariant == Spec => []IInv
<1> QED
  BY InitHolds, NextKeeps, PTL DEF Spec

\* Whatever the program does, faults on pages that are present included, no frame
\* is in two address spaces, mapped twice, or free and in use (page_fault(),
\* vspace_map()).
THEOREM FramesUnshared == Spec => []Once
<1>1. IInv => Once
  BY DEF IInv
<1> QED
  BY <1>1, ProcMemInvariant, PTL

\* If no frame has two uses and none is lost, each has one.
LEMMA UsedOnce ==
  ASSUME Memory, Once, Kept
  PROVE  Conserved
<1> SUFFICES ASSUME NEW f \in Frames PROVE Uses(f) = 1
  BY DEF Conserved
<1> DEFINE A == {x \in {"free"} : f \in free}
           B == {x \in Procs \X Pages : x[2] \in DOMAIN pt[x[1]] /\ pt[x[1]][x[2]].ppn = f}
           C == {x \in UNION {{p} \X DOMAIN tables[p] : p \in Procs} : tables[x[1]][x[2]].ppn = f}
<1>1. Uses(f) = Cardinality(A) + Cardinality(B) + Cardinality(C)
  BY DEF Uses
<1>2. \A y : y \in A <=> y = "free" /\ f \in free
  OBVIOUS
<1>3. \A y : y \in B <=> \E p \in Procs : \E v \in DOMAIN pt[p] : y = <<p, v>> /\ pt[p][v].ppn = f
  <2>1. \A p \in Procs : \A v \in DOMAIN pt[p] : v \in Pages
    BY DEF Memory
  <2> QED
    BY <2>1
<1>4. \A y : y \in C <=> \E p \in Procs : \E x \in DOMAIN tables[p] : y = <<p, x>> /\ tables[p][x].ppn = f
  OBVIOUS
<1> HIDE DEF A, B, C
<1>5. CASE f \in free
  <2>1. \A y : y \notin B
    BY <1>3, <1>5 DEF Once
  <2>2. \A y : y \notin C
    BY <1>4, <1>5 DEF Once
  <2>3. \A y : y \in A <=> y = "free"
    BY <1>2, <1>5
  <2>4. Cardinality(A) = 1
    <3>1. A = {"free"}
      BY <2>3, Zenon
    <3> QED
      BY <3>1, FS_Singleton
  <2>5. Cardinality(B) = 0 /\ Cardinality(C) = 0
    <3>1. B = {} /\ C = {}
      BY <2>1, <2>2
    <3> QED
      BY <3>1, FS_EmptySet
  <2> QED
    BY <1>1, <2>4, <2>5
<1>6. ASSUME NEW q \in Procs, NEW v \in DOMAIN pt[q], pt[q][v].ppn = f
      PROVE  Uses(f) = 1
  <2>1. \A y : y \notin A
    BY <1>2, <1>6 DEF Once
  <2>2. \A y : y \notin C
    BY <1>4, <1>6 DEF Once
  <2>3. \A y : y \in B <=> y = <<q, v>>
    BY <1>3, <1>6 DEF Once
  <2>4. Cardinality(B) = 1
    <3>1. B = {<<q, v>>}
      BY <2>3, Zenon
    <3> QED
      BY <3>1, FS_Singleton
  <2>5. Cardinality(A) = 0 /\ Cardinality(C) = 0
    <3>1. A = {} /\ C = {}
      BY <2>1, <2>2
    <3> QED
      BY <3>1, FS_EmptySet
  <2> QED
    BY <1>1, <2>4, <2>5
<1>7. ASSUME NEW q \in Procs, NEW x \in DOMAIN tables[q], tables[q][x].ppn = f
      PROVE  Uses(f) = 1
  <2>1. \A y : y \notin A
    BY <1>2, <1>7 DEF Once
  <2>2. \A y : y \notin B
    BY <1>3, <1>7 DEF Once
  <2>3. \A y : y \in C <=> y = <<q, x>>
    BY <1>4, <1>7 DEF Once
  <2>4. Cardinality(C) = 1
    <3>1. C = {<<q, x>>}
      BY <2>3, Zenon
    <3> QED
      BY <3>1, FS_Singleton
  <2>5. Cardinality(A) = 0 /\ Cardinality(B) = 0
    <3>1. A = {} /\ B = {}
      BY <2>1, <2>2
    <3> QED
      BY <3>1, FS_EmptySet
  <2> QED
    BY <1>1, <2>4, <2>5
<1> QED
  BY <1>5, <1>6, <1>7 DEF Kept

\* If the program writes no read-only page and executes no no-execute page, every
\* frame is free, mapped once or a table, through any sequence of faults, sbrk()s,
\* exits and starts of any number of processes (vspace_map(), vspace_unmap(),
\* delete_stack(), vspace_delete()).
THEOREM FramesConserved ==
  ASSUME Permitted
  PROVE  Spec => []Conserved
<1>1. IInv => Conserved
  BY UsedOnce DEF IInv
<1> QED
  BY <1>1, ProcMemInvariant, PTL

\* delete_stack() finds every page of the stack by its counter alone, whatever the
\* program did: pages counted twice and a heap that has grown into the stack
\* included.
THEOREM StackAllUnwound == Spec => []StackUnwound
<1>1. IInv => StackUnwound
  BY DEF IInv
<1> QED
  BY <1>1, ProcMemInvariant, PTL

LEMMA ShrinkStep ==
  ASSUME NoWrap, IInv, NEW p \in Procs, NEW i \in Increments, Sbrk(p, i), i < 0, machine' = "running",
         NEW v \in Pages \ StackPages
  PROVE  /\ v * PAGE_SIZE >= Wanted(p, i) /\ v * PAGE_SIZE >= min_heap_break
              => v \notin DOMAIN pt'[p] /\ ~(v * PAGE_SIZE < heap_brk'[p])
         /\ v * PAGE_SIZE < Wanted(p, i) /\ v \in DOMAIN pt[p] => v \in DOMAIN pt'[p]
<1>1. Runs(p) /\ heap_brk' = [heap_brk EXCEPT ![p] = NewBreak(p, i)] /\ Moves(p, i)
  BY SbrkMoves DEF Moves, Alive, Runs
<1>2. Shrinks(p, i)
  BY <1>1, SbrkIs
<1>3. NewBreak(p, i) \in Nat /\ NewBreak(p, i) = Wanted(p, i) /\ heap_brk'[p] = NewBreak(p, i)
  BY <1>1, BreakIs DEF IInv, Control
<1>4. v * PAGE_SIZE \in Nat /\ min_heap_break \in Nat
  <2>1. v \in Nat
    BY Sizes DEF Pages
  <2> QED
    BY <2>1, Sizes, BrkBehind, Z3
<1>5. v \in DOMAIN pt[p] => v * PAGE_SIZE < min_heap_break \/ v * PAGE_SIZE < heap_brk[p]
  BY <1>1 DEF IInv, HeapPages
<1>6. \/ ~(v * PAGE_SIZE >= Wanted(p, i) /\ v * PAGE_SIZE >= min_heap_break)
      \/ v \notin DOMAIN pt'[p] /\ ~(v * PAGE_SIZE < heap_brk'[p])
  BY <1>2, <1>3, <1>4, <1>5 DEF Shrinks
<1>7. v * PAGE_SIZE < Wanted(p, i) /\ v \in DOMAIN pt[p] => v \in DOMAIN pt'[p]
  BY <1>2, <1>3, <1>4 DEF Shrinks
<1> QED
  BY <1>6, <1>7

\* As long as no increment wraps around the address space, a sys_sbrk() that
\* shrinks the heap unmaps every page behind the new break and no other.
THEOREM ShrinkExact ==
  ASSUME NoWrap
  PROVE  Spec => ShrinkUnmaps
<1>1. IInv /\ [Next]_vars =>
        [\A p \in Procs, increment \in Increments :
           Sbrk(p, increment) /\ increment < 0 /\ machine' = "running" =>
             \A v \in Pages \ StackPages :
               /\ v * PAGE_SIZE >= Wanted(p, increment) /\ v * PAGE_SIZE >= min_heap_break
                    => v \notin DOMAIN pt'[p] /\ ~(v * PAGE_SIZE < heap_brk'[p])
               /\ v * PAGE_SIZE < Wanted(p, increment) /\ v \in DOMAIN pt[p] => v \in DOMAIN pt'[p]]_vars
  BY ShrinkStep
<1> QED
  BY <1>1, ProcMemInvariant, PTL DEF Spec, ShrinkUnmaps
=============================================================================
