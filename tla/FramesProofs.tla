---------------------------- MODULE FramesProofs ----------------------------
(***************************************************************************)
(* PageFrames for any number of tasks, frames and bits of a byte, and any  *)
(* size of a DMA region: frames have one owner, the bitmap accounts for    *)
(* them, and the scan for a DMA region is exact.                           *)
(***************************************************************************)
EXTENDS PageFrames, WellFoundedInduction, TLAPS

-----------------------------------------------------------------------------
\* Division with remainder, for an unknown divisor.
LEMMA DivMod ==
  ASSUME NEW b \in Nat, NEW n \in Nat \ {0}
  PROVE  b = (b \div n) * n + (b % n) /\ b \div n \in Nat /\ b % n \in 0 .. n - 1
  BY Z3

LEMMA DivBelow ==
  ASSUME NEW b \in Nat, NEW n \in Nat \ {0}, NEW m \in Nat, b < m * n
  PROVE  b \div n < m
  BY DivMod, Z3

LEMMA Multiples ==
  ASSUME NEW q \in Nat, NEW r \in Nat, NEW n \in Nat \ {0}, q < r
  PROVE  r * n >= q * n + n
<1>1. r * n = (r - q) * n + q * n
  BY Z3
<1>2. (r - q) * n >= n
  BY Z3
<1> QED
  BY <1>1, <1>2, Z3

\* Two multiples of n are n apart at least.
LEMMA AlignedApart ==
  ASSUME NEW a \in Nat, NEW b \in Nat, NEW n \in Nat \ {0}, a % n = 0, b % n = 0, a < b
  PROVE  a + n <= b
<1> DEFINE q == a \div n
           r == b \div n
<1>1. a = q * n /\ b = r * n /\ q \in Nat /\ r \in Nat
  BY DivMod, Z3
<1> HIDE DEF q, r
<1>2. q < r
  BY <1>1, Z3
<1> QED
  BY <1>1, <1>2, Multiples

\* A set of naturals has a least element.
LEMMA LeastNat ==
  ASSUME NEW S \in SUBSET Nat, S # {}
  PROVE  Least(S) \in S /\ \A y \in S : Least(S) <= y
<1> DEFINE Less == {ss \in Nat \X Nat : ss[1] < ss[2]}
<1>1. IsWellFoundedOn(Less, Nat)
  BY NatLessThanWellFounded, Zenon DEF OpToRel
<1> HIDE DEF Less
<1>2. PICK x \in S : \A y \in S : ~(<<y, x>> \in Less)
  BY <1>1, WFMin, Zenon
<1>3. \A y \in S : ~(y < x)
  BY <1>2 DEF Less
<1>4. \A y \in S : x <= y
  BY <1>3
<1> QED
  BY <1>4 DEF Least

-----------------------------------------------------------------------------
\* The number of bits.
Last == BITMAP_BYTE_SIZE * BYTE

LEMMA BitsNat ==
  BITMAP_BYTE_SIZE \in Nat /\ Last \in Nat /\ Bits = 0 .. Last - 1 /\ Frames \subseteq Bits
<1>1. SIZE + BYTE - 1 \in Nat
  BY FramesAssumption
<1>2. BITMAP_BYTE_SIZE \in Nat
  BY <1>1, FramesAssumption, DivMod DEF BITMAP_BYTE_SIZE
<1>3. Bits = 0 .. Last - 1 /\ Last \in Nat
  BY <1>2, FramesAssumption DEF Bits, Last
<1>4. SIZE + BYTE - 1 = Last + ((SIZE + BYTE - 1) % BYTE) /\ (SIZE + BYTE - 1) % BYTE \in 0 .. BYTE - 1
  BY <1>1, FramesAssumption, DivMod DEF Last, BITMAP_BYTE_SIZE
<1>5. SIZE <= Last
  BY <1>3, <1>4, FramesAssumption
<1>6. Frames \subseteq Bits
  BY <1>3, <1>5, FramesAssumption DEF Frames
<1> QED
  BY <1>2, <1>3, <1>6

\* bitmap_find_free() returns a bit that is zero, if there is one.
LEMMA FindFreeFinds ==
  ASSUME Bits \ used # {}
  PROVE  FindFree \in Bits \ used
<1> USE FramesAssumption, BitsNat
<1> DEFINE open == {k \in 0 .. BITMAP_BYTE_SIZE - 1 : Zeroes(k) # {}}
           k == Least(open)
           j == Least(Zeroes(k))
<1>1. PICK b \in Bits : b \notin used
  OBVIOUS
<1>2. b \in Nat /\ b < BITMAP_BYTE_SIZE * BYTE
  BY <1>1 DEF Bits
<1>3. b \div BYTE \in 0 .. BITMAP_BYTE_SIZE - 1 /\ b % BYTE \in 0 .. BYTE - 1
        /\ (b \div BYTE) * BYTE + (b % BYTE) = b
  <2>1. b = (b \div BYTE) * BYTE + (b % BYTE) /\ b \div BYTE \in Nat /\ b % BYTE \in 0 .. BYTE - 1
    BY <1>2, DivMod
  <2>2. b \div BYTE < BITMAP_BYTE_SIZE
    BY <1>2, DivBelow
  <2> QED
    BY <2>1, <2>2
<1>4. b % BYTE \in Zeroes(b \div BYTE)
  BY <1>1, <1>3 DEF Zeroes
<1>5. b \div BYTE \in open
  BY <1>3, <1>4
<1>6. k \in open
  <2>1. open \in SUBSET Nat /\ open # {}
    BY <1>5
  <2> QED
    BY <2>1, LeastNat
<1>7. j \in Zeroes(k)
  <2>1. Zeroes(k) \in SUBSET Nat /\ Zeroes(k) # {}
    BY <1>6 DEF Zeroes
  <2> QED
    BY <2>1, LeastNat
<1>8. FindFree = k * BYTE + j
  BY DEF FindFree
<1> HIDE DEF k, j
<1>9. k \in 0 .. BITMAP_BYTE_SIZE - 1 /\ j \in 0 .. BYTE - 1 /\ k * BYTE + j \notin used
  BY <1>6, <1>7 DEF Zeroes
<1>10. BITMAP_BYTE_SIZE * BYTE >= k * BYTE + BYTE
  BY <1>9, Multiples
<1>11. k * BYTE \in Nat
  BY <1>9
<1>12. k * BYTE + j \in Bits
  BY <1>9, <1>10, <1>11 DEF Bits
<1> QED
  BY <1>8, <1>9, <1>12

-----------------------------------------------------------------------------
\* The statements between taking and dropping free_pages_lock.
Critical == {"find", "set", "free", "scan", "mark", "dma_fail"}

LockInv == \A t \in Tasks : lock = t <=> pc[t] \in Critical

TailReserved == Bits \ Frames \subseteq reserved

\* What tasks have was free when boot32 was done.
NotReserved == \A t \in Tasks : Has(t) \cap reserved = {}

\* Accounted, bit by bit.
Ledger == \A b \in Bits : b \in used <=> b \in reserved \/ \E t \in Tasks : b \in Has(t)

\* No aligned run that began before bit i is free, but for the one under way.
Passed(t) ==
  \A a \in Bits :
    a % DMA_PAGES = 0 /\ a < i[t] /\ ~(free_bits[t] > 0 /\ a = bit[t])
      => \E u \in used : a <= u /\ u < a + DMA_PAGES

Run(t) ==
  free_bits[t] > 0 =>
    /\ bit[t] \in Nat /\ bit[t] % DMA_PAGES = 0
    /\ bit[t] + free_bits[t] = i[t]
    /\ \A b \in bit[t] .. i[t] - 1 : b \in Bits \ used

ScanInv ==
  \A t \in Tasks : pc[t] = "scan" =>
    i[t] <= Last /\ free_bits[t] < DMA_PAGES /\ Run(t) /\ Passed(t)

IInv ==
  /\ TypeOK /\ LockInv /\ TailReserved /\ NotReserved /\ Exclusive /\ Ledger /\ ReturnsClear
  /\ ScanInv /\ ScanExact

LEMMA InitInv == Init => IInv
<1> USE FramesAssumption, BitsNat
<1> SUFFICES ASSUME Init PROVE IInv
  OBVIOUS
<1>0. Frames \subseteq Bits /\ 0 \in Frames
  BY DEF Frames
<1>1. TypeOK
  <2>1. reserved \subseteq Bits
    BY <1>0 DEF Init
  <2> QED
    BY <1>0, <2>1 DEF Init, TypeOK, PCs
<1>2. LockInv /\ Exclusive /\ Ledger /\ ReturnsClear /\ ScanInv /\ ScanExact
  BY DEF Init, LockInv, Critical, Exclusive, Ledger, Has, ReturnsClear, ScanInv, ScanExact
<1>3. TailReserved /\ NotReserved
  BY DEF Init, TailReserved, NotReserved, Has
<1> QED
  BY <1>1, <1>2, <1>3 DEF IInv

-----------------------------------------------------------------------------
\* A step that leaves the bitmap and who has what alone, of a task that does not
\* scan: the scan of others and the ledger stay as they are.
LEMMA ScanSame ==
  ASSUME IInv, NEW t \in Tasks, UNCHANGED <<used, scan>>,
         pc' = [pc EXCEPT ![t] = pc'[t]], pc'[t] \notin {"scan", "mark", "dma_fail"}
  PROVE  ScanInv' /\ ScanExact'
  BY DEF IInv, TypeOK, ScanInv, ScanExact, Run, Passed, FreeRuns, scan

\* While a task is in the critical section no other one is.
LEMMA OthersOut ==
  ASSUME IInv, NEW t \in Tasks, lock \in {NULL, t}
  PROVE  \A u \in Tasks \ {t} : pc[u] \notin Critical
  BY FramesAssumption DEF IInv, LockInv

LEMMA StepInv == IInv /\ [Next]_vars => IInv'
<1> USE FramesAssumption
<1> SUFFICES ASSUME IInv, [Next]_vars PROVE IInv'
  OBVIOUS
<1>1. CASE UNCHANGED vars
  BY <1>1 DEF IInv, vars, scan, TypeOK, LockInv, TailReserved, NotReserved, Exclusive, Ledger, Has, ReturnsClear,
     ScanInv, ScanExact, Run, Passed, FreeRuns
<1>2. ASSUME NEW t \in Tasks, Step(t) PROVE IInv'
  <2> USE DEF IInv
  <2>a. TypeOK /\ LockInv /\ TailReserved /\ NotReserved /\ Exclusive /\ Ledger /\ ReturnsClear /\ ScanInv /\ ScanExact
    OBVIOUS
  <2>1. CASE AllocCall(t) \/ DmaCall(t) \/ AllocLock(t) \/ FreeLock(t)
    <3>1. TypeOK' /\ LockInv' /\ TailReserved' /\ NotReserved' /\ Exclusive' /\ Ledger' /\ ReturnsClear'
      BY <2>1, OthersOut DEF AllocCall, DmaCall, AllocLock, FreeLock, scan, Goto, TypeOK, PCs, LockInv, Critical,
         TailReserved, NotReserved, Exclusive, Ledger, Has, ReturnsClear
    <3>2. ScanInv' /\ ScanExact'
      BY <2>1, ScanSame DEF AllocCall, DmaCall, AllocLock, FreeLock, scan, Goto, TypeOK
    <3> QED
      BY <3>1, <3>2
  <2>2. CASE AllocFind(t)
    <3>1. FindFree \in Bits \ used
      BY <2>2, FindFreeFinds DEF AllocFind
    <3>2. FindFree \in Frames
      BY <3>1 DEF TailReserved, Ledger
    <3>3. TypeOK' /\ LockInv' /\ TailReserved' /\ NotReserved' /\ Ledger' /\ ReturnsClear'
      BY <2>2, <3>2 DEF AllocFind, scan, Goto, TypeOK, PCs, LockInv, Critical,
         TailReserved, NotReserved, Ledger, Has, ReturnsClear
    <3>4. Exclusive'
      BY <2>2, <3>1, <3>2 DEF AllocFind, scan, Goto, TypeOK, Exclusive, Has
    <3>5. ScanInv' /\ ScanExact'
      BY <2>2, ScanSame DEF AllocFind, scan, Goto, TypeOK
    <3> QED
      BY <3>3, <3>4, <3>5
  <2>3. CASE AllocPanic(t)
    <3>1. TypeOK' /\ LockInv' /\ TailReserved' /\ NotReserved' /\ Exclusive' /\ Ledger' /\ ReturnsClear'
      BY <2>3 DEF AllocPanic, scan, Goto, TypeOK, PCs, LockInv, Critical,
         TailReserved, NotReserved, Exclusive, Ledger, Has, ReturnsClear
    <3>2. ScanInv' /\ ScanExact'
      BY <2>3, ScanSame DEF AllocPanic, scan, Goto, TypeOK
    <3> QED
      BY <3>1, <3>2
  <2>4. CASE AllocSet(t)
    <3>0. lock = t /\ page[t] \in Frames \ used /\ pc[t] = "set" /\ page[t] \in Bits
      BY <2>4, BitsNat DEF AllocSet, scan, Goto, LockInv, Critical, Exclusive, TypeOK
    <3>1. \A u \in Tasks \ {t} : pc[u] \notin Critical
      BY <3>0, OthersOut
    <3>2. TypeOK' /\ LockInv' /\ TailReserved' /\ ReturnsClear'
      BY <2>4, <3>0, <3>1 DEF AllocSet, scan, Goto, TypeOK, PCs, LockInv, Critical, TailReserved, ReturnsClear
    <3>3. \A u \in Tasks : page[t] \notin Has(u)
      BY <3>0 DEF Ledger
    <3>4. Has(t)' = Has(t) \cup {page[t]} /\ \A u \in Tasks \ {t} : Has(u)' = Has(u)
      BY <2>4, <3>0 DEF AllocSet, scan, Goto, Has, TypeOK
    <3>5. Ledger' /\ NotReserved'
      BY <2>4, <3>0, <3>4 DEF AllocSet, Ledger, NotReserved
    <3>6. Exclusive'
      BY <2>4, <3>0, <3>1, <3>3, <3>4 DEF AllocSet, scan, Goto, Exclusive, TypeOK, Critical, Has
    <3>7. ScanInv' /\ ScanExact'
      BY <2>4, <3>1 DEF AllocSet, scan, Goto, TypeOK, ScanInv, ScanExact, Critical
    <3> QED
      BY <3>2, <3>5, <3>6, <3>7
  <2>5. CASE AllocClear(t)
    <3>1. TypeOK' /\ LockInv' /\ TailReserved' /\ NotReserved' /\ Exclusive' /\ Ledger' /\ ReturnsClear'
      BY <2>5 DEF AllocClear, scan, Goto, TypeOK, PCs, LockInv, Critical,
         TailReserved, NotReserved, Exclusive, Ledger, Has, ReturnsClear
    <3>2. ScanInv' /\ ScanExact'
      BY <2>5, ScanSame DEF AllocClear, scan, Goto, TypeOK
    <3> QED
      BY <3>1, <3>2
  <2>6. CASE AllocReturn(t)
    <3>0. 0 \in Frames /\ pc[t] = "return" /\ page[t] \in Frames
      BY <2>6 DEF AllocReturn, scan, Goto, Frames, TypeOK
    <3>1. TypeOK' /\ LockInv' /\ TailReserved' /\ ReturnsClear'
      BY <2>6, <3>0 DEF AllocReturn, scan, Goto, TypeOK, PCs, LockInv, Critical, TailReserved, ReturnsClear
    <3>2. \A u \in Tasks : Has(u)' = Has(u)
      BY <2>6, <3>0 DEF AllocReturn, scan, Goto, Has, TypeOK
    <3>3. Exclusive' /\ Ledger' /\ NotReserved'
      BY <2>6, <3>0, <3>2 DEF AllocReturn, scan, Goto, Exclusive, Ledger, NotReserved, TypeOK
    <3>4. ScanInv' /\ ScanExact'
      BY <2>6, ScanSame DEF AllocReturn, scan, Goto, TypeOK
    <3> QED
      BY <3>1, <3>3, <3>4
  <2>7. ASSUME NEW p \in Frames, Write(t, p) PROVE IInv'
    <3>1. TypeOK' /\ LockInv' /\ TailReserved' /\ NotReserved' /\ Exclusive' /\ Ledger'
      BY <2>7 DEF Write, scan, TypeOK, LockInv, TailReserved, NotReserved, Exclusive, Ledger, Has
    <3>2. ReturnsClear'
      <4>1. \A u \in Tasks : pc[u] = "return" => page[u] # p
        BY <2>7 DEF Write, Exclusive, Has
      <4> QED
        BY <2>7, <4>1 DEF Write, ReturnsClear
    <3>3. ScanInv' /\ ScanExact'
      BY <2>7 DEF Write, scan, ScanInv, ScanExact, Run, Passed, FreeRuns
    <3> QED
      BY <3>1, <3>2, <3>3
  <2>8. ASSUME NEW p \in Frames, FreeCall(t, p) PROVE IInv'
    <3>1. TypeOK' /\ LockInv' /\ TailReserved' /\ ReturnsClear'
      BY <2>8 DEF FreeCall, scan, Goto, TypeOK, PCs, LockInv, Critical, TailReserved, ReturnsClear
    <3>2. \A u \in Tasks : Has(u)' = Has(u)
      BY <2>8 DEF FreeCall, scan, Goto, Has, TypeOK
    <3>3. Exclusive' /\ Ledger' /\ NotReserved'
      BY <2>8, <3>2 DEF FreeCall, scan, Goto, Exclusive, Ledger, NotReserved, TypeOK
    <3>4. ScanInv' /\ ScanExact'
      BY <2>8, ScanSame DEF FreeCall, scan, Goto, TypeOK
    <3> QED
      BY <3>1, <3>3, <3>4
  <2>9. CASE FreeClr(t)
    <3>0. lock = t /\ pc[t] = "free" /\ page[t] \in Frames /\ page[t] \in Has(t) /\ 0 \in Frames
            /\ page[t] \notin held[t]
      BY <2>9 DEF FreeClr, scan, Goto, LockInv, Critical, TypeOK, Has, Exclusive, Frames
    <3>1. \A u \in Tasks \ {t} : pc[u] \notin Critical
      BY <3>0, OthersOut
    <3>2. TypeOK' /\ LockInv' /\ TailReserved' /\ ReturnsClear'
      BY <2>9, <3>0, <3>1 DEF FreeClr, scan, Goto, TypeOK, PCs, LockInv, Critical, TailReserved, ReturnsClear
    <3>3. Has(t)' = Has(t) \ {page[t]} /\ \A u \in Tasks \ {t} : Has(u)' = Has(u)
      BY <2>9, <3>0 DEF FreeClr, scan, Goto, Has, TypeOK
    <3>4. \A u \in Tasks \ {t} : page[t] \notin Has(u)
      BY <3>0 DEF Exclusive
    <3>5. Ledger' /\ NotReserved'
      BY <2>9, <3>0, <3>3, <3>4 DEF FreeClr, Ledger, NotReserved
    <3>6. Exclusive'
      BY <2>9, <3>0, <3>1, <3>3 DEF FreeClr, scan, Goto, Exclusive, TypeOK, Critical
    <3>7. ScanInv' /\ ScanExact'
      BY <2>9, <3>1 DEF FreeClr, scan, Goto, TypeOK, ScanInv, ScanExact, Critical
    <3> QED
      BY <3>2, <3>5, <3>6, <3>7
  <2>10. CASE DmaLock(t)
    <3>0. lock = NULL /\ pc[t] = "dma_lock"
      BY <2>10 DEF DmaLock, Goto
    <3>1. \A u \in Tasks \ {t} : pc[u] \notin Critical
      BY <3>0, OthersOut
    <3>2. TypeOK' /\ LockInv' /\ TailReserved' /\ NotReserved' /\ Exclusive' /\ Ledger' /\ ReturnsClear'
      BY <2>10, <3>1 DEF DmaLock, Forget, scan, Goto, TypeOK, PCs, LockInv, Critical,
         TailReserved, NotReserved, Exclusive, Ledger, Has, ReturnsClear
    <3>3. ScanInv' /\ ScanExact'
      BY <2>10, <3>1, BitsNat DEF DmaLock, Forget, scan, Goto, TypeOK, ScanInv, Run, Passed, ScanExact, Critical
    <3> QED
      BY <3>2, <3>3
  <2>11. CASE DmaNone(t)
    <3>0. lock = t /\ pc[t] = "scan" /\ i[t] = Last
      BY <2>11, BitsNat DEF DmaNone, scan, Goto, LockInv, Critical, ScanInv, TypeOK
    <3>1. \A u \in Tasks \ {t} : pc[u] \notin Critical
      BY <3>0, OthersOut
    <3>2. TypeOK' /\ LockInv' /\ TailReserved' /\ NotReserved' /\ Exclusive' /\ Ledger' /\ ReturnsClear'
      BY <2>11, <3>0, <3>1 DEF DmaNone, scan, Goto, TypeOK, PCs, LockInv, Critical,
         TailReserved, NotReserved, Exclusive, Ledger, Has, ReturnsClear
    <3>3. ASSUME NEW a \in FreeRuns PROVE FALSE
      <4>1. a \in Bits /\ a % DMA_PAGES = 0 /\ \A b \in a .. a + DMA_PAGES - 1 : b \in Bits \ used
        BY DEF FreeRuns
      <4>2. a \in Nat /\ a < i[t]
        BY <3>0, <4>1, BitsNat
      <4>3. ~(\E u \in used : a <= u /\ u < a + DMA_PAGES)
        BY <4>1, <4>2, BitsNat DEF TypeOK
      <4>4. free_bits[t] > 0 /\ a = bit[t]
        BY <3>0, <4>1, <4>2, <4>3 DEF ScanInv, Passed
      <4>5. a + free_bits[t] = Last /\ free_bits[t] < DMA_PAGES /\ free_bits[t] \in Nat
        BY <3>0, <4>4 DEF ScanInv, Run, TypeOK
      <4>6. Last \in a .. a + DMA_PAGES - 1
        BY <4>2, <4>5, BitsNat
      <4> QED
        BY <4>1, <4>6, BitsNat
    <3>4. ScanInv' /\ ScanExact'
      BY <2>11, <3>0, <3>1, <3>3 DEF DmaNone, scan, Goto, TypeOK, ScanInv, ScanExact, FreeRuns, Critical
    <3> QED
      BY <3>2, <3>4
  <2>12. CASE DmaScan(t)
    <3> DEFINE n == DMA_PAGES
               f == ScanBit(t)[1]
               s == ScanBit(t)[2]
    <3>0. lock = t /\ pc[t] = "scan" /\ i[t] \in Nat /\ i[t] < Last /\ i[t] \in Bits
      BY <2>12, BitsNat DEF DmaScan, Goto, LockInv, Critical, TypeOK
    <3>1. \A u \in Tasks \ {t} : pc[u] \notin Critical
      BY <3>0, OthersOut
    <3>2. free_bits[t] < n /\ Run(t) /\ Passed(t) /\ free_bits[t] \in Nat
      BY <3>0 DEF ScanInv, TypeOK
    <3>3. f \in Nat /\ s \in Int /\ f <= n
      BY <3>0, <3>2 DEF ScanBit, TypeOK
    <3>4. f > 0 => /\ s \in Nat /\ s % n = 0 /\ s + f = i[t] + 1
                   /\ \A b \in s .. i[t] : b \in Bits \ used
      <4>1. CASE i[t] \in used
        BY <4>1 DEF ScanBit
      <4>2. CASE i[t] \notin used /\ free_bits[t] > 0
        <5>1. f = free_bits[t] + 1 /\ s = bit[t]
          BY <4>2 DEF ScanBit
        <5>2. bit[t] \in Nat /\ bit[t] % n = 0 /\ bit[t] + free_bits[t] = i[t]
                /\ \A b \in bit[t] .. i[t] - 1 : b \in Bits \ used
          BY <3>2, <4>2 DEF Run
        <5>3. \A b \in bit[t] .. i[t] : b = i[t] \/ b \in bit[t] .. i[t] - 1
          BY <5>2, <3>0
        <5>4. \A b \in bit[t] .. i[t] : b \in Bits \ used
          BY <3>0, <4>2, <5>2, <5>3
        <5>5. bit[t] + (free_bits[t] + 1) = i[t] + 1
          BY <3>0, <3>2, <5>2
        <5> HIDE DEF f, s
        <5> QED
          BY <5>1, <5>2, <5>4, <5>5
      <4>3. CASE i[t] \notin used /\ ~(free_bits[t] > 0) /\ i[t] % n # 0
        BY <4>3 DEF ScanBit
      <4>4. CASE i[t] \notin used /\ ~(free_bits[t] > 0) /\ i[t] % n = 0
        BY <3>0, <4>4 DEF ScanBit
      <4> QED
        BY <4>1, <4>2, <4>3, <4>4
    <3>5. ASSUME NEW a \in Bits, a % n = 0, a < i[t] + 1, ~(f > 0 /\ a = s)
          PROVE  \E u \in used : a <= u /\ u < a + n
      <4>0. a \in Nat
        BY BitsNat
      <4>1. CASE a = i[t]
        <5>1. CASE i[t] \in used
          BY <4>0, <4>1, <5>1
        <5>2. CASE i[t] \notin used /\ free_bits[t] > 0
          \* bit[t] and i[t] are aligned and less than n apart: the same.
          <6>1. bit[t] \in Nat /\ bit[t] % n = 0 /\ bit[t] + free_bits[t] = i[t]
            BY <3>2, <5>2 DEF Run
          <6>2. bit[t] + n <= i[t]
            BY <3>0, <3>2, <3>5, <4>0, <4>1, <5>2, <6>1, AlignedApart
          <6> QED
            BY <3>0, <3>2, <6>1, <6>2
        <5>3. CASE i[t] \notin used /\ ~(free_bits[t] > 0)
          BY <3>5, <4>1, <5>3 DEF ScanBit
        <5> QED
          BY <5>1, <5>2, <5>3
      <4>2. CASE a < i[t] /\ ~(free_bits[t] > 0 /\ a = bit[t])
        BY <3>2, <3>5, <4>2 DEF Passed
      <4>3. CASE a < i[t] /\ free_bits[t] > 0 /\ a = bit[t]
        <5>1. i[t] \in used
          <6>1. i[t] \notin used => f = free_bits[t] + 1 /\ s = bit[t]
            BY <4>3 DEF ScanBit
          <6> QED
            BY <3>2, <3>5, <4>3, <6>1
        <5>2. a + free_bits[t] = i[t]
          BY <3>2, <4>3 DEF Run
        <5> QED
          BY <3>0, <3>2, <4>0, <5>1, <5>2
      <4> QED
        BY <3>0, <3>5, <4>0, <4>1, <4>2, <4>3
    <3> HIDE DEF f, s
    <3>6. free_bits'[t] = f /\ bit'[t] = s /\ i'[t] = i[t] + 1 /\ used' = used
            /\ pc'[t] = (IF f < n THEN "scan" ELSE IF s + n > MAX_PAGE THEN "dma_fail" ELSE "mark")
      BY <2>12 DEF DmaScan, Goto, TypeOK, f, s
    <3>7. TypeOK' /\ LockInv' /\ TailReserved' /\ NotReserved' /\ Exclusive' /\ Ledger' /\ ReturnsClear'
      <4>1. pc' = [pc EXCEPT ![t] = pc'[t]] /\ pc'[t] \in {"scan", "dma_fail", "mark"}
        BY <2>12, <3>6 DEF DmaScan, Goto, TypeOK
      <4>2. TypeOK'
        BY <2>12, <3>0, <3>3, <4>1 DEF DmaScan, TypeOK, PCs, f, s
      <4>3. LockInv' /\ TailReserved' /\ ReturnsClear'
        BY <2>12, <3>0, <3>1, <4>1 DEF DmaScan, TypeOK, LockInv, Critical, TailReserved, ReturnsClear
      <4>4. NotReserved' /\ Exclusive' /\ Ledger'
        BY <2>12, <3>0, <4>1 DEF DmaScan, TypeOK, NotReserved, Exclusive, Ledger, Has
      <4> QED
        BY <4>2, <4>3, <4>4
    <3>8. \A u \in Tasks \ {t} : pc'[u] \notin Critical
      BY <2>12, <3>1 DEF DmaScan, Goto, TypeOK
    <3>9. ScanInv'
      <4> SUFFICES ASSUME pc'[t] = "scan"
                   PROVE  i'[t] <= Last /\ free_bits'[t] < n /\ Run(t)' /\ Passed(t)'
        BY <3>8 DEF ScanInv, Critical
      <4>1. i'[t] <= Last /\ free_bits'[t] < n
        BY <3>0, <3>3, <3>6, BitsNat
      <4>2. Run(t)'
        BY <3>0, <3>3, <3>4, <3>6 DEF Run
      <4>3. Passed(t)'
        BY <3>5, <3>6 DEF Passed
      <4> QED
        BY <4>1, <4>2, <4>3
    <3>10. ASSUME f = n PROVE s \in FreeRuns /\ \A a \in FreeRuns : s <= a
      <4>1. s \in Nat /\ s % n = 0 /\ s + n = i[t] + 1 /\ \A b \in s .. i[t] : b \in Bits \ used
        BY <3>4, <3>10
      <4>2. s \in Bits
        BY <3>0, <4>1
      <4>3. s \in FreeRuns
        BY <3>0, <4>1, <4>2 DEF FreeRuns
      <4>4. ASSUME NEW a \in FreeRuns, ~(s <= a) PROVE FALSE
        <5>1. a \in Bits /\ a \in Nat /\ a % n = 0
          BY BitsNat DEF FreeRuns
        <5>2. a < i[t] + 1 /\ a # s
          BY <3>0, <4>1, <4>4, <5>1
        <5>3. PICK u \in used : a <= u /\ u < a + n
          BY <3>5, <5>1, <5>2
        <5>4. u \in Nat
          BY BitsNat DEF TypeOK
        <5> QED
          BY <5>1, <5>3, <5>4 DEF FreeRuns
      <4> QED
        BY <4>3, <4>4
    <3>11. ScanExact'
      BY <3>3, <3>6, <3>8, <3>10 DEF ScanExact, FreeRuns, Critical
    <3> QED
      BY <3>7, <3>9, <3>11
  <2>13. CASE DmaMark(t)
    <3>0. lock = t /\ pc[t] = "mark" /\ bit[t] \in FreeRuns
      BY <2>13 DEF DmaMark, scan, Goto, LockInv, Critical, ScanExact
    <3>1. \A u \in Tasks \ {t} : pc[u] \notin Critical
      BY <3>0, OthersOut
    <3>2. Region(t) \subseteq Bits \ used
      BY <3>0 DEF FreeRuns, Region
    <3>3. Region(t) \subseteq Frames
      BY <3>2 DEF TailReserved, Ledger
    <3>4. TypeOK' /\ LockInv' /\ TailReserved' /\ ReturnsClear'
      BY <2>13, <3>1, <3>2, <3>3 DEF DmaMark, Forget, scan, Goto, TypeOK, PCs, LockInv, Critical, TailReserved, ReturnsClear
    <3>5. Has(t)' = Has(t) \cup Region(t) /\ \A u \in Tasks \ {t} : Has(u)' = Has(u)
      BY <2>13, <3>0 DEF DmaMark, scan, Goto, Has, TypeOK
    <3>6. \A u \in Tasks : Has(u) \cap Region(t) = {}
      BY <3>2 DEF Ledger
    <3>7. Ledger' /\ NotReserved'
      BY <2>13, <3>2, <3>5 DEF DmaMark, Ledger, NotReserved
    <3>8. Exclusive'
      BY <2>13, <3>0, <3>1, <3>5, <3>6 DEF DmaMark, scan, Goto, Exclusive, TypeOK, Critical
    <3>9. ScanInv' /\ ScanExact'
      BY <2>13, <3>1 DEF DmaMark, scan, Goto, TypeOK, ScanInv, ScanExact, Critical
    <3> QED
      BY <3>4, <3>7, <3>8, <3>9
  <2>14. CASE DmaFail(t)
    <3>0. lock = t /\ pc[t] = "dma_fail"
      BY <2>14 DEF DmaFail, scan, Goto, LockInv, Critical
    <3>1. \A u \in Tasks \ {t} : pc[u] \notin Critical
      BY <3>0, OthersOut
    <3>2. TypeOK' /\ LockInv' /\ TailReserved' /\ NotReserved' /\ Exclusive' /\ Ledger' /\ ReturnsClear'
      BY <2>14, <3>0, <3>1 DEF DmaFail, Forget, scan, Goto, TypeOK, PCs, LockInv, Critical,
         TailReserved, NotReserved, Exclusive, Ledger, Has, ReturnsClear
    <3>3. ScanInv' /\ ScanExact'
      BY <2>14, <3>1 DEF DmaFail, scan, Goto, TypeOK, ScanInv, ScanExact, Critical
    <3> QED
      BY <3>2, <3>3
  <2> QED
    BY <1>2, <2>1, <2>2, <2>3, <2>4, <2>5, <2>6, <2>7, <2>8, <2>9, <2>10, <2>11, <2>12, <2>13, <2>14 DEF Step
<1> QED
  BY <1>1, <1>2 DEF Next

LEMMA Invariance == Spec => []IInv
  BY InitInv, StepInv, PTL DEF Spec

-----------------------------------------------------------------------------
\* alloc_page() and alloc_dma_region() hand out frames only, never the bits that
\* fill up the last byte of the bitmap.
THEOREM FramesTypes == Spec => []TypeOK
<1>1. IInv => TypeOK
  BY DEF IInv
<1> QED
  BY <1>1, Invariance, PTL

\* No frame is handed out twice, however many tasks allocate and free.
THEOREM FramesExclusive == Spec => []Exclusive
<1>1. IInv => Exclusive
  BY DEF IInv
<1> QED
  BY <1>1, Invariance, PTL

\* The bitmap is set where boot32 left it set or a task has the frame.
THEOREM FramesAccounted == Spec => []Accounted
<1>1. IInv => Accounted
  <2> SUFFICES ASSUME IInv PROVE Accounted
    OBVIOUS
  <2>1. used \subseteq Bits /\ reserved \subseteq Bits
    BY DEF IInv, TypeOK
  <2>2. \A t \in Tasks : Has(t) \subseteq Bits
    BY BitsNat DEF IInv, TypeOK, Has
  <2> QED
    BY <2>1, <2>2 DEF IInv, Ledger, Accounted
<1> QED
  BY <1>1, Invariance, PTL

\* alloc_page() returns frames of zeroes.
THEOREM FramesClear == Spec => []ReturnsClear
<1>1. IInv => ReturnsClear
  BY DEF IInv
<1> QED
  BY <1>1, Invariance, PTL

\* bitmap_find_n_free() finds the first aligned free run, or there is none.
THEOREM FramesScan == Spec => []ScanExact
<1>1. IInv => ScanExact
  BY DEF IInv
<1> QED
  BY <1>1, Invariance, PTL
=============================================================================
