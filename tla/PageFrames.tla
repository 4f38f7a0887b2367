----------------------------- MODULE PageFrames -----------------------------
(***************************************************************************)
(* The physical page frames of kernel/mm/page.c and the bitmap they are    *)
(* kept in (libutil/bitmap.c): alloc_page(), alloc_dma_region() and        *)
(* free_page(), called by several tasks.                                   *)
(*                                                                         *)
(* free_pages_lock is a mutex; here it is an atomic lock, which Mutex is   *)
(* shown to implement.  Everything between taking and dropping it is a     *)
(* step of its own, and alloc_page() clears the frame after the unlock.    *)
(* The bitmap is the set of its bits that are 1.                           *)
(***************************************************************************)
EXTENDS Integers, FiniteSets

CONSTANTS Tasks,        \* the tasks that call the allocator
          NULL,         \* nobody
          SIZE,         \* free_pages.size, the number of page frames
          BYTE,         \* bits of a byte of the bitmap
          DMA_PAGES,    \* frames of a DMA region (16 in the code)
          MAX_PAGE      \* a DMA region ends at or below this frame

ASSUME FramesAssumption ==
  /\ NULL \notin Tasks
  /\ SIZE \in Nat \ {0} /\ BYTE \in Nat \ {0}
  /\ DMA_PAGES \in Nat \ {0} /\ MAX_PAGE \in Nat

VARIABLES used,         \* the bits of the bitmap that are set
          reserved,     \* the bits boot32 left set
          lock,         \* who holds free_pages_lock
          pc,           \* the next statement of each task
          page,         \* ppn in alloc_page(), the argument of free_page()
          i,            \* bitmap_find_n_free(): the bit that is looked at next
          free_bits,    \*   the length of the free run
          bit,          \*   and where it begins, -1 when there is none
          held,         \* ghost: the frames a task has been given
          clear,        \* the frames that contain nothing but zeroes
          machine       \* running, or stopped by panic()

vars == <<used, reserved, lock, pc, page, i, free_bits, bit, held, clear, machine>>
scan == <<i, free_bits, bit>>

Frames == 0 .. SIZE - 1

\* BITMAP_BYTE_SIZE(): the bytes of a bitmap of SIZE bits, rounded up.
BITMAP_BYTE_SIZE == (SIZE + BYTE - 1) \div BYTE
Bits == 0 .. BITMAP_BYTE_SIZE * BYTE - 1

\* A slip: the bits behind the last frame are left zero.
InitTailFree ==
  /\ reserved \in SUBSET Frames
  /\ used = reserved
  /\ lock = NULL
  /\ pc = [t \in Tasks |-> "idle"]
  /\ page = [t \in Tasks |-> 0]
  /\ i = [t \in Tasks |-> 0]
  /\ free_bits = [t \in Tasks |-> 0]
  /\ bit = [t \in Tasks |-> -1]
  /\ held = [t \in Tasks |-> {}]
  /\ clear = {}
  /\ machine = "running"

\* boot32 sets every bit and then clears those of usable memory, all of them
\* below SIZE (create_pagemap()).
Init ==
  /\ reserved \in {R \cup (Bits \ Frames) : R \in SUBSET Frames}
  /\ used = reserved
  /\ lock = NULL
  /\ pc = [t \in Tasks |-> "idle"]
  /\ page = [t \in Tasks |-> 0]
  /\ i = [t \in Tasks |-> 0]
  /\ free_bits = [t \in Tasks |-> 0]
  /\ bit = [t \in Tasks |-> -1]
  /\ held = [t \in Tasks |-> {}]
  /\ clear = {}
  /\ machine = "running"

Goto(t, from, to) == machine = "running" /\ pc[t] = from /\ pc' = [pc EXCEPT ![t] = to]

-----------------------------------------------------------------------------
Least(S) == CHOOSE a \in S : \A b \in S : a <= b

\* Byte k of the bitmap, as the indices of its bits that are 0.
Zeroes(k) == {j \in 0 .. BYTE - 1 : k * BYTE + j \notin used}

\* bitmap_find_free(): the first byte that is not all ones, the first zero in it.
FindFree ==
  LET open == {k \in 0 .. BITMAP_BYTE_SIZE - 1 : Zeroes(k) # {}}
  IN Least(open) * BYTE + Least(Zeroes(Least(open)))

\* alloc_page()
AllocCall(t) ==
  /\ Goto(t, "idle", "alloc_lock")
  /\ UNCHANGED <<used, reserved, lock, page, scan, held, clear, machine>>

\* A slip: the lock is not waited for.
AllocLockBusy(t) ==
  /\ Goto(t, "alloc_lock", "find")
  /\ lock' = t
  /\ UNCHANGED <<used, reserved, page, scan, held, clear, machine>>

AllocLock(t) ==
  /\ lock = NULL
  /\ Goto(t, "alloc_lock", "find")
  /\ lock' = t
  /\ UNCHANGED <<used, reserved, page, scan, held, clear, machine>>

AllocFind(t) ==
  /\ Bits \ used # {}
  /\ Goto(t, "find", "set")
  /\ page' = [page EXCEPT ![t] = FindFree]
  /\ UNCHANGED <<used, reserved, lock, scan, held, clear, machine>>

\* kpanic(): out of memory, and the lock is still held.
AllocPanic(t) ==
  /\ Bits \ used = {}
  /\ Goto(t, "find", "find")
  /\ machine' = "panicked"
  /\ UNCHANGED <<used, reserved, lock, page, scan, held, clear>>

AllocSet(t) ==
  /\ Goto(t, "set", "clear")
  /\ used' = used \cup {page[t]}
  /\ lock' = NULL
  /\ UNCHANGED <<reserved, page, scan, held, clear, machine>>

\* memset(), outside the lock.
AllocClear(t) ==
  /\ Goto(t, "clear", "return")
  /\ clear' = clear \cup {page[t]}
  /\ UNCHANGED <<used, reserved, lock, page, scan, held, machine>>

AllocReturn(t) ==
  /\ Goto(t, "return", "idle")
  /\ held' = [held EXCEPT ![t] = @ \cup {page[t]}]
  /\ page' = [page EXCEPT ![t] = 0]
  /\ UNCHANGED <<used, reserved, lock, scan, clear, machine>>

\* Whoever has a frame writes to it.
Write(t, p) ==
  /\ machine = "running"
  /\ p \in held[t] \cap clear
  /\ clear' = clear \ {p}
  /\ UNCHANGED <<used, reserved, lock, pc, page, scan, held, machine>>

-----------------------------------------------------------------------------
\* free_page() of a frame the caller has been given.
FreeCall(t, p) ==
  /\ p \in held[t]
  /\ p < SIZE
  /\ Goto(t, "idle", "free_lock")
  /\ page' = [page EXCEPT ![t] = p]
  /\ held' = [held EXCEPT ![t] = @ \ {p}]
  /\ UNCHANGED <<used, reserved, lock, scan, clear, machine>>

FreeLock(t) ==
  /\ lock = NULL
  /\ Goto(t, "free_lock", "free")
  /\ lock' = t
  /\ UNCHANGED <<used, reserved, page, scan, held, clear, machine>>

FreeClr(t) ==
  /\ Goto(t, "free", "idle")
  /\ used' = used \ {page[t]}
  /\ lock' = NULL
  /\ page' = [page EXCEPT ![t] = 0]
  /\ UNCHANGED <<reserved, scan, held, clear, machine>>

-----------------------------------------------------------------------------
\* alloc_dma_region()
DmaCall(t) ==
  /\ Goto(t, "idle", "dma_lock")
  /\ UNCHANGED <<used, reserved, lock, page, scan, held, clear, machine>>

\* The locals of the scan as they start; set again on return, when they are gone.
Forget(t) ==
  /\ i' = [i EXCEPT ![t] = 0]
  /\ free_bits' = [free_bits EXCEPT ![t] = 0]
  /\ bit' = [bit EXCEPT ![t] = -1]

DmaLock(t) ==
  /\ lock = NULL
  /\ Goto(t, "dma_lock", "scan")
  /\ lock' = t
  /\ Forget(t)
  /\ UNCHANGED <<used, reserved, page, held, clear, machine>>

\* A slip: a bit in use does not end the run.
ScanBitOver(t) ==
  IF i[t] \in used THEN <<free_bits[t], bit[t]>>
  ELSE IF free_bits[t] > 0 THEN <<free_bits[t] + 1, bit[t]>>
  ELSE IF i[t] % DMA_PAGES # 0 THEN <<0, bit[t]>>
  ELSE <<1, i[t]>>

\* One round of bitmap_find_n_free(): the run and its start after bit i.
ScanBit(t) ==
  IF i[t] \in used THEN <<0, -1>>
  ELSE IF free_bits[t] > 0 THEN <<free_bits[t] + 1, bit[t]>>
  ELSE IF i[t] % DMA_PAGES # 0 THEN <<0, bit[t]>>
  ELSE <<1, i[t]>>

\* The bitmap has no bit left: find_n_free() returns -1.
DmaNone(t) ==
  /\ ~(i[t] \in Bits)
  /\ Goto(t, "scan", "dma_fail")
  /\ bit' = [bit EXCEPT ![t] = -1]
  /\ UNCHANGED <<used, reserved, lock, page, i, free_bits, held, clear, machine>>

DmaScan(t) ==
  /\ i[t] \in Bits
  /\ free_bits' = [free_bits EXCEPT ![t] = ScanBit(t)[1]]
  /\ bit' = [bit EXCEPT ![t] = ScanBit(t)[2]]
  /\ i' = [i EXCEPT ![t] = @ + 1]
  /\ Goto(t, "scan", IF ScanBit(t)[1] < DMA_PAGES THEN "scan"
                     ELSE IF ScanBit(t)[2] + DMA_PAGES > MAX_PAGE THEN "dma_fail"
                     ELSE "mark")
  /\ UNCHANGED <<used, reserved, lock, page, held, clear, machine>>

Region(t) == bit[t] .. bit[t] + DMA_PAGES - 1

\* A slip: the last frame of the region stays free.
DmaMarkShort(t) ==
  /\ Goto(t, "mark", "idle")
  /\ used' = used \cup (Region(t) \ {bit[t] + DMA_PAGES - 1})
  /\ held' = [held EXCEPT ![t] = @ \cup Region(t)]
  /\ lock' = NULL
  /\ Forget(t)
  /\ UNCHANGED <<reserved, page, clear, machine>>

\* Mark the region used, unlock and return it.
DmaMark(t) ==
  /\ Goto(t, "mark", "idle")
  /\ used' = used \cup Region(t)
  /\ held' = [held EXCEPT ![t] = @ \cup Region(t)]
  /\ lock' = NULL
  /\ Forget(t)
  /\ UNCHANGED <<reserved, page, clear, machine>>

\* Unlock, then kpanic().
DmaFail(t) ==
  /\ Goto(t, "dma_fail", "idle")
  /\ lock' = NULL
  /\ machine' = "panicked"
  /\ Forget(t)
  /\ UNCHANGED <<used, reserved, page, held, clear>>

-----------------------------------------------------------------------------
Step(t) ==
  \/ AllocCall(t) \/ AllocLock(t) \/ AllocFind(t) \/ AllocPanic(t)
  \/ AllocSet(t) \/ AllocClear(t) \/ AllocReturn(t)
  \/ \E p \in Frames : Write(t, p) \/ FreeCall(t, p)
  \/ FreeLock(t) \/ FreeClr(t)
  \/ DmaCall(t) \/ DmaLock(t) \/ DmaScan(t) \/ DmaNone(t) \/ DmaMark(t) \/ DmaFail(t)

Next == \E t \in Tasks : Step(t)

Spec == Init /\ [][Next]_vars

-----------------------------------------------------------------------------
PCs == {"idle", "alloc_lock", "find", "set", "clear", "return", "free_lock", "free",
        "dma_lock", "scan", "mark", "dma_fail"}

\* Every variable stays in its domain; no bit beyond the last frame is ever
\* handed out, although the bitmap has whole bytes of them.
TypeOK ==
  /\ used \subseteq Bits /\ reserved \subseteq Bits
  /\ lock \in Tasks \cup {NULL}
  /\ pc \in [Tasks -> PCs]
  /\ page \in [Tasks -> Frames]
  /\ i \in [Tasks -> Nat] /\ free_bits \in [Tasks -> Nat] /\ bit \in [Tasks -> Int]
  /\ held \in [Tasks -> SUBSET Frames]
  /\ clear \subseteq Frames
  /\ machine \in {"running", "panicked"}

\* What a task has: the frames given to it and the one in passing.
Has(t) == held[t] \cup (IF pc[t] \in {"clear", "return", "free_lock", "free"} THEN {page[t]} ELSE {})

\* A frame has one owner: two tasks never have the same one, and what a task is
\* about to be given nobody has.
Exclusive ==
  /\ \A t, u \in Tasks : t # u => Has(t) \cap Has(u) = {}
  /\ \A t \in Tasks : pc[t] \in {"clear", "return", "free_lock", "free"} => page[t] \notin held[t]
  /\ \A t \in Tasks : pc[t] = "set" => page[t] \notin used

\* The bitmap accounts for every frame: a bit is set if boot32 left it set or if
\* some task has the frame.  None is lost and none in use is marked free.
Accounted == used = reserved \cup UNION {Has(t) : t \in Tasks}

\* alloc_page() returns a frame of zeroes, though it clears it after the unlock.
ReturnsClear == \A t \in Tasks : pc[t] = "return" => page[t] \in clear

\* The aligned runs of DMA_PAGES free bits.
FreeRuns == {a \in Bits : a % DMA_PAGES = 0 /\ \A b \in a .. a + DMA_PAGES - 1 : b \in Bits \ used}

\* The scan is exact: the DMA region it found is the first aligned free run, and
\* it gives up only when there is none, or the first one is too high.
ScanExact ==
  \A t \in Tasks :
    /\ pc[t] = "mark" => bit[t] \in FreeRuns /\ \A a \in FreeRuns : bit[t] <= a
    /\ pc[t] = "dma_fail" =>
         \/ bit[t] = -1 /\ FreeRuns = {}
         \/ bit[t] \in FreeRuns /\ bit[t] + DMA_PAGES > MAX_PAGE /\ \A a \in FreeRuns : bit[t] <= a
=============================================================================
