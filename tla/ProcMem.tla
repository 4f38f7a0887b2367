------------------------------ MODULE ProcMem ------------------------------
(***************************************************************************)
(* The memory of user processes: demand paging (mm/pagefault.c), the user  *)
(* stack (sched/userstack.c), the heap (mm/sbrk.c), the ELF loader         *)
(* (sched/loader.c) and the address spaces beneath them                    *)
(* (arch/x86_64/x86_64/vspace.c), from proc_start() to proc_delete().      *)
(*                                                                         *)
(* A process has one thread, and what processes share is the page frames,  *)
(* which PageFrames shows to have one owner; so a fault, a system call and *)
(* a clean-up step is one step here.                                       *)
(*                                                                         *)
(* Nothing in the code keeps a process's pages below USER_BREAK: where it  *)
(* maps or unmaps a page of the kernel half, which all address spaces      *)
(* share, what follows is undefined and the model stops as "corrupt".      *)
(***************************************************************************)
EXTENDS Integers, FiniteSets, Sequences

CONSTANTS Procs,         \* the processes
          FRAMES,        \* how many page frames there are
          PAGE_SIZE,     \* bytes of a page
          USER_PAGES,    \* USER_BREAK in pages
          STACK_PAGES,   \* STACK_SIZE in pages
          ADDRESSES,     \* 2^w, where a size_t wraps around
          LEVELS,        \* levels of the page table (4 in the code)
          FANOUT,        \* entries of a table (512 in the code)
          Segments,      \* the LOAD segments of the binary, in order
          Accesses,      \* what the program does: pairs of a page and a kind of access
          Increments,    \* the arguments of its sbrk() calls
          MAX_BREAK,     \* bound of the model: how far up the program asks its break to be
          MAX_MAPPED     \* bound of the model: how many stack faults are counted

ASSUME ProcMemAssumption ==
  /\ {FRAMES, PAGE_SIZE, STACK_PAGES, LEVELS, FANOUT} \subseteq Nat \ {0}
  /\ USER_PAGES \in Nat /\ 2 * STACK_PAGES <= USER_PAGES
  /\ ADDRESSES \in Nat /\ USER_PAGES * PAGE_SIZE <= ADDRESSES
  /\ Segments \in Seq([p_vaddr : Nat, p_memsz : Nat \ {0}, write : BOOLEAN, exec : BOOLEAN])
  /\ Segments # <<>>
  /\ Accesses \subseteq Nat \X {"read", "write", "exec"}
  /\ Increments \subseteq Int /\ {MAX_BREAK, MAX_MAPPED} \subseteq Nat

VARIABLES state,         \* of each process; "none" before it starts and once it is deleted
          pt,            \* its mapped pages: page -> ppn, and whether it may be
                         \* written and executed
          tables,        \* its page tables: their place in the tree -> ppn
          pages_mapped,  \* of its stack
          heap_brk,      \* its break, an address
          ldr_lock,      \* its loader's lock was left held
          free,          \* the free page frames
          machine        \* running, or "panicked", or "corrupt"

vars == <<state, pt, tables, pages_mapped, heap_brk, ldr_lock, free, machine>>

Pages == 0 .. USER_PAGES - 1
Frames == 0 .. FRAMES - 1
None == [v \in {} |-> 0]

Init ==
  /\ state = [p \in Procs |-> "none"]
  /\ pt = [p \in Procs |-> None]
  /\ tables = [p \in Procs |-> None]
  /\ pages_mapped = [p \in Procs |-> 0]
  /\ heap_brk = [p \in Procs |-> 0]
  /\ ldr_lock = [p \in Procs |-> FALSE]
  /\ free = Frames
  /\ machine = "running"

Ppns(f) == {f[x].ppn : x \in DOMAIN f}

Without(f, S) == [x \in DOMAIN f \ S |-> f[x]]

\* The n-th lowest free frame: the one the n-th call of alloc_page() returns.
AllocPage(n) == CHOOSE f \in free : Cardinality({g \in free : g < f}) = n - 1

-----------------------------------------------------------------------------
(***************************************************************************)
(* vspace.c.  A table is named by its level, the root (PML4) being LEVELS, *)
(* and by the part of a page number that selects it.                       *)
(***************************************************************************)
Root == <<LEVELS, 0>>
TableOf(v, level) == <<level, v \div FANOUT ^ level>>

\* The levels at which vspace_map() finds no table for v.
Missing(p, v) == {l \in 1 .. LEVELS - 1 : TableOf(v, l) \notin DOMAIN tables[p]}

\* vspace_map() of the frame AllocPage(n) at v.  Missing tables are allocated
\* from the top; the entry is written only if it is not present.
VspaceMap(p, v, n, flags) ==
  LET lost == Missing(p, v)
      made == {TableOf(v, l) : l \in lost}
      nth(x) == AllocPage(n + 1 + Cardinality({l \in lost : l > x[1]}))
  IN /\ tables' = [tables EXCEPT ![p] = [x \in DOMAIN @ \cup made |->
                     IF x \in made THEN [ppn |-> nth(x)] ELSE @[x]]]
     /\ pt' = IF v \in DOMAIN pt[p] THEN pt
              ELSE [pt EXCEPT ![p] = [x \in DOMAIN @ \cup {v} |->
                      IF x = v THEN [ppn |-> AllocPage(n), write |-> flags.write, exec |-> flags.exec]
                      ELSE @[x]]]
     /\ free' = free \ {AllocPage(k) : k \in 1 .. n + Cardinality(lost)}

\* A slip: the frames of unmapped pages are not given back.
VspaceUnmapLost(p, S) ==
  /\ pt' = [pt EXCEPT ![p] = Without(@, S)]
  /\ free' = free

\* vspace_unmap() of every page of S; a page that is not mapped is passed over.
VspaceUnmap(p, S) ==
  /\ pt' = [pt EXCEPT ![p] = Without(@, S)]
  /\ free' = free \cup {pt[p][v].ppn : v \in S \cap DOMAIN pt[p]}

-----------------------------------------------------------------------------
\* load_heap_brk(): the first page behind the segments, in the order of the
\* program header table.
HeapBrkAfter[k \in 0 .. Len(Segments)] ==
  IF k = 0 THEN 0
  ELSE LET end == Segments[k].p_vaddr + Segments[k].p_memsz
       IN IF end > HeapBrkAfter[k - 1] THEN (end \div PAGE_SIZE + 1) * PAGE_SIZE
          ELSE HeapBrkAfter[k - 1]

min_heap_break == HeapBrkAfter[Len(Segments)]

\* create_stack(), for the only stack of a process.
StackStart == USER_PAGES - 2 * STACK_PAGES
StackPages == StackStart .. StackStart + STACK_PAGES - 1

\* proc_start().  When the program header table cannot be read, load_heap_brk()
\* returns with the loader's lock held, and the process starts all the same.
ProcStart(p, readable) ==
  /\ machine = "running"
  /\ state[p] = "none"
  /\ free # {}
  /\ state' = [state EXCEPT ![p] = "running"]
  /\ tables' = [tables EXCEPT ![p] = [x \in {Root} |-> [ppn |-> AllocPage(1)]]]
  /\ free' = free \ {AllocPage(1)}
  /\ heap_brk' = [heap_brk EXCEPT ![p] = IF readable THEN min_heap_break ELSE ADDRESSES - 1]
  /\ pages_mapped' = [pages_mapped EXCEPT ![p] = 0]
  /\ ldr_lock' = [ldr_lock EXCEPT ![p] = ~readable]
  /\ UNCHANGED <<pt, machine>>

\* A process whose loader is locked waits for it forever: the fetch of its first
\* instruction is a fault that loader_load() should serve.
Alive(p) == machine = "running" /\ state[p] = "running" /\ ~ldr_lock[p]

Stop(how) ==
  /\ machine' = how
  /\ UNCHANGED <<state, pt, tables, pages_mapped, heap_brk, ldr_lock, free>>

-----------------------------------------------------------------------------
\* The processor faults: the page is missing, or its entry does not allow the
\* write or, no-execute being enabled, the fetch of an instruction.
Faults(p, v, access) ==
  v \in DOMAIN pt[p] => \/ access = "write" /\ ~pt[p][v].write
                        \/ access = "exec" /\ ~pt[p][v].exec

\* The segment loader_load() takes a page from, 0 if there is none.
SegmentOf(v) ==
  LET hit == {k \in 1 .. Len(Segments) :
                /\ v * PAGE_SIZE >= Segments[k].p_vaddr
                /\ v * PAGE_SIZE < Segments[k].p_vaddr + Segments[k].p_memsz}
  IN IF hit = {} THEN 0 ELSE CHOOSE k \in hit : \A j \in hit : k <= j

InHeap(p, a) == a >= min_heap_break /\ a < heap_brk[p]

\* There is a frame for page v and for every table vspace_map() has to add.
Enough(p, v) == Cardinality(free) > Cardinality(Missing(p, v))

\* The flags of a stack page, of a heap page and of a page of the binary.
StackFlags == [write |-> TRUE, exec |-> FALSE]
HeapFlags == [write |-> TRUE, exec |-> TRUE]
SegmentFlags(v) == [write |-> Segments[SegmentOf(v)].write, exec |-> Segments[SegmentOf(v)].exec]

\* A slip: a stack page is not counted.
StackLoadUncounted(p, v) ==
  /\ v \in StackPages
  /\ Enough(p, v)
  /\ VspaceMap(p, v, 1, StackFlags)
  /\ UNCHANGED <<state, pages_mapped, heap_brk, ldr_lock, machine>>

StackLoad(p, v) ==
  /\ v \in StackPages
  /\ Enough(p, v)
  /\ VspaceMap(p, v, 1, StackFlags)
  /\ pages_mapped' = [pages_mapped EXCEPT ![p] = @ + 1]
  /\ UNCHANGED <<state, heap_brk, ldr_lock, machine>>

HeapLoad(p, a) ==
  /\ a \div PAGE_SIZE \notin StackPages
  /\ InHeap(p, a)
  /\ Enough(p, a \div PAGE_SIZE)
  /\ VspaceMap(p, a \div PAGE_SIZE, 1, HeapFlags)
  /\ UNCHANGED <<state, pages_mapped, heap_brk, ldr_lock, machine>>

LoaderLoad(p, a) ==
  LET v == a \div PAGE_SIZE
  IN /\ v \notin StackPages
     /\ ~InHeap(p, a)
     /\ SegmentOf(v) # 0
     /\ Enough(p, v)
     /\ VspaceMap(p, v, 1, SegmentFlags(v))
     /\ UNCHANGED <<state, pages_mapped, heap_brk, ldr_lock, machine>>

\* Nothing serves the address, vfs_read() fails and loader_map_page() gives the
\* frame back, or there is no frame: "Unhandled exception" or "out of memory".
FaultPanic(p, a) ==
  LET v == a \div PAGE_SIZE
  IN /\ \/ v \notin StackPages /\ ~InHeap(p, a)
        \/ ~Enough(p, v)
     /\ Stop("panicked")

\* page_fault() at address a, whatever is present there already.
PageFault(p, a, access) ==
  /\ Alive(p)
  /\ a < USER_PAGES * PAGE_SIZE
  /\ Faults(p, a \div PAGE_SIZE, access)
  /\ StackLoad(p, a \div PAGE_SIZE) \/ HeapLoad(p, a) \/ LoaderLoad(p, a) \/ FaultPanic(p, a)

\* An access behind USER_BREAK always traps.  It is served like any other if the
\* heap or a segment reaches that far, in the kernel's half of the page table.
KernelFault(p, a) ==
  /\ Alive(p)
  /\ a >= USER_PAGES * PAGE_SIZE
  /\ \/ Stop("panicked")
     \/ (InHeap(p, a) \/ SegmentOf(a \div PAGE_SIZE) # 0) /\ Stop("corrupt")

-----------------------------------------------------------------------------
\* The break sys_sbrk() moves to; the sum wraps around.
NewBreak(p, increment) ==
  LET sum == (heap_brk[p] + increment) % ADDRESSES
  IN IF sum < min_heap_break THEN min_heap_break ELSE sum

\* A slip: the last page of the heap stays.
UnmappedBySbrkShort(p, increment) ==
  LET old   == heap_brk[p]
      first == (NewBreak(p, increment) + PAGE_SIZE - 1) \div PAGE_SIZE
  IN first .. old \div PAGE_SIZE - 1

\* The pages sys_sbrk() unmaps when the increment is negative.
UnmappedBySbrk(p, increment) ==
  LET old   == heap_brk[p]
      first == (NewBreak(p, increment) + PAGE_SIZE - 1) \div PAGE_SIZE
      last  == IF old % PAGE_SIZE = 0 THEN old \div PAGE_SIZE - 1 ELSE old \div PAGE_SIZE
  IN first .. last

\* sys_sbrk().  A break of (size_t)-1 is returned at once; there is no other
\* limit, and the unmapping goes on behind USER_BREAK.
Sbrk(p, increment) ==
  /\ Alive(p)
  /\ heap_brk[p] # ADDRESSES - 1
  /\ IF increment < 0 /\ \E v \in UnmappedBySbrk(p, increment) : v >= USER_PAGES
     THEN Stop("corrupt")
     ELSE /\ heap_brk' = [heap_brk EXCEPT ![p] = NewBreak(p, increment)]
          /\ IF increment < 0 THEN VspaceUnmap(p, UnmappedBySbrk(p, increment))
             ELSE UNCHANGED <<pt, free>>
          /\ UNCHANGED <<state, tables, pages_mapped, ldr_lock, machine>>

SysExit(p) ==
  /\ Alive(p)
  /\ state' = [state EXCEPT ![p] = "killed"]
  /\ UNCHANGED <<pt, tables, pages_mapped, heap_brk, ldr_lock, free, machine>>

-----------------------------------------------------------------------------
\* The pages delete_stack() unmaps: it goes down from the end of the stack until
\* it has unmapped as many as were counted, wherever that takes it.
Unwound(p) ==
  LET below == {v \in DOMAIN pt[p] : v < StackStart + STACK_PAGES}
  IN {v \in below : Cardinality({w \in below : w > v}) < pages_mapped[p]}

\* delete_stack(), the first part of task_delete().  With fewer pages than were
\* counted it goes on below page 0, at the top of the kernel's half.
DeleteStack(p) ==
  /\ machine = "running"
  /\ state[p] = "killed"
  /\ IF Cardinality(Unwound(p)) < pages_mapped[p] THEN Stop("corrupt")
     ELSE /\ VspaceUnmap(p, Unwound(p))
          /\ pages_mapped' = [pages_mapped EXCEPT ![p] = 0]
          /\ state' = [state EXCEPT ![p] = "unwound"]
          /\ UNCHANGED <<tables, heap_brk, ldr_lock, machine>>

\* proc_delete(): vspace_delete() frees what is mapped, and the tables.
DeleteProc(p) ==
  /\ machine = "running"
  /\ state[p] = "unwound"
  /\ free' = free \cup Ppns(pt[p]) \cup Ppns(tables[p])
  /\ pt' = [pt EXCEPT ![p] = None]
  /\ tables' = [tables EXCEPT ![p] = None]
  /\ heap_brk' = [heap_brk EXCEPT ![p] = 0]
  /\ state' = [state EXCEPT ![p] = "none"]
  /\ UNCHANGED <<pages_mapped, ldr_lock, machine>>

-----------------------------------------------------------------------------
Next ==
  \E p \in Procs :
    \/ \E readable \in BOOLEAN : ProcStart(p, readable)
    \/ \E a \in 0 .. ADDRESSES - 1, access \in {"read", "write", "exec"} :
         /\ <<a \div PAGE_SIZE, access>> \in Accesses
         /\ a \div PAGE_SIZE \in StackPages => pages_mapped[p] < MAX_MAPPED
         /\ PageFault(p, a, access) \/ KernelFault(p, a)
    \/ \E increment \in Increments : heap_brk[p] + increment <= MAX_BREAK /\ Sbrk(p, increment)
    \/ SysExit(p) \/ DeleteStack(p) \/ DeleteProc(p)

Spec == Init /\ [][Next]_vars

-----------------------------------------------------------------------------
\* What refers to a frame: the free list, and every entry of every table.
Uses(f) ==
  Cardinality({x \in {"free"} : f \in free})
  + Cardinality({x \in Procs \X Pages : x[2] \in DOMAIN pt[x[1]] /\ pt[x[1]][x[2]].ppn = f})
  + Cardinality({x \in UNION {{p} \X DOMAIN tables[p] : p \in Procs} : tables[x[1]][x[2]].ppn = f})

\* A frame is free, mapped once in one address space, or one table: none is lost,
\* and none is shared, through any sequence of faults, sbrk()s, exits and starts.
Conserved == \A f \in Frames : Uses(f) = 1

\* Once delete_stack() is through, no page of the stack is mapped: its loop, which
\* goes by the counter alone, finds them all, though a fault on a present page
\* counts a page again and sbrk() may have unmapped some.
StackUnwound == \A p \in Procs : state[p] = "unwound" => StackPages \cap DOMAIN pt[p] = {}

\* Where a program that gives memory back wants its break to be.
Wanted(p, increment) ==
  IF heap_brk[p] + increment < min_heap_break THEN min_heap_break ELSE heap_brk[p] + increment

\* sys_sbrk() with a negative increment unmaps the pages behind the new break,
\* references to them are invalid, and what is below the break stays mapped.
ShrinkUnmaps ==
  [][\A p \in Procs, increment \in Increments :
       Sbrk(p, increment) /\ increment < 0 /\ machine' = "running" =>
         \A v \in Pages \ StackPages :
           /\ v * PAGE_SIZE >= Wanted(p, increment) /\ v * PAGE_SIZE >= min_heap_break
                => v \notin DOMAIN pt'[p] /\ ~(v * PAGE_SIZE < heap_brk'[p])
           /\ v * PAGE_SIZE < Wanted(p, increment) /\ v \in DOMAIN pt[p] => v \in DOMAIN pt'[p]]_vars
=============================================================================
