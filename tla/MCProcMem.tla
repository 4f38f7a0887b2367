----------------------------- MODULE MCProcMem -----------------------------
(***************************************************************************)
(* ProcMem for TLC: a binary of a read-only code segment of one page and a *)
(* data segment that ends inside the next one.                             *)
(***************************************************************************)
EXTENDS ProcMem

MCSegments == << [p_vaddr |-> 2, p_memsz |-> 2, write |-> FALSE, exec |-> TRUE],
                 [p_vaddr |-> 4, p_memsz |-> 1, write |-> TRUE, exec |-> FALSE] >>

\* Every page, the first one behind USER_BREAK included.
AllPages == 0 .. USER_PAGES

\* A program that reads and executes its code, and writes everything else.
Proper == ({1} \X {"read", "exec"}) \cup ((AllPages \ {1}) \X {"write"})

\* One that also writes its code, and executes its data and its stack.
Improper == AllPages \X {"read", "write", "exec"}

\* They put the break on the end of the data, inside the page below the stack, on
\* the end of the stack, and behind USER_BREAK.
MCIncrements == {-5, 5}

\* Which frame is where does not matter, only that each has one use: states
\* that conserve frames and differ in their numbers alone behave alike.
View ==
  <<state, pages_mapped, heap_brk, ldr_lock, machine,
    [p \in Procs |-> [v \in DOMAIN pt[p] |-> <<pt[p][v].write, pt[p][v].exec>>]],
    [p \in Procs |-> DOMAIN tables[p]],
    Cardinality(free), {Uses(f) : f \in Frames}>>
=============================================================================
