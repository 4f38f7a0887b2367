---------------------------- MODULE MutexProofs -----------------------------
(***************************************************************************)
(* Proofs about Mutex for any set of tasks: its types, mutual exclusion,   *)
(* the truth of held_by, the waiting list's discipline and the refinement  *)
(* of LockSpec.                                                            *)
(***************************************************************************)
EXTENDS Mutex, TLAPS

\* lock is 1 exactly while some task owns the mutex, and that task is unique.
LockInv ==
  /\ lock = 0 <=> \A t \in Tasks : pc[t] \notin Owning
  /\ MutualExclusion

\* The same for the spinlock of the waiting list.
ListLockInv ==
  /\ list_lock = 0 <=> \A t \in Tasks : pc[t] \notin Listing
  /\ ListExclusive

\* A sleeping task is in the waiting branch of mutex_lock(), with the spinlock
\* still taken, and one that has yielded there is off the processor.
SleepInv ==
  \A t \in Tasks :
    /\ state[t] = "SLEEPING" <=> pc[t] \in {"L38", "L39", "L40"}
    /\ pc[t] = "L40" => current_task # t

\* The inductive invariant.
IInv == TypeOK /\ LockInv /\ HolderKnown /\ ListLockInv /\ SleepInv /\ QueuedAsleep

\* The initial state satisfies the invariant.
LEMMA InitInv == Init => IInv
  BY IdentityAssumption
  DEF Init, IInv, TypeOK, LockInv, MutualExclusion, HolderKnown, ListLockInv,
      ListExclusive, SleepInv, QueuedAsleep, PCs, Owning, Listing

\* While a task is at line 57 nobody sleeps and the waiting list is empty: a
\* waiter keeps the spinlock for as long as it sleeps.
LEMMA NobodyToWake ==
  ASSUME IInv, NEW t \in Tasks, At(t, "L57")
  PROVE  waiting_tasks = <<>>
<1>1. \A u \in Tasks : state[u] # "SLEEPING"
  BY DEF IInv, SleepInv, ListLockInv, ListExclusive, At, Listing
<1>2. waiting_tasks # <<>> => 1 \in DOMAIN waiting_tasks /\ waiting_tasks[1] \in Tasks
  BY DEF IInv, TypeOK
<1> QED
  BY <1>1, <1>2 DEF IInv, QueuedAsleep

\* Every step of every task, and the timer, preserve the invariant.
LEMMA StepInv == IInv /\ [Next]_vars => IInv'
<1> SUFFICES ASSUME IInv, [Next]_vars PROVE IInv'
  OBVIOUS
<1> USE IdentityAssumption
<1> USE DEF IInv, TypeOK, LockInv, MutualExclusion, HolderKnown, ListLockInv,
            ListExclusive, SleepInv, QueuedAsleep, PCs, Owning, Listing
<1>1. CASE Timer
  BY <1>1 DEF Timer, Schedule, Schedulable
<1>2. ASSUME NEW t \in Tasks, CallLock(t) PROVE IInv'
  BY <1>2 DEF CallLock, At, Goto
<1>3. ASSUME NEW t \in Tasks, XchgLock(t) PROVE IInv'
  BY <1>3 DEF XchgLock, At, Goto
<1>4. ASSUME NEW t \in Tasks, SpinLock(t) PROVE IInv'
  <2>1. CASE list_lock = 0
    BY <1>4, <2>1 DEF SpinLock, At, Goto
  <2>2. CASE list_lock # 0
    BY <1>4, <2>2 DEF SpinLock, At, Schedule, Schedulable
  <2> QED BY <2>1, <2>2
<1>5. ASSUME NEW t \in Tasks, FallAsleep(t) PROVE IInv'
  BY <1>5 DEF FallAsleep, At, Goto
<1>6. ASSUME NEW t \in Tasks, Enqueue(t) PROVE IInv'
  BY <1>6 DEF Enqueue, At, Goto
<1>7. ASSUME NEW t \in Tasks, YieldAsleep(t) PROVE IInv'
  BY <1>7 DEF YieldAsleep, At, Goto, Schedule, Schedulable
<1>8. ASSUME NEW t \in Tasks, SpinUnlock(t) PROVE IInv'
  BY <1>8 DEF SpinUnlock, At, Goto
<1>9. ASSUME NEW t \in Tasks, SetHolder(t) PROVE IInv'
  BY <1>9 DEF SetHolder, At, Goto
<1>10. ASSUME NEW t \in Tasks, CallUnlock(t) PROVE IInv'
  BY <1>10 DEF CallUnlock, At, Goto
<1>11. ASSUME NEW t \in Tasks, ClearHolder(t) PROVE IInv'
  BY <1>11 DEF ClearHolder, At, Goto
<1>12. ASSUME NEW t \in Tasks, ClearLock(t) PROVE IInv'
  BY <1>12 DEF ClearLock, At, Goto
<1>13. ASSUME NEW t \in Tasks, WakeFirst(t) PROVE IInv'
  <2>1. waiting_tasks = <<>>
    BY <1>13, NobodyToWake DEF WakeFirst
  <2>2. state' = state
    BY <1>13, <2>1 DEF WakeFirst
  <2> QED BY <1>13, <2>1, <2>2 DEF WakeFirst, At, Goto
<1>14. CASE UNCHANGED vars
  BY <1>14 DEF vars
<1> QED
  BY <1>1, <1>2, <1>3, <1>4, <1>5, <1>6, <1>7, <1>8, <1>9, <1>10, <1>11,
     <1>12, <1>13, <1>14 DEF Next, Progress

\* The inductive invariant holds in every reachable state.
LEMMA Invariance == Spec => []IInv
  BY InitInv, StepInv, PTL DEF Spec

\* Type correctness of the mutex and its waiting list.
THEOREM MutexTypes == Spec => []TypeOK
<1>1. IInv => TypeOK BY DEF IInv
<1> QED BY <1>1, Invariance, PTL

\* However mutex_lock() and mutex_unlock() are interleaved, two tasks never own
\* the mutex together.
THEOREM MutexExcludes == Spec => []MutualExclusion
<1>1. IInv => MutualExclusion BY DEF IInv, LockInv
<1> QED BY <1>1, Invariance, PTL

\* held_by tells the truth: what the assertion of mutex_unlock() tests always
\* holds for the task that locked the mutex.
THEOREM MutexHolder == Spec => []HolderKnown
<1>1. IInv => HolderKnown BY DEF IInv
<1> QED BY <1>1, Invariance, PTL

\* The spinlock of the waiting list excludes too: list_add() and list_get() of
\* two tasks never run interleaved.
THEOREM MutexList == Spec => []ListExclusive
<1>1. IInv => ListExclusive BY DEF IInv, ListLockInv
<1> QED BY <1>1, Invariance, PTL

\* A task on the waiting list sleeps: the wake-up of mutex_unlock() cannot
\* overtake the sleep.
THEOREM MutexQueue == Spec => []QueuedAsleep
<1>1. IInv => QueuedAsleep BY DEF IInv
<1> QED BY <1>1, Invariance, PTL

\* Under mutual exclusion, the abstract owner is the task that owns the mutex.
LEMMA OwnerIs ==
  ASSUME MutualExclusion, NEW t \in Tasks, pc[t] \in Owning
  PROVE  owner = t
<1>1. \A u \in Tasks : pc[u] \in Owning => u = t
  BY DEF MutualExclusion
<1> QED BY <1>1 DEF owner

\* If no task owns the mutex the abstract owner is NULL.
LEMMA NoOwner ==
  ASSUME \A t \in Tasks : pc[t] \notin Owning
  PROVE  owner = NULL
  BY DEF owner

\* A step that moves no task into or out of Owning leaves the abstract owner.
LEMMA OwnerSame ==
  ASSUME \A t \in Tasks : pc'[t] \in Owning <=> pc[t] \in Owning
  PROVE  owner' = owner
<1>1. (\E t \in Tasks : pc'[t] \in Owning) <=> (\E t \in Tasks : pc[t] \in Owning)
  OBVIOUS
<1>2. (CHOOSE t \in Tasks : pc'[t] \in Owning) = (CHOOSE t \in Tasks : pc[t] \in Owning)
  OBVIOUS
<1> QED BY <1>1, <1>2 DEF owner, Owning

\* The mutex implements the lock: line 29 acquires it, line 53 releases it,
\* and every other step leaves the abstract owner alone.
THEOREM MutexRefines == Spec => ImplementsLock
<1>1. Init => Abstract!Init
  <2> SUFFICES ASSUME Init PROVE owner = NULL
    BY DEF Abstract!Init
  <2> QED BY NoOwner DEF Init, Owning
<1>2. IInv /\ IInv' /\ [Next]_vars => [Abstract!Next]_owner
  <2> SUFFICES ASSUME IInv, IInv', [Next]_vars PROVE [Abstract!Next]_owner
    OBVIOUS
  <2> DEFINE Same == \A u \in Tasks : pc'[u] \in Owning <=> pc[u] \in Owning
  <2>1. ASSUME NEW t \in Tasks, XchgLock(t) PROVE [Abstract!Next]_owner
    <3>1. CASE lock = 0
      <4>1. owner = NULL
        BY <3>1, NoOwner DEF IInv, LockInv
      <4>2. pc'[t] \in Owning
        BY <2>1, <3>1 DEF XchgLock, Goto, Owning, IInv, TypeOK
      <4>3. MutualExclusion'
        BY DEF IInv, LockInv
      <4>4. owner' = t
        <5>1. \A u \in Tasks : pc'[u] \in Owning => u = t
          BY <4>2, <4>3 DEF MutualExclusion, Owning
        <5> QED BY <4>2, <5>1 DEF owner, Owning
      <4> QED BY <4>1, <4>4 DEF Abstract!Next, Abstract!Acquire
    <3>2. CASE lock # 0
      <4>1. Same
        BY <2>1, <3>2 DEF XchgLock, At, Goto, Owning, IInv, TypeOK
      <4> QED BY <4>1, OwnerSame
    <3> QED BY <3>1, <3>2
  <2>2. ASSUME NEW t \in Tasks, ClearLock(t) PROVE [Abstract!Next]_owner
    <3>1. owner = t
      BY <2>2, OwnerIs DEF ClearLock, At, Owning, IInv, LockInv
    <3>2. \A u \in Tasks : pc'[u] \notin Owning
      BY <2>2 DEF ClearLock, At, Goto, Owning, IInv, TypeOK, LockInv, MutualExclusion
    <3>3. owner' = NULL
      BY <3>2 DEF owner, Owning
    <3> QED BY <3>1, <3>3 DEF Abstract!Next, Abstract!Release
  <2>3. ASSUME NEW t \in Tasks,
               \/ CallLock(t) \/ SpinLock(t) \/ FallAsleep(t) \/ Enqueue(t)
               \/ YieldAsleep(t) \/ SpinUnlock(t) \/ SetHolder(t)
               \/ CallUnlock(t) \/ ClearHolder(t) \/ WakeFirst(t)
        PROVE  [Abstract!Next]_owner
    <3>1. Same
      BY <2>3 DEF CallLock, SpinLock, FallAsleep, Enqueue, YieldAsleep,
        SpinUnlock, SetHolder, CallUnlock, ClearHolder, WakeFirst, At, Goto,
        Owning, IInv, TypeOK
    <3> QED BY <3>1, OwnerSame
  <2>4. CASE Timer \/ UNCHANGED vars
    <3>1. Same BY <2>4 DEF Timer, vars, Owning
    <3> QED BY <3>1, OwnerSame
  <2> QED BY <2>1, <2>2, <2>3, <2>4 DEF Next, Progress
<1> QED
  BY <1>1, <1>2, Invariance, PTL DEF Spec, ImplementsLock, Abstract!Spec
=============================================================================
