------------------------------- MODULE Mutex --------------------------------
(***************************************************************************)
(* kernel/sched/mutex.c and kernel/sched/spinlock.c on one preemptible     *)
(* processor.                                                              *)
(*                                                                         *)
(* A task takes a step only while it is current_task; the timer interrupt  *)
(* may run schedule() between any two steps.  schedule() is abstracted to  *)
(* what it guarantees here: it switches to some task whose state is        *)
(* TASK_RUNNING or to the idle task (Sched models its policy).  A program  *)
(* counter "Ln" says that the task is about to execute line n of mutex.c.  *)
(* The Release build is modelled: assert() is compiled out, and what the   *)
(* assertions claim is stated as invariants instead.                       *)
(***************************************************************************)
EXTENDS Naturals, Sequences

CONSTANTS Tasks,     \* the tasks that use the mutex
          Idle,      \* the idle task, always runnable
          NULL       \* the null task pointer

ASSUME IdentityAssumption == Idle \notin Tasks /\ NULL \notin Tasks \cup {Idle}

VARIABLES lock,             \* mtx->lock
          held_by,          \* mtx->held_by
          waiting_tasks,    \* mtx->waiting_tasks
          list_lock,        \* mtx->waiting_tasks_lock.lock
          state,            \* task->state
          current_task,     \* the task on the processor
          pc                \* where each task is in mutex.c

vars == <<lock, held_by, waiting_tasks, list_lock, state, current_task, pc>>

\* "out" is outside mutex.c without the mutex, "in" between the two calls.
PCs == {"out", "L29", "L36", "L37", "L38", "L39", "L40", "L43", "in",
        "L52", "L53", "L56", "L57", "L64"}

\* The task has won the xchg() of line 29 and not yet executed line 53.
Owning == {"L43", "in", "L52", "L53"}

\* The task has won the xchg() of spin_lock() and not yet released it.
Listing == {"L37", "L38", "L39", "L40", "L57", "L64"}

\* The tasks schedule() may switch to.
Schedulable == {t \in Tasks : state[t] = "RUNNING"} \cup {Idle}

Init ==
  /\ lock = 0
  /\ held_by = NULL
  /\ waiting_tasks = <<>>
  /\ list_lock = 0
  /\ state = [t \in Tasks |-> "RUNNING"]
  /\ current_task = Idle
  /\ pc = [t \in Tasks |-> "out"]

-----------------------------------------------------------------------------
At(t, l) == current_task = t /\ pc[t] = l

Goto(t, l) == pc' = [pc EXCEPT ![t] = l]

\* The interrupt 0x1f of yield() and the timer interrupt both run schedule().
Schedule == current_task' \in Schedulable

-----------------------------------------------------------------------------
\* Plausible slips in mutex.c and spinlock.c.

\* The loop tests lock and sets it in two accesses.
XchgLockAlwaysWins(t) ==
  /\ At(t, "L29")
  /\ lock' = 1
  /\ Goto(t, "L43")
  /\ UNCHANGED <<held_by, waiting_tasks, list_lock, state, current_task>>

\* held_by is cleared after lock.
ClearHolderLate(t) ==
  /\ At(t, "L52")
  /\ lock' = 0
  /\ Goto(t, "L53")
  /\ UNCHANGED <<held_by, waiting_tasks, list_lock, state, current_task>>

\* The task is put on the list while it is still running.
FallAsleepLate(t) ==
  /\ At(t, "L37")
  /\ Goto(t, "L38")
  /\ UNCHANGED <<lock, held_by, waiting_tasks, list_lock, state, current_task>>

\* mutex_unlock() forgets to clear lock.
ClearLockForgotten(t) ==
  /\ At(t, "L53")
  /\ Goto(t, "L56")
  /\ UNCHANGED <<lock, held_by, waiting_tasks, list_lock, state, current_task>>

-----------------------------------------------------------------------------
Timer ==
  /\ Schedule
  /\ UNCHANGED <<lock, held_by, waiting_tasks, list_lock, state, pc>>

\* mutex_lock() is called.
CallLock(t) ==
  /\ At(t, "out")
  /\ Goto(t, "L29")
  /\ UNCHANGED <<lock, held_by, waiting_tasks, list_lock, state, current_task>>

\* while (xchg(1, &mtx->lock)): the old value decides, the new one is 1.
XchgLock(t) ==
  /\ At(t, "L29")
  /\ lock' = 1
  /\ Goto(t, IF lock = 0 THEN "L43" ELSE "L36")
  /\ UNCHANGED <<held_by, waiting_tasks, list_lock, state, current_task>>

\* spin_lock(&mtx->waiting_tasks_lock), whose loop yields while it is taken.
SpinLock(t) ==
  /\ At(t, "L36") \/ At(t, "L56")
  /\ list_lock' = 1
  /\ IF list_lock = 0
     THEN /\ Goto(t, IF pc[t] = "L36" THEN "L37" ELSE "L57")
          /\ UNCHANGED current_task
     ELSE Schedule /\ UNCHANGED pc
  /\ UNCHANGED <<lock, held_by, waiting_tasks, state>>

\* current_task->state = TASK_SLEEPING: still on the processor.
FallAsleep(t) ==
  /\ At(t, "L37")
  /\ state' = [state EXCEPT ![t] = "SLEEPING"]
  /\ Goto(t, "L38")
  /\ UNCHANGED <<lock, held_by, waiting_tasks, list_lock, current_task>>

\* list_add(&mtx->waiting_tasks, current_task)
Enqueue(t) ==
  /\ At(t, "L38")
  /\ waiting_tasks' = Append(waiting_tasks, t)
  /\ Goto(t, "L39")
  /\ UNCHANGED <<lock, held_by, list_lock, state, current_task>>

\* yield() with the spinlock of the list still taken.
YieldAsleep(t) ==
  /\ At(t, "L39")
  /\ Schedule
  /\ Goto(t, "L40")
  /\ UNCHANGED <<lock, held_by, waiting_tasks, list_lock, state>>

\* spin_unlock() after the sleep and at the end of mutex_unlock().
SpinUnlock(t) ==
  /\ At(t, "L40") \/ At(t, "L64")
  /\ list_lock' = 0
  /\ Goto(t, IF pc[t] = "L40" THEN "L29" ELSE "out")
  /\ UNCHANGED <<lock, held_by, waiting_tasks, state, current_task>>

\* mtx->held_by = current_task
SetHolder(t) ==
  /\ At(t, "L43")
  /\ held_by' = t
  /\ Goto(t, "in")
  /\ UNCHANGED <<lock, waiting_tasks, list_lock, state, current_task>>

\* mutex_unlock() is called by the holder.
CallUnlock(t) ==
  /\ At(t, "in")
  /\ Goto(t, "L52")
  /\ UNCHANGED <<lock, held_by, waiting_tasks, list_lock, state, current_task>>

\* mtx->held_by = NULL
ClearHolder(t) ==
  /\ At(t, "L52")
  /\ held_by' = NULL
  /\ Goto(t, "L53")
  /\ UNCHANGED <<lock, waiting_tasks, list_lock, state, current_task>>

\* mtx->lock = 0
ClearLock(t) ==
  /\ At(t, "L53")
  /\ lock' = 0
  /\ Goto(t, "L56")
  /\ UNCHANGED <<held_by, waiting_tasks, list_lock, state, current_task>>

\* Wake the first waiting task, which stays on the list.
WakeFirst(t) ==
  /\ At(t, "L57")
  /\ state' = [u \in Tasks |->
                 IF waiting_tasks # <<>> /\ u = waiting_tasks[1]
                 THEN "RUNNING" ELSE state[u]]
  /\ Goto(t, "L64")
  /\ UNCHANGED <<lock, held_by, waiting_tasks, list_lock, current_task>>

\* Everything a task does once it has called mutex_lock().
Progress(t) ==
  \/ XchgLock(t) \/ SpinLock(t) \/ FallAsleep(t) \/ Enqueue(t)
  \/ YieldAsleep(t) \/ SpinUnlock(t) \/ SetHolder(t) \/ CallUnlock(t)
  \/ ClearHolder(t) \/ ClearLock(t) \/ WakeFirst(t)

Next == Timer \/ \E t \in Tasks : CallLock(t) \/ Progress(t)

Spec == Init /\ [][Next]_vars

\* Round robin gives every runnable task the processor again and again, a time
\* slice is long enough for a task to execute a line, and critical sections
\* end.  No task is obliged to call mutex_lock().
SwitchTo(t) == Timer /\ current_task' = t

FairSpec ==
  Spec /\ \A t \in Tasks : SF_vars(SwitchTo(t)) /\ SF_vars(Progress(t))

-----------------------------------------------------------------------------
\* Every variable stays in its domain (mutex_t, spin_t and task_t::state).
TypeOK ==
  /\ lock \in {0, 1}
  /\ held_by \in Tasks \cup {NULL}
  /\ waiting_tasks \in Seq(Tasks)
  /\ list_lock \in {0, 1}
  /\ state \in [Tasks -> {"RUNNING", "SLEEPING"}]
  /\ current_task \in Tasks \cup {Idle}
  /\ pc \in [Tasks -> PCs]

\* At most one task is past the xchg() of mutex_lock() and before the store of
\* mutex_unlock(), wherever the timer interrupts them.
MutualExclusion ==
  \A t, u \in Tasks : pc[t] \in Owning /\ pc[u] \in Owning => t = u

\* The assertion "mutex released by other task" (mutex.c:50): from mutex_lock()
\* to mutex_unlock() held_by is the holder, and it names no one else ever.
\* It is why held_by is cleared before lock.
HolderKnown ==
  \A t \in Tasks : held_by = t <=> pc[t] \in {"in", "L52"}

\* Only one task at a time is between spin_lock() and spin_unlock() of the
\* waiting list, so list_add() and list_get() never run interleaved.
ListExclusive ==
  \A t, u \in Tasks : pc[t] \in Listing /\ pc[u] \in Listing => t = u

\* The comment of mutex.c:31-34: a task is on the waiting list only when it
\* has already been put asleep, so that no wake-up precedes the sleep.
QueuedAsleep ==
  \A i \in DOMAIN waiting_tasks : state[waiting_tasks[i]] = "SLEEPING"

\* A task that takes the mutex gives it back: the owner is never the one that
\* is put asleep or left spinning on the waiting list.
MutexReleased == lock = 1 ~> lock = 0

\* The comment of mutex.c:55, "wake up the first task on the list, if any":
\* once the mutex has been released with u first on the list, u is woken.
UnlockWakesFirst ==
  \A t, u \in Tasks :
    pc[t] = "L56" /\ waiting_tasks # <<>> /\ waiting_tasks[1] = u
      ~> state[u] = "RUNNING"

-----------------------------------------------------------------------------
\* The abstract lock: its owner is the task that has won line 29.
owner ==
  IF \E t \in Tasks : pc[t] \in Owning
  THEN CHOOSE t \in Tasks : pc[t] \in Owning
  ELSE NULL

Abstract == INSTANCE LockSpec WITH Tasks <- Tasks, NULL <- NULL, owner <- owner

\* Seen through owner, the mutex behaves like a lock: it is taken only when
\* free and given back only by its owner (the rest of the kernel's models use
\* that lock in its place).
ImplementsLock == Abstract!Spec
=============================================================================
