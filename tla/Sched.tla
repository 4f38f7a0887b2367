------------------------------- MODULE Sched --------------------------------
(***************************************************************************)
(* The round-robin scheduler (kernel/sched/sched.c), the life of a task    *)
(* (task.c, proc.c: creation, waiting for an interrupt, exit) and the      *)
(* cleanup task that frees dead tasks (tasklist.c), from sched_enable()    *)
(* on.  schedule() runs in an interrupt with further interrupts disabled,  *)
(* so it is one step; everything else may be preempted between two steps.  *)
(*                                                                         *)
(* Where the code's next memory access is undefined, or where it can never *)
(* return, the model records which in fault and stops there.               *)
(*                                                                         *)
(* kheap_mutex is the one lock schedule() itself takes (list_it_remove()   *)
(* calls kfree()); heap_owner is the task that was preempted inside        *)
(* kmalloc() or kfree().  A task in ordinary context waits for it, as       *)
(* LockSpec promises; an interrupt handler cannot.                         *)
(***************************************************************************)
EXTENDS Naturals, Sequences, SequencesExt

CONSTANTS Idle,       \* the idle task
          Cleanup,    \* the task running cleanup_task_func()
          InitTask,   \* the task running init_task_func()
          Users,      \* the main threads of the processes to be started
          Exiting,    \* those whose program calls exit()
          NULL        \* the null task pointer

ASSUME TasksAssumption ==
  /\ Exiting \subseteq Users
  /\ \A t \in {Idle, Cleanup, InitTask, NULL} : t \notin Users
  /\ Idle # Cleanup /\ Idle # InitTask /\ Cleanup # InitTask
  /\ NULL \notin {Idle, Cleanup, InitTask}

VARIABLES sched_tasks,     \* the list the scheduler picks from
          current_task,    \* the task on the processor
          state,           \* task->state, "none" before kmalloc(), "freed" after kfree()
          irq_wait,        \* task->irq_wait
          proc,            \* process->state of a user task
          task_list,       \* the list of all tasks (tasklist.c)
          task_count,      \* its counter
          it,              \* the iterator of cleanup_task_func(), 0 outside its loop
          heap_owner,      \* who is inside the kernel heap
          pc,              \* where each task is
          fault            \* "none", or why schedule() never returns

vars == <<sched_tasks, current_task, state, irq_wait, proc, task_list,
          task_count, it, heap_owner, pc, fault>>

Tasks == {Idle, Cleanup, InitTask} \cup Users

\* A slip: the list is not rotated.
RotateByNone(s, i) == s

\* i calls of list_rotate().
RotateBy(s, i) == SubSeq(s, i + 1, Len(s)) \o SubSeq(s, 1, i)

\* kmain() up to sched_enable(): tl_setup(), the idle task, the init task.
Init ==
  /\ sched_tasks = <<Cleanup, Idle, InitTask>>
  /\ current_task = NULL
  /\ state = [t \in Tasks |-> IF t \in Users THEN "none" ELSE "RUNNING"]
  /\ irq_wait = [t \in Tasks |-> FALSE]
  /\ proc = [t \in Users |-> "none"]
  /\ task_list = <<Cleanup, Idle, InitTask>>
  /\ task_count = 3
  /\ it = 0
  /\ heap_owner = NULL
  /\ pc = [t \in Tasks |-> "run"]
  /\ fault = "none"

-----------------------------------------------------------------------------
\* The scheduler.  A walk is the list and the task states as get_next_task()
\* changes them, the task it has found and the fault that stopped it.

\* The first of some places of a list.
First(places) == CHOOSE k \in places : \A m \in places : k <= m

\* list_find(): where t is listed.
ListFind(s, t) == First({k \in DOMAIN s : s[k] = t})

\* list_it_remove(&sched_tasks, list_find(&sched_tasks, t)): a task that is not
\* listed makes it read through a null iterator, and its kfree() needs the heap.
ListRemove(w, t) ==
  IF t \notin Range(w.list) THEN [w EXCEPT !.fault = "null iterator"]
  ELSE [w EXCEPT !.list = RemoveAt(w.list, ListFind(w.list, t)),
                 !.fault = IF heap_owner = NULL THEN "none" ELSE "blocked"]

\* A slip: the state of the process is not looked at.
DeadTaskOnly(w, t) == w.state[t] = "KILLED"

Dead(w, t) == w.state[t] = "KILLED" \/ (t \in Users /\ proc[t] = "KILLED")

\* task_schedulable(): a dead process kills its task, and when the task is dead
\* the code removes current_task from the list.
TaskSchedulable(w, t) ==
  IF Dead(w, t)
  THEN ListRemove([w EXCEPT !.state[t] = "KILLED"], current_task)
  ELSE [w EXCEPT !.next = IF irq_wait[t] \/ w.state[t] # "RUNNING" THEN NULL ELSE t]

\* get_next_task() up to the next task that is not just skipped: rotate past
\* the tasks that wait, and look at the one that is ready, dead or freed.
Turn(w) ==
  LET stop(u) == \/ w.state[u] = "freed" \/ Dead(w, u)
                 \/ w.state[u] = "RUNNING" /\ ~irq_wait[u]
      stops == {k \in DOMAIN w.list : stop(w.list[k])}
      i     == First(stops)
      t     == w.list[i]
  IN IF w.next # NULL \/ w.fault # "none" THEN w
     ELSE IF w.list = <<>> THEN [w EXCEPT !.fault = "no schedulable task"]
     ELSE IF stops = {} THEN [w EXCEPT !.fault = "endless loop"]
     ELSE IF w.state[t] = "freed" THEN [w EXCEPT !.fault = "use after free"]
     ELSE TaskSchedulable([w EXCEPT !.list = RotateBy(w.list, i)], t)

\* get_next_task(), as the set of the one walk it ends with.  Two turns decide: a
\* dead task met in the first one removes current_task from the list, so that
\* one met in the second is a fault.
GetNextTask ==
  LET start == [list |-> sched_tasks, state |-> state, next |-> NULL, fault |-> "none"]
  IN {Turn(w) : w \in {Turn(start)}}

\* A slip: schedule() leaves a killed current_task on the list.
ScheduleKeepsKilled ==
  \E w \in GetNextTask :
    /\ sched_tasks' = w.list
    /\ state' = w.state
    /\ fault' = w.fault
    /\ current_task' = IF w.fault = "none" THEN w.next ELSE current_task

\* schedule(): switch to the next task, dropping a killed current_task.
Schedule ==
  \E w \in GetNextTask :
    LET drop == /\ w.fault = "none" /\ current_task \notin {w.next, NULL}
                /\ w.state[current_task] = "KILLED"
    IN \E r \in {IF drop THEN ListRemove(w, current_task) ELSE w} :
         /\ sched_tasks' = r.list
         /\ state' = r.state
         /\ fault' = r.fault
         /\ current_task' = IF r.fault = "none" THEN r.next ELSE current_task

-----------------------------------------------------------------------------
Running(t) == fault = "none" /\ current_task = t /\ heap_owner # t

At(t, l) == Running(t) /\ pc[t] = l

Goto(t, l) == pc' = [pc EXCEPT ![t] = l]

\* The timer interrupt preempts whatever runs; the first one is the yield() of
\* sched_enable().
Timer ==
  /\ fault = "none"
  /\ Schedule
  /\ UNCHANGED <<irq_wait, proc, task_list, task_count, it, heap_owner, pc>>

\* yield() by the task itself.
Yield(t) ==
  /\ At(t, "yield")
  /\ Schedule
  /\ Goto(t, "run")
  /\ UNCHANGED <<irq_wait, proc, task_list, task_count, it, heap_owner>>

\* The init task, before init_task_func() returns.
Starting(t) == t = InitTask /\ \E u \in Users : state[u] = "none"

\* A task enters kmalloc() or kfree() ...
HeapEnter(t) ==
  /\ At(t, "run") \/ At(t, "remove")
  /\ heap_owner = NULL
  /\ t \in Users \cup {Cleanup} \/ Starting(t)
  /\ heap_owner' = t
  /\ UNCHANGED <<sched_tasks, current_task, state, irq_wait, proc, task_list,
                 task_count, it, pc, fault>>

\* ... and leaves it again.
HeapLeave(t) ==
  /\ fault = "none" /\ current_task = t /\ heap_owner = t
  /\ heap_owner' = NULL
  /\ UNCHANGED <<sched_tasks, current_task, state, irq_wait, proc, task_list,
                 task_count, it, pc, fault>>

\* irq_wait_until() finds its condition false: mark the task and yield.
IrqWait(t) ==
  /\ At(t, "run")
  /\ t \in Users \/ Starting(t)
  /\ irq_wait' = [irq_wait EXCEPT ![t] = TRUE]
  /\ Goto(t, "yield")
  /\ UNCHANGED <<sched_tasks, current_task, state, proc, task_list, task_count,
                 it, heap_owner, fault>>

\* irq_signal() in the handler of the device's interrupt.
IrqSignal(t) ==
  /\ fault = "none" /\ irq_wait[t]
  /\ irq_wait' = [irq_wait EXCEPT ![t] = FALSE]
  /\ UNCHANGED <<sched_tasks, current_task, state, proc, task_list, task_count,
                 it, heap_owner, pc, fault>>

\* proc_start(): the process and its main thread; tl_insert() lists the thread
\* under task_list_lock, which the cleanup task holds while it iterates.
CreateUserTask(u) ==
  /\ At(InitTask, "run") /\ state[u] = "none"
  /\ it = 0 /\ heap_owner = NULL
  /\ state' = [state EXCEPT ![u] = "RUNNING"]
  /\ proc' = [proc EXCEPT ![u] = "RUNNING"]
  /\ task_list' = Append(task_list, u)
  /\ Goto(InitTask, "count")
  /\ UNCHANGED <<sched_tasks, current_task, irq_wait, task_count, it, heap_owner, fault>>

\* atomic_add(&task_count, 1), after the lock of tl_insert() was released.
CountTask ==
  /\ At(InitTask, "count")
  /\ task_count' = task_count + 1
  /\ Goto(InitTask, "insert")
  /\ UNCHANGED <<sched_tasks, current_task, state, irq_wait, proc, task_list, it,
                 heap_owner, fault>>

\* sched_insert() of the new thread, with interrupts disabled.
SchedInsert ==
  /\ At(InitTask, "insert") /\ heap_owner = NULL
  /\ sched_tasks' = Append(sched_tasks, Last(task_list))
  /\ Goto(InitTask, "run")
  /\ UNCHANGED <<current_task, state, irq_wait, proc, task_list, task_count, it,
                 heap_owner, fault>>

\* sys_exit(): the process is dead before its thread is.
SysExit(u) ==
  /\ At(u, "run") /\ u \in Exiting
  /\ proc' = [proc EXCEPT ![u] = "KILLED"]
  /\ Goto(u, "kill")
  /\ UNCHANGED <<sched_tasks, current_task, state, irq_wait, task_list,
                 task_count, it, heap_owner, fault>>

\* task_kill(), from sys_exit() or at the end of the init task's function.
TaskKill(t) ==
  /\ \/ At(t, "kill")
     \/ At(t, "run") /\ t = InitTask /\ ~Starting(t)
  /\ state' = [state EXCEPT ![t] = "KILLED"]
  /\ Goto(t, "yield")
  /\ UNCHANGED <<sched_tasks, current_task, irq_wait, proc, task_list,
                 task_count, it, heap_owner, fault>>

\* cleanup_task_func() takes task_list_lock and starts at the front.
CleanupLock ==
  /\ At(Cleanup, "run") /\ it = 0 /\ task_count > 0
  /\ it' = 1
  /\ UNCHANGED <<sched_tasks, current_task, state, irq_wait, proc, task_list,
                 task_count, heap_owner, pc, fault>>

\* A slip: dead tasks are not recognised.
CleanupVisitBlind ==
  /\ At(Cleanup, "run") /\ it \in 1 .. Len(task_list) /\ heap_owner = NULL
  /\ it' = it + 1
  /\ UNCHANGED <<sched_tasks, current_task, state, irq_wait, proc, task_list, task_count,
                 heap_owner, pc, fault>>

\* One turn of its loop: task_delete() of a dead task (its stack, its entry in
\* the process, the process itself, the task).
CleanupVisit ==
  /\ At(Cleanup, "run") /\ it \in 1 .. Len(task_list) /\ heap_owner = NULL
  /\ LET t == task_list[it]
     IN IF state[t] = "KILLED"
        THEN /\ state' = [state EXCEPT ![t] = "freed"]
             /\ proc' = [u \in Users |-> IF u = t THEN "freed" ELSE proc[u]]
             /\ Goto(Cleanup, "remove")
             /\ it' = it
        ELSE it' = it + 1 /\ UNCHANGED <<state, proc, pc>>
  /\ UNCHANGED <<sched_tasks, current_task, irq_wait, task_list, task_count, heap_owner, fault>>

\* list_it_remove() of the task that was deleted.
CleanupRemove ==
  /\ At(Cleanup, "remove") /\ heap_owner = NULL
  /\ task_list' = RemoveAt(task_list, it)
  /\ Goto(Cleanup, "count")
  /\ UNCHANGED <<sched_tasks, current_task, state, irq_wait, proc, task_count, it,
                 heap_owner, fault>>

\* A slip: the counter is not decremented.
CleanupUncounted ==
  /\ At(Cleanup, "count")
  /\ Goto(Cleanup, "run")
  /\ UNCHANGED <<sched_tasks, current_task, state, irq_wait, proc, task_list, task_count, it,
                 heap_owner, fault>>

\* atomic_add(&task_count, -1).
CleanupCount ==
  /\ At(Cleanup, "count")
  /\ task_count' = task_count - 1
  /\ Goto(Cleanup, "run")
  /\ UNCHANGED <<sched_tasks, current_task, state, irq_wait, proc, task_list, it,
                 heap_owner, fault>>

\* The end of the list: unlock and yield.
CleanupUnlock ==
  /\ At(Cleanup, "run") /\ it > Len(task_list)
  /\ it' = 0
  /\ Goto(Cleanup, "yield")
  /\ UNCHANGED <<sched_tasks, current_task, state, irq_wait, proc, task_list,
                 task_count, heap_owner, fault>>

CleanupStep ==
  CleanupLock \/ CleanupVisit \/ CleanupRemove \/ CleanupCount \/ CleanupUnlock

Next ==
  \/ Timer
  \/ \E t \in Tasks :
       Yield(t) \/ HeapEnter(t) \/ HeapLeave(t) \/ IrqWait(t) \/ IrqSignal(t) \/ TaskKill(t)
  \/ \E u \in Users : CreateUserTask(u) \/ SysExit(u)
  \/ CountTask \/ SchedInsert
  \/ CleanupStep

Spec == Init /\ [][Next]_vars

\* The timer keeps ticking, devices answer, and a task that runs again and again
\* gets on with what it is doing.
FairSpec ==
  /\ Spec
  /\ WF_vars(Timer)
  /\ SF_vars(CleanupStep)
  /\ \A t \in Tasks : WF_vars(IrqSignal(t)) /\ SF_vars(HeapLeave(t)) /\ SF_vars(Yield(t))

-----------------------------------------------------------------------------
Listed == Range(sched_tasks)

\* A task that exists, was given to the scheduler and has nothing to wait for.
Ready(t) == t \in Listed /\ state[t] = "RUNNING" /\ ~irq_wait[t]

\* "remove it from the scheduler" (sched.c:80 and 120) is said of a killed task:
\* only a killed task ever leaves sched_tasks.
OnlyKilledRemoved ==
  [][\A t \in Listed : t \notin Range(sched_tasks') => state'[t] = "KILLED"]_vars

\* The cleanup task frees no task that the scheduler can still reach: neither
\* sched_tasks nor current_task points to freed memory, before the first exit of
\* a process (what that breaks is OnlyKilledRemoved).
NoDanglingTask ==
  (\A u \in Users : proc[u] \notin {"KILLED", "freed"}) =>
    \A t \in Tasks : state[t] = "freed" => t \notin Listed /\ t # current_task

\* task_count is the length of task_list in every state, but for the task that
\* tl_insert() has listed and not yet counted and the one that
\* cleanup_task_func() has removed and still counts, each preempted in between;
\* and it never drops to zero, where the loop of cleanup_task_func() would end.
CountExact ==
  /\ Len(task_list) = (task_count + (IF pc[InitTask] = "count" THEN 1 ELSE 0))
                        - (IF pc[Cleanup] = "count" THEN 1 ELSE 0)
  /\ task_count > 0

\* A killed task, and a task whose process was killed while it was preempted,
\* is never given the processor again (sys_exit(), proc.c:127-129).
KilledNeverScheduled ==
  [][\A t \in Tasks :
       /\ current_task' = t /\ current_task # t
       => state[t] = "RUNNING" /\ (t \in Users => proc[t] # "KILLED")]_vars

\* Round robin: a task that could run and is passed over moves up in the list,
\* so nobody overtakes it twice.
NoBypass ==
  [][\A i \in DOMAIN sched_tasks :
       LET t == sched_tasks[i]
       IN /\ Ready(t) /\ t # current_task /\ t # current_task'
          /\ current_task' # current_task /\ state'[t] = "RUNNING"
          => \E j \in 1 .. i - 1 : j \in DOMAIN sched_tasks' /\ sched_tasks'[j] = t]_vars

\* schedule() neither blocks nor crashes: "don't use any locks and don't block"
\* (sched.c:108-111).
NeverBlocks == fault # "blocked"

\* Every ready task is given the processor, unless schedule() got stuck.
ReadyRuns ==
  \A t \in Tasks : Ready(t) ~> current_task = t \/ ~Ready(t) \/ fault # "none"

\* A killed task is eventually freed, if the cleanup task finds the heap free
\* again and again (kheap_mutex promises no fairness) and schedule() works.
KilledReclaimed ==
  []<>(current_task = Cleanup /\ heap_owner = NULL) =>
    \A t \in Tasks : state[t] = "KILLED" ~> state[t] = "freed" \/ fault # "none"
=============================================================================
