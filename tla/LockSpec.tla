------------------------------ MODULE LockSpec ------------------------------
(***************************************************************************)
(* What a lock of the kernel promises: at most one task owns it, only a    *)
(* free lock is taken and only its owner gives it back.  This is the       *)
(* service the rest of the kernel relies on when it brackets its critical  *)
(* sections with mutex_lock() and mutex_unlock(); Mutex implements it.     *)
(***************************************************************************)
CONSTANTS Tasks,     \* the tasks that use the lock
          NULL       \* the null task pointer

VARIABLE owner       \* the task that owns the lock, NULL when it is free

Init == owner = NULL

Acquire(t) == owner = NULL /\ owner' = t

Release(t) == owner = t /\ owner' = NULL

Next == \E t \in Tasks : Acquire(t) \/ Release(t)

Spec == Init /\ [][Next]_owner
=============================================================================
