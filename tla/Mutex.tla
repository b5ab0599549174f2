------------------------------- MODULE Mutex -------------------------------
(***************************************************************************)
(* mutex_t of src/kernal/sync/sync.c as a value, with the operations the   *)
(* IPC modules call on it.  Each operation runs under the mutex's spinlock *)
(* with interrupts off, so it is one step.                                 *)
(*                                                                         *)
(* The waiter lists of mutexes and condition variables are left out: they  *)
(* are appended to, up to 16, and counted down, but nothing reads them.    *)
(* Waiting is polling (mutex_lock retries after task_yield), and           *)
(* condvar_wait is mutex_unlock, a sleep that may end at once (the handler *)
(* returns to a sleeper whose slice goes on), and mutex_lock; signal and   *)
(* broadcast wake nobody.                                                  *)
(***************************************************************************)
EXTENDS Naturals

(* owner_tid 0: nobody.  Task ids start at 1 (scheduler.c, next_id).       *)
Unlocked == [owner |-> 0, depth |-> 0]

Mutexes(ids, maxDepth) == [owner : ids \cup {0}, depth : 0 .. maxDepth]

(* Mutant: the owner is not looked at.                                     *)
LockableAlways(m, id) == id # 0

(* mutex_lock succeeds for the owner and when there is none ...            *)
Lockable(m, id) == m.owner \in {0, id}

(* ... and becomes one lock deeper.                                        *)
Locked(m, id) == [owner |-> id, depth |-> IF m.owner = id THEN m.depth + 1 ELSE 1]

(* mutex_unlock asks nobody whether the caller is the owner.               *)
Released(m) == IF m.depth > 1 THEN [m EXCEPT !.depth = @ - 1] ELSE Unlocked
=============================================================================
