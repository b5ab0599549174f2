------------------------------- MODULE RWLock -------------------------------
(***************************************************************************)
(* The read-write lock of src/kernal/sync/sync.c and the semaphore it is   *)
(* made of.  One processor: a task that holds rw->lock or spins on it has  *)
(* interrupts off, so nobody else runs, until it enters the scheduler by   *)
(* task_sleep inside sem_wait.  Waiter lists are left out as in Mutex.     *)
(***************************************************************************)
EXTENDS Integers, FiniteSets

CONSTANTS Readers, Writers   \* task ids

ASSUME RWLockAssumption ==
  /\ Readers \subseteq Nat \ {0}
  /\ Writers \subseteq Nat \ {0}
  /\ Readers \cap Writers = {}
  /\ IsFiniteSet(Readers)

Lockers == Readers \cup Writers

VARIABLES
  guard,    \* the task that holds the spinlock rw->lock, 0 for none
  readers,  \* rw->readers
  value,    \* rw->write_sem.value
  at        \* where each task is

lockVars == <<guard, readers, value, at>>

(* "asleep": in the task_sleep of sem_wait.  "spin": in spin_lock.         *)
LockTypeOK ==
  /\ guard \in Readers \cup {0}
  /\ readers \in Nat
  /\ value \in 0 .. 1
  /\ at \in [Lockers -> {"out", "asleep", "in", "spin"}]

(* rwlock_init: sem_init(&rw->write_sem, 1).                               *)
LockInit ==
  /\ guard = 0
  /\ readers = 0
  /\ value = 1
  /\ at = [t \in Lockers |-> "out"]

Goto(t, place) == at' = [at EXCEPT ![t] = place]

(* spin_lock on a lock that is taken: the processor is this task's now.    *)
Spin(t) ==
  /\ guard # 0
  /\ Goto(t, "spin")
  /\ UNCHANGED <<guard, readers, value>>

(* Mutant: the first reader does not take the semaphore.                   *)
ReadLockFree(t) ==
  /\ at[t] = "out"
  /\ guard = 0
  /\ readers' = readers + 1
  /\ Goto(t, "in")
  /\ UNCHANGED <<guard, value>>

(* Mutant: every reader takes the semaphore.                               *)
ReadLockEach(t) ==
  /\ at[t] = "out"
  /\ guard = 0
  /\ readers' = readers + 1
  /\ IF value = 0
     THEN guard' = t /\ Goto(t, "asleep") /\ UNCHANGED value
     ELSE value' = value - 1 /\ Goto(t, "in") /\ UNCHANGED guard

(* rwlock_read_lock: the first reader waits for the writer inside.         *)
ReadLock(t) ==
  /\ at[t] = "out"
  /\ guard = 0
  /\ readers' = readers + 1
  /\ IF readers = 0 /\ value = 0
     THEN guard' = t /\ Goto(t, "asleep") /\ UNCHANGED value
     ELSE /\ value' = IF readers = 0 THEN value - 1 ELSE value
          /\ Goto(t, "in")
          /\ UNCHANGED guard

(* Its next attempt, after the sleep.                                      *)
ReadWake(t) ==
  /\ at[t] = "asleep"
  /\ value > 0
  /\ value' = value - 1
  /\ guard' = 0
  /\ Goto(t, "in")
  /\ UNCHANGED readers

(* Mutant: every reader gives the semaphore back.                          *)
ReadUnlockEach(t) ==
  /\ at[t] = "in"
  /\ guard = 0
  /\ readers' = readers - 1
  /\ value' = value + 1
  /\ Goto(t, "out")
  /\ UNCHANGED guard

(* rwlock_read_unlock                                                      *)
ReadUnlock(t) ==
  /\ at[t] = "in"
  /\ guard = 0
  /\ readers' = readers - 1
  /\ value' = IF readers = 1 THEN value + 1 ELSE value
  /\ Goto(t, "out")
  /\ UNCHANGED guard

(* rwlock_write_lock: sem_wait                                             *)
WriteLock(t) ==
  /\ at[t] \in {"out", "asleep"}
  /\ IF value > 0 THEN value' = value - 1 /\ Goto(t, "in")
                  ELSE Goto(t, "asleep") /\ UNCHANGED value
  /\ UNCHANGED <<guard, readers>>

(* rwlock_write_unlock: sem_post                                           *)
WriteUnlock(t) ==
  /\ at[t] = "in"
  /\ value' = value + 1
  /\ Goto(t, "out")
  /\ UNCHANGED <<guard, readers>>

LockNext ==
  /\ \A t \in Lockers : at[t] # "spin"
  /\ \/ \E t \in Readers : ReadLock(t) \/ ReadWake(t) \/ ReadUnlock(t)
     \/ \E t \in Readers : at[t] \in {"out", "in"} /\ Spin(t)
     \/ \E t \in Writers : WriteLock(t) \/ WriteUnlock(t)

LockSpec == LockInit /\ [][LockNext]_lockVars

-----------------------------------------------------------------------------
(* Properties *)

Inside(S) == {t \in S : at[t] = "in"}

(* A writer is alone, whatever the order of the first reader's wait, the   *)
(* last reader's leave and other writers' attempts.                        *)
Exclusion ==
  \A w \in Inside(Writers) : Inside(Readers) = {} /\ Inside(Writers) = {w}

(* A reader that leaves never meets a taken spinlock: only the first       *)
(* reader sleeps with it, and then no reader is inside.                    *)
LeaveNeverSpins == guard # 0 => Inside(Readers) = {}

(* sync.h:13 of spinlocks: "Niemals in Schleifen halten, die schlafen!"    *)
(* rwlock_read_lock holds rw->lock across the loop of sem_wait, which      *)
(* sleeps.  The next reader spins on it with interrupts off, for ever.     *)
NeverHeldAsleep == guard # 0 => at[guard] # "asleep"
=============================================================================
