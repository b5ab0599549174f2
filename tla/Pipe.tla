-------------------------------- MODULE Pipe --------------------------------
(***************************************************************************)
(* One slot of pipe_table (src/kernal/ipc/pipe.c): a ring buffer under a   *)
(* mutex, its two ends, and the reuse of the slot after both are closed.   *)
(*                                                                         *)
(* A step is what a task does between two points where another task may    *)
(* run and see the difference: taking the mutex, one test of a wait loop,  *)
(* one byte copied, one update of "count", giving the mutex back.          *)
(*                                                                         *)
(* The tasks keep to what the API asks of them: the Readers use the read   *)
(* end, the Writers the write end, and an end is closed once, when no call *)
(* on that end is in progress.  The other end may be in any call.          *)
(***************************************************************************)
EXTENDS Integers, Sequences, Mutex

CONSTANTS
  Readers, Writers,  \* task ids
  Data,              \* the bytes
  CAP,               \* PIPE_BUF_SIZE
  WRAP,              \* 2^32: read_pos and write_pos wrap here
  MaxLen             \* the longest read or write

ASSUME PipeAssumption ==
  /\ Readers \subseteq Nat \ {0}
  /\ Writers \subseteq Nat \ {0}
  /\ Readers \cap Writers = {}
  /\ Data \subseteq Nat /\ 0 \in Data
  /\ CAP \in Nat \ {0}
  /\ WRAP \in Nat /\ WRAP > CAP
  /\ \E k \in 1 .. WRAP : WRAP = CAP * k
  /\ MaxLen \in Nat \ {0}

Tasks == Readers \cup Writers

VARIABLES
  used,   \* pipe_t.used
  buf, rpos, wpos, count,  \* pipe_t.buf, read_pos, write_pos, count
  lock,   \* pipe_t.lock
  rref, wref,  \* pipe_t.ref_read, ref_write
  held,   \* the ends whose vfs node somebody still holds
  pc,     \* where each task is
  left,   \* bytes its call still wants: len - written of a write, len of a read
  chunk,  \* bytes of the copy it is in: n of a read, chunk of a write
  i,      \* how many of them are copied
  out,    \* ghost: the byte delivered last
  eof     \* ghost: a read of this pipe has returned 0

ring == <<buf, rpos, wpos, count>>
call == <<left, chunk, i>>
vars == <<used, ring, lock, rref, wref, held, pc, call, out, eof>>

(* "lock": in mutex_lock at the start of a call.  "loop": at the wait      *)
(* loop.  "again": in condvar_wait, the mutex given up.  "copy": between   *)
(* two bytes, "commit": after the last.  "close": in mutex_lock of a       *)
(* close.  "unlock": about to leave.  "free": pipe_close_* has given the   *)
(* mutex back and is about to clear "used".                                *)
Places == {"idle", "lock", "loop", "again", "copy", "commit", "unlock", "close", "shut", "free"}

(* The places where the task owns the mutex.                               *)
Inside == {"loop", "copy", "commit", "unlock", "shut"}

TypeOK ==
  /\ used \in BOOLEAN
  /\ buf \in [0 .. CAP - 1 -> Data]
  /\ rpos \in 0 .. WRAP - 1
  /\ wpos \in 0 .. WRAP - 1
  /\ count \in 0 .. CAP
  /\ lock \in Mutexes(Tasks, 1)
  /\ rref \in 0 .. 1
  /\ wref \in 0 .. 1
  /\ held \subseteq {"r", "w"}
  /\ pc \in [Tasks -> Places]
  /\ left \in [Tasks -> 0 .. MaxLen]
  /\ chunk \in [Tasks -> 0 .. CAP]
  /\ i \in [Tasks -> 0 .. CAP]
  /\ out \in Data
  /\ eof \in BOOLEAN

(* The pipe_table is zeroed at boot.                                       *)
Init ==
  /\ used = FALSE
  /\ buf = [k \in 0 .. CAP - 1 |-> 0]
  /\ rpos = 0 /\ wpos = 0 /\ count = 0
  /\ lock = Unlocked
  /\ rref = 0 /\ wref = 0
  /\ held = {}
  /\ pc = [t \in Tasks |-> "idle"]
  /\ left = [t \in Tasks |-> 0]
  /\ chunk = [t \in Tasks |-> 0]
  /\ i = [t \in Tasks |-> 0]
  /\ out = 0
  /\ eof = FALSE

-----------------------------------------------------------------------------
(* Calls *)

EndOf(t)  == IF t \in Readers THEN "r" ELSE "w"
Peers(t)  == IF t \in Readers THEN Readers ELSE Writers
Goto(t, place) == pc' = [pc EXCEPT ![t] = place]

(* pipe_create takes the slot: memset, mutex_init, one reference each.     *)
Create ==
  /\ ~used
  /\ used' = TRUE
  /\ buf' = [k \in 0 .. CAP - 1 |-> 0]
  /\ rpos' = 0 /\ wpos' = 0 /\ count' = 0
  /\ lock' = Unlocked
  /\ rref' = 1 /\ wref' = 1
  /\ held' = {"r", "w"}
  /\ eof' = FALSE
  /\ UNCHANGED <<pc, call, out>>

(* A task enters pipe_read or pipe_write.                                  *)
Call(t, len) ==
  /\ pc[t] = "idle"
  /\ EndOf(t) \in held
  /\ left' = [left EXCEPT ![t] = len]
  /\ Goto(t, "lock")
  /\ UNCHANGED <<used, ring, lock, rref, wref, held, chunk, i, out, eof>>

(* A task enters pipe_close_read or pipe_close_write.                      *)
Close(t) ==
  /\ EndOf(t) \in held
  /\ \A u \in Peers(t) : pc[u] = "idle"
  /\ held' = held \ {EndOf(t)}
  /\ Goto(t, "close")
  /\ UNCHANGED <<used, ring, lock, rref, wref, call, out, eof>>

(* mutex_lock.  A write looks at ref_read once when it starts.             *)
Lock(t) ==
  /\ pc[t] \in {"lock", "again", "close"}
  /\ Lockable(lock, t)
  /\ lock' = Locked(lock, t)
  /\ Goto(t, IF pc[t] = "close" THEN "shut"
             ELSE IF pc[t] = "lock" /\ t \in Writers /\ rref = 0 THEN "unlock"
             ELSE "loop")
  /\ UNCHANGED <<used, ring, rref, wref, held, call, out, eof>>

Unlock(t) ==
  /\ pc[t] = "unlock"
  /\ lock' = Released(lock)
  /\ left' = [left EXCEPT ![t] = 0]
  /\ Goto(t, "idle")
  /\ UNCHANGED <<used, ring, rref, wref, held, chunk, i, out, eof>>

(* condvar_wait, up to its mutex_lock.                                     *)
Wait(t) ==
  /\ lock' = Released(lock)
  /\ Goto(t, "again")
  /\ UNCHANGED <<call, eof>>

(* Leaving the loop for the mutex_unlock at the end of the call.           *)
Leave(t) ==
  /\ Goto(t, "unlock")
  /\ UNCHANGED <<lock, call>>

StartCopy(t, n) ==
  /\ chunk' = [chunk EXCEPT ![t] = n]
  /\ Goto(t, "copy")
  /\ UNCHANGED <<lock, left, i, eof>>

Least(a, b) == IF a < b THEN a ELSE b

(* The loop of pipe_read: end of file, wait, or start copying.             *)
ReadLoop(t) ==
  /\ t \in Readers
  /\ pc[t] = "loop"
  /\ \/ count = 0 /\ wref = 0 /\ eof' = TRUE /\ Leave(t)
     \/ count = 0 /\ wref # 0 /\ Wait(t)
     \/ count # 0 /\ StartCopy(t, Least(left[t], count))
  /\ UNCHANGED <<used, ring, rref, wref, held, out>>

(* Mutant: the wait for room does not look at the read end.                *)
WriteLoopDeaf(t) ==
  /\ t \in Writers
  /\ pc[t] = "loop"
  /\ \/ left[t] = 0 /\ Leave(t) /\ UNCHANGED eof
     \/ left[t] # 0 /\ count = CAP /\ Wait(t)
     \/ left[t] # 0 /\ count # CAP /\ StartCopy(t, Least(left[t], CAP - count))
  /\ UNCHANGED <<used, ring, rref, wref, held, out>>

(* Mutant: the chunk is limited by the buffer, not by the room in it.      *)
WriteLoopOverrun(t) ==
  /\ t \in Writers
  /\ pc[t] = "loop"
  /\ \/ left[t] = 0 /\ Leave(t) /\ UNCHANGED eof
     \/ left[t] # 0 /\ count >= CAP /\ rref = 0 /\ Leave(t) /\ UNCHANGED eof
     \/ left[t] # 0 /\ count >= CAP /\ rref # 0 /\ Wait(t)
     \/ left[t] # 0 /\ count < CAP /\ StartCopy(t, Least(left[t], CAP))
  /\ UNCHANGED <<used, ring, rref, wref, held, out>>

(* The loops of pipe_write: all written, broken pipe, wait, or copy a      *)
(* chunk.                                                                  *)
WriteLoop(t) ==
  /\ t \in Writers
  /\ pc[t] = "loop"
  /\ \/ left[t] = 0 /\ Leave(t) /\ UNCHANGED eof
     \/ left[t] # 0 /\ count = CAP /\ rref = 0 /\ Leave(t) /\ UNCHANGED eof
     \/ left[t] # 0 /\ count = CAP /\ rref # 0 /\ Wait(t)
     \/ left[t] # 0 /\ count # CAP /\ StartCopy(t, Least(left[t], CAP - count))
  /\ UNCHANGED <<used, ring, rref, wref, held, out>>

-----------------------------------------------------------------------------
(* Copying *)

Slot(pos) == pos % CAP
Next1(pos) == (pos + 1) % WRAP

(* Mutant: one byte too many.                                              *)
ByteCopiedPast(t) ==
  /\ i' = [i EXCEPT ![t] = @ + 1]
  /\ Goto(t, IF i[t] = chunk[t] THEN "commit" ELSE "copy")
  /\ UNCHANGED <<used, count, lock, rref, wref, held, left, chunk, eof>>

ByteCopied(t) ==
  /\ i' = [i EXCEPT ![t] = @ + 1]
  /\ Goto(t, IF i[t] + 1 = chunk[t] THEN "commit" ELSE "copy")
  /\ UNCHANGED <<used, count, lock, rref, wref, held, left, chunk, eof>>

CopyOut(t) ==
  /\ t \in Readers
  /\ pc[t] = "copy"
  /\ out' = buf[Slot(rpos)]
  /\ rpos' = Next1(rpos)
  /\ ByteCopied(t)
  /\ UNCHANGED <<buf, wpos>>

CopyIn(t) ==
  /\ t \in Writers
  /\ pc[t] = "copy"
  /\ \E d \in Data : buf' = [buf EXCEPT ![Slot(wpos)] = d]
  /\ wpos' = Next1(wpos)
  /\ ByteCopied(t)
  /\ UNCHANGED <<rpos, out>>

(* The locals of the copy go out of use.                                   *)
Copied(t) ==
  /\ chunk' = [chunk EXCEPT ![t] = 0]
  /\ i' = [i EXCEPT ![t] = 0]

(* Mutant: one byte is subtracted, however many were copied.               *)
CommitReadOne(t) ==
  /\ t \in Readers
  /\ pc[t] = "commit"
  /\ count' = count - 1
  /\ Copied(t)
  /\ Goto(t, "unlock")
  /\ UNCHANGED <<used, buf, rpos, wpos, lock, rref, wref, held, left, out, eof>>

(* count -= n, broadcast; then the call is over.                           *)
CommitRead(t) ==
  /\ t \in Readers
  /\ pc[t] = "commit"
  /\ count' = count - chunk[t]
  /\ Copied(t)
  /\ Goto(t, "unlock")
  /\ UNCHANGED <<used, buf, rpos, wpos, lock, rref, wref, held, left, out, eof>>

(* count += chunk, written += chunk, broadcast; then the outer loop again. *)
CommitWrite(t) ==
  /\ t \in Writers
  /\ pc[t] = "commit"
  /\ count' = count + chunk[t]
  /\ left' = [left EXCEPT ![t] = @ - chunk[t]]
  /\ Copied(t)
  /\ Goto(t, "loop")
  /\ UNCHANGED <<used, buf, rpos, wpos, lock, rref, wref, held, out, eof>>

-----------------------------------------------------------------------------
(* Closing *)

(* Mutant: the first close of either end gives the slot back.              *)
ShutEither(t) ==
  /\ pc[t] = "shut"
  /\ rref' = IF t \in Readers /\ rref > 0 THEN rref - 1 ELSE rref
  /\ wref' = IF t \in Writers /\ wref > 0 THEN wref - 1 ELSE wref
  /\ lock' = Released(lock)
  /\ Goto(t, IF rref' = 0 \/ wref' = 0 THEN "free" ELSE "idle")
  /\ UNCHANGED <<used, ring, held, call, out, eof>>

(* The references are dropped and "dead" is decided under the mutex ...    *)
Shut(t) ==
  /\ pc[t] = "shut"
  /\ rref' = IF t \in Readers /\ rref > 0 THEN rref - 1 ELSE rref
  /\ wref' = IF t \in Writers /\ wref > 0 THEN wref - 1 ELSE wref
  /\ lock' = Released(lock)
  /\ Goto(t, IF rref' = 0 /\ wref' = 0 THEN "free" ELSE "idle")
  /\ UNCHANGED <<used, ring, held, call, out, eof>>

(* ... and the slot is given back after it.                                *)
Free(t) ==
  /\ pc[t] = "free"
  /\ used' = FALSE
  /\ Goto(t, "idle")
  /\ UNCHANGED <<ring, lock, rref, wref, held, call, out, eof>>

Step(t) ==
  \/ Unlock(t) \/ ReadLoop(t) \/ WriteLoop(t)
  \/ CopyOut(t) \/ CopyIn(t) \/ CommitRead(t) \/ CommitWrite(t)
  \/ Shut(t) \/ Free(t)

Next ==
  \/ Create
  \/ \E t \in Tasks : Lock(t) \/ Step(t) \/ Close(t)
  \/ \E t \in Tasks, len \in 1 .. MaxLen : Call(t, len)

Spec == Init /\ [][Next]_vars

(* A task that is inside a call keeps running.  mutex_lock polls, so its   *)
(* turn comes only if it finds the mutex free some time: strong fairness.  *)
FairSpec == Spec /\ \A t \in Tasks : WF_vars(Step(t)) /\ SF_vars(Lock(t))

-----------------------------------------------------------------------------
(* Properties *)

Pending == (wpos - rpos) % WRAP

(* The bytes between read_pos and write_pos, oldest first.                 *)
Transit == [k \in 1 .. Pending |-> buf[Slot(rpos + k - 1)]]

(* How far the positions are ahead of "count": the copy in progress.       *)
Ahead ==
  IF lock.owner = 0 \/ pc[lock.owner] \notin {"copy", "commit"} THEN 0
  ELSE IF lock.owner \in Writers THEN i[lock.owner] ELSE -i[lock.owner]

(* A task is between mutex_lock and mutex_unlock exactly when the mutex    *)
(* says so, through waiting, closing and the reuse of the slot: the bytes  *)
(* of two calls never mix inside one copy.                                 *)
OwnerInside == \A t \in Tasks : pc[t] \in Inside <=> lock.owner = t

(* "count", which every test of the loops reads, and the positions, which  *)
(* the copies use, tell the same: they differ by the copy in progress and  *)
(* by nothing else, across the wrap of the positions at 2^32.              *)
CountMatches == Pending = count + Ahead

(* The slot is only given back when nobody is in a call on the pipe any    *)
(* more: pipe_create's memset never runs under a task that waits.          *)
NoLateUse == ~used => \A t \in Tasks : pc[t] = "idle"

Stream == INSTANCE ByteStream WITH
            q <- Transit, ropen <- rref # 0, wopen <- wref # 0

(* The ring buffer, copied byte by byte and shared by several tasks, is    *)
(* the byte stream that pipe.h promises: order, no loss, no overrun, and   *)
(* an end of file that is true and final.                                  *)
ImplementsStream == Stream!Spec

(* Closing one end frees the tasks blocked in a call on the other: a       *)
(* reader of an empty pipe, a writer on a full one.                        *)
CloseReleases ==
  \A t \in Tasks :
    (pc[t] # "idle" /\ (IF t \in Readers THEN wref = 0 ELSE rref = 0)) ~> (pc[t] = "idle")
=============================================================================
