----------------------------- MODULE PipeProofs -----------------------------
(***************************************************************************)
(* Theorems about the pipe, for every set of tasks, every buffer size and  *)
(* every width of the positions: the mutex excludes, the slot is only      *)
(* reused when nobody is in a call, "count" is what the positions say, and *)
(* the ring buffer implements the byte stream.                             *)
(***************************************************************************)
EXTENDS Pipe, SequenceTheorems, TLAPS

-----------------------------------------------------------------------------
(* Remainders                                                              *)

(* Arithmetic: the remainder is determined by the quotient.                *)
LEMMA ModUnique ==
  ASSUME NEW q \in Nat \ {0}, NEW d \in Int, NEW r \in 0 .. q - 1
  PROVE  (q * d + r) % q = r
<1> DEFINE s == (q * d + r) % q
<1>1. s \in 0 .. q - 1
  OBVIOUS
<1>2. PICK e \in Int : e = (q * d + r) \div q
  OBVIOUS
<1>3. q * d + r = q * e + s
  BY <1>2
<1>4. q * (d - e) = s - r
  BY <1>3, <1>1
<1> HIDE DEF s
<1>5. s - r < q /\ r - s < q /\ s \in Int
  BY <1>1
<1>6. d - e < 1
  BY <1>4, <1>5, SMTT(30)
<1>7. d - e > -1
  BY <1>4, <1>5, SMTT(30)
<1>8. d - e = 0
  BY <1>6, <1>7
<1>9. s = r
  BY <1>8, <1>4, <1>5
<1> QED
  BY <1>9 DEF s

LEMMA ModDecomposition ==
  ASSUME NEW q \in Nat \ {0}, NEW c \in Int
  PROVE  \E d \in Int : c = q * d + (c % q)
<1>1. c = q * (c \div q) + (c % q)
  OBVIOUS
<1>2. c \div q \in Int
  OBVIOUS
<1> QED
  BY <1>1, <1>2

(* Two positions less than q apart, one of them shifted by a remainder:    *)
(* they fall on different slots of a ring of q.                            *)
LEMMA ModDistinct ==
  ASSUME NEW q \in Nat \ {0}, NEW x \in Int, NEW j \in 0 .. q - 1, NEW k \in 0 .. q - 1,
         j < k
  PROVE  (x + j) % q # (x + k) % q
<1> SUFFICES ASSUME (x + j) % q = (x + k) % q PROVE FALSE
  OBVIOUS
<1>0. x + j \in Int /\ x + k \in Int
  OBVIOUS
<1>1. PICK d \in Int : x + j = q * d + ((x + j) % q)
  BY <1>0, ModDecomposition
<1>2. PICK e \in Int : x + k = q * e + ((x + k) % q)
  BY <1>0, ModDecomposition
<1>3. q * (e - d) = k - j
  BY <1>0, <1>1, <1>2
<1>4. k - j > 0 /\ k - j < q /\ e - d \in Int
  OBVIOUS
<1>5. e - d > 0
  BY <1>3, <1>4, SMTT(30)
<1>6. e - d < 1
  BY <1>3, <1>4, SMTT(30)
<1> QED
  BY <1>4, <1>5, <1>6

(* Whole turns of the ring do not move a position.                         *)
LEMMA ModTurns ==
  ASSUME NEW q \in Nat \ {0}, NEW x \in Int, NEW k \in Int
  PROVE  (x + q * k) % q = x % q
<1>1. PICK d \in Int : x = q * d + (x % q)
  BY ModDecomposition
<1>2. x + q * k = q * (d + k) + (x % q)
  BY <1>1
<1>3. x % q \in 0 .. q - 1 /\ d + k \in Int
  OBVIOUS
<1> QED
  BY <1>2, <1>3, ModUnique

-----------------------------------------------------------------------------
(* Nothing locks twice.                                                    *)
DepthOne == lock.depth = IF lock.owner = 0 THEN 0 ELSE 1

(* What a copy in progress may still touch is there: bytes for a reader,   *)
(* room for a writer.                                                      *)
CopyInv ==
  \A t \in Tasks :
    /\ pc[t] \notin {"copy", "commit"} => chunk[t] = 0 /\ i[t] = 0
    /\ pc[t] = "copy" => i[t] < chunk[t]
    /\ pc[t] = "commit" => i[t] = chunk[t]
    /\ t \in Readers => chunk[t] <= count
    /\ t \in Writers => chunk[t] <= left[t] /\ count + chunk[t] <= CAP
    /\ pc[t] = "loop" /\ t \in Readers => left[t] > 0
    /\ pc[t] \in {"lock", "again"} => left[t] > 0

InCall == {"lock", "loop", "again", "copy", "commit", "unlock"}

RefOf(t) == IF t \in Readers THEN rref ELSE wref

(* Who may be where, by the life of the two ends.                          *)
EndInv ==
  /\ \A t \in Tasks :
       /\ pc[t] # "idle" => used
       /\ pc[t] \in InCall => EndOf(t) \in held
       /\ pc[t] \in {"close", "shut"} =>
            /\ EndOf(t) \notin held
            /\ RefOf(t) = 1
            /\ \A u \in Peers(t) \ {t} : pc[u] = "idle"
       /\ pc[t] = "free" =>
            /\ rref = 0 /\ wref = 0
            /\ \A u \in Tasks \ {t} : pc[u] = "idle"
  /\ "r" \in held => rref = 1
  /\ "w" \in held => wref = 1
  /\ ~used => rref = 0 /\ wref = 0

IInv ==
  /\ TypeOK
  /\ OwnerInside
  /\ DepthOne
  /\ CopyInv
  /\ CountMatches
  /\ EndInv

-----------------------------------------------------------------------------
(* Positions *)

LEMMA Difference ==
  ASSUME NEW W \in Nat \ {0}, NEW r \in 0 .. W - 1, NEW w \in 0 .. W - 1
  PROVE  (w - r) % W = IF r <= w THEN w - r ELSE w - r + W
<1>1. CASE r <= w
  <2>1. w - r \in 0 .. W - 1
    BY <1>1
  <2>2. (W * 0 + (w - r)) % W = w - r
    BY <2>1, ModUnique
  <2> QED
    BY <2>2, <1>1
<1>2. CASE ~(r <= w)
  <2>1. w - r + W \in 0 .. W - 1
    BY <1>2
  <2>2. (W * (-1) + (w - r + W)) % W = w - r + W
    BY <2>1, ModUnique
  <2>3. W * (-1) + (w - r + W) = w - r
    OBVIOUS
  <2> QED
    BY <2>2, <2>3, <1>2
<1> QED
  BY <1>1, <1>2

LEMMA Successor ==
  ASSUME NEW W \in Nat \ {0}, NEW p \in 0 .. W - 1
  PROVE  (p + 1) % W = IF p = W - 1 THEN 0 ELSE p + 1
<1>1. CASE p = W - 1
  <2>1. (W * 1 + 0) % W = 0
    BY ModUnique
  <2> QED
    BY <2>1, <1>1
<1>2. CASE p # W - 1
  <2>1. (W * 0 + (p + 1)) % W = p + 1
    BY <1>2, ModUnique
  <2> QED
    BY <2>1, <1>2
<1> QED
  BY <1>1, <1>2

(* One byte in, one byte out: the difference of the positions follows,     *)
(* across their wrap.                                                      *)
LEMMA PendingSteps ==
  ASSUME PipeAssumption, TypeOK
  PROVE  /\ Pending \in 0 .. WRAP - 1
         /\ Next1(wpos) \in 0 .. WRAP - 1 /\ Next1(rpos) \in 0 .. WRAP - 1
         /\ Pending < WRAP - 1 => (Next1(wpos) - rpos) % WRAP = Pending + 1
         /\ Pending > 0 => (wpos - Next1(rpos)) % WRAP = Pending - 1
<1>1. WRAP \in Nat \ {0} /\ rpos \in 0 .. WRAP - 1 /\ wpos \in 0 .. WRAP - 1
  BY DEF PipeAssumption, TypeOK
<1>2. Pending = IF rpos <= wpos THEN wpos - rpos ELSE wpos - rpos + WRAP
  BY <1>1, Difference DEF Pending
<1>3. /\ Next1(wpos) = IF wpos = WRAP - 1 THEN 0 ELSE wpos + 1
      /\ Next1(rpos) = IF rpos = WRAP - 1 THEN 0 ELSE rpos + 1
  BY <1>1, Successor DEF Next1
<1>4. Next1(wpos) \in 0 .. WRAP - 1 /\ Next1(rpos) \in 0 .. WRAP - 1
  BY <1>1, <1>3
<1>5. (Next1(wpos) - rpos) % WRAP =
        IF rpos <= Next1(wpos) THEN Next1(wpos) - rpos ELSE Next1(wpos) - rpos + WRAP
  BY <1>1, <1>4, Difference
<1>6. (wpos - Next1(rpos)) % WRAP =
        IF Next1(rpos) <= wpos THEN wpos - Next1(rpos) ELSE wpos - Next1(rpos) + WRAP
  BY <1>1, <1>4, Difference
<1> QED
  BY <1>1, <1>2, <1>3, <1>4, <1>5, <1>6

-----------------------------------------------------------------------------
(* The mutex and the life of the ends *)

USE DEF Inside, Places, InCall, Tasks

LEMMA InitIInv ==
  ASSUME PipeAssumption, Init PROVE IInv
<1>1. TypeOK
  <2>1. lock \in Mutexes(Tasks, 1)
    BY DEF Init, Mutexes, Unlocked
  <2>2. 0 \in 0 .. WRAP - 1 /\ 0 \in 0 .. CAP /\ 0 \in 0 .. MaxLen /\ 0 \in Data
    BY DEF PipeAssumption
  <2>3. buf \in [0 .. CAP - 1 -> Data]
    BY <2>2 DEF Init
  <2>4. /\ pc \in [Tasks -> Places]
        /\ left \in [Tasks -> 0 .. MaxLen]
        /\ chunk \in [Tasks -> 0 .. CAP]
        /\ i \in [Tasks -> 0 .. CAP]
    BY <2>2 DEF Init
  <2>5. /\ rpos \in 0 .. WRAP - 1 /\ wpos \in 0 .. WRAP - 1 /\ count \in 0 .. CAP
        /\ rref \in 0 .. 1 /\ wref \in 0 .. 1
        /\ held \subseteq {"r", "w"} /\ out \in Data
    BY <2>2 DEF Init
  <2>6. used \in BOOLEAN /\ eof \in BOOLEAN
    BY DEF Init
  <2> QED
    BY <2>1, <2>3, <2>4, <2>5, <2>6 DEF TypeOK
<1>2. OwnerInside /\ DepthOne /\ CopyInv /\ EndInv
  BY DEF PipeAssumption, Init, TypeOK, Unlocked, OwnerInside, DepthOne, CopyInv, EndInv
<1>3. Pending = 0
  <2>1. (0 - 0) % WRAP = 0
    BY Difference DEF PipeAssumption
  <2> QED
    BY <2>1 DEF Init, Pending
<1>4. CountMatches
  BY <1>3 DEF Init, Unlocked, CountMatches, Ahead
<1> QED
  BY <1>1, <1>2, <1>4 DEF IInv

(* What Lock and Unlock make of the mutex.                                 *)
LEMMA MutexFacts ==
  ASSUME PipeAssumption, IInv, NEW t \in Tasks
  PROVE  /\ Lockable(lock, t) /\ pc[t] \notin Inside => Locked(lock, t) = [owner |-> t, depth |-> 1]
         /\ Lockable(lock, t) /\ pc[t] \notin Inside => lock.owner = 0
         /\ Released(lock) = Unlocked
         /\ Unlocked \in Mutexes(Tasks, 1)
         /\ [owner |-> t, depth |-> 1] \in Mutexes(Tasks, 1)
<1>1. t # 0 /\ lock \in Mutexes(Tasks, 1)
  BY DEF PipeAssumption, IInv, TypeOK
<1>2. lock.depth = IF lock.owner = 0 THEN 0 ELSE 1
  BY DEF IInv, DepthOne
<1>3. pc[t] \notin Inside => lock.owner # t
  BY DEF IInv, OwnerInside
<1>4. Released(lock) = Unlocked
  BY <1>2 DEF Released
<1> QED
  BY <1>1, <1>2, <1>3, <1>4 DEF Lockable, Locked, Mutexes, Unlocked

LEMMA StepOwner ==
  ASSUME PipeAssumption, IInv, [Next]_vars
  PROVE  OwnerInside' /\ DepthOne'
<1> USE DEF OwnerInside, DepthOne, Goto
<1>a. pc \in [Tasks -> Places] /\ 0 \notin Tasks /\ OwnerInside /\ DepthOne
  BY DEF IInv, TypeOK, PipeAssumption
<1>b. Unlocked.owner = 0 /\ Unlocked.depth = 0
  BY DEF Unlocked
<1>1. CASE Create
  <2>1. \A t \in Tasks : pc[t] = "idle"
    BY <1>1 DEF IInv, EndInv, Create
  <2> QED
    BY <1>1, <1>a, <1>b, <2>1 DEF Create
<1>2. ASSUME NEW t \in Tasks, NEW len \in 1 .. MaxLen, Call(t, len) PROVE OwnerInside' /\ DepthOne'
  BY <1>2, <1>a DEF Call
<1>3. ASSUME NEW t \in Tasks, Close(t) PROVE OwnerInside' /\ DepthOne'
  <2>1. pc[t] = "idle"
    BY <1>3 DEF Close, Peers
  <2> QED
    BY <1>3, <2>1, <1>a DEF Close
<1>4. ASSUME NEW t \in Tasks, Lock(t) PROVE OwnerInside' /\ DepthOne'
  <2>1. lock' = [owner |-> t, depth |-> 1] /\ lock.owner = 0
    BY <1>4, MutexFacts DEF Lock
  <2>2. pc'[t] \in Inside /\ \A u \in Tasks \ {t} : pc'[u] = pc[u]
    BY <1>4, <1>a DEF Lock
  <2> QED
    BY <2>1, <2>2, <1>a
<1>5. ASSUME NEW t \in Tasks, Step(t) PROVE OwnerInside' /\ DepthOne'
  <2>1. Released(lock) = Unlocked
    BY MutexFacts
  <2> USE <1>a, <1>b, <2>1
  <2>2. CASE Unlock(t)
    BY <2>2 DEF Unlock
  <2>3. CASE ReadLoop(t)
    BY <2>3 DEF ReadLoop, Leave, Wait, StartCopy
  <2>4. CASE WriteLoop(t)
    BY <2>4 DEF WriteLoop, Leave, Wait, StartCopy
  <2>5. CASE CopyOut(t)
    BY <2>5 DEF CopyOut, ByteCopied
  <2>6. CASE CopyIn(t)
    BY <2>6 DEF CopyIn, ByteCopied
  <2>7. CASE CommitRead(t)
    BY <2>7 DEF CommitRead
  <2>8. CASE CommitWrite(t)
    BY <2>8 DEF CommitWrite
  <2>9. CASE Shut(t)
    BY <2>9 DEF Shut
  <2>10. CASE Free(t)
    BY <2>10 DEF Free
  <2> QED
    BY <1>5, <2>2, <2>3, <2>4, <2>5, <2>6, <2>7, <2>8, <2>9, <2>10 DEF Step
<1>6. CASE UNCHANGED vars
  BY <1>6, <1>a DEF vars
<1> QED
  BY <1>1, <1>2, <1>3, <1>4, <1>5, <1>6 DEF Next

(* The life of the ends: calls only while the end is held, one close, and  *)
(* the slot given back by the last of them, alone.                         *)
LEMMA StepEnd ==
  ASSUME PipeAssumption, IInv, [Next]_vars
  PROVE  EndInv'
<1> USE DEF EndInv, Goto, RefOf, EndOf, Peers
<1>a. /\ pc \in [Tasks -> Places] /\ EndInv /\ Readers \cap Writers = {}
      /\ rref \in 0 .. 1 /\ wref \in 0 .. 1 /\ held \subseteq {"r", "w"}
  BY DEF IInv, TypeOK, PipeAssumption
<1>1. CASE Create
  BY <1>1, <1>a DEF Create
<1>2. ASSUME NEW t \in Tasks, NEW len \in 1 .. MaxLen, Call(t, len) PROVE EndInv'
  BY <1>2, <1>a DEF Call
<1>3. ASSUME NEW t \in Tasks, Close(t) PROVE EndInv'
  BY <1>3, <1>a DEF Close
<1>4. ASSUME NEW t \in Tasks, Lock(t) PROVE EndInv'
  BY <1>4, <1>a DEF Lock
<1>5. ASSUME NEW t \in Tasks, Step(t) PROVE EndInv'
  <2> USE <1>a
  <2>2. CASE Unlock(t)
    BY <2>2 DEF Unlock
  <2>3. CASE ReadLoop(t)
    BY <2>3 DEF ReadLoop, Leave, Wait, StartCopy
  <2>4. CASE WriteLoop(t)
    BY <2>4 DEF WriteLoop, Leave, Wait, StartCopy
  <2>5. CASE CopyOut(t)
    BY <2>5 DEF CopyOut, ByteCopied
  <2>6. CASE CopyIn(t)
    BY <2>6 DEF CopyIn, ByteCopied
  <2>7. CASE CommitRead(t)
    BY <2>7 DEF CommitRead
  <2>8. CASE CommitWrite(t)
    BY <2>8 DEF CommitWrite
  <2>9. CASE Shut(t)
    BY <2>9 DEF Shut
  <2>10. CASE Free(t)
    BY <2>10 DEF Free
  <2> QED
    BY <1>5, <2>2, <2>3, <2>4, <2>5, <2>6, <2>7, <2>8, <2>9, <2>10 DEF Step
<1>6. CASE UNCHANGED vars
  BY <1>6, <1>a DEF vars
<1> QED
  BY <1>1, <1>2, <1>3, <1>4, <1>5, <1>6 DEF Next

-----------------------------------------------------------------------------
(* Copies *)

(* The task at a copy is the owner, and nobody else has a copy open.       *)
LEMMA CopierAlone ==
  ASSUME IInv, NEW t \in Tasks, pc[t] \in Inside
  PROVE  /\ lock.owner = t
         /\ \A u \in Tasks \ {t} : pc[u] \notin Inside /\ chunk[u] = 0 /\ i[u] = 0
BY DEF IInv, OwnerInside, CopyInv

LEMMA StepTypes ==
  ASSUME PipeAssumption, IInv, [Next]_vars
  PROVE  TypeOK'
<1> USE DEF Goto
<1>a. /\ TypeOK /\ CopyInv
  BY DEF IInv
<1>b. CAP \in Nat \ {0} /\ WRAP \in Nat \ {0} /\ 0 \in Data /\ MaxLen \in Nat \ {0}
  BY DEF PipeAssumption
<1>c. Next1(wpos) \in 0 .. WRAP - 1 /\ Next1(rpos) \in 0 .. WRAP - 1
  BY <1>a, PendingSteps
<1>d. \A p \in Int : Slot(p) \in 0 .. CAP - 1
  BY <1>b DEF Slot
<1>e. rpos \in Int /\ wpos \in Int
  BY <1>a DEF TypeOK
<1>1. CASE Create
  <2>1. buf' \in [0 .. CAP - 1 -> Data] /\ lock' \in Mutexes(Tasks, 1)
    BY <1>1, <1>b DEF Create, Mutexes, Unlocked
  <2>2. used' \in BOOLEAN /\ eof' \in BOOLEAN
    BY <1>1 DEF Create
  <2>3. rpos' \in 0 .. WRAP - 1 /\ wpos' \in 0 .. WRAP - 1 /\ count' \in 0 .. CAP
    BY <1>1, <1>b DEF Create
  <2> QED
    BY <1>1, <1>a, <2>1, <2>2, <2>3 DEF Create, TypeOK, call
<1>2. ASSUME NEW t \in Tasks, NEW len \in 1 .. MaxLen, Call(t, len) PROVE TypeOK'
  BY <1>2, <1>a, <1>b DEF Call, TypeOK, ring
<1>3. ASSUME NEW t \in Tasks, Close(t) PROVE TypeOK'
  BY <1>3, <1>a DEF Close, TypeOK, ring, call
<1>4. ASSUME NEW t \in Tasks, Lock(t) PROVE TypeOK'
  <2>1. lock' \in Mutexes(Tasks, 1)
    BY <1>4, MutexFacts DEF Lock
  <2> QED
    BY <1>4, <1>a, <2>1 DEF Lock, TypeOK, ring, call
<1>5. ASSUME NEW t \in Tasks, Step(t) PROVE TypeOK'
  <2>1. Released(lock) \in Mutexes(Tasks, 1)
    BY MutexFacts
  <2> USE <1>a, <1>b, <2>1
  <2>2. CASE Unlock(t)
    BY <2>2, SMTT(30) DEF Unlock, TypeOK, ring
  <2>3. CASE ReadLoop(t)
    <3>1. count # 0 => Least(left[t], count) \in 0 .. CAP
      BY DEF TypeOK, Least
    <3> QED
      BY <2>3, <3>1, ZenonT(30) DEF ReadLoop, Leave, Wait, StartCopy, TypeOK, ring, call
  <2>4. CASE WriteLoop(t)
    <3>1. count # CAP => Least(left[t], CAP - count) \in 0 .. CAP
      BY DEF TypeOK, Least
    <3> QED
      BY <2>4, <3>1, SMTT(30) DEF WriteLoop, Leave, Wait, StartCopy, TypeOK, ring, call
  <2>5. CASE CopyOut(t)
    <3>1. i[t] + 1 \in 0 .. CAP
      BY <2>5 DEF CopyOut, CopyInv, TypeOK
    <3>2. buf[Slot(rpos)] \in Data
      BY <1>d, <1>e DEF TypeOK
    <3> QED
      BY <2>5, <3>1, <3>2, <1>c DEF CopyOut, ByteCopied, TypeOK
  <2>6. CASE CopyIn(t)
    <3>1. i[t] + 1 \in 0 .. CAP
      BY <2>6 DEF CopyIn, CopyInv, TypeOK
    <3>2. buf' \in [0 .. CAP - 1 -> Data]
      BY <2>6, <1>d, <1>e DEF CopyIn, TypeOK
    <3> QED
      BY <2>6, <3>1, <3>2, <1>c DEF CopyIn, ByteCopied, TypeOK
  <2>7. CASE CommitRead(t)
    <3>1. count - chunk[t] \in 0 .. CAP
      BY <2>7 DEF CommitRead, CopyInv, TypeOK
    <3> QED
      BY <2>7, <3>1 DEF CommitRead, Copied, TypeOK
  <2>8. CASE CommitWrite(t)
    <3>1. count + chunk[t] \in 0 .. CAP /\ left[t] - chunk[t] \in 0 .. MaxLen
      BY <2>8 DEF CommitWrite, CopyInv, TypeOK
    <3> QED
      BY <2>8, <3>1, SMTT(30) DEF CommitWrite, Copied, TypeOK
  <2>9. CASE Shut(t)
    BY <2>9 DEF Shut, TypeOK, ring, call
  <2>10. CASE Free(t)
    BY <2>10 DEF Free, TypeOK, ring, call
  <2> QED
    BY <1>5, <2>2, <2>3, <2>4, <2>5, <2>6, <2>7, <2>8, <2>9, <2>10 DEF Step
<1>6. CASE UNCHANGED vars
  BY <1>6, <1>a DEF vars, ring, call, TypeOK
<1> QED
  BY <1>1, <1>2, <1>3, <1>4, <1>5, <1>6 DEF Next

LEMMA StepCopy ==
  ASSUME PipeAssumption, IInv, [Next]_vars
  PROVE  CopyInv'
<1> USE DEF CopyInv, Goto
<1>a. /\ TypeOK /\ CopyInv /\ Readers \cap Writers = {}
      /\ CAP \in Nat \ {0} /\ MaxLen \in Nat \ {0}
  BY DEF IInv, PipeAssumption
<1>b. /\ pc \in [Tasks -> Places] /\ count \in 0 .. CAP
      /\ left \in [Tasks -> 0 .. MaxLen] /\ chunk \in [Tasks -> 0 .. CAP] /\ i \in [Tasks -> 0 .. CAP]
  BY <1>a DEF TypeOK
<1>1. CASE Create
  <2>1. \A t \in Tasks : pc[t] = "idle"
    BY <1>1 DEF IInv, EndInv, Create
  <2> QED
    BY <1>1, <1>a, <1>b, <2>1 DEF Create, call
<1>2. ASSUME NEW t \in Tasks, NEW len \in 1 .. MaxLen, Call(t, len) PROVE CopyInv'
  BY <1>2, <1>a, <1>b DEF Call, ring
<1>3. ASSUME NEW t \in Tasks, Close(t) PROVE CopyInv'
  <2>1. pc[t] = "idle"
    BY <1>3 DEF Close, Peers
  <2> QED
    BY <1>3, <1>a, <1>b, <2>1 DEF Close, ring, call
<1>4. ASSUME NEW t \in Tasks, Lock(t) PROVE CopyInv'
  BY <1>4, <1>a, <1>b DEF Lock, ring, call
<1>5. ASSUME NEW t \in Tasks, Step(t) PROVE CopyInv'
  <2> USE <1>a, <1>b
  <2>1. pc[t] \in Inside => \A u \in Tasks \ {t} : pc[u] \notin Inside /\ chunk[u] = 0 /\ i[u] = 0
    BY CopierAlone
  <2>2. CASE Unlock(t)
    BY <2>2 DEF Unlock, ring
  <2>3. CASE ReadLoop(t)
    <3>1. pc[t] = "loop" /\ t \in Readers /\ t \notin Writers /\ left[t] > 0 /\ count' = count
      BY <2>3 DEF ReadLoop, ring
    <3>2. CASE Leave(t)
      BY <3>1, <3>2 DEF Leave, call
    <3>3. CASE Wait(t)
      BY <3>1, <3>3 DEF Wait, call
    <3>4. CASE count # 0 /\ StartCopy(t, Least(left[t], count))
      BY <3>1, <3>4 DEF StartCopy, Least
    <3> QED
      BY <2>3, <3>2, <3>3, <3>4 DEF ReadLoop
  <2>4. CASE WriteLoop(t)
    <3>1. pc[t] = "loop" /\ t \in Writers /\ t \notin Readers /\ count' = count
      BY <2>4 DEF WriteLoop, ring
    <3>2. CASE Leave(t)
      BY <3>1, <3>2 DEF Leave, call
    <3>3. CASE left[t] # 0 /\ Wait(t)
      BY <3>1, <3>3 DEF Wait, call
    <3>4. CASE left[t] # 0 /\ count # CAP /\ StartCopy(t, Least(left[t], CAP - count))
      BY <3>1, <3>4 DEF StartCopy, Least
    <3> QED
      BY <2>4, <3>2, <3>3, <3>4 DEF WriteLoop
  <2>5. CASE CopyOut(t)
    BY <2>5 DEF CopyOut, ByteCopied
  <2>6. CASE CopyIn(t)
    BY <2>6 DEF CopyIn, ByteCopied
  <2>7. CASE CommitRead(t)
    BY <2>7, <2>1 DEF CommitRead, Copied
  <2>8. CASE CommitWrite(t)
    BY <2>8, <2>1 DEF CommitWrite, Copied
  <2>9. CASE Shut(t)
    BY <2>9 DEF Shut, ring, call
  <2>10. CASE Free(t)
    BY <2>10 DEF Free, ring, call
  <2> QED
    BY <1>5, <2>2, <2>3, <2>4, <2>5, <2>6, <2>7, <2>8, <2>9, <2>10 DEF Step
<1>6. CASE UNCHANGED vars
  BY <1>6, <1>a, <1>b DEF vars, ring, call
<1> QED
  BY <1>1, <1>2, <1>3, <1>4, <1>5, <1>6 DEF Next

(* The positions move with the copy, "count" when it is committed.         *)
LEMMA StepCount ==
  ASSUME PipeAssumption, IInv, [Next]_vars
  PROVE  CountMatches'
<1> USE DEF CountMatches, Ahead, Goto
<1>a. /\ OwnerInside /\ CopyInv /\ CountMatches
      /\ Readers \cap Writers = {} /\ 0 \notin Tasks
      /\ WRAP \in Nat /\ CAP \in Nat /\ WRAP > CAP
  BY DEF IInv, PipeAssumption
<1>b. /\ pc \in [Tasks -> Places] /\ count \in 0 .. CAP
      /\ chunk \in [Tasks -> 0 .. CAP] /\ i \in [Tasks -> 0 .. CAP]
      /\ lock.owner \in Tasks \cup {0}
  BY DEF IInv, TypeOK, Mutexes
<1>c. /\ Pending \in 0 .. WRAP - 1
      /\ Pending < WRAP - 1 => (Next1(wpos) - rpos) % WRAP = Pending + 1
      /\ Pending > 0 => (wpos - Next1(rpos)) % WRAP = Pending - 1
  BY PendingSteps DEF IInv
<1>d. \A t \in Tasks : pc[t] \in Inside =>
        lock.owner = t /\ \A u \in Tasks \ {t} : pc[u] \notin Inside
  BY CopierAlone
<1>e. Released(lock).owner = 0
  BY DEF IInv, DepthOne, Released, Unlocked
<1>1. CASE Create
  <2>1. (0 - 0) % WRAP = 0
    BY <1>a, Difference
  <2> QED
    BY <1>1, <2>1 DEF Create, Pending, Unlocked
<1>2. ASSUME NEW t \in Tasks, NEW len \in 1 .. MaxLen, Call(t, len) PROVE CountMatches'
  BY <1>2, <1>a, <1>b DEF Call, ring, Pending, OwnerInside
<1>3. ASSUME NEW t \in Tasks, Close(t) PROVE CountMatches'
  <2>1. pc[t] = "idle"
    BY <1>3 DEF Close, Peers
  <2> QED
    BY <1>3, <2>1, <1>a, <1>b DEF Close, ring, call, Pending
<1>4. ASSUME NEW t \in Tasks, Lock(t) PROVE CountMatches'
  <2>1. lock' = [owner |-> t, depth |-> 1] /\ lock.owner = 0
    BY <1>4, MutexFacts DEF Lock
  <2> QED
    BY <1>4, <2>1, <1>a, <1>b DEF Lock, ring, call, Pending
<1>5. ASSUME NEW t \in Tasks, Step(t) PROVE CountMatches'
  <2> USE <1>a, <1>b, <1>d
  <2>2. CASE Unlock(t)
    BY <2>2, <1>e DEF Unlock, ring, Pending
  <2>3. CASE ReadLoop(t)
    <3>1. pc[t] = "loop" /\ lock.owner = t /\ i[t] = 0 /\ UNCHANGED <<ring>>
      BY <2>3 DEF ReadLoop, CopyInv
    <3>2. CASE Leave(t)
      BY <3>1, <3>2 DEF Leave, call, ring, Pending
    <3>3. CASE Wait(t)
      BY <3>1, <3>3, <1>e DEF Wait, call, ring, Pending
    <3>4. CASE StartCopy(t, Least(left[t], count))
      BY <3>1, <3>4 DEF StartCopy, ring, Pending
    <3> QED
      BY <2>3, <3>2, <3>3, <3>4 DEF ReadLoop
  <2>4. CASE WriteLoop(t)
    <3>1. pc[t] = "loop" /\ lock.owner = t /\ i[t] = 0 /\ UNCHANGED <<ring>>
      BY <2>4 DEF WriteLoop, CopyInv
    <3>2. CASE Leave(t)
      BY <3>1, <3>2 DEF Leave, call, ring, Pending
    <3>3. CASE Wait(t)
      BY <3>1, <3>3, <1>e DEF Wait, call, ring, Pending
    <3>4. CASE StartCopy(t, Least(left[t], CAP - count))
      BY <3>1, <3>4 DEF StartCopy, ring, Pending
    <3> QED
      BY <2>4, <3>2, <3>3, <3>4 DEF WriteLoop
  <2>5. CASE CopyOut(t)
    <3>1. lock.owner = t /\ t \notin Writers /\ pc[t] = "copy"
      BY <2>5 DEF CopyOut
    <3>2. Pending = count - i[t] /\ i[t] < chunk[t] /\ chunk[t] <= count
      BY <3>1, <2>5 DEF CopyOut, CopyInv
    <3>3. Pending' = Pending - 1
      BY <2>5, <3>2, <1>c DEF CopyOut, Pending
    <3>4. lock' = lock /\ count' = count /\ i'[t] = i[t] + 1 /\ pc'[t] \in {"copy", "commit"}
      BY <2>5 DEF CopyOut, ByteCopied
    <3> QED
      BY <3>1, <3>2, <3>3, <3>4
  <2>6. CASE CopyIn(t)
    <3>1. lock.owner = t /\ t \in Writers /\ pc[t] = "copy"
      BY <2>6 DEF CopyIn
    <3>2. Pending = count + i[t] /\ i[t] < chunk[t] /\ count + chunk[t] <= CAP
      BY <3>1, <2>6 DEF CopyInv
    <3>3. Pending' = Pending + 1
      BY <2>6, <3>2, <1>c DEF CopyIn, Pending
    <3>4. lock' = lock /\ count' = count /\ i'[t] = i[t] + 1 /\ pc'[t] \in {"copy", "commit"}
      BY <2>6 DEF CopyIn, ByteCopied
    <3> QED
      BY <3>1, <3>2, <3>3, <3>4
  <2>7. CASE CommitRead(t)
    <3>1. lock.owner = t /\ t \notin Writers /\ i[t] = chunk[t] /\ Pending = count - i[t]
      BY <2>7 DEF CommitRead, CopyInv
    <3> QED
      BY <2>7, <3>1 DEF CommitRead, Pending
  <2>8. CASE CommitWrite(t)
    <3>1. lock.owner = t /\ t \in Writers /\ i[t] = chunk[t] /\ Pending = count + i[t]
      BY <2>8 DEF CommitWrite, CopyInv
    <3> QED
      BY <2>8, <3>1 DEF CommitWrite, Pending
  <2>9. CASE Shut(t)
    BY <2>9, <1>e DEF Shut, ring, Pending
  <2>10. CASE Free(t)
    BY <2>10 DEF Free, ring, call, Pending, OwnerInside
  <2> QED
    BY <1>5, <2>2, <2>3, <2>4, <2>5, <2>6, <2>7, <2>8, <2>9, <2>10 DEF Step
<1>6. CASE UNCHANGED vars
  BY <1>6, <1>a DEF vars, ring, call, Pending
<1> QED
  BY <1>1, <1>2, <1>3, <1>4, <1>5, <1>6 DEF Next

(* The inductive invariant holds.                                          *)
THEOREM PipeInvariant == Spec => []IInv
<1>1. Init => IInv
  BY PipeAssumption, InitIInv
<1>2. IInv /\ [Next]_vars => IInv'
  BY PipeAssumption, StepTypes, StepOwner, StepEnd, StepCopy, StepCount DEF IInv
<1> QED
  BY <1>1, <1>2, PTL DEF Spec

(* The mutex of the pipe is held exactly by the task between mutex_lock    *)
(* and mutex_unlock.                                                       *)
THEOREM PipeExclusion == Spec => []OwnerInside
<1>1. IInv => OwnerInside
  BY DEF IInv
<1> QED
  BY <1>1, PipeInvariant, PTL

(* "count" is the distance of the positions, up to the copy in progress.   *)
THEOREM PipeCount == Spec => []CountMatches
<1>1. IInv => CountMatches
  BY DEF IInv
<1> QED
  BY <1>1, PipeInvariant, PTL

(* Counts, positions, chunks and bytes in progress keep within the ring and
   the calls through every wait, close and reuse.                          *)
THEOREM PipeTypes == Spec => []TypeOK
<1>1. IInv => TypeOK
  BY DEF IInv
<1> QED
  BY <1>1, PipeInvariant, PTL

(* The slot is given back only when nobody is in a call on the pipe.       *)
THEOREM PipeReuse == Spec => []NoLateUse
<1>1. IInv => NoLateUse
  BY DEF IInv, EndInv, NoLateUse
<1> QED
  BY <1>1, PipeInvariant, PTL

-----------------------------------------------------------------------------
(* The byte stream *)

(* The ring is indexed by positions that wrap at a multiple of its size.   *)
LEMMA SlotFacts ==
  ASSUME PipeAssumption
  PROVE  /\ \A p \in Int : Slot(p) \in 0 .. CAP - 1 /\ Slot(p + WRAP) = Slot(p)
         /\ \A p \in Int, j \in 0 .. CAP - 1, k \in 0 .. CAP - 1 :
              j # k => Slot(p + j) # Slot(p + k)
<1>1. PICK n \in Int : WRAP = CAP * n
  BY DEF PipeAssumption
<1>2. CAP \in Nat \ {0} /\ WRAP \in Int
  BY DEF PipeAssumption
<1>3. ASSUME NEW p \in Int PROVE Slot(p) \in 0 .. CAP - 1 /\ Slot(p + WRAP) = Slot(p)
  <2>1. (p + CAP * n) % CAP = p % CAP
    BY <1>2, ModTurns
  <2> QED
    BY <1>1, <1>2, <2>1 DEF Slot
<1>4. ASSUME NEW p \in Int, NEW j \in 0 .. CAP - 1, NEW k \in 0 .. CAP - 1, j # k
      PROVE  Slot(p + j) # Slot(p + k)
  <2>1. j < k => (p + j) % CAP # (p + k) % CAP
    BY <1>2, ModDistinct
  <2>2. k < j => (p + k) % CAP # (p + j) % CAP
    BY <1>2, ModDistinct
  <2> QED
    BY <1>4, <2>1, <2>2 DEF Slot
<1> QED
  BY <1>3, <1>4

(* The n bytes of the ring from position p on, as a sequence.              *)
Window(b, p, n) == [k \in 1 .. n |-> b[Slot(p + k - 1)]]

LEMMA WindowIsSeq ==
  ASSUME PipeAssumption, NEW b \in [0 .. CAP - 1 -> Data], NEW p \in Int, NEW n \in Nat
  PROVE  /\ Window(b, p, n) \in Seq(Data)
         /\ Len(Window(b, p, n)) = n
         /\ \A k \in 1 .. n : Window(b, p, n)[k] = b[Slot(p + k - 1)]
<1>1. ASSUME NEW k \in 1 .. n PROVE b[Slot(p + k - 1)] \in Data
  <2>1. p + k - 1 \in Int
    OBVIOUS
  <2>2. Slot(p + k - 1) \in 0 .. CAP - 1
    BY <2>1, SlotFacts
  <2> QED
    BY <2>2
<1> QED
  BY <1>1 DEF Window

(* What both copies start from.                                            *)
LEMMA StreamTypes ==
  ASSUME PipeAssumption, IInv, [Next]_vars
  PROVE  /\ CAP \in Nat \ {0} /\ WRAP \in Nat \ {0} /\ WRAP > CAP
         /\ rpos \in 0 .. WRAP - 1 /\ wpos \in 0 .. WRAP - 1 /\ Pending \in Nat
         /\ buf \in [0 .. CAP - 1 -> Data] /\ buf' \in [0 .. CAP - 1 -> Data]
         /\ Transit = Window(buf, rpos, Pending)
         /\ Transit' = Window(buf', rpos', Pending')
<1>1. CAP \in Nat \ {0} /\ WRAP \in Nat \ {0} /\ WRAP > CAP
  BY DEF PipeAssumption
<1>2. TypeOK /\ TypeOK'
  BY StepTypes DEF IInv
<1>3. Pending \in Nat
  BY <1>2, PendingSteps
<1> QED
  BY <1>1, <1>2, <1>3 DEF TypeOK, Transit, Window, Slot

LEMMA StreamIn ==
  ASSUME PipeAssumption, IInv, [Next]_vars, NEW t \in Tasks, CopyIn(t)
  PROVE  \E d \in Data : Stream!Send(d)
<1>1. PICK d \in Data : buf' = [buf EXCEPT ![Slot(wpos)] = d]
  BY DEF CopyIn
<1>2. /\ CAP \in Nat \ {0} /\ WRAP \in Nat \ {0} /\ WRAP > CAP
      /\ rpos \in 0 .. WRAP - 1 /\ wpos \in 0 .. WRAP - 1 /\ Pending \in Nat
      /\ buf \in [0 .. CAP - 1 -> Data] /\ buf' \in [0 .. CAP - 1 -> Data]
  BY StreamTypes
<1>3. Pending < CAP
  <2>1. lock.owner = t
    BY CopierAlone DEF CopyIn
  <2>2. Pending = count + i[t] /\ i[t] < chunk[t] /\ count + chunk[t] <= CAP
    BY <2>1, CopyIn(t) DEF CopyIn, IInv, CopyInv, CountMatches, Ahead
  <2>3. count \in 0 .. CAP /\ chunk[t] \in 0 .. CAP /\ i[t] \in 0 .. CAP
    BY DEF IInv, TypeOK
  <2> QED
    BY <2>2, <2>3, <1>2
<1>4. Pending' = Pending + 1 /\ rpos' = rpos
  <2>1. Pending < WRAP - 1
    BY <1>2, <1>3
  <2>2. (Next1(wpos) - rpos) % WRAP = Pending + 1
    BY <2>1, PendingSteps DEF IInv
  <2> QED
    BY <2>2 DEF CopyIn, Pending
<1>5. Slot(wpos) = Slot(rpos + Pending)
  <2>1. Pending = IF rpos <= wpos THEN wpos - rpos ELSE wpos - rpos + WRAP
    BY <1>2, Difference DEF Pending
  <2>2. rpos + Pending = wpos \/ rpos + Pending = wpos + WRAP
    BY <1>2, <2>1
  <2>3. wpos \in Int
    BY <1>2
  <2> QED
    BY <2>2, <2>3, SlotFacts
<1>6. Slot(wpos) \in 0 .. CAP - 1
  <2>1. wpos \in Int
    BY <1>2
  <2> QED
    BY <2>1, SlotFacts
<1>7. ASSUME NEW k \in 1 .. Pending PROVE buf'[Slot(rpos + k - 1)] = buf[Slot(rpos + k - 1)]
  <2>1. k - 1 \in 0 .. CAP - 1 /\ Pending \in 0 .. CAP - 1 /\ k - 1 # Pending /\ rpos \in Int
    BY <1>2, <1>3
  <2>2. Slot(rpos + (k - 1)) # Slot(rpos + Pending)
    BY <2>1, SlotFacts
  <2>3. rpos + (k - 1) = rpos + k - 1 /\ rpos + k - 1 \in Int
    BY <1>2
  <2>4. Slot(rpos + k - 1) \in 0 .. CAP - 1
    BY <2>3, SlotFacts
  <2> QED
    BY <1>1, <1>2, <1>5, <2>2, <2>3, <2>4
<1>8. Transit' = Append(Transit, d)
  <2>1. /\ Transit \in Seq(Data) /\ Len(Transit) = Pending
        /\ \A k \in 1 .. Pending : Transit[k] = buf[Slot(rpos + k - 1)]
    <3>1. rpos \in Int
      BY <1>2
    <3>2. /\ Window(buf, rpos, Pending) \in Seq(Data)
          /\ Len(Window(buf, rpos, Pending)) = Pending
          /\ \A k \in 1 .. Pending : Window(buf, rpos, Pending)[k] = buf[Slot(rpos + k - 1)]
      BY <1>2, <3>1, WindowIsSeq
    <3>3. Transit = Window(buf, rpos, Pending)
      BY StreamTypes
    <3> QED
      BY <3>2, <3>3
  <2>2. /\ Transit' \in Seq(Data) /\ Len(Transit') = Pending + 1
        /\ \A k \in 1 .. Pending + 1 : Transit'[k] = buf'[Slot(rpos + k - 1)]
    <3>1. Transit' = Window(buf', rpos, Pending + 1) /\ Pending + 1 \in Nat /\ rpos \in Int
      BY <1>2, <1>4, StreamTypes
    <3>2. /\ Window(buf', rpos, Pending + 1) \in Seq(Data)
          /\ Len(Window(buf', rpos, Pending + 1)) = Pending + 1
          /\ \A k \in 1 .. Pending + 1 :
               Window(buf', rpos, Pending + 1)[k] = buf'[Slot(rpos + k - 1)]
      BY <1>2, <3>1, WindowIsSeq
    <3> QED
      BY <3>1, <3>2
  <2>3. /\ Append(Transit, d) \in Seq(Data)
        /\ Len(Append(Transit, d)) = Pending + 1
        /\ \A k \in 1 .. Pending : Append(Transit, d)[k] = Transit[k]
        /\ Append(Transit, d)[Pending + 1] = d
    BY <2>1, AppendProperties
  <2>4. ASSUME NEW k \in 1 .. Pending + 1 PROVE Transit'[k] = Append(Transit, d)[k]
    <3>1. CASE k = Pending + 1
      <4>1. rpos + k - 1 = rpos + Pending
        BY <3>1, <1>2
      <4>2. buf'[Slot(rpos + Pending)] = d
        BY <1>1, <1>2, <1>5, <1>6
      <4>3. Transit'[k] = buf'[Slot(rpos + k - 1)]
        BY <2>2
      <4>4. Transit'[k] = d
        BY <4>1, <4>2, <4>3
      <4>5. Append(Transit, d)[k] = d
        BY <3>1, <2>3
      <4> QED
        BY <4>4, <4>5
    <3>2. CASE k \in 1 .. Pending
      BY <3>2, <1>7, <2>1, <2>2, <2>3
    <3>3. k = Pending + 1 \/ k \in 1 .. Pending
      <4>1. Pending \in Nat
        BY <1>2
      <4> QED
        BY <4>1
    <3> QED
      BY <3>1, <3>2, <3>3
  <2> HIDE DEF Transit
  <2> QED
    BY <2>2, <2>3, <2>4, SeqEqual
<1>9. wref # 0 /\ UNCHANGED <<out, rref, wref, eof>>
  <2>1. pc[t] \in InCall /\ t \notin Readers
    BY PipeAssumption DEF CopyIn, PipeAssumption
  <2>2. wref = 1
    BY <2>1 DEF IInv, EndInv, EndOf
  <2> QED
    BY <2>2 DEF CopyIn, ByteCopied
<1>10. Len(Transit) < CAP
  BY <1>2, <1>3 DEF Transit
<1>11. Stream!Send(d)
  BY <1>8, <1>9, <1>10 DEF Stream!Send
<1> QED
  BY <1>11

LEMMA StreamOut ==
  ASSUME PipeAssumption, IInv, [Next]_vars, NEW t \in Tasks, CopyOut(t)
  PROVE  Stream!Deliver
<1>2. /\ CAP \in Nat \ {0} /\ WRAP \in Nat \ {0} /\ WRAP > CAP
      /\ rpos \in 0 .. WRAP - 1 /\ wpos \in 0 .. WRAP - 1 /\ Pending \in Nat
      /\ buf \in [0 .. CAP - 1 -> Data] /\ buf' = buf
  BY StreamTypes DEF CopyOut
<1>3. Pending > 0
  <2>1. lock.owner = t
    BY CopierAlone DEF CopyOut
  <2>2. t \notin Writers
    BY DEF CopyOut, PipeAssumption
  <2>3. Pending = count - i[t] /\ i[t] < chunk[t] /\ chunk[t] <= count
    BY <2>1, <2>2, CopyOut(t) DEF CopyOut, IInv, CopyInv, CountMatches, Ahead
  <2>4. count \in 0 .. CAP /\ chunk[t] \in 0 .. CAP /\ i[t] \in 0 .. CAP
    BY DEF IInv, TypeOK
  <2> QED
    BY <2>3, <2>4, <1>2
<1>4. Pending' = Pending - 1
  BY <1>2, <1>3, PendingSteps DEF CopyOut, Pending, IInv
<1>5. rpos' = rpos + 1 \/ rpos' + WRAP = rpos + 1
  <2>1. rpos' = (rpos + 1) % WRAP
    BY DEF CopyOut, Next1
  <2> QED
    BY <2>1, <1>2, Successor
<1>6. rpos' \in Int /\ rpos \in Int
  BY <1>2, <1>5, PendingSteps DEF CopyOut, IInv
<1>7. ASSUME NEW k \in 1 .. Pending - 1 PROVE Slot(rpos' + k - 1) = Slot(rpos + (k + 1) - 1)
  <2>1. CASE rpos' = rpos + 1
    <3>1. rpos' + k - 1 = rpos + (k + 1) - 1
      BY <2>1, <1>6, <1>2
    <3> QED
      BY <3>1
  <2>2. CASE rpos' + WRAP = rpos + 1
    <3>1. k \in Int /\ WRAP \in Int /\ rpos' + k - 1 \in Int
      BY <1>2, <1>6
    <3>2. PICK r \in Int : r = rpos'
      BY <1>6
    <3>3. (r + k - 1) + WRAP = rpos + (k + 1) - 1
      <4>1. r + WRAP = rpos + 1 /\ rpos \in Int
        BY <2>2, <3>2, <1>6
      <4>2. (r + k - 1) + WRAP = (r + WRAP) + (k - 1)
        BY <3>1, <3>2
      <4>3. rpos + (k + 1) - 1 = (rpos + 1) + (k - 1)
        BY <4>1, <3>1
      <4> QED
        BY <4>1, <4>2, <4>3
    <3>4. Slot((rpos' + k - 1) + WRAP) = Slot(rpos' + k - 1)
      BY <3>1, SlotFacts
    <3> QED
      BY <3>2, <3>3, <3>4
  <2> QED
    BY <1>5, <2>1, <2>2
<1>8. /\ Transit \in Seq(Data) /\ Len(Transit) = Pending
      /\ \A k \in 1 .. Pending : Transit[k] = buf[Slot(rpos + k - 1)]
  <2>1. Transit = Window(buf, rpos, Pending)
    BY StreamTypes
  <2>2. /\ Window(buf, rpos, Pending) \in Seq(Data)
        /\ Len(Window(buf, rpos, Pending)) = Pending
        /\ \A k \in 1 .. Pending : Window(buf, rpos, Pending)[k] = buf[Slot(rpos + k - 1)]
    BY <1>2, <1>6, WindowIsSeq, SMTT(30)
  <2> QED
    BY <2>1, <2>2
<1>9. /\ Transit' \in Seq(Data) /\ Len(Transit') = Pending - 1
      /\ \A k \in 1 .. Pending - 1 : Transit'[k] = buf[Slot(rpos' + k - 1)]
  <2>1. Transit' = Window(buf, rpos', Pending - 1) /\ Pending - 1 \in Nat
    BY <1>2, <1>3, <1>4, StreamTypes
  <2>2. /\ Window(buf, rpos', Pending - 1) \in Seq(Data)
        /\ Len(Window(buf, rpos', Pending - 1)) = Pending - 1
        /\ \A k \in 1 .. Pending - 1 :
             Window(buf, rpos', Pending - 1)[k] = buf[Slot(rpos' + k - 1)]
    BY <1>2, <1>6, <2>1, WindowIsSeq
  <2> QED
    BY <2>1, <2>2
<1>10. Transit # <<>>
  BY <1>8, <1>3
<1>11. Transit' = Tail(Transit)
  <2>1. /\ Tail(Transit) \in Seq(Data) /\ Len(Tail(Transit)) = Pending - 1
        /\ \A k \in 1 .. Pending - 1 : Tail(Transit)[k] = Transit[k + 1]
    BY <1>8, <1>10, HeadTailProperties
  <2>2. ASSUME NEW k \in 1 .. Pending - 1 PROVE Transit'[k] = Tail(Transit)[k]
    <3>1. k + 1 \in 1 .. Pending
      BY <1>2
    <3> QED
      BY <3>1, <1>7, <1>8, <1>9, <2>1, SMTT(30)
  <2> QED
    BY <1>9, <2>1, <2>2, SeqEqual
<1>12. out' = Head(Transit)
  <2>1. rpos + 1 - 1 = rpos /\ 1 \in 1 .. Pending
    BY <1>2, <1>3
  <2>2. Transit[1] = buf[Slot(rpos)]
    BY <2>1, <1>8
  <2>3. Head(Transit) = Transit[1]
    BY <1>8, <1>10
  <2> QED
    BY <2>2, <2>3 DEF CopyOut
<1>13. rref # 0 /\ UNCHANGED <<rref, wref, eof>>
  <2>1. pc[t] \in InCall /\ t \in Readers
    BY DEF CopyOut
  <2>2. rref = 1
    BY <2>1 DEF IInv, EndInv, EndOf
  <2> QED
    BY <2>2 DEF CopyOut, ByteCopied
<1> QED
  BY <1>10, <1>11, <1>12, <1>13 DEF Stream!Deliver

(* Everything else leaves the bytes in transit as they are.                *)
LEMMA StreamStutters ==
  ASSUME UNCHANGED <<buf, rpos, wpos, out, rref, wref, eof>>
  PROVE  UNCHANGED <<Transit, out, rref # 0, wref # 0, eof>>
BY DEF Transit, Pending, Slot

LEMMA StreamEmpty ==
  ASSUME PipeAssumption, TypeOK, Pending = 0 PROVE Transit = <<>>
BY DEF Transit

(* The initial states of the pipe are initial states of the stream, and    *)
(* every step is a step of the stream or leaves it alone.                  *)
THEOREM PipeIsStream == Spec => ImplementsStream
<1> USE DEF Goto
<1> DEFINE svars == <<Transit, out, rref # 0, wref # 0, eof>>
<1>1. Init => Stream!Init
  <2> SUFFICES ASSUME Init PROVE Stream!Init
    OBVIOUS
  <2>1. IInv
    BY PipeAssumption, InitIInv
  <2>2. (0 - 0) % WRAP = 0
    BY PipeAssumption, Difference DEF PipeAssumption
  <2>3. Pending = 0
    BY <2>2 DEF Init, Pending
  <2>4. Transit = <<>>
    BY PipeAssumption, <2>1, <2>3, StreamEmpty DEF IInv
  <2> QED
    BY <2>4 DEF Init, Stream!Init
<1>2. ASSUME IInv, [Next]_vars PROVE [Stream!Next]_svars
  <2> USE PipeAssumption
  <2>1. CASE Create
    <3>1. (0 - 0) % WRAP = 0
      BY Difference DEF PipeAssumption
    <3>2. Pending' = 0
      BY <2>1, <3>1 DEF Create, Pending
    <3>3. Transit' = <<>>
      BY <3>2 DEF Transit
    <3>4. rref = 0 /\ wref = 0
      BY <2>1, <1>2 DEF Create, IInv, EndInv
    <3>5. Stream!Open
      BY <2>1, <3>3, <3>4 DEF Create, Stream!Open
    <3> QED
      BY <3>5 DEF Stream!Next
  <2>2. ASSUME NEW t \in Tasks, NEW len \in 1 .. MaxLen, Call(t, len) PROVE UNCHANGED svars
    BY <2>2, StreamStutters DEF Call, ring
  <2>3. ASSUME NEW t \in Tasks, Close(t) PROVE UNCHANGED svars
    BY <2>3, StreamStutters DEF Close, ring
  <2>4. ASSUME NEW t \in Tasks, Lock(t) PROVE UNCHANGED svars
    BY <2>4, StreamStutters DEF Lock, ring
  <2>5. ASSUME NEW t \in Tasks, Step(t) PROVE [Stream!Next]_svars
    <3>2. CASE Unlock(t)
      BY <3>2, StreamStutters DEF Unlock, ring
    <3>3. CASE ReadLoop(t)
      <4>1. pc[t] = "loop" /\ t \in Readers /\ UNCHANGED <<buf, rpos, wpos, out, rref, wref>>
        BY <3>3 DEF ReadLoop, ring
      <4>2. CASE UNCHANGED eof
        BY <4>1, <4>2, StreamStutters
      <4>3. CASE count = 0 /\ wref = 0 /\ eof' = TRUE
        <5>1. lock.owner = t
          BY <1>2, <4>1, CopierAlone
        <5>2. Pending = 0
          BY <1>2, <4>1, <4>3, <5>1 DEF IInv, CountMatches, Ahead, TypeOK
        <5>3. Transit = <<>>
          BY <1>2, <5>2, StreamEmpty DEF IInv
        <5>4. rref = 1
          BY <1>2, <4>1 DEF IInv, EndInv, EndOf
        <5>5. UNCHANGED <<Transit, out, rref, wref>>
          BY <4>1 DEF Transit, Pending, Slot
        <5>6. Stream!EndOfFile
          BY <4>3, <5>3, <5>4, <5>5 DEF Stream!EndOfFile
        <5> QED
          BY <5>6 DEF Stream!Next
      <4> QED
        BY <3>3, <4>2, <4>3 DEF ReadLoop, Wait, StartCopy
    <3>4. CASE WriteLoop(t)
      BY <3>4, StreamStutters DEF WriteLoop, ring, Wait, StartCopy
    <3>5. CASE CopyOut(t)
      BY <1>2, <3>5, StreamOut DEF Stream!Next
    <3>6. CASE CopyIn(t)
      BY <1>2, <3>6, StreamIn DEF Stream!Next
    <3>7. CASE CommitRead(t)
      BY <3>7, StreamStutters DEF CommitRead
    <3>8. CASE CommitWrite(t)
      BY <3>8, StreamStutters DEF CommitWrite
    <3>9. CASE Shut(t)
      <4>1. UNCHANGED <<Transit, out, eof>>
        BY <3>9 DEF Shut, ring, Transit, Pending, Slot
      <4>2. RefOf(t) = 1
        BY <1>2, <3>9 DEF Shut, IInv, EndInv
      <4>3. CASE t \in Readers
        <5>1. rref # 0 /\ rref' = 0 /\ wref' = wref
          BY <3>9, <4>2, <4>3 DEF Shut, RefOf, PipeAssumption
        <5>2. Stream!CloseRead
          BY <4>1, <5>1 DEF Stream!CloseRead
        <5> QED
          BY <5>2 DEF Stream!Next
      <4>4. CASE t \notin Readers
        <5>1. wref # 0 /\ wref' = 0 /\ rref' = rref
          BY <3>9, <4>2, <4>4 DEF Shut, RefOf, PipeAssumption
        <5>2. Stream!CloseWrite
          BY <4>1, <5>1 DEF Stream!CloseWrite
        <5> QED
          BY <5>2 DEF Stream!Next
      <4> QED
        BY <4>3, <4>4
    <3>10. CASE Free(t)
      BY <3>10, StreamStutters DEF Free, ring
    <3> QED
      BY <2>5, <3>2, <3>3, <3>4, <3>5, <3>6, <3>7, <3>8, <3>9, <3>10 DEF Step
  <2>6. CASE UNCHANGED vars
    BY <2>6, StreamStutters DEF vars, ring
  <2> QED
    BY <1>2, <2>1, <2>2, <2>3, <2>4, <2>5, <2>6 DEF Next
<1> QED
  BY <1>1, <1>2, PipeInvariant, PTL DEF Spec, ImplementsStream, Stream!Spec
=============================================================================
