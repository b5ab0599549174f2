---------------------------- MODULE TaskProofs ----------------------------
(***************************************************************************)
(* Theorems about the scheduler, for every size of the task table, every   *)
(* quantum, period and threshold, and about what tasks meet at: the        *)
(* read-write lock, and the message queues for every set of tasks and      *)
(* names, every number of slots, messages, priorities and ids.  The chain  *)
(* for the scheduler is:                                                   *)
(*   types; the clock and the slice counter stay aligned; only the current *)
(*   task is RUNNING; from alignment, the reaper runs only in a task that  *)
(*   was just switched in, so it never frees the stack in use.             *)
(* Of the queues: a receiver gets only messages of the queue it asked for, *)
(* and the sorted array implements the priority queues of                  *)
(* PriorityQueues.tla.                                                     *)
(***************************************************************************)
EXTENDS Scheduler, RWLock, MsgQueue,
        FiniteSetTheorems, SequenceTheorems, WellFoundedInduction, TLAPS

-----------------------------------------------------------------------------
(* Remainders                                                              *)

(* Arithmetic: the remainder is determined by the quotient.                *)
LEMMA ModUnique ==
  ASSUME NEW q \in Nat \ {0}, NEW d \in Int, NEW r \in 0 .. q - 1
  PROVE  (q * d + r) % q = r
<1> DEFINE s == (q * d + r) % q
<1>1. s \in 0 .. q - 1
  OBVIOUS
<1>2. PICK e \in Int : e = (q * d + r) \div q
  OBVIOUS
<1>3. q * d + r = q * e + s
  BY <1>2
<1>4. q * (d - e) = s - r
  BY <1>3, <1>1
<1> HIDE DEF s
<1>5. s - r < q /\ r - s < q /\ s \in Int
  BY <1>1
<1>6. d - e < 1
  BY <1>4, <1>5, SMTT(30)
<1>7. d - e > -1
  BY <1>4, <1>5, SMTT(30)
<1>8. d - e = 0
  BY <1>6, <1>7
<1>9. s = r
  BY <1>8, <1>4, <1>5
<1> QED
  BY <1>9 DEF s

LEMMA ModDecomposition ==
  ASSUME NEW q \in Nat \ {0}, NEW c \in Int
  PROVE  \E d \in Int : c = q * d + (c % q)
<1>1. c = q * (c \div q) + (c % q)
  OBVIOUS
<1>2. c \div q \in Int
  OBVIOUS
<1> QED
  BY <1>1, <1>2

-----------------------------------------------------------------------------
(* A fresh task is at the start of its function and does not run yet, and  *)
(* nothing has left its own code before interrupts are enabled.            *)
FreshAtStart ==
  /\ \A t \in fresh : pc[t] = "run" /\ t # current
  /\ ~sti => \A t \in Tasks : pc[t] = "run"

(* Aging stops below RT and demotion spares RT tasks, so only a task that  *)
(* was given RT ever has it.                                               *)
RTIsGiven == \A t \in Tasks : priority[t] = RT => base[t] = RT

(* A slice is given up only when it is used up, so whoever does not run    *)
(* has a full slice ahead.                                                 *)
OthersHaveFullSlice == \A t \in Tasks : t # current => run[t] = 0

(* The inductive invariant.                                                *)
IInv ==
  /\ TypeOK
  /\ RunningIsCurrent
  /\ QuantumAligned
  /\ OthersHaveFullSlice
  /\ StackOfCurrent
  /\ TickNotLost
  /\ FreshAtStart
  /\ RTIsGiven

(* One tick moves the position in the slice by one and wraps it with the   *)
(* slice; the clock can only wrap at the end of a slice.                   *)
LEMMA TickAligned ==
  ASSUME NEW c \in 0 .. AGE_PERIOD - 1
  PROVE  /\ Tick(c) \in 0 .. AGE_PERIOD - 1
         /\ (c % QUANTUM) + 1 < QUANTUM => Tick(c) % QUANTUM = (c % QUANTUM) + 1
         /\ (c % QUANTUM) + 1 >= QUANTUM => Tick(c) % QUANTUM = 0
         /\ Tick(c) = 0 => (c % QUANTUM) + 1 >= QUANTUM
<1> DEFINE r == c % QUANTUM
<1>q. QUANTUM \in Nat \ {0} /\ AGE_PERIOD \in Nat \ {0} /\ c \in Int
  BY SchedulerAssumption
<1>1. r \in 0 .. QUANTUM - 1
  BY <1>q
<1>2. PICK d \in Int : c = QUANTUM * d + r
  <2>1. \E d \in Int : c = QUANTUM * d + (c % QUANTUM)
    BY <1>q, ModDecomposition
  <2> QED
    BY <2>1
<1>3. PICK k \in Int : AGE_PERIOD = QUANTUM * k
  BY SchedulerAssumption
<1>z. \A m \in Int : (QUANTUM * m) % QUANTUM = 0
  <2>1. ASSUME NEW m \in Int
        PROVE  (QUANTUM * m + 0) % QUANTUM = 0
    BY <1>q, ModUnique
  <2>2. \A m \in Int : QUANTUM * m + 0 = QUANTUM * m
    BY <1>q
  <2> QED
    BY <2>1, <2>2
<1>4. Tick(c) = IF c + 1 < AGE_PERIOD THEN c + 1 ELSE 0
  <2>1. CASE c + 1 < AGE_PERIOD
    BY <1>q, <2>1 DEF Tick
  <2>2. CASE c + 1 = AGE_PERIOD
    BY <1>q, <2>2 DEF Tick
  <2> QED
    BY <1>q, <2>1, <2>2
<1>5. 0 % QUANTUM = 0
  <2>1. QUANTUM * 0 = 0
    BY <1>q
  <2> QED
    BY <2>1, <1>z
<1> HIDE DEF r
<1>6. ASSUME r + 1 < QUANTUM
      PROVE  c + 1 < AGE_PERIOD /\ (c + 1) % QUANTUM = r + 1
  <2>1. c + 1 = QUANTUM * d + (r + 1)
    BY <1>q, <1>1, <1>2
  <2>2. r + 1 \in 0 .. QUANTUM - 1
    BY <1>q, <1>1, <1>6
  <2>3. (QUANTUM * d + (r + 1)) % QUANTUM = r + 1
    BY <1>q, <2>2, ModUnique
  <2>4. AGE_PERIOD % QUANTUM = 0
    BY <1>3, <1>z
  <2>5. c + 1 # AGE_PERIOD
    BY <2>1, <2>3, <2>4, <1>1
  <2> QED
    BY <2>1, <2>3, <2>5, <1>q
<1>7. ASSUME r + 1 >= QUANTUM
      PROVE  (c + 1) % QUANTUM = 0
  <2>1. c + 1 = QUANTUM * d + QUANTUM
    BY <1>q, <1>1, <1>2, <1>7
  <2>2. QUANTUM * d + QUANTUM = QUANTUM * (d + 1)
    BY <1>q
  <2> QED
    BY <2>1, <2>2, <1>z
<1>8. Tick(c) \in 0 .. AGE_PERIOD - 1
  BY <1>4, <1>q
<1> QED
  BY <1>q, <1>1, <1>4, <1>5, <1>6, <1>7, <1>8 DEF r
-----------------------------------------------------------------------------
(* The pieces of the handler *)

LEMMA AgeAndReapFacts ==
  ASSUME TypeOK,
         NEW st \in [Tasks -> States], NEW pri \in [Tasks -> Prio],
         NEW w \in [Tasks -> 0 .. AGING], NEW bits \in SUBSET Prio,
         \A t \in Tasks : st[t] = "ZOMBIE" => zombie[t] < REAP,
         AgeAndReap(st, pri, w, bits)
  PROVE  /\ state' \in [Tasks -> States]
         /\ priority' \in [Tasks -> Prio]
         /\ wait' \in [Tasks -> 0 .. AGING]
         /\ zombie' \in [Tasks -> 0 .. REAP]
         /\ \A t \in Tasks : state'[t] = "ZOMBIE" => zombie'[t] < REAP
         /\ bitmap' \in SUBSET Prio
         /\ \A t \in Tasks : st[t] # "ZOMBIE" => state'[t] = st[t]
         /\ \A t \in Tasks : state'[t] = "RUNNING" => st[t] = "RUNNING"
         /\ \A t \in Tasks : priority'[t] = RT => pri[t] = RT
<1> USE SchedulerAssumption DEF AgeAndReap
<1>1. wait' \in [Tasks -> 0 .. AGING]
  BY SMTT(30) DEF TypeOK
<1>2. /\ priority' \in [Tasks -> Prio]
      /\ \A t \in Tasks : priority'[t] = RT => pri[t] = RT
  BY SMTT(30) DEF Prio
<1>3. bitmap' \in SUBSET Prio
  BY DEF AgedBits
<1>4. /\ zombie' \in [Tasks -> 0 .. REAP]
      /\ \A t \in Tasks : state'[t] = "ZOMBIE" => zombie'[t] < REAP
  BY SMTT(30) DEF TypeOK
<1>5. /\ state' \in [Tasks -> States]
      /\ \A t \in Tasks : st[t] # "ZOMBIE" => state'[t] = st[t]
      /\ \A t \in Tasks : state'[t] = "RUNNING" => st[t] = "RUNNING"
  BY SMTT(30) DEF States
<1> QED
  BY <1>1, <1>2, <1>3, <1>4, <1>5

LEMMA AwakeFacts ==
  ASSUME TypeOK
  PROVE  /\ AwakeState \in [Tasks -> States]
         /\ AwakeBits \in SUBSET Prio
         /\ bitmap \subseteq AwakeBits
         /\ \A t \in Tasks : AwakeState[t] \in {"ZOMBIE", "RUNNING", "UNUSED"}
                              => state[t] = AwakeState[t]
BY DEF TypeOK, AwakeState, AwakeBits, Woken, States

LEMMA RequeueFacts ==
  ASSUME TypeOK, RunningIsCurrent, RTIsGiven
  PROVE  /\ Requeue.st \in [Tasks -> States]
         /\ Requeue.pri \in [Tasks -> Prio]
         /\ Requeue.bits \in SUBSET Prio
         /\ \A t \in Tasks : Requeue.st[t] # "RUNNING"
         /\ \A t \in Tasks : Requeue.st[t] \in {"ZOMBIE", "UNUSED"} => state[t] = Requeue.st[t]
         /\ \A t \in Tasks : Requeue.pri[t] = RT => priority[t] = RT
         /\ RT \in bitmap => RT \in Requeue.bits
<1> DEFINE p    == IF Demotes THEN priority[current] - 1 ELSE priority[current]
           kept == IF Demotes THEN AwakeBits \ {priority[current]} ELSE AwakeBits
           s    == AwakeState[current]
           bits == IF s = "RUNNING" \/ (Demotes /\ s = "READY") THEN kept \cup {p} ELSE kept
<1>1. /\ Requeue.st = IF s = "RUNNING" THEN [AwakeState EXCEPT ![current] = "READY"]
                                       ELSE AwakeState
      /\ Requeue.pri = [priority EXCEPT ![current] = p]
      /\ Requeue.bits = bits
  BY DEF Requeue
<1>2. current \in Tasks /\ priority \in [Tasks -> Prio] /\ base \in [Tasks -> Prio]
  BY DEF TypeOK
<1>3. p \in Prio /\ (p = RT => priority[current] = RT)
  BY <1>2, SchedulerAssumption DEF Prio, Demotes
<1>4. Requeue.pri \in [Tasks -> Prio] /\ \A t \in Tasks : Requeue.pri[t] = RT => priority[t] = RT
  BY <1>1, <1>2, <1>3
<1>5. kept \in SUBSET Prio /\ (RT \in bitmap => RT \in kept)
  BY <1>2, AwakeFacts DEF Demotes, RTIsGiven, Prio
<1>6. Requeue.bits \in SUBSET Prio /\ (RT \in bitmap => RT \in Requeue.bits)
  BY <1>1, <1>3, <1>5
<1>7. Requeue.st \in [Tasks -> States]
  BY <1>1, <1>2, AwakeFacts DEF States
<1>8. \A t \in Tasks : Requeue.st[t] # "RUNNING"
  BY <1>1, <1>2, AwakeFacts DEF RunningIsCurrent
<1>9. \A t \in Tasks : Requeue.st[t] \in {"ZOMBIE", "UNUSED"} => state[t] = Requeue.st[t]
  BY <1>1, <1>2, AwakeFacts
<1> QED
  BY <1>4, <1>6, <1>7, <1>8, <1>9

(* Once a real-time task's bit is set, bitmap_top is RT.                   *)
LEMMA TopIsRT ==
  ASSUME NEW bits \in SUBSET Prio, RT \in bits
  PROVE  Top(bits) = RT
<1>1. \A q \in bits : q <= RT /\ q \in Int
  BY SchedulerAssumption DEF Prio
<1>2. \E p \in bits : \A q \in bits : q <= p
  BY <1>1
<1>3. Top(bits) = CHOOSE p \in bits : \A q \in bits : q <= p
  BY DEF Top
<1>4. Top(bits) \in bits /\ \A q \in bits : q <= Top(bits)
  BY <1>2, <1>3, Zenon
<1>5. PICK p \in bits : p = Top(bits) /\ \A q \in bits : q <= p
  BY <1>4
<1>6. p <= RT /\ RT <= p /\ p \in Int /\ RT \in Int
  BY <1>1, <1>5
<1> QED
  BY <1>5, <1>6

-----------------------------------------------------------------------------
(* The handler *)

LEMMA StayFacts ==
  ASSUME IInv, StayInQuantum, clock' = Tick(clock)
  PROVE  /\ state' \in [Tasks -> States]
         /\ priority' \in [Tasks -> Prio]
         /\ wait' \in [Tasks -> 0 .. AGING]
         /\ zombie' \in [Tasks -> 0 .. REAP]
         /\ \A t \in Tasks : state'[t] = "ZOMBIE" => zombie'[t] < REAP
         /\ bitmap' \in SUBSET Prio
         /\ run' \in [Tasks -> 0 .. QUANTUM - 1]
         /\ RunningIsCurrent' /\ QuantumAligned' /\ StackOfCurrent'
         /\ OthersHaveFullSlice'
         /\ \A t \in Tasks : priority'[t] = RT => priority[t] = RT
         /\ inService' = FALSE /\ current' = current /\ fresh' = fresh
<1>1. /\ TypeOK /\ RunningIsCurrent /\ QuantumAligned /\ StackOfCurrent
      /\ current \in Tasks /\ clock \in 0 .. AGE_PERIOD - 1
  BY DEF IInv, TypeOK
<1>2. /\ run[current] + 1 < QUANTUM
      /\ run' = [run EXCEPT ![current] = @ + 1]
      /\ inService' = FALSE /\ current' = current /\ fresh' = fresh
  BY <1>1, SchedulerAssumption DEF StayInQuantum, QuantumOver, TypeOK
<1>3. (clock % QUANTUM) + 1 < QUANTUM
  BY <1>1, <1>2 DEF QuantumAligned
(* The point of QuantumAligned: this is never a multiple of 50 ms.         *)
<1>4. Tick(clock) # 0 /\ Tick(clock) % QUANTUM = (clock % QUANTUM) + 1
  BY <1>1, <1>3, TickAligned, SchedulerAssumption
<1>5. LeaveAged(AwakeState, priority, wait, AwakeBits)
  BY <1>4 DEF StayInQuantum
<1>6. /\ state' = AwakeState /\ priority' = priority /\ wait' = wait
      /\ bitmap' = AwakeBits /\ zombie' = zombie
  BY <1>5 DEF LeaveAged
<1>7. /\ run' \in [Tasks -> 0 .. QUANTUM - 1]
      /\ run'[current] = run[current] + 1
  BY <1>1, <1>2, SchedulerAssumption DEF TypeOK
<1>8. QuantumAligned' /\ OthersHaveFullSlice'
  BY <1>1, <1>2, <1>4, <1>7 DEF QuantumAligned, OthersHaveFullSlice, IInv, TypeOK
<1>9. RunningIsCurrent' /\ StackOfCurrent'
  BY <1>1, <1>2, <1>6, AwakeFacts DEF RunningIsCurrent, StackOfCurrent
<1> QED
  BY <1>1, <1>2, <1>6, <1>7, <1>8, <1>9, AwakeFacts DEF TypeOK

LEMMA KeepFacts ==
  ASSUME IInv, KeepCurrent, clock' = Tick(clock)
  PROVE  /\ state' \in [Tasks -> States]
         /\ priority' \in [Tasks -> Prio]
         /\ wait' \in [Tasks -> 0 .. AGING]
         /\ zombie' \in [Tasks -> 0 .. REAP]
         /\ \A t \in Tasks : state'[t] = "ZOMBIE" => zombie'[t] < REAP
         /\ bitmap' \in SUBSET Prio
         /\ run' \in [Tasks -> 0 .. QUANTUM - 1]
         /\ RunningIsCurrent' /\ QuantumAligned' /\ StackOfCurrent'
         /\ OthersHaveFullSlice'
         /\ \A t \in Tasks : priority'[t] = RT => priority[t] = RT
         /\ inService' = FALSE /\ current' = current /\ fresh' = fresh
<1>1. /\ TypeOK /\ RunningIsCurrent /\ QuantumAligned /\ StackOfCurrent /\ RTIsGiven
      /\ current \in Tasks /\ clock \in 0 .. AGE_PERIOD - 1
  BY DEF IInv, TypeOK
<1>2. /\ run[current] + 1 >= QUANTUM
      /\ run' = [run EXCEPT ![current] = 0]
      /\ inService' = FALSE /\ current' = current /\ fresh' = fresh
      /\ state' = [Requeue.st EXCEPT ![current] = "RUNNING"]
      /\ priority' = Requeue.pri /\ wait' = wait /\ zombie' = zombie
      /\ bitmap' = Requeue.bits \ {Requeue.pri[current]}
  BY DEF KeepCurrent, QuantumOver, LeaveAged
<1>3. /\ run' \in [Tasks -> 0 .. QUANTUM - 1]
      /\ run'[current] = 0
  BY <1>1, <1>2, SchedulerAssumption DEF TypeOK
<1>4. QuantumAligned' /\ OthersHaveFullSlice'
  BY <1>1, <1>2, <1>3, TickAligned DEF QuantumAligned, OthersHaveFullSlice, IInv, TypeOK
<1>5. RunningIsCurrent' /\ StackOfCurrent'
  BY <1>1, <1>2, RequeueFacts DEF RunningIsCurrent, StackOfCurrent
<1>6. /\ state' \in [Tasks -> States]
      /\ \A t \in Tasks : state'[t] = "ZOMBIE" => zombie'[t] < REAP
  BY <1>1, <1>2, RequeueFacts DEF TypeOK, States
<1> QED
  BY <1>1, <1>2, <1>3, <1>4, <1>5, <1>6, RequeueFacts DEF TypeOK

LEMMA SwitchFacts ==
  ASSUME IInv, NEW next \in Tasks, NEW hardware \in BOOLEAN,
         SwitchTo(next, hardware), clock' = Tick(clock)
  PROVE  /\ state' \in [Tasks -> States]
         /\ priority' \in [Tasks -> Prio]
         /\ wait' \in [Tasks -> 0 .. AGING]
         /\ zombie' \in [Tasks -> 0 .. REAP]
         /\ \A t \in Tasks : state'[t] = "ZOMBIE" => zombie'[t] < REAP
         /\ bitmap' \in SUBSET Prio
         /\ run' \in [Tasks -> 0 .. QUANTUM - 1]
         /\ current' = next /\ fresh' = fresh \ {next}
         /\ RunningIsCurrent' /\ StackOfCurrent'
         /\ QuantumAligned' /\ OthersHaveFullSlice'
         /\ \A t \in Tasks : priority'[t] = RT => priority[t] = RT
         /\ inService' \in BOOLEAN /\ (inService' => next \in fresh)
<1> DEFINE st   == [Requeue.st EXCEPT ![next] = "RUNNING"]
           w    == [wait EXCEPT ![next] = 0]
           bits == Requeue.bits \ {Requeue.pri[next]}
<1>1. /\ TypeOK /\ RunningIsCurrent /\ QuantumAligned /\ StackOfCurrent /\ RTIsGiven
      /\ current \in Tasks /\ clock \in 0 .. AGE_PERIOD - 1
  BY DEF IInv, TypeOK
<1>2. /\ run[current] + 1 >= QUANTUM
      /\ run' = [run EXCEPT ![current] = 0]
      /\ current' = next /\ fresh' = fresh \ {next}
      /\ inService' = (next \in fresh /\ (inService \/ hardware))
      /\ \/ AgeAndReap(st, Requeue.pri, w, bits)
         \/ LeaveAged(st, Requeue.pri, w, bits)
  BY DEF SwitchTo, QuantumOver
<1>3. /\ st \in [Tasks -> States] /\ st[next] = "RUNNING"
      /\ \A t \in Tasks : st[t] = "RUNNING" => t = next
      /\ \A t \in Tasks : st[t] = "ZOMBIE" => zombie[t] < REAP
  BY <1>1, RequeueFacts DEF States, TypeOK
<1>4. /\ Requeue.pri \in [Tasks -> Prio] /\ w \in [Tasks -> 0 .. AGING]
      /\ bits \in SUBSET Prio
      /\ \A t \in Tasks : Requeue.pri[t] = RT => priority[t] = RT
  BY <1>1, RequeueFacts, SchedulerAssumption DEF TypeOK
<1> HIDE DEF st, w, bits
<1>5. /\ state' \in [Tasks -> States]
      /\ priority' \in [Tasks -> Prio]
      /\ wait' \in [Tasks -> 0 .. AGING]
      /\ zombie' \in [Tasks -> 0 .. REAP]
      /\ \A t \in Tasks : state'[t] = "ZOMBIE" => zombie'[t] < REAP
      /\ bitmap' \in SUBSET Prio
      /\ state'[next] = "RUNNING"
      /\ \A t \in Tasks : state'[t] = "RUNNING" => st[t] = "RUNNING"
      /\ \A t \in Tasks : priority'[t] = RT => priority[t] = RT
  <2>1. CASE AgeAndReap(st, Requeue.pri, w, bits)
    BY <1>1, <1>3, <1>4, <2>1, AgeAndReapFacts
  <2>2. CASE LeaveAged(st, Requeue.pri, w, bits)
    BY <1>1, <1>3, <1>4, <2>2 DEF LeaveAged, TypeOK
  <2> QED
    BY <1>2, <2>1, <2>2
<1>6. RunningIsCurrent' /\ StackOfCurrent'
  BY <1>2, <1>3, <1>5 DEF RunningIsCurrent, StackOfCurrent
<1>7. run' \in [Tasks -> 0 .. QUANTUM - 1]
  BY <1>1, <1>2, SchedulerAssumption DEF TypeOK
<1>8. QuantumAligned' /\ OthersHaveFullSlice'
  <2>1. Tick(clock) % QUANTUM = 0
    BY <1>1, <1>2, TickAligned DEF QuantumAligned
  <2>2. \A t \in Tasks : run'[t] = 0
    BY <1>1, <1>2 DEF OthersHaveFullSlice, IInv, TypeOK
  <2> QED
    BY <1>2, <2>1, <2>2 DEF QuantumAligned, OthersHaveFullSlice
<1>9. inService' \in BOOLEAN /\ (inService' => next \in fresh)
  BY <1>1, <1>2 DEF TypeOK
<1> QED
  BY <1>2, <1>5, <1>6, <1>7, <1>8, <1>9

(* What one call of the handler does to everything but pc.                 *)
LEMMA HandlerFacts ==
  ASSUME IInv, NEW hardware \in BOOLEAN, TimerHandler(hardware)
  PROVE  /\ state' \in [Tasks -> States]
         /\ priority' \in [Tasks -> Prio]
         /\ wait' \in [Tasks -> 0 .. AGING]
         /\ zombie' \in [Tasks -> 0 .. REAP]
         /\ \A t \in Tasks : state'[t] = "ZOMBIE" => zombie'[t] < REAP
         /\ bitmap' \in SUBSET Prio
         /\ run' \in [Tasks -> 0 .. QUANTUM - 1]
         /\ sleepLeft' \in [Tasks -> 0 .. MaxSleep]
         /\ clock' \in 0 .. AGE_PERIOD - 1
         /\ current' \in Tasks /\ fresh' \subseteq fresh /\ inService' \in BOOLEAN
         /\ base' = base /\ sti' = sti
         /\ RunningIsCurrent' /\ QuantumAligned' /\ StackOfCurrent'
         /\ OthersHaveFullSlice' /\ RTIsGiven'
         /\ current' \notin fresh'
         /\ inService' => current' \in fresh
<1>1. /\ clock' = Tick(clock) /\ base' = base /\ sti' = sti
      /\ clock \in 0 .. AGE_PERIOD - 1 /\ current \in Tasks
      /\ current \notin fresh /\ fresh \subseteq Tasks
  BY DEF TimerHandler, IInv, TypeOK, FreshAtStart
<1>2. clock' \in 0 .. AGE_PERIOD - 1
  BY <1>1, TickAligned
<1>3. sleepLeft' \in [Tasks -> 0 .. MaxSleep]
  BY SchedulerAssumption DEF TimerHandler, IInv, TypeOK
<1>4. ASSUME \A t \in Tasks : priority'[t] = RT => priority[t] = RT
      PROVE  RTIsGiven'
  BY <1>1, <1>4 DEF RTIsGiven, IInv
<1>5. CASE StayInQuantum
  BY <1>1, <1>2, <1>3, <1>4, <1>5, StayFacts
<1>6. CASE KeepCurrent
  BY <1>1, <1>2, <1>3, <1>4, <1>6, KeepFacts
<1>7. ASSUME NEW next \in Tasks, SwitchTo(next, hardware)
      PROVE  current' = next /\ \A t \in Tasks : priority'[t] = RT => priority[t] = RT
  BY <1>1, <1>7, SwitchFacts
<1>8. CASE \E next \in Tasks : SwitchTo(next, hardware)
  <2>1. PICK next \in Tasks : SwitchTo(next, hardware)
    BY <1>8
  <2> QED
    BY <1>1, <1>2, <1>3, <1>4, <2>1, SwitchFacts
<1> QED
  BY <1>5, <1>6, <1>8 DEF TimerHandler

-----------------------------------------------------------------------------
(* The theorems *)

LEMMA InitIInv == Init => IInv
<1> SUFFICES ASSUME Init PROVE IInv
  OBVIOUS
<1> USE SchedulerAssumption DEF Init
<1>1. 0 \in Tasks
  BY DEF Tasks
<1>2. TypeOK
  <2>1. /\ 0 \in Prio /\ 0 \in 0 .. QUANTUM - 1 /\ 0 \in 0 .. AGING /\ 0 \in 0 .. REAP
        /\ 0 \in 0 .. MaxSleep /\ 0 \in 0 .. AGE_PERIOD - 1
    BY DEF Prio
  <2>2. state \in [Tasks -> States] /\ \A t \in Tasks : state[t] # "ZOMBIE"
    BY DEF States
  <2> QED
    BY <1>1, <2>1, <2>2 DEF TypeOK, Places
<1>3. QuantumAligned
  <2>1. QUANTUM * 0 + 0 = 0 /\ 0 \in 0 .. QUANTUM - 1 /\ QUANTUM \in Nat \ {0}
    OBVIOUS
  <2>2. (QUANTUM * 0 + 0) % QUANTUM = 0
    BY <2>1, ModUnique
  <2> QED
    BY <1>1, <2>1, <2>2 DEF QuantumAligned
<1> QED
  BY <1>1, <1>2, <1>3 DEF IInv, RunningIsCurrent, StackOfCurrent, TickNotLost, FreshAtStart,
     RTIsGiven, OthersHaveFullSlice

LEMMA StepIInv == IInv /\ [Next]_vars => IInv'
<1> SUFFICES ASSUME IInv, [Next]_vars PROVE IInv'
  OBVIOUS
<1> USE SchedulerAssumption
<1> DEFINE Rest == /\ RunningIsCurrent /\ QuantumAligned /\ OthersHaveFullSlice
                   /\ StackOfCurrent /\ TickNotLost /\ FreshAtStart /\ RTIsGiven
<1>0. TypeOK /\ current \in Tasks
  BY DEF IInv, TypeOK
<1>1. CASE TimerInterrupt
  <2>1. TimerHandler(TRUE) /\ pc' = pc /\ sti
    BY <1>1 DEF TimerInterrupt
  <2>2. TypeOK'
    BY <2>1, <1>0, HandlerFacts DEF TypeOK
  <2>3. FreshAtStart' /\ TickNotLost'
    BY <2>1, <1>0, HandlerFacts DEF FreshAtStart, TickNotLost, IInv, TypeOK
  <2> QED
    BY <2>1, <2>2, <2>3, HandlerFacts DEF IInv
<1>2. CASE Yield
  <2>1. /\ TimerHandler(FALSE) /\ sti
        /\ pc' = [pc EXCEPT ![current] = IF @ = "exitYield" THEN "halt" ELSE "run"]
    BY <1>2 DEF Yield
  <2>2. TypeOK'
    BY <2>1, <1>0, HandlerFacts DEF TypeOK, Places
  <2>3. FreshAtStart' /\ TickNotLost'
    BY <2>1, <1>0, HandlerFacts DEF FreshAtStart, TickNotLost, IInv, TypeOK
  <2> QED
    BY <2>1, <2>2, <2>3, HandlerFacts DEF IInv
<1>3. CASE Exit
  <2>1. TypeOK'
    BY <1>0, <1>3 DEF Exit, TypeOK, States, Places
  <2>2. Rest'
    BY <1>0, <1>3 DEF Exit, IInv, TypeOK, RunningIsCurrent, QuantumAligned, StackOfCurrent,
       TickNotLost, FreshAtStart, RTIsGiven, OthersHaveFullSlice
  <2> QED
    BY <2>1, <2>2 DEF IInv
<1>4. CASE EnableInterrupts
  BY <1>4 DEF EnableInterrupts, tcb, IInv, TypeOK, RunningIsCurrent, QuantumAligned,
     StackOfCurrent, TickNotLost, FreshAtStart, RTIsGiven, OthersHaveFullSlice
<1>5. ASSUME NEW p \in CreatePrios, Create(p)
      PROVE  IInv'
  <2>1. p \in Prio
    BY DEF Prio
  <2>2. PICK t \in Tasks :
          /\ state[t] = "UNUSED"
          /\ state' = [state EXCEPT ![t] = "READY"]
          /\ priority' = [priority EXCEPT ![t] = p]
          /\ base' = [base EXCEPT ![t] = p]
          /\ fresh' = fresh \cup {t}
    BY <1>5 DEF Create
  <2>3. /\ ~sti /\ bitmap' = bitmap \cup {p}
        /\ UNCHANGED <<run, wait, zombie, sleepLeft, pc, current, clock, sti, inService>>
    BY <1>5 DEF Create
  <2>4. TypeOK'
    BY <1>0, <2>1, <2>2, <2>3 DEF TypeOK, States
  <2>5. Rest'
    BY <1>0, <2>1, <2>2, <2>3 DEF IInv, TypeOK, RunningIsCurrent, QuantumAligned,
       StackOfCurrent, TickNotLost, FreshAtStart, RTIsGiven, OthersHaveFullSlice
  <2> QED
    BY <2>4, <2>5 DEF IInv
<1>6. ASSUME NEW ms \in 1 .. MaxSleep, Sleep(ms)
      PROVE  IInv'
  <2>1. TypeOK'
    BY <1>0, <1>6 DEF Sleep, TypeOK, States, Places
  <2>2. Rest'
    BY <1>0, <1>6 DEF Sleep, IInv, TypeOK, RunningIsCurrent, QuantumAligned, StackOfCurrent,
       TickNotLost, FreshAtStart, RTIsGiven, OthersHaveFullSlice
  <2> QED
    BY <2>1, <2>2 DEF IInv
<1>7. ASSUME NEW t \in Tasks, Wake(t)
      PROVE  IInv'
  <2>1. TypeOK'
    BY <1>0, <1>7 DEF Wake, TypeOK, States
  <2>2. Rest'
    BY <1>0, <1>7 DEF Wake, IInv, TypeOK, RunningIsCurrent, QuantumAligned, StackOfCurrent,
       TickNotLost, FreshAtStart, RTIsGiven, OthersHaveFullSlice
  <2> QED
    BY <2>1, <2>2 DEF IInv
<1>8. ASSUME NEW t \in Tasks, NEW p \in CreatePrios, SetPriority(t, p)
      PROVE  IInv'
  <2>1. p \in Prio
    BY DEF Prio
  <2>2. TypeOK'
    BY <1>0, <1>8, <2>1 DEF SetPriority, TypeOK
  <2>3. Rest'
    BY <1>0, <1>8, <2>1 DEF SetPriority, IInv, TypeOK, RunningIsCurrent, QuantumAligned,
       StackOfCurrent, TickNotLost, FreshAtStart, RTIsGiven, OthersHaveFullSlice
  <2> QED
    BY <2>2, <2>3 DEF IInv
<1>9. CASE UNCHANGED vars
  BY <1>9 DEF vars, tcb, IInv, TypeOK, RunningIsCurrent, QuantumAligned, StackOfCurrent,
     TickNotLost, FreshAtStart, RTIsGiven, OthersHaveFullSlice
<1> QED
  BY <1>1, <1>2, <1>3, <1>4, <1>5, <1>6, <1>7, <1>8, <1>9 DEF Next

(* The inductive invariant holds in every reachable state.                 *)
THEOREM InvariantHolds == Spec => []IInv
BY InitIInv, StepIInv, PTL DEF Spec

(* The task table, the bitmap and the counters keep their types: no        *)
(* priority leaves 0..RT by aging or demotion, no slice exceeds a quantum. *)
THEOREM TypeCorrect == Spec => []TypeOK
<1>1. IInv => TypeOK
  BY DEF IInv
<1> QED
  BY <1>1, InvariantHolds, PTL

(* timer_handler keeps uptime_ms % SCHED_QUANTUM_TICKS = run_ticks.        *)
THEOREM AlignmentHolds == Spec => []QuantumAligned
<1>1. IInv => QuantumAligned
  BY DEF IInv
<1> QED
  BY <1>1, InvariantHolds, PTL

(* Only current_task is RUNNING.                                           *)
THEOREM OneRunning == Spec => []RunningIsCurrent
<1>1. IInv => RunningIsCurrent
  BY DEF IInv
<1> QED
  BY <1>1, InvariantHolds, PTL

(* reap_zombies never frees the stack of the running task.                 *)
THEOREM NeverReapsCurrent == Spec => []StackOfCurrent
<1>1. IInv => StackOfCurrent
  BY DEF IInv
<1> QED
  BY <1>1, InvariantHolds, PTL

(* A missing EOI never meets a halted processor.                           *)
THEOREM TickSurvives == Spec => []TickNotLost
<1>1. IInv => TickNotLost
  BY DEF IInv
<1> QED
  BY <1>1, InvariantHolds, PTL

(* With an RT bit set, sched_pick_next returns NULL on every timer tick.   *)
THEOREM RTFreeze == Spec => RTReadyStopsSwitching
<1>1. ASSUME IInv, NEW hardware \in BOOLEAN, TimerHandler(hardware), RT \in bitmap
      PROVE  current' = current
  <2>1. Top(Requeue.bits) = RT
    BY <1>1, RequeueFacts, TopIsRT DEF IInv
  <2>2. PickNext(Requeue.st, Requeue.pri, Requeue.bits) = {}
    BY <2>1 DEF PickNext
  <2>3. ASSUME NEW next \in Tasks
        PROVE  ~SwitchTo(next, hardware)
    BY <2>2 DEF SwitchTo
  <2> QED
    BY <1>1, <2>3 DEF TimerHandler, StayInQuantum, KeepCurrent
<1>2. IInv /\ [Next]_vars => [(RT \in bitmap) => current' = current]_vars
  BY <1>1 DEF Next, TimerInterrupt, Yield, Exit, EnableInterrupts, Create, Sleep, Wake,
     SetPriority, vars, tcb
<1> QED
  BY <1>2, InvariantHolds, PTL DEF Spec, RTReadyStopsSwitching

-----------------------------------------------------------------------------
(* The read-write lock: a writer is alone, for every number of tasks.      *)
(* "readers" is the number of readers that are inside or wait inside       *)
(* sem_wait, so it is 1 exactly when the last one leaves.                  *)

Counted == {t \in Readers : at[t] \in {"in", "asleep"}}

(* Holds until a task spins; nothing moves after that.                     *)
Accounted ==
  /\ readers = Cardinality(Counted)
  /\ guard = 0 => \A t \in Readers : at[t] # "asleep"
  /\ guard # 0 => at[guard] = "asleep" /\ Counted = {guard}
  /\ value = 1 => Inside(Lockers) = {}

LockInv ==
  /\ LockTypeOK
  /\ Exclusion
  /\ LeaveNeverSpins
  /\ (\A t \in Lockers : at[t] # "spin") => Accounted

USE DEF Lockers, Inside, Goto

LEMMA CountedFinite == ASSUME RWLockAssumption PROVE IsFiniteSet(Counted)
BY FS_Subset DEF RWLockAssumption, Counted

LEMMA ReadLockKeeps ==
  ASSUME RWLockAssumption, LockInv, \A t \in Lockers : at[t] # "spin",
         NEW t \in Readers, ReadLock(t)
  PROVE  LockInv'
<1>a. /\ LockTypeOK /\ Exclusion /\ LeaveNeverSpins /\ Accounted
      /\ t \notin Writers /\ t # 0
  BY DEF LockInv, RWLockAssumption
<1>1. IsFiniteSet(Counted)
  BY CountedFinite
<1>2. Counted' = Counted \cup {t} /\ t \notin Counted
  BY <1>a DEF ReadLock, Counted, LockTypeOK
<1>3. Cardinality(Counted') = Cardinality(Counted) + 1
  BY <1>1, <1>2, FS_AddElement
<1>4. readers = 0 => Counted = {}
  BY <1>1, <1>a, FS_EmptySet DEF Accounted
<1>5. readers # 0 => Inside(Readers) # {}
  BY <1>1, <1>a, FS_EmptySet DEF Accounted, Counted, ReadLock
<1>6. LockTypeOK'
  BY <1>a DEF ReadLock, LockTypeOK
<1>b. at'[t] = "in" => \A w \in Writers : at[w] # "in"
  <2>1. CASE readers = 0
    <3>1. at'[t] = "in" => value = 1
      BY <2>1, <1>a DEF ReadLock, LockTypeOK
    <3> QED
      BY <3>1, <1>a DEF Accounted
  <2>2. CASE readers # 0
    BY <2>2, <1>5, <1>a DEF Exclusion
  <2> QED
    BY <2>1, <2>2
<1>c. \A u \in Lockers \ {t} : at'[u] = at[u]
  BY <1>a DEF ReadLock, LockTypeOK
<1>d. guard' # 0 => readers = 0 /\ at'[t] = "asleep"
  BY <1>a DEF ReadLock, LockTypeOK
<1>7. Exclusion' /\ LeaveNeverSpins'
  <2>1. Exclusion'
    BY <1>a, <1>b, <1>c DEF Exclusion
  <2>2. readers = 0 => \A u \in Readers : at[u] # "in"
    BY <1>4 DEF Counted
  <2>3. LeaveNeverSpins'
    BY <1>c, <1>d, <2>2 DEF LeaveNeverSpins
  <2> QED
    BY <2>1, <2>3
<1>8. readers' = Cardinality(Counted')
  BY <1>a, <1>3 DEF ReadLock, Accounted
<1>9. /\ guard' = 0 => \A u \in Readers : at'[u] # "asleep"
      /\ guard' # 0 => at'[guard'] = "asleep" /\ Counted' = {guard'}
  BY <1>a, <1>2, <1>4 DEF ReadLock, LockTypeOK, Accounted
<1>10. value' = 1 => Inside(Lockers)' = {}
  BY <1>a, <1>5 DEF ReadLock, LockTypeOK, Accounted
<1> QED
  BY <1>6, <1>7, <1>8, <1>9, <1>10 DEF LockInv, Accounted

LEMMA ReadWakeKeeps ==
  ASSUME RWLockAssumption, LockInv, \A t \in Lockers : at[t] # "spin",
         NEW t \in Readers, ReadWake(t)
  PROVE  LockInv'
<1>a. /\ LockTypeOK /\ Exclusion /\ LeaveNeverSpins /\ Accounted
      /\ t \notin Writers /\ t # 0
  BY DEF LockInv, RWLockAssumption
<1>1. guard = t /\ value = 1 /\ Inside(Lockers) = {}
  BY <1>a DEF ReadWake, LockTypeOK, Accounted, Counted
<1>2. Counted' = Counted
  BY <1>a DEF ReadWake, Counted, LockTypeOK
<1>3. LockTypeOK'
  BY <1>a DEF ReadWake, LockTypeOK
<1>4. Exclusion' /\ LeaveNeverSpins'
  BY <1>a, <1>1 DEF ReadWake, LockTypeOK, Exclusion, LeaveNeverSpins
<1>5. Accounted'
  BY <1>a, <1>1, <1>2 DEF ReadWake, LockTypeOK, Accounted, Counted
<1> QED
  BY <1>3, <1>4, <1>5 DEF LockInv

LEMMA ReadUnlockKeeps ==
  ASSUME RWLockAssumption, LockInv, \A t \in Lockers : at[t] # "spin",
         NEW t \in Readers, ReadUnlock(t)
  PROVE  LockInv'
<1>a. /\ LockTypeOK /\ Exclusion /\ LeaveNeverSpins /\ Accounted
      /\ t \notin Writers /\ t # 0
  BY DEF LockInv, RWLockAssumption
<1>1. IsFiniteSet(Counted)
  BY CountedFinite
<1>2. Counted' = Counted \ {t} /\ t \in Counted
  BY <1>a DEF ReadUnlock, Counted, LockTypeOK
<1>3. Cardinality(Counted') = Cardinality(Counted) - 1 /\ IsFiniteSet(Counted')
  BY <1>1, <1>2, FS_RemoveElement
<1>4. value = 0 /\ Inside(Writers) = {}
  <2>1. at[t] = "in" /\ t \in Inside(Readers) /\ t \in Inside(Lockers)
    BY DEF ReadUnlock
  <2>2. Inside(Writers) = {}
    BY <1>a, <2>1 DEF Exclusion
  <2>3. value = 0
    BY <1>a, <2>1 DEF Accounted, LockTypeOK
  <2> QED
    BY <2>2, <2>3
<1>5. Cardinality(Counted') \in Nat /\ (Cardinality(Counted') = 0 => Counted' = {})
  BY <1>3, FS_CardinalityType, FS_EmptySet
<1>6. readers' = Cardinality(Counted') /\ readers' \in Nat
  BY <1>a, <1>3, <1>5 DEF ReadUnlock, Accounted
<1>7. readers = 1 => Inside(Readers)' = {}
  BY <1>a, <1>3, <1>5 DEF Accounted, Counted
<1>8. LockTypeOK'
  BY <1>a, <1>4, <1>6 DEF ReadUnlock, LockTypeOK
<1>9. Exclusion' /\ LeaveNeverSpins'
  BY <1>a, <1>4 DEF ReadUnlock, LockTypeOK, Exclusion, LeaveNeverSpins
<1>10. Accounted'
  BY <1>a, <1>4, <1>6, <1>7 DEF ReadUnlock, LockTypeOK, Accounted
<1> QED
  BY <1>8, <1>9, <1>10 DEF LockInv

LEMMA WritersKeep ==
  ASSUME RWLockAssumption, LockInv, \A t \in Lockers : at[t] # "spin",
         NEW t \in Writers, WriteLock(t) \/ WriteUnlock(t)
  PROVE  LockInv'
<1>a. /\ LockTypeOK /\ Exclusion /\ LeaveNeverSpins /\ Accounted
      /\ t \notin Readers /\ t # 0
  BY DEF LockInv, RWLockAssumption
<1>1. Counted' = Counted
  BY <1>a DEF WriteLock, WriteUnlock, Counted, LockTypeOK
<1>2. WriteUnlock(t) => value = 0
  BY <1>a DEF WriteUnlock, LockTypeOK, Accounted
<1>3. LockTypeOK'
  BY <1>a, <1>2 DEF WriteLock, WriteUnlock, LockTypeOK
<1>b. \A u \in Lockers \ {t} : at'[u] = at[u]
  BY <1>a DEF WriteLock, WriteUnlock, LockTypeOK
<1>c. at'[t] = "in" => value = 1 /\ value' = 0
  BY <1>a DEF WriteLock, WriteUnlock, LockTypeOK
<1>d. value = 1 => \A u \in Lockers : at[u] # "in"
  BY <1>a DEF Accounted
<1>4. Exclusion' /\ LeaveNeverSpins'
  <2>1. Exclusion'
    <3>1. CASE at'[t] = "in"
      BY <3>1, <1>a, <1>b, <1>c, <1>d DEF Exclusion
    <3>2. CASE at'[t] # "in"
      BY <3>2, <1>a, <1>b DEF Exclusion
    <3> QED
      BY <3>1, <3>2
  <2>2. LeaveNeverSpins'
    BY <1>a, <1>b DEF WriteLock, WriteUnlock, LeaveNeverSpins
  <2> QED
    BY <2>1, <2>2
<1>5. guard' = guard /\ readers' = readers /\ (guard # 0 => guard # t)
  BY <1>a DEF WriteLock, WriteUnlock, LockTypeOK
<1>6. value' = 1 => Inside(Lockers)' = {}
  <2> SUFFICES ASSUME value' = 1 PROVE \A u \in Lockers : at'[u] # "in"
    OBVIOUS
  <2>1. CASE WriteLock(t)
    BY <2>1, <1>a, <1>b, <1>d DEF WriteLock, LockTypeOK
  <2>2. CASE WriteUnlock(t)
    <3>1. at[t] = "in" /\ at'[t] = "out"
      BY <2>2, <1>a DEF WriteUnlock, LockTypeOK
    <3>2. \A u \in Lockers \ {t} : at[u] # "in"
      BY <3>1, <1>a DEF Exclusion
    <3> QED
      BY <3>1, <3>2, <1>b
  <2> QED
    BY <2>1, <2>2
<1>7. Accounted'
  BY <1>a, <1>1, <1>5, <1>6 DEF WriteLock, WriteUnlock, LockTypeOK, Accounted, Counted
<1> QED
  BY <1>3, <1>4, <1>7 DEF LockInv

LEMMA SpinKeeps ==
  ASSUME RWLockAssumption, LockInv, NEW t \in Readers, Spin(t)
  PROVE  LockInv'
<1>a. /\ LockTypeOK /\ Exclusion /\ LeaveNeverSpins /\ t \notin Writers
  BY DEF LockInv, RWLockAssumption
<1>1. LockTypeOK' /\ Exclusion' /\ LeaveNeverSpins'
  BY <1>a DEF Spin, LockTypeOK, Exclusion, LeaveNeverSpins
<1>2. at'[t] = "spin" /\ t \in Lockers
  BY <1>a DEF Spin, LockTypeOK
<1> QED
  BY <1>1, <1>2 DEF LockInv

(* The inductive invariant holds.                                          *)
THEOREM RWLockInvariant == LockSpec => []LockInv
<1>1. LockInit => LockInv
  <2> SUFFICES ASSUME LockInit PROVE LockInv
    OBVIOUS
  <2>1. Counted = {} /\ Cardinality({}) = 0
    BY FS_EmptySet DEF LockInit, Counted
  <2> QED
    BY <2>1 DEF LockInit, LockInv, LockTypeOK, Exclusion, LeaveNeverSpins, Accounted
<1>2. LockInv /\ [LockNext]_lockVars => LockInv'
  <2> SUFFICES ASSUME LockInv, [LockNext]_lockVars PROVE LockInv'
    OBVIOUS
  <2>1. CASE UNCHANGED lockVars
    BY <2>1 DEF lockVars, LockInv, LockTypeOK, Exclusion, LeaveNeverSpins, Accounted, Counted
  <2>2. CASE LockNext
    BY <2>2, RWLockAssumption, ReadLockKeeps, ReadWakeKeeps, ReadUnlockKeeps, WritersKeep, SpinKeeps DEF LockNext
  <2> QED
    BY <2>1, <2>2
<1> QED
  BY <1>1, <1>2, PTL DEF LockSpec

(* A writer is alone.                                                      *)
THEOREM WriterAlone == LockSpec => []Exclusion
<1>1. LockInv => Exclusion
  BY DEF LockInv
<1> QED
  BY <1>1, RWLockInvariant, PTL

(* A reader that leaves never finds the spinlock taken.                    *)
THEOREM LeavingIsFree == LockSpec => []LeaveNeverSpins
<1>1. LockInv => LeaveNeverSpins
  BY DEF LockInv
<1> QED
  BY <1>1, RWLockInvariant, PTL

(* The semaphore's value stays 0 or 1 and the spinlock is held by a reader
   or nobody, whatever readers and writers do.                             *)
THEOREM RWLockTypes == LockSpec => []LockTypeOK
<1>1. LockInv => LockTypeOK
  BY DEF LockInv
<1> QED
  BY <1>1, RWLockInvariant, PTL
-----------------------------------------------------------------------------
(* The theorems of induction take an operator; a well-founded relation     *)
(* gives the same for a set.                                               *)

Less == {ss \in Nat \X Nat : ss[1] < ss[2]}

(* Every set of natural numbers has a least one.                           *)
LEMMA LeastNumber ==
  ASSUME NEW T, T \subseteq Nat, T # {}
  PROVE  \E x \in T : \A y \in T : x <= y
<1>1. IsWellFoundedOn({ss \in Nat \X Nat : ss[1] < ss[2]}, Nat)
  BY NatLessThanWellFounded DEF OpToRel
<1>2. IsWellFoundedOn(Less, Nat)
  BY <1>1 DEF Less
<1>3. PICK x \in T : \A y \in T : ~(<<y, x>> \in Less)
  BY <1>2, WFMin
<1>4. ASSUME NEW y \in T PROVE x <= y
  <2>1. x \in Nat /\ y \in Nat
    OBVIOUS
  <2>2. <<y, x>> \in Less <=> y < x
    BY <2>1 DEF Less
  <2> QED
    BY <1>3, <2>1, <2>2
<1> QED
  BY <1>4

-----------------------------------------------------------------------------
(* Sequences                                                               *)

(* The sequence with an element put in at a place.                         *)
PutIn(s, i, e) == SubSeq(s, 1, i - 1) \o <<e>> \o SubSeq(s, i, Len(s))

LEMMA Inserting ==
  ASSUME NEW S, NEW s \in Seq(S), NEW e \in S, NEW i \in 1 .. Len(s) + 1
  PROVE  /\ PutIn(s, i, e) \in Seq(S) /\ Len(PutIn(s, i, e)) = Len(s) + 1
         /\ \A k \in 1 .. Len(s) + 1 :
              PutIn(s, i, e)[k] = IF k < i THEN s[k] ELSE IF k = i THEN e ELSE s[k - 1]
<1> DEFINE n == Len(s)
           a == SubSeq(s, 1, i - 1)
           b == SubSeq(s, i, n)
<1>1. n \in Nat /\ i \in Int /\ \A k \in 1 .. n : s[k] \in S
  BY LenProperties, ElementOfSeq
<1>2. /\ a \in Seq(S) /\ Len(a) = i - 1
      /\ \A k \in 1 .. i - 1 : a[k] = s[k]
  <2>1. 1 \in Int /\ i - 1 \in Int /\ \A k \in 1 .. i - 1 : s[k] \in S
    BY <1>1
  <2>2. /\ a \in Seq(S)
        /\ Len(a) = IF 1 <= i - 1 THEN i - 1 - 1 + 1 ELSE 0
        /\ \A k \in 1 .. i - 1 - 1 + 1 : a[k] = s[1 + k - 1]
    BY <2>1, SubSeqProperties
  <2> HIDE DEF a
  <2> QED
    BY <1>1, <2>2
<1>3. /\ b \in Seq(S) /\ Len(b) = n - i + 1
      /\ \A k \in 1 .. n - i + 1 : b[k] = s[k + i - 1]
  <2>1. n \in Int /\ i \in Int /\ \A k \in i .. n : s[k] \in S
    BY <1>1
  <2> HIDE DEF n
  <2>2. /\ b \in Seq(S)
        /\ Len(b) = IF i <= n THEN n - i + 1 ELSE 0
        /\ \A k \in 1 .. n - i + 1 : b[k] = s[i + k - 1]
    BY <2>1, SubSeqProperties
  <2> HIDE DEF b
  <2>3. i <= n + 1
    <3>1. Len(s) \in Nat /\ n = Len(s)
      BY LenProperties DEF n
    <3> QED
      BY <3>1
  <2>4. Len(b) = n - i + 1
    BY <2>1, <2>2, <2>3
  <2>5. ASSUME NEW k \in 1 .. n - i + 1 PROVE b[k] = s[k + i - 1]
    <3>1. i + k - 1 = k + i - 1
      BY <2>1
    <3> QED
      BY <2>2, <3>1
  <2> QED
    BY <2>2, <2>4, <2>5
<1> DEFINE c == a \o <<e>>
<1>4. <<e>> \in Seq(S) /\ Len(<<e>>) = 1 /\ <<e>>[1] = e
  OBVIOUS
<1> HIDE DEF n, a, b
<1>5. /\ c \in Seq(S) /\ Len(c) = i
      /\ \A k \in 1 .. i : c[k] = IF k < i THEN s[k] ELSE e
  <2>1. /\ c \in Seq(S) /\ Len(c) = Len(a) + 1
        /\ \A k \in 1 .. Len(a) + 1 : c[k] = IF k <= Len(a) THEN a[k] ELSE <<e>>[k - Len(a)]
    BY <1>2, <1>4, ConcatProperties
  <2> HIDE DEF c
  <2> QED
    BY <1>2, <1>4, <2>1
<1> HIDE DEF c
<1>6. /\ c \o b \in Seq(S) /\ Len(c \o b) = n + 1
      /\ \A k \in 1 .. n + 1 : (c \o b)[k] = IF k <= i THEN c[k] ELSE b[k - i]
  <2>1. /\ c \o b \in Seq(S) /\ Len(c \o b) = Len(c) + Len(b)
        /\ \A k \in 1 .. Len(c) + Len(b) : (c \o b)[k] = IF k <= Len(c) THEN c[k] ELSE b[k - Len(c)]
    BY <1>3, <1>5, ConcatProperties
  <2>2. Len(c) + Len(b) = n + 1
    BY <1>1, <1>3, <1>5
  <2> QED
    BY <1>5, <2>1, <2>2
<1>7. ASSUME NEW k \in 1 .. n + 1
      PROVE  (c \o b)[k] = IF k < i THEN s[k] ELSE IF k = i THEN e ELSE s[k - 1]
  <2>1. CASE k <= i
    BY <1>5, <1>6, <2>1
  <2>2. CASE k > i
    <3>1. k - i \in 1 .. n - i + 1 /\ k - i + i - 1 = k - 1
      BY <1>1, <2>2
    <3> QED
      BY <1>3, <1>6, <2>2, <3>1
  <2>3. k <= i \/ k > i
    BY <1>1
  <2> QED
    BY <2>1, <2>2, <2>3
<1> QED
  BY <1>6, <1>7 DEF a, b, c, n, PutIn

-----------------------------------------------------------------------------
(* A message with a higher index has no higher priority.                   *)
Sorted(msgs) == \A j, k \in 1 .. Len(msgs) : j <= k => msgs[k].prio <= msgs[j].prio

(* Ids are handed out once.                                                *)
Numbered ==
  \A s \in Slots : table[s].used =>
    /\ table[s].id \in 1 .. nextId - 1
    /\ \A r \in Slots : table[r].used /\ table[r].id = table[s].id => r = s

(* A call stays on the queue it found, which cannot be closed under it.    *)
CallsOn ==
  \A t \in Users : progress[t] # "idle" =>
    /\ table[slot[t]].used
    /\ table[slot[t]].id = call[t].qid
    /\ call[t].op = "send" => call[t].prio \in Prios

(* The owner of a mutex is the one task that is between taking it and      *)
(* giving it back.                                                         *)
Locking ==
  /\ \A s \in Slots :
       /\ table[s].lock.depth = IF table[s].lock.owner = 0 THEN 0 ELSE 1
       /\ \A t \in Users : table[s].lock.owner = t => slot[t] = s /\ progress[t] \in {"check", "unlock"}
  /\ \A t \in Users : progress[t] \in {"check", "unlock"} => table[slot[t]].lock.owner = t

(* What is in a slot is in order and was meant for the queue of the slot.  *)
Kept ==
  \A s \in Slots :
    /\ Sorted(table[s].msgs)
    /\ \A k \in 1 .. Len(table[s].msgs) : table[s].msgs[k].to = table[s].id

MsgQueueInv ==
  /\ QueueTypeOK
  /\ Numbered
  /\ CallsOn
  /\ Locking
  /\ Kept
  /\ OwnQueue

-----------------------------------------------------------------------------
(* The array *)

LEMMA Bounded ==
  ASSUME NEW S, NEW n \in Nat, NEW x
  PROVE  x \in BoundedSeq(S, n) <=> x \in Seq(S) /\ Len(x) <= n
BY DEF BoundedSeq, SeqOf

LEMMA EmptyBounded ==
  ASSUME MsgQueueAssumption
  PROVE  <<>> \in BoundedSeq(Msgs, MAX) /\ Sorted(<<>>) /\ Len(<<>>) = 0
<1>1. 0 <= MAX /\ MAX \in Nat
  BY DEF MsgQueueAssumption
<1>2. \A x \in Seq(Msgs) : Len(x) = 0 => x \in BoundedSeq(Msgs, MAX)
  BY <1>1, Bounded
<1>3. \A x \in Seq(Msgs) : Len(x) = 0 => Sorted(x)
  BY DEF Sorted
<1>4. <<>> \in Seq(Msgs) /\ Len(<<>>) = 0
  BY EmptySeq
<1> QED
  BY <1>2, <1>3, <1>4, Zenon

LEMMA FirstFacts ==
  ASSUME NEW T, T \subseteq Nat, T # {}
  PROVE  First(T) \in T /\ \A r \in T : First(T) <= r
BY LeastNumber DEF First

(* Behind(msgs, p) is where the messages of less than p begin.             *)
LEMMA BehindFacts ==
  ASSUME MsgQueueAssumption, NEW msgs \in Seq(Msgs), Sorted(msgs), NEW p \in Nat
  PROVE  /\ Behind(msgs, p) \in 1 .. Len(msgs) + 1
         /\ \A k \in 1 .. Len(msgs) : k < Behind(msgs, p) <=> msgs[k].prio >= p
<1> DEFINE n == Len(msgs)
           T == {k \in 1 .. n : msgs[k].prio < p} \cup {n + 1}
           b == Behind(msgs, p)
<1>1. n \in Nat /\ \A k \in 1 .. n : msgs[k] \in Msgs
  BY LenProperties, ElementOfSeq
<1>2. \A k \in 1 .. n : msgs[k].prio \in Nat
  BY <1>1 DEF Msgs, MsgQueueAssumption
<1>3. b \in T /\ \A r \in T : b <= r
  <2>1. T \subseteq Nat /\ T # {}
    BY <1>1
  <2> QED
    BY <2>1, FirstFacts DEF Behind
<1> HIDE DEF b
<1>4. b \in 1 .. n + 1
  BY <1>1, <1>3
<1>5. ASSUME NEW k \in 1 .. n PROVE k < b <=> msgs[k].prio >= p
  <2>1. ASSUME k < b PROVE msgs[k].prio >= p
    BY <1>2, <1>3, <1>4, <2>1
  <2>2. ASSUME ~(k < b) PROVE msgs[k].prio < p
    <3>1. b \in 1 .. n /\ b <= k
      BY <1>1, <1>4, <2>2
    <3>2. msgs[b].prio < p
      BY <1>1, <1>3, <3>1
    <3>3. msgs[k].prio <= msgs[b].prio
      BY <3>1 DEF Sorted
    <3> QED
      BY <1>2, <3>1, <3>2, <3>3
  <2> QED
    BY <1>2, <2>1, <2>2
<1> QED
  BY <1>4, <1>5 DEF b

(* ... and the only such place.                                            *)
LEMMA BehindIs ==
  ASSUME MsgQueueAssumption, NEW msgs \in Seq(Msgs), Sorted(msgs), NEW p \in Nat,
         NEW c \in 1 .. Len(msgs) + 1,
         \A k \in 1 .. Len(msgs) : k < c <=> msgs[k].prio >= p
  PROVE  Behind(msgs, p) = c
<1> DEFINE b == Behind(msgs, p)
<1>1. Len(msgs) \in Nat
  BY LenProperties
<1>2. b \in 1 .. Len(msgs) + 1 /\ \A k \in 1 .. Len(msgs) : k < b <=> k < c
  BY BehindFacts
<1> HIDE DEF b
<1>3. ~(b < c)
  BY <1>1, <1>2
<1>4. ~(c < b)
  BY <1>1, <1>2
<1> QED
  BY <1>1, <1>2, <1>3, <1>4 DEF b

(* The messages of one priority.                                           *)
LEMMA PriorityFacts ==
  ASSUME MsgQueueAssumption, NEW msgs \in Seq(Msgs), Sorted(msgs), NEW p \in Nat
  PROVE  LET lo == Behind(msgs, p + 1)
             hi == Behind(msgs, p)
         IN  /\ lo \in 1 .. Len(msgs) + 1 /\ hi \in lo .. Len(msgs) + 1
             /\ OfPriority(msgs, p) \in Seq(Msgs)
             /\ Len(OfPriority(msgs, p)) = hi - lo
             /\ \A k \in 1 .. hi - lo : /\ OfPriority(msgs, p)[k] = msgs[lo + k - 1]
                                        /\ msgs[lo + k - 1].prio = p
<1> DEFINE lo == Behind(msgs, p + 1)
           hi == Behind(msgs, p)
           n  == Len(msgs)
<1>1. n \in Nat /\ \A k \in 1 .. n : msgs[k] \in Msgs /\ msgs[k].prio \in Nat
  <2>1. \A k \in 1 .. n : msgs[k] \in Msgs
    BY ElementOfSeq
  <2> QED
    BY <2>1, LenProperties DEF Msgs, MsgQueueAssumption
<1>2. /\ lo \in 1 .. n + 1 /\ hi \in 1 .. n + 1
      /\ \A k \in 1 .. n : k < lo <=> msgs[k].prio >= p + 1
      /\ \A k \in 1 .. n : k < hi <=> msgs[k].prio >= p
  <2>1. p + 1 \in Nat
    OBVIOUS
  <2>2. lo \in 1 .. n + 1 /\ \A k \in 1 .. n : k < lo <=> msgs[k].prio >= p + 1
    BY <2>1, BehindFacts
  <2>3. hi \in 1 .. n + 1 /\ \A k \in 1 .. n : k < hi <=> msgs[k].prio >= p
    BY BehindFacts
  <2> QED
    BY <2>2, <2>3
<1> HIDE DEF lo, hi, n
<1>3. lo <= hi
  <2> SUFFICES ASSUME hi < lo PROVE FALSE
    BY <1>1, <1>2
  <2>1. hi \in 1 .. n
    BY <1>1, <1>2
  <2>2. msgs[hi].prio >= p + 1 /\ ~(msgs[hi].prio >= p)
    BY <1>2, <2>1
  <2> QED
    BY <1>1, <2>1, <2>2
<1>4. /\ OfPriority(msgs, p) \in Seq(Msgs)
      /\ Len(OfPriority(msgs, p)) = IF lo <= hi - 1 THEN hi - 1 - lo + 1 ELSE 0
      /\ \A k \in 1 .. hi - 1 - lo + 1 : OfPriority(msgs, p)[k] = msgs[lo + k - 1]
  <2>1. lo \in Int /\ hi - 1 \in Int /\ \A k \in lo .. hi - 1 : msgs[k] \in Msgs
    BY <1>1, <1>2
  <2>2. OfPriority(msgs, p) = SubSeq(msgs, lo, hi - 1)
    BY DEF OfPriority, lo, hi
  <2> QED
    BY <2>1, <2>2, SubSeqProperties
<1>5. ASSUME NEW k \in 1 .. hi - lo PROVE msgs[lo + k - 1].prio = p
  <2>1. lo + k - 1 \in 1 .. n /\ lo + k - 1 < hi /\ ~(lo + k - 1 < lo)
    BY <1>1, <1>2
  <2> QED
    BY <1>1, <1>2, <2>1
<1>6. hi - 1 - lo + 1 = hi - lo /\ hi \in lo .. n + 1
  BY <1>1, <1>2, <1>3
<1>7. Len(OfPriority(msgs, p)) = hi - lo
  BY <1>1, <1>2, <1>3, <1>4
<1>8. \A k \in 1 .. hi - lo : OfPriority(msgs, p)[k] = msgs[lo + k - 1]
  BY <1>4, <1>6
<1> QED
  BY <1>2, <1>4, <1>5, <1>6, <1>7, <1>8 DEF lo, hi, n

(* The array after a message was sent.                                     *)
LEMMA InsertedFacts ==
  ASSUME MsgQueueAssumption, NEW msgs \in Seq(Msgs), Sorted(msgs), NEW m \in Msgs
  PROVE  LET z == Inserted(msgs, m)
             b == Behind(msgs, m.prio)
         IN  /\ z \in Seq(Msgs) /\ Len(z) = Len(msgs) + 1
             /\ b \in 1 .. Len(msgs) + 1
             /\ \A k \in 1 .. Len(msgs) + 1 :
                  z[k] = IF k < b THEN msgs[k] ELSE IF k = b THEN m ELSE msgs[k - 1]
             /\ Sorted(z)
<1> DEFINE z == Inserted(msgs, m)
           b == Behind(msgs, m.prio)
           n == Len(msgs)
<1>1. n \in Nat /\ m.prio \in Nat /\ \A k \in 1 .. n : msgs[k].prio \in Nat
  <2>1. \A k \in 1 .. n : msgs[k] \in Msgs
    BY ElementOfSeq
  <2> QED
    BY <2>1, LenProperties DEF Msgs, MsgQueueAssumption
<1>2. b \in 1 .. n + 1 /\ \A k \in 1 .. n : k < b <=> msgs[k].prio >= m.prio
  BY <1>1, BehindFacts
<1> HIDE DEF b
<1>3. /\ z \in Seq(Msgs) /\ Len(z) = n + 1
      /\ \A k \in 1 .. n + 1 : z[k] = IF k < b THEN msgs[k] ELSE IF k = b THEN m ELSE msgs[k - 1]
  <2>1. z = SubSeq(msgs, 1, b - 1) \o <<m>> \o SubSeq(msgs, b, n)
    BY DEF Inserted, InsertAt, b
  <2>2. b \in 1 .. Len(msgs) + 1
    BY <1>2
  <2>3. z = PutIn(msgs, b, m)
    BY <2>1 DEF PutIn
  <2> HIDE DEF z
  <2> QED
    BY <2>2, <2>3, Inserting, SMTT(30)
<1> HIDE DEF z
<1>4. ASSUME NEW j \in 1 .. n + 1, NEW k \in 1 .. n + 1, j <= k
      PROVE  z[k].prio <= z[j].prio
  <2> HIDE DEF n
  <2>1. CASE k < b
    BY <1>1, <1>2, <1>3, <1>4, <2>1 DEF Sorted, n
  <2>2. CASE k = b
    BY <1>1, <1>2, <1>3, <1>4, <2>2
  <2>3. CASE k > b
    <3>1. k - 1 \in 1 .. n /\ z[k] = msgs[k - 1] /\ ~(k - 1 < b)
      BY <1>1, <1>2, <1>3, <2>3
    <3>2. CASE j < b
      BY <1>1, <1>2, <1>3, <1>4, <3>1, <3>2 DEF Sorted, n
    <3>3. CASE j = b
      BY <1>1, <1>2, <1>3, <3>1, <3>3
    <3>4. CASE j > b
      <4>1. j - 1 \in 1 .. n /\ z[j] = msgs[j - 1] /\ j - 1 <= k - 1
        BY <1>1, <1>2, <1>3, <1>4, <3>4
      <4> QED
        BY <3>1, <4>1 DEF Sorted, n
    <3>5. j < b \/ j = b \/ j > b
      BY <1>1, <1>2
    <3> QED
      BY <3>2, <3>3, <3>4, <3>5
  <2>4. k < b \/ k = b \/ k > b
    BY <1>1, <1>2
  <2> QED
    BY <2>1, <2>2, <2>3, <2>4
<1> QED
  BY <1>2, <1>3, <1>4 DEF Sorted, b, z, n

(* Where a priority's messages end then.                                   *)
LEMMA BehindInserted ==
  ASSUME MsgQueueAssumption, NEW msgs \in Seq(Msgs), Sorted(msgs), NEW m \in Msgs, NEW p \in Nat
  PROVE  Behind(Inserted(msgs, m), p) =
           IF p <= m.prio THEN Behind(msgs, p) + 1 ELSE Behind(msgs, p)
<1> DEFINE z == Inserted(msgs, m)
           b == Behind(msgs, m.prio)
           a == Behind(msgs, p)
           n == Len(msgs)
<1>1. n \in Nat /\ m.prio \in Nat /\ \A k \in 1 .. n : msgs[k].prio \in Nat
  <2>1. \A k \in 1 .. n : msgs[k] \in Msgs
    BY ElementOfSeq
  <2> QED
    BY <2>1, LenProperties DEF Msgs, MsgQueueAssumption
<1>2. /\ b \in 1 .. n + 1 /\ \A k \in 1 .. n : k < b <=> msgs[k].prio >= m.prio
      /\ a \in 1 .. n + 1 /\ \A k \in 1 .. n : k < a <=> msgs[k].prio >= p
  <2>1. b \in 1 .. n + 1 /\ \A k \in 1 .. n : k < b <=> msgs[k].prio >= m.prio
    BY <1>1, BehindFacts
  <2>2. a \in 1 .. n + 1 /\ \A k \in 1 .. n : k < a <=> msgs[k].prio >= p
    BY BehindFacts
  <2> QED
    BY <2>1, <2>2
<1>3. /\ z \in Seq(Msgs) /\ Len(z) = n + 1 /\ Sorted(z)
      /\ \A k \in 1 .. n + 1 : z[k] = IF k < b THEN msgs[k] ELSE IF k = b THEN m ELSE msgs[k - 1]
  BY InsertedFacts
<1> HIDE DEF z, a, b, n
<1>4. ASSUME NEW c \in 1 .. n + 2, \A k \in 1 .. n + 1 : k < c <=> z[k].prio >= p
      PROVE  Behind(z, p) = c
  <2>1. c \in 1 .. Len(z) + 1 /\ \A k \in 1 .. Len(z) : k < c <=> z[k].prio >= p
    BY <1>1, <1>3, <1>4
  <2> QED
    BY <1>3, <2>1, BehindIs
<1>5. ASSUME p <= m.prio PROVE Behind(z, p) = a + 1
  <2>1. b <= a
    <3> SUFFICES ASSUME a < b PROVE FALSE
      BY <1>1, <1>2
    <3>1. a \in 1 .. n
      BY <1>1, <1>2
    <3>2. msgs[a].prio >= m.prio /\ ~(msgs[a].prio >= p)
      BY <1>1, <1>2, <3>1
    <3> QED
      BY <1>1, <1>5, <3>1, <3>2
  <2>2. ASSUME NEW k \in 1 .. n + 1 PROVE k < a + 1 <=> z[k].prio >= p
    <3>1. CASE k < b
      BY <1>1, <1>2, <1>3, <1>5, <2>1, <3>1
    <3>2. CASE k = b
      BY <1>1, <1>2, <1>3, <1>5, <2>1, <3>2
    <3>3. CASE k > b
      <4>1. k - 1 \in 1 .. n /\ z[k] = msgs[k - 1] /\ (k - 1 < a <=> k < a + 1)
        BY <1>1, <1>2, <1>3, <3>3
      <4> QED
        BY <1>2, <4>1
    <3>4. k < b \/ k = b \/ k > b
      BY <1>1, <1>2
    <3> QED
      BY <3>1, <3>2, <3>3, <3>4
  <2>3. a + 1 \in 1 .. n + 2
    BY <1>1, <1>2
  <2> QED
    BY <1>4, <2>2, <2>3
<1>6. ASSUME ~(p <= m.prio) PROVE Behind(z, p) = a
  <2>1. a <= b
    <3> SUFFICES ASSUME b < a PROVE FALSE
      BY <1>1, <1>2
    <3>1. b \in 1 .. n
      BY <1>1, <1>2
    <3>2. msgs[b].prio >= p /\ ~(msgs[b].prio >= m.prio)
      BY <1>1, <1>2, <3>1
    <3> QED
      BY <1>1, <1>6, <3>1, <3>2
  <2>2. ASSUME NEW k \in 1 .. n + 1 PROVE k < a <=> z[k].prio >= p
    <3>1. CASE k < b
      BY <1>1, <1>2, <1>3, <3>1
    <3>2. CASE k = b
      BY <1>1, <1>2, <1>3, <1>6, <2>1, <3>2
    <3>3. CASE k > b
      <4>1. k - 1 \in 1 .. n /\ z[k] = msgs[k - 1] /\ ~(k - 1 < a) /\ ~(k < a)
        BY <1>1, <1>2, <1>3, <2>1, <3>3
      <4> QED
        BY <1>2, <4>1
    <3>4. k < b \/ k = b \/ k > b
      BY <1>1, <1>2
    <3> QED
      BY <3>1, <3>2, <3>3, <3>4
  <2>3. a \in 1 .. n + 2
    BY <1>1, <1>2
  <2> QED
    BY <1>4, <2>2, <2>3
<1> QED
  BY <1>5, <1>6 DEF z, a

(* A message goes behind those of its priority and disturbs no other.      *)
LEMMA PriorityInserted ==
  ASSUME MsgQueueAssumption, NEW msgs \in Seq(Msgs), Sorted(msgs), NEW m \in Msgs, NEW p \in Nat
  PROVE  OfPriority(Inserted(msgs, m), p) =
           IF p = m.prio THEN Append(OfPriority(msgs, p), m) ELSE OfPriority(msgs, p)
<1> DEFINE z   == Inserted(msgs, m)
           b   == Behind(msgs, m.prio)
           lo  == Behind(msgs, p + 1)
           hi  == Behind(msgs, p)
           lo2 == Behind(z, p + 1)
           hi2 == Behind(z, p)
           n   == Len(msgs)
           x   == OfPriority(msgs, p)
           y   == OfPriority(z, p)
<1>1. n \in Nat /\ m.prio \in Nat /\ p + 1 \in Nat
  <2>1. n \in Nat
    BY LenProperties
  <2>2. m.prio \in Nat
    BY DEF Msgs, MsgQueueAssumption
  <2> QED
    BY <2>1, <2>2
<1>2. /\ z \in Seq(Msgs) /\ Len(z) = n + 1 /\ Sorted(z) /\ b \in 1 .. n + 1
      /\ \A k \in 1 .. n + 1 : z[k] = IF k < b THEN msgs[k] ELSE IF k = b THEN m ELSE msgs[k - 1]
  BY InsertedFacts
<1>3. /\ lo \in 1 .. n + 1 /\ hi \in lo .. n + 1 /\ x \in Seq(Msgs) /\ Len(x) = hi - lo
      /\ \A k \in 1 .. hi - lo : x[k] = msgs[lo + k - 1] /\ msgs[lo + k - 1].prio = p
  BY PriorityFacts
<1>4. \A k \in 1 .. n : k < b <=> msgs[k].prio >= m.prio
  BY <1>1, BehindFacts
<1>5. /\ lo2 = IF p + 1 <= m.prio THEN lo + 1 ELSE lo
      /\ hi2 = IF p <= m.prio THEN hi + 1 ELSE hi
  <2>1. lo2 = IF p + 1 <= m.prio THEN lo + 1 ELSE lo
    BY <1>1, BehindInserted
  <2>2. hi2 = IF p <= m.prio THEN hi + 1 ELSE hi
    BY <1>1, BehindInserted
  <2> QED
    BY <2>1, <2>2
<1> HIDE DEF z
<1>6. /\ lo2 \in 1 .. n + 2 /\ hi2 \in lo2 .. n + 2 /\ y \in Seq(Msgs) /\ Len(y) = hi2 - lo2
      /\ \A k \in 1 .. hi2 - lo2 : y[k] = z[lo2 + k - 1] /\ z[lo2 + k - 1].prio = p
  <2>1. /\ lo2 \in 1 .. Len(z) + 1 /\ hi2 \in lo2 .. Len(z) + 1 /\ y \in Seq(Msgs) /\ Len(y) = hi2 - lo2
        /\ \A k \in 1 .. hi2 - lo2 : y[k] = z[lo2 + k - 1] /\ z[lo2 + k - 1].prio = p
    BY <1>2, PriorityFacts
  <2>2. Len(z) + 1 = n + 2
    BY <1>1, <1>2
  <2> QED
    BY <2>1, <2>2
<1>b. p = m.prio => b = hi
  OBVIOUS
<1> HIDE DEF b, lo, hi, lo2, hi2, n, x, y
<1>7. ASSUME p = m.prio PROVE y = Append(x, m)
  <2>1. b = hi /\ lo2 = lo /\ hi2 = hi + 1
    BY <1>1, <1>5, <1>7, <1>b
  <2>2. /\ Append(x, m) \in Seq(Msgs) /\ Len(Append(x, m)) = hi - lo + 1
        /\ \A k \in 1 .. hi - lo : Append(x, m)[k] = x[k]
        /\ Append(x, m)[hi - lo + 1] = m
    <3>0. x \in Seq(Msgs)
      BY <1>3
    <3>1. /\ Append(x, m) \in Seq(Msgs) /\ Len(Append(x, m)) = Len(x) + 1
          /\ \A k \in 1 .. Len(x) : Append(x, m)[k] = x[k]
          /\ Append(x, m)[Len(x) + 1] = m
      BY <3>0, AppendProperties
    <3> QED
      BY <1>3, <3>1
  <2>3. ASSUME NEW k \in 1 .. hi - lo + 1 PROVE y[k] = Append(x, m)[k]
    <3>1. lo + k - 1 \in 1 .. n + 1 /\ k \in 1 .. hi2 - lo2
      BY <1>1, <1>3, <2>1
    <3>2. y[k] = z[lo + k - 1]
      BY <1>6, <2>1, <3>1
    <3>3. CASE k = hi - lo + 1
      <4>1. lo + k - 1 = b
        BY <1>1, <1>3, <2>1, <3>3
      <4>2. z[lo + k - 1] = m
        BY <1>1, <1>2, <3>1, <4>1
      <4> QED
        BY <2>2, <3>2, <3>3, <4>2
    <3>4. CASE k # hi - lo + 1
      <4>0. lo \in Int /\ hi \in Int /\ b = hi
        BY <1>1, <1>3, <2>1
      <4>1. k \in 1 .. hi - lo /\ lo + k - 1 < b
        BY <4>0, <3>4
      <4>2. z[lo + k - 1] = msgs[lo + k - 1]
        BY <1>2, <3>1, <4>1
      <4> QED
        BY <1>3, <2>2, <3>2, <4>1, <4>2
    <3> QED
      BY <3>3, <3>4
  <2>4. Len(y) = hi - lo + 1
    BY <1>1, <1>3, <1>6, <2>1
  <2> QED
    BY <1>6, <2>2, <2>3, <2>4, SeqEqual
<1>8. ASSUME p # m.prio PROVE y = x
  <2>1. hi2 - lo2 = hi - lo
    BY <1>1, <1>3, <1>5, <1>8
  <2>2. ASSUME NEW k \in 1 .. hi - lo PROVE y[k] = x[k]
    <3>0. lo + k - 1 \in 1 .. n
      <4>1. n \in Nat /\ lo \in 1 .. n + 1 /\ hi \in lo .. n + 1
        BY <1>1, <1>3
      <4> QED
        BY <4>1
    <3>1. lo + k - 1 \in 1 .. n /\ x[k] = msgs[lo + k - 1] /\ msgs[lo + k - 1].prio = p
      BY <1>3, <3>0
    <3>2. y[k] = z[lo2 + k - 1]
      BY <1>6, <2>1
    <3>3. CASE p < m.prio
      <4>1. lo2 + k - 1 = lo + k /\ ~(lo + k - 1 < b)
        BY <1>1, <1>3, <1>4, <1>5, <3>1, <3>3
      <4>2. lo + k \in 1 .. n + 1 /\ ~(lo + k < b) /\ lo + k # b /\ lo + k - 1 = (lo + k) - 1
        BY <1>1, <1>2, <1>3, <3>1, <4>1
      <4>3. z[lo + k] = msgs[lo + k - 1]
        BY <1>2, <4>2
      <4> QED
        BY <3>1, <3>2, <4>1, <4>3
    <3>4. CASE p > m.prio
      <4>1. lo2 = lo
        BY <1>1, <1>5, <3>4
      <4>3. lo + k - 1 < b
        BY <1>1, <1>4, <3>1, <3>4
      <4>4. lo + k - 1 \in 1 .. n + 1
        BY <1>1, <3>0
      <4>2. z[lo + k - 1] = msgs[lo + k - 1]
        BY <1>2, <4>3, <4>4
      <4> QED
        BY <3>1, <3>2, <4>1, <4>2
    <3>5. p < m.prio \/ p > m.prio
      BY <1>1, <1>8
    <3> QED
      BY <3>3, <3>4, <3>5
  <2> QED
    BY <1>3, <1>6, <2>1, <2>2, SeqEqual
<1> QED
  BY <1>7, <1>8 DEF x, y, z

(* The array without its first message.                                    *)
LEMMA TailFacts ==
  ASSUME MsgQueueAssumption, NEW msgs \in Seq(Msgs), Sorted(msgs), msgs # <<>>
  PROVE  /\ Len(msgs) \in Nat \ {0} /\ Head(msgs) = msgs[1] /\ msgs[1] \in Msgs
         /\ Tail(msgs) \in Seq(Msgs) /\ Len(Tail(msgs)) = Len(msgs) - 1
         /\ \A k \in 1 .. Len(msgs) - 1 : Tail(msgs)[k] = msgs[k + 1]
         /\ Sorted(Tail(msgs))
<1>1. Len(msgs) \in Nat \ {0} /\ Head(msgs) = msgs[1]
  BY EmptySeq
<1>2. msgs[1] \in Msgs
  BY <1>1, ElementOfSeq
<1>3. /\ Tail(msgs) \in Seq(Msgs) /\ Len(Tail(msgs)) = Len(msgs) - 1
      /\ \A k \in 1 .. Len(Tail(msgs)) : Tail(msgs)[k] = msgs[k + 1]
  BY HeadTailProperties
<1> DEFINE z == Tail(msgs)
<1> HIDE DEF z
<1>4. ASSUME NEW j \in 1 .. Len(z), NEW k \in 1 .. Len(z), j <= k
      PROVE  z[k].prio <= z[j].prio
  <2>1. j + 1 \in 1 .. Len(msgs) /\ k + 1 \in 1 .. Len(msgs) /\ j + 1 <= k + 1
    BY <1>1, <1>3, <1>4 DEF z
  <2>2. msgs[k + 1].prio <= msgs[j + 1].prio
    BY <2>1 DEF Sorted
  <2> QED
    BY <1>3, <2>2 DEF z
<1> QED
  BY <1>1, <1>2, <1>3, <1>4 DEF Sorted, z

LEMMA BehindTail ==
  ASSUME MsgQueueAssumption, NEW msgs \in Seq(Msgs), Sorted(msgs), msgs # <<>>, NEW p \in Nat
  PROVE  Behind(Tail(msgs), p) = IF p <= Head(msgs).prio THEN Behind(msgs, p) - 1 ELSE 1
<1> DEFINE z == Tail(msgs)
           a == Behind(msgs, p)
           n == Len(msgs)
<1>1. /\ n \in Nat \ {0} /\ Head(msgs) = msgs[1]
      /\ z \in Seq(Msgs) /\ Len(z) = n - 1 /\ Sorted(z)
      /\ \A k \in 1 .. n - 1 : z[k] = msgs[k + 1]
  BY TailFacts
<1>2. a \in 1 .. n + 1 /\ \A k \in 1 .. n : k < a <=> msgs[k].prio >= p
  BY BehindFacts
<1>3. \A k \in 1 .. n : msgs[k].prio \in Nat /\ msgs[k].prio <= msgs[1].prio
  <2>1. \A k \in 1 .. n : msgs[k].prio <= msgs[1].prio
    BY <1>1 DEF Sorted
  <2>2. \A k \in 1 .. n : msgs[k] \in Msgs
    BY ElementOfSeq
  <2> QED
    BY <2>1, <2>2 DEF Msgs, MsgQueueAssumption
<1> HIDE DEF z, a, n
<1>4. ASSUME NEW c \in 1 .. n, \A k \in 1 .. n - 1 : k < c <=> z[k].prio >= p
      PROVE  Behind(z, p) = c
  <2>1. c \in 1 .. Len(z) + 1 /\ \A k \in 1 .. Len(z) : k < c <=> z[k].prio >= p
    BY <1>1, <1>4
  <2> QED
    BY <1>1, <2>1, BehindIs
<1>5. ASSUME p <= msgs[1].prio PROVE Behind(z, p) = a - 1
  <2>1. 1 < a
    BY <1>1, <1>2, <1>5
  <2>2. ASSUME NEW k \in 1 .. n - 1 PROVE k < a - 1 <=> z[k].prio >= p
    <3>1. k + 1 \in 1 .. n /\ (k < a - 1 <=> k + 1 < a)
      BY <1>1, <1>2
    <3> QED
      BY <1>1, <1>2, <3>1
  <2>3. a - 1 \in 1 .. n
    BY <1>1, <1>2, <2>1
  <2> QED
    BY <1>4, <2>2, <2>3
<1>6. ASSUME ~(p <= msgs[1].prio) PROVE Behind(z, p) = 1
  <2>1. ASSUME NEW k \in 1 .. n - 1 PROVE k < 1 <=> z[k].prio >= p
    <3>1. k + 1 \in 1 .. n /\ ~(k < 1) /\ 1 \in 1 .. n
      BY <1>1
    <3>2. /\ z[k] = msgs[k + 1] /\ msgs[k + 1].prio \in Nat /\ msgs[1].prio \in Nat
          /\ msgs[k + 1].prio <= msgs[1].prio
      BY <1>1, <1>3, <3>1
    <3> QED
      BY <1>6, <3>1, <3>2
  <2>2. 1 \in 1 .. n
    BY <1>1
  <2> QED
    BY <1>4, <2>1, <2>2
<1> QED
  BY <1>1, <1>5, <1>6 DEF z, a

(* The first message is the oldest of the highest priority that waits, and *)
(* taking it disturbs no other priority.                                   *)
LEMMA PriorityTail ==
  ASSUME MsgQueueAssumption, NEW msgs \in Seq(Msgs), Sorted(msgs), msgs # <<>>, NEW p \in Nat
  PROVE  /\ p > Head(msgs).prio => OfPriority(msgs, p) = <<>>
         /\ p = Head(msgs).prio => /\ OfPriority(msgs, p) # <<>>
                                   /\ Head(OfPriority(msgs, p)) = Head(msgs)
         /\ OfPriority(Tail(msgs), p) =
              IF p = Head(msgs).prio THEN Tail(OfPriority(msgs, p)) ELSE OfPriority(msgs, p)
<1> DEFINE z   == Tail(msgs)
           q   == Head(msgs).prio
           lo  == Behind(msgs, p + 1)
           hi  == Behind(msgs, p)
           lo2 == Behind(z, p + 1)
           hi2 == Behind(z, p)
           n   == Len(msgs)
           x   == OfPriority(msgs, p)
           y   == OfPriority(z, p)
<1>1. n \in Nat \ {0} /\ q \in Nat /\ p + 1 \in Nat /\ Head(msgs) = msgs[1]
  <2>1. n \in Nat \ {0} /\ Head(msgs) = msgs[1] /\ msgs[1] \in Msgs
    BY TailFacts
  <2>2. msgs[1].prio \in Nat
    BY <2>1 DEF Msgs, MsgQueueAssumption
  <2> QED
    BY <2>1, <2>2
<1>2. /\ z \in Seq(Msgs) /\ Len(z) = n - 1 /\ Sorted(z)
      /\ \A k \in 1 .. n - 1 : z[k] = msgs[k + 1]
  BY TailFacts
<1>3. /\ lo \in 1 .. n + 1 /\ hi \in lo .. n + 1 /\ x \in Seq(Msgs) /\ Len(x) = hi - lo
      /\ \A k \in 1 .. hi - lo : x[k] = msgs[lo + k - 1]
  BY PriorityFacts, ZenonT(30)
<1>4. (1 < lo <=> q >= p + 1) /\ (1 < hi <=> q >= p)
  <2>1. 1 \in 1 .. n
    BY <1>1
  <2>2. (1 < lo <=> msgs[1].prio >= p + 1)
    BY <1>1, <2>1, BehindFacts
  <2>3. (1 < hi <=> msgs[1].prio >= p)
    BY <2>1, BehindFacts
  <2> QED
    BY <1>1, <2>2, <2>3
<1>5. /\ lo2 = IF p + 1 <= q THEN lo - 1 ELSE 1
      /\ hi2 = IF p <= q THEN hi - 1 ELSE 1
  <2>1. lo2 = IF p + 1 <= q THEN lo - 1 ELSE 1
    BY <1>1, BehindTail
  <2>2. hi2 = IF p <= q THEN hi - 1 ELSE 1
    BY BehindTail
  <2> QED
    BY <2>1, <2>2
<1> HIDE DEF z
<1>6. /\ lo2 \in 1 .. n /\ hi2 \in lo2 .. n /\ y \in Seq(Msgs) /\ Len(y) = hi2 - lo2
      /\ \A k \in 1 .. hi2 - lo2 : y[k] = z[lo2 + k - 1]
  <2>1. /\ lo2 \in 1 .. Len(z) + 1 /\ hi2 \in lo2 .. Len(z) + 1 /\ y \in Seq(Msgs) /\ Len(y) = hi2 - lo2
        /\ \A k \in 1 .. hi2 - lo2 : y[k] = z[lo2 + k - 1]
    BY <1>2, PriorityFacts, ZenonT(30)
  <2>2. Len(z) + 1 = n
    BY <1>1, <1>2
  <2> QED
    BY <2>1, <2>2
<1> HIDE DEF q, lo, hi, lo2, hi2, n, x, y
<1>7. ASSUME p > q PROVE x = <<>> /\ y = <<>>
  <2>1. Len(x) = 0 /\ Len(y) = 0
    BY <1>1, <1>3, <1>4, <1>5, <1>6, <1>7
  <2> QED
    BY <1>3, <1>6, <2>1, EmptySeq
<1>8. ASSUME p = q PROVE x # <<>> /\ Head(x) = Head(msgs) /\ y = Tail(x)
  <2>1. lo = 1 /\ lo2 = 1 /\ hi2 = hi - 1 /\ hi > 1
    BY <1>1, <1>3, <1>4, <1>5, <1>8
  <2>2. Len(x) = hi - 1 /\ hi - 1 \in Nat \ {0} /\ x[1] = msgs[1]
    <3>1. 1 \in 1 .. hi - lo /\ lo + 1 - 1 = 1 /\ hi - lo = hi - 1 /\ hi - 1 \in Nat \ {0}
      BY <1>1, <1>3, <2>1
    <3> QED
      BY <1>3, <3>1
  <2>3. x # <<>> /\ Head(x) = x[1]
    BY <1>3, <2>2, EmptySeq
  <2>4. /\ Tail(x) \in Seq(Msgs) /\ Len(Tail(x)) = hi - 2
        /\ \A k \in 1 .. hi - 2 : Tail(x)[k] = x[k + 1]
    <3>1. /\ Tail(x) \in Seq(Msgs) /\ Len(Tail(x)) = Len(x) - 1
          /\ \A k \in 1 .. Len(Tail(x)) : Tail(x)[k] = x[k + 1]
      BY <1>3, <2>3, HeadTailProperties
    <3>2. Len(Tail(x)) = hi - 2
      BY <1>3, <2>2, <3>1
    <3> QED
      BY <3>1, <3>2
  <2>5. ASSUME NEW k \in 1 .. hi - 2 PROVE y[k] = Tail(x)[k]
    <3>1. k \in 1 .. hi2 - lo2 /\ lo2 + k - 1 = k /\ k \in 1 .. n - 1
          /\ k + 1 \in 1 .. hi - lo /\ lo + (k + 1) - 1 = k + 1
      BY <1>1, <1>3, <2>1
    <3>2. y[k] = msgs[k + 1] /\ x[k + 1] = msgs[k + 1]
      BY <1>2, <1>3, <1>6, <3>1
    <3> QED
      BY <2>4, <3>2
  <2>6. Len(y) = hi - 2
    BY <1>3, <1>6, <2>1
  <2>7. y = Tail(x)
    BY <1>6, <2>4, <2>5, <2>6, SeqEqual
  <2> QED
    BY <1>1, <2>2, <2>3, <2>7
<1>9. ASSUME p < q PROVE y = x
  <2>1. lo2 = lo - 1 /\ hi2 = hi - 1 /\ lo > 1 /\ hi2 - lo2 = hi - lo
    BY <1>1, <1>3, <1>4, <1>5, <1>9
  <2>2. ASSUME NEW k \in 1 .. hi - lo PROVE y[k] = x[k]
    <3>0. n \in Nat /\ lo \in 1 .. n + 1 /\ hi \in lo .. n + 1
      BY <1>1, <1>3
    <3>1. lo2 + k - 1 \in 1 .. n - 1 /\ (lo2 + k - 1) + 1 = lo + k - 1
      BY <3>0, <2>1
    <3>2. y[k] = z[lo2 + k - 1]
      BY <1>6, <2>1
    <3>3. z[lo2 + k - 1] = msgs[lo + k - 1]
      BY <1>2, <3>1
    <3> QED
      BY <1>3, <3>2, <3>3
  <2> QED
    BY <1>3, <1>6, <2>1, <2>2, SeqEqual
<1>10. p > q \/ p = q \/ p < q
  BY <1>1
<1> QED
  BY <1>1, <1>7, <1>8, <1>9, <1>10 DEF x, y, z, q

(* As many wait by priorities as there are messages, at most: each has a   *)
(* place of its own in the array.                                          *)
LEMMA PlacesOfAll ==
  ASSUME MsgQueueAssumption, NEW msgs \in Seq(Msgs), Sorted(msgs)
  PROVE  LET size == Abstract!Size([p \in Prios |-> OfPriority(msgs, p)])
         IN  size \in Nat /\ size <= Len(msgs)
<1> DEFINE b == [p \in Prios |-> OfPriority(msgs, p)]
           W == {w \in Prios \X (1 .. MAX) : w[2] <= Len(b[w[1]])}
           n == Len(msgs)
           f == [w \in W |-> Behind(msgs, w[1] + 1) + w[2] - 1]
<1>1. n \in Nat /\ Prios \subseteq Nat /\ MAX \in Nat
  BY LenProperties DEF MsgQueueAssumption
<1>0. ASSUME NEW w \in W
      PROVE  /\ w = <<w[1], w[2]>> /\ w[1] \in Prios /\ w[1] \in Nat
             /\ w[2] \in Nat \ {0} /\ w[2] <= Len(OfPriority(msgs, w[1]))
  <2>1. w \in Prios \X (1 .. MAX) /\ w[2] <= Len(b[w[1]])
    OBVIOUS
  <2>2. w = <<w[1], w[2]>> /\ w[1] \in Prios /\ w[2] \in 1 .. MAX
    BY <2>1
  <2>3. b[w[1]] = OfPriority(msgs, w[1])
    BY <2>2
  <2> HIDE DEF b, W
  <2>4. w[2] \in Nat \ {0} /\ w[1] \in Nat
    BY <1>1, <2>2
  <2> QED
    BY <2>1, <2>2, <2>3, <2>4
<1> HIDE DEF W, n
<1>2. ASSUME NEW w \in W
      PROVE  f[w] \in 1 .. n /\ msgs[f[w]].prio = w[1] /\ w[2] = f[w] - Behind(msgs, w[1] + 1) + 1
  <2> DEFINE p  == w[1]
             k  == w[2]
             lo == Behind(msgs, p + 1)
             hi == Behind(msgs, p)
  <2>1. p \in Nat /\ k \in Nat \ {0} /\ k <= Len(OfPriority(msgs, p))
    BY <1>0
  <2>2. /\ lo \in 1 .. n + 1 /\ hi \in lo .. n + 1 /\ Len(OfPriority(msgs, p)) = hi - lo
        /\ \A j \in 1 .. hi - lo : msgs[lo + j - 1].prio = p
    BY <2>1, PriorityFacts, ZenonT(30) DEF n
  <2>3. f[w] = lo + k - 1
    OBVIOUS
  <2> HIDE DEF p, lo, hi, f, k
  <2>4. k \in 1 .. hi - lo
    BY <1>1, <2>1, <2>2
  <2>5. msgs[f[w]].prio = p
    BY <2>2, <2>3, <2>4
  <2>6. f[w] \in 1 .. n /\ k = f[w] - lo + 1
    BY <1>1, <2>2, <2>3, <2>4
  <2> QED
    BY <2>5, <2>6 DEF p, lo, k
<1> HIDE DEF f
<1>3. ASSUME NEW v \in W, NEW w \in W, f[v] = f[w] PROVE v = w
  <2>1. v[1] = w[1]
    BY <1>2, <1>3
  <2>2. v[2] = w[2]
    BY <1>2, <1>3, <2>1
  <2> QED
    BY <1>0, <2>1, <2>2
<1>4. f \in Injection(W, 1 .. n)
  <2>1. f \in [W -> 1 .. n]
    BY <1>2 DEF f
  <2> QED
    BY <1>3, <2>1 DEF Injection, IsInjective
<1>5. IsFiniteSet(1 .. n) /\ Cardinality(1 .. n) = n
  <2>1. 1 \in Int /\ n \in Int
    BY <1>1
  <2>2. Cardinality(1 .. n) = IF 1 > n THEN 0 ELSE n - 1 + 1
    BY <2>1, FS_Interval
  <2> QED
    BY <1>1, <2>1, <2>2, FS_Interval
<1>6. IsFiniteSet(W) /\ Cardinality(W) <= n /\ Cardinality(W) \in Nat
  <2>1. IsFiniteSet(W) /\ Cardinality(W) <= n
    BY <1>4, <1>5, FS_Injection
  <2> QED
    BY <2>1, FS_CardinalityType
<1>7. Abstract!Size(b) = Cardinality(W)
  <2> HIDE DEF b
  <2> QED
    BY Zenon DEF Abstract!Size, W, Abstract!Cardinality, Cardinality
<1> QED
  BY <1>6, <1>7 DEF n

-----------------------------------------------------------------------------
(* The inductive invariant *)

(* What changes of a slot, a part at a time.                               *)
LEMMA SlotChanges ==
  ASSUME NEW q \in Queue
  PROVE  /\ \A u \in BOOLEAN : [q EXCEPT !.used = u] \in Queue
         /\ \A m \in BoundedSeq(Msgs, MAX) : [q EXCEPT !.msgs = m] \in Queue
         /\ \A l \in Mutexes(Users, 1) : [q EXCEPT !.lock = l] \in Queue
BY DEF Queue

LEMMA QueueBegins ==
  ASSUME MsgQueueAssumption, QueueInit PROVE MsgQueueInv
<1>1. Unlocked \in Mutexes(Users, 1)
  BY DEF Unlocked, Mutexes
<1>2. <<>> \in BoundedSeq(Msgs, MAX)
  BY EmptyBounded
<1>3. Free \in Queue
  BY <1>1, <1>2 DEF Free, Queue
<1>4. QueueTypeOK
  <2>1. 1 \in 1 .. MaxId + 1 /\ 1 \in Slots /\ 0 \in Prios \cup {0}
    BY DEF MsgQueueAssumption, Slots
  <2>2. NoCall \in [op : Ops, qid : Ids \cup {0}, prio : Prios \cup {0}]
    BY DEF NoCall, Ops
  <2>3. Nothing \in [msg : Msgs \cup {NoMsg}, asked : Ids \cup {0}]
    BY DEF Nothing
  <2> QED
    BY <1>3, <2>1, <2>2, <2>3 DEF QueueInit, QueueTypeOK
<1>5. Numbered
  BY DEF QueueInit, Numbered, Free
<1>6. CallsOn
  BY DEF QueueInit, CallsOn
<1>7. Locking
  BY DEF QueueInit, Locking, Free, Unlocked, MsgQueueAssumption
<1>8. Kept
  <2>1. \A s \in Slots : table[s].msgs = <<>>
    BY DEF QueueInit, Free
  <2> QED
    BY <2>1, EmptyBounded DEF Kept
<1>9. OwnQueue
  BY DEF QueueInit, OwnQueue, Nothing, NoMsg
<1> QED
  BY <1>4, <1>5, <1>6, <1>7, <1>8, <1>9 DEF MsgQueueInv

(* A queue is opened in a slot no call is in.                              *)
LEMMA OpenKeeps ==
  ASSUME MsgQueueAssumption, MsgQueueInv, NEW name \in Names, Open(name)
  PROVE  MsgQueueInv'
<1> DEFINE free == {s \in Slots : ~table[s].used}
           f    == First(free)
           q    == [used |-> TRUE, name |-> name, id |-> nextId, msgs |-> <<>>, lock |-> Unlocked]
<1>1. /\ nextId <= MaxId /\ free # {} /\ table' = [table EXCEPT ![f] = q]
      /\ nextId' = nextId + 1 /\ progress' = progress /\ call' = call /\ slot' = slot /\ last' = last
  BY DEF Open
<1>2. f \in Slots /\ ~table[f].used
  <2>1. free \subseteq Nat
    BY DEF Slots, MsgQueueAssumption
  <2> QED
    BY <1>1, <2>1, FirstFacts
<1>3. table \in [Slots -> Queue] /\ nextId \in 1 .. MaxId + 1
  BY DEF MsgQueueInv, QueueTypeOK
<1> HIDE DEF f, free
<1>4. \A s \in Slots : table'[s] = IF s = f THEN q ELSE table[s]
  BY <1>1, <1>3
<1>5. q \in Queue
  <2>1. Unlocked \in Mutexes(Users, 1)
    BY DEF Unlocked, Mutexes
  <2>2. <<>> \in BoundedSeq(Msgs, MAX)
    BY EmptyBounded
  <2>3. nextId \in Ids
    BY <1>1, <1>3 DEF Ids, MsgQueueAssumption
  <2> QED
    BY <2>1, <2>2, <2>3 DEF Queue
<1>6. QueueTypeOK'
  <2>1. table' \in [Slots -> Queue]
    BY <1>1, <1>3, <1>5
  <2>2. nextId' \in 1 .. MaxId + 1
    BY <1>1, <1>3 DEF MsgQueueAssumption
  <2> QED
    BY <1>1, <2>1, <2>2 DEF MsgQueueInv, QueueTypeOK
<1>7. Numbered'
  <2> SUFFICES ASSUME NEW s \in Slots, table'[s].used
               PROVE  /\ table'[s].id \in 1 .. nextId' - 1
                      /\ \A r \in Slots : table'[r].used /\ table'[r].id = table'[s].id => r = s
    BY DEF Numbered
  <2>1. \A r \in Slots : table[r].used => table[r].id \in 1 .. nextId - 1
    BY DEF MsgQueueInv, Numbered
  <2>2. \A r \in Slots : r # f /\ table'[r].used => table'[r].id \in 1 .. nextId - 1
    BY <1>4, <2>1
  <2>3. table'[f].id = nextId
    BY <1>2, <1>4
  <2>4. table'[s].id \in 1 .. nextId' - 1
    BY <1>1, <1>3, <2>2, <2>3
  <2>5. ASSUME NEW r \in Slots, table'[r].used, table'[r].id = table'[s].id PROVE r = s
    <3>1. CASE r = f /\ s # f
      BY <1>3, <2>2, <2>3, <2>5, <3>1
    <3>2. CASE s = f /\ r # f
      BY <1>3, <2>2, <2>3, <2>5, <3>2
    <3>3. CASE s # f /\ r # f
      BY <1>4, <2>5, <3>3 DEF MsgQueueInv, Numbered
    <3> QED
      BY <3>1, <3>2, <3>3
  <2> QED
    BY <2>4, <2>5
<1>8. \A t \in Users : progress[t] # "idle" => slot[t] \in Slots /\ slot[t] # f
  BY <1>2 DEF MsgQueueInv, CallsOn, QueueTypeOK
<1>9. CallsOn'
  BY <1>1, <1>4, <1>8 DEF MsgQueueInv, CallsOn
<1>10. Locking'
  <2>1. 0 \notin Users /\ q.lock.owner = 0 /\ q.lock.depth = 0
    BY DEF MsgQueueAssumption, Unlocked
  <2>2. ASSUME NEW s \in Slots
        PROVE  /\ table'[s].lock.depth = IF table'[s].lock.owner = 0 THEN 0 ELSE 1
               /\ \A t \in Users : table'[s].lock.owner = t => slot'[t] = s /\ progress'[t] \in {"check", "unlock"}
    <3>1. CASE s = f
      BY <1>4, <2>1, <3>1
    <3>2. CASE s # f
      BY <1>1, <1>4, <3>2 DEF MsgQueueInv, Locking
    <3> QED
      BY <3>1, <3>2
  <2>3. ASSUME NEW t \in Users, progress'[t] \in {"check", "unlock"} PROVE table'[slot'[t]].lock.owner = t
    BY <1>1, <1>4, <1>8, <2>3 DEF MsgQueueInv, Locking
  <2> QED
    BY <2>2, <2>3 DEF Locking
<1>11. Kept'
  <2>1. ASSUME NEW s \in Slots
        PROVE  /\ Sorted(table'[s].msgs)
               /\ \A k \in 1 .. Len(table'[s].msgs) : table'[s].msgs[k].to = table'[s].id
    <3>1. CASE s = f
      BY <1>4, <3>1 DEF Sorted
    <3>2. CASE s # f
      BY <1>4, <3>2 DEF MsgQueueInv, Kept
    <3> QED
      BY <3>1, <3>2
  <2> QED
    BY <2>1 DEF Kept
<1>12. OwnQueue'
  BY <1>1 DEF MsgQueueInv, OwnQueue
<1> QED
  BY <1>6, <1>7, <1>9, <1>10, <1>11, <1>12 DEF MsgQueueInv

(* A queue is closed when no call is in it.                                *)
LEMMA CloseKeeps ==
  ASSUME MsgQueueAssumption, MsgQueueInv, NEW s \in Slots, Close(s)
  PROVE  MsgQueueInv'
<1>1. /\ \A t \in Users : slot[t] = s => progress[t] = "idle"
      /\ table' = [table EXCEPT ![s].used = FALSE]
      /\ nextId' = nextId /\ progress' = progress /\ call' = call /\ slot' = slot /\ last' = last
  BY DEF Close
<1>2. table \in [Slots -> Queue] /\ slot \in [Users -> Slots]
  BY DEF MsgQueueInv, QueueTypeOK
<1>3. \A r \in Slots : table'[r] = IF r = s THEN [table[s] EXCEPT !.used = FALSE] ELSE table[r]
  BY <1>1, <1>2
<1>4. \A r \in Slots : /\ table'[r].msgs = table[r].msgs /\ table'[r].lock = table[r].lock
                       /\ table'[r].id = table[r].id
                       /\ table'[r].used => table[r].used
                       /\ r # s => table'[r].used = table[r].used
  <2>1. /\ [table[s] EXCEPT !.used = FALSE].msgs = table[s].msgs
        /\ [table[s] EXCEPT !.used = FALSE].lock = table[s].lock
        /\ [table[s] EXCEPT !.used = FALSE].id = table[s].id
        /\ ~[table[s] EXCEPT !.used = FALSE].used
    BY <1>2, ZenonT(30) DEF Queue
  <2> QED
    BY <1>3, <2>1, Zenon
<1>5. QueueTypeOK'
  <2>1. [table[s] EXCEPT !.used = FALSE] \in Queue
    BY <1>2, SlotChanges
  <2>2. table' \in [Slots -> Queue]
    BY <1>1, <1>2, <2>1
  <2> QED
    BY <1>1, <2>2 DEF MsgQueueInv, QueueTypeOK
<1>6. Numbered'
  BY <1>1, <1>4 DEF MsgQueueInv, Numbered
<1>7. CallsOn'
  BY <1>1, <1>2, <1>4 DEF MsgQueueInv, CallsOn
<1>8. Locking'
  BY <1>1, <1>2, <1>4 DEF MsgQueueInv, Locking
<1>9. Kept'
  BY <1>4 DEF MsgQueueInv, Kept
<1>10. OwnQueue'
  BY <1>1 DEF MsgQueueInv, OwnQueue
<1> QED
  BY <1>5, <1>6, <1>7, <1>8, <1>9, <1>10 DEF MsgQueueInv

(* A call begins on a queue that is open.                                  *)
LEMMA FoundFacts ==
  ASSUME MsgQueueAssumption, NEW qid, Found(qid) # {}
  PROVE  /\ First(Found(qid)) \in Slots
         /\ table[First(Found(qid))].used /\ table[First(Found(qid))].id = qid
<1>1. Found(qid) \subseteq Nat
  BY DEF Found, Slots, MsgQueueAssumption
<1>2. First(Found(qid)) \in Found(qid)
  BY <1>1, FirstFacts
<1> QED
  BY <1>2 DEF Found

LEMMA CallKeeps ==
  ASSUME MsgQueueAssumption, MsgQueueInv, NEW t \in Users, NEW c \in Calls, Call(t, c)
  PROVE  MsgQueueInv'
<1> DEFINE f == First(Found(c.qid))
<1>1. /\ progress[t] = "idle"
      /\ slot' = [slot EXCEPT ![t] = f] /\ call' = [call EXCEPT ![t] = c]
      /\ progress' = [progress EXCEPT ![t] = "lock"]
      /\ table' = table /\ nextId' = nextId /\ last' = last
  BY DEF Call
<1>2. f \in Slots /\ table[f].used /\ table[f].id = c.qid
  BY FoundFacts DEF Call
<1> HIDE DEF f
<1>3. /\ slot \in [Users -> Slots]
      /\ progress \in [Users -> {"idle", "lock", "check", "again", "unlock"}]
      /\ call \in [Users -> [op : Ops, qid : Ids \cup {0}, prio : Prios \cup {0}]]
  BY DEF MsgQueueInv, QueueTypeOK
<1>4. /\ c \in [op : Ops, qid : Ids \cup {0}, prio : Prios \cup {0}]
      /\ c.op = "send" => c.prio \in Prios
  BY DEF Calls, Ops
<1>5. \A u \in Users :
        /\ slot'[u] = IF u = t THEN f ELSE slot[u]
        /\ call'[u] = IF u = t THEN c ELSE call[u]
        /\ progress'[u] = IF u = t THEN "lock" ELSE progress[u]
  BY <1>1, <1>3
<1>6. QueueTypeOK'
  <2>1. slot' \in [Users -> Slots]
    BY <1>1, <1>2, <1>3
  <2>2. progress' \in [Users -> {"idle", "lock", "check", "again", "unlock"}]
    BY <1>1, <1>3
  <2>3. call' \in [Users -> [op : Ops, qid : Ids \cup {0}, prio : Prios \cup {0}]]
    BY <1>1, <1>3, <1>4
  <2> QED
    BY <1>1, <2>1, <2>2, <2>3 DEF MsgQueueInv, QueueTypeOK
<1>7. Numbered'
  BY <1>1 DEF MsgQueueInv, Numbered
<1>8. CallsOn'
  BY <1>1, <1>2, <1>4, <1>5 DEF MsgQueueInv, CallsOn
<1>9. Locking'
  <2>1. \A u \in Users : progress[u] \in {"check", "unlock"} => slot'[u] = slot[u] /\ progress'[u] = progress[u]
    BY <1>1, <1>5
  <2>2. \A u \in Users : progress'[u] \in {"check", "unlock"} => slot'[u] = slot[u] /\ progress'[u] = progress[u]
    BY <1>5
  <2>3. Locking
    BY DEF MsgQueueInv
  <2>4. ASSUME NEW s \in Slots
        PROVE  /\ table'[s].lock.depth = IF table'[s].lock.owner = 0 THEN 0 ELSE 1
               /\ \A u \in Users : table'[s].lock.owner = u => slot'[u] = s /\ progress'[u] \in {"check", "unlock"}
    BY <1>1, <2>1, <2>3 DEF Locking
  <2>5. ASSUME NEW u \in Users, progress'[u] \in {"check", "unlock"} PROVE table'[slot'[u]].lock.owner = u
    BY <1>1, <2>2, <2>3, <2>5 DEF Locking
  <2> QED
    BY <2>4, <2>5 DEF Locking
<1>10. Kept'
  BY <1>1 DEF MsgQueueInv, Kept
<1>11. OwnQueue'
  BY <1>1 DEF MsgQueueInv, OwnQueue
<1> QED
  BY <1>6, <1>7, <1>8, <1>9, <1>10, <1>11 DEF MsgQueueInv

(* A step that puts msgs and a mutex into the slot of t and sends t to     *)
(* another place.  The mutex is that of t exactly when t is inside then.   *)
LEMMA StepKeeps ==
  ASSUME MsgQueueAssumption, MsgQueueInv, NEW t \in Users, progress[t] # "idle",
         NEW msgs \in BoundedSeq(Msgs, MAX), Sorted(msgs),
         \A k \in 1 .. Len(msgs) : msgs[k].to = table[slot[t]].id,
         NEW place \in {"idle", "check", "again", "unlock"},
         NEW owner \in {0, t}, owner = t <=> place \in {"check", "unlock"},
         NEW lock \in Mutexes(Users, 1), lock.owner = owner,
         lock.depth = IF owner = 0 THEN 0 ELSE 1,
         table[slot[t]].lock.owner \in {0, t},
         table' = [table EXCEPT ![slot[t]] = [table[slot[t]] EXCEPT !.msgs = msgs, !.lock = lock]],
         progress' = [progress EXCEPT ![t] = place], slot' = slot, nextId' = nextId,
         \/ call' = call
         \/ place = "idle" /\ call' = [call EXCEPT ![t] = NoCall],
         last' \in [msg : Msgs \cup {NoMsg}, asked : Ids \cup {0}], OwnQueue'
  PROVE  MsgQueueInv'
<1> DEFINE f == slot[t]
           q == [table[f] EXCEPT !.msgs = msgs, !.lock = lock]
<1>1. /\ table \in [Slots -> Queue] /\ slot \in [Users -> Slots] /\ f \in Slots
      /\ progress \in [Users -> {"idle", "lock", "check", "again", "unlock"}]
      /\ call \in [Users -> [op : Ops, qid : Ids \cup {0}, prio : Prios \cup {0}]]
  BY DEF MsgQueueInv, QueueTypeOK
<1>2. table[f] \in Queue
  BY <1>1
<1>3. /\ q.msgs = msgs /\ q.lock = lock /\ q.id = table[f].id /\ q.used = table[f].used
      /\ q.name = table[f].name
  BY <1>2 DEF Queue
<1>4. q \in Queue
  BY <1>2 DEF Queue
<1>5. \A s \in Slots : table'[s] = IF s = f THEN q ELSE table[s]
  BY <1>1
<1> HIDE DEF q, f
<1>6. \A s \in Slots : table'[s].id = table[s].id /\ table'[s].used = table[s].used
  BY <1>3, <1>5
<1>7. \A u \in Users : progress'[u] = IF u = t THEN place ELSE progress[u]
  BY <1>1
<1>8. \A u \in Users : u # t => call'[u] = call[u]
  BY <1>1
<1>9. QueueTypeOK'
  <2>1. table' \in [Slots -> Queue]
    BY <1>1, <1>4 DEF q, f
  <2>2. progress' \in [Users -> {"idle", "lock", "check", "again", "unlock"}]
    BY <1>1
  <2>3. call' \in [Users -> [op : Ops, qid : Ids \cup {0}, prio : Prios \cup {0}]]
    <3>1. NoCall \in [op : Ops, qid : Ids \cup {0}, prio : Prios \cup {0}]
      BY DEF NoCall, Ops
    <3> QED
      BY <1>1, <3>1, SMTT(30)
  <2> QED
    BY <2>1, <2>2, <2>3 DEF MsgQueueInv, QueueTypeOK
<1>10. Numbered'
  BY <1>6 DEF MsgQueueInv, Numbered
<1>11. CallsOn'
  <2> SUFFICES ASSUME NEW u \in Users, progress'[u] # "idle"
               PROVE  /\ table'[slot'[u]].used
                      /\ table'[slot'[u]].id = call'[u].qid
                      /\ call'[u].op = "send" => call'[u].prio \in Prios
    BY DEF CallsOn
  <2>1. progress[u] # "idle" /\ call'[u] = call[u] /\ slot[u] \in Slots
    BY <1>1, <1>7, <1>8
  <2> QED
    BY <1>6, <2>1 DEF MsgQueueInv, CallsOn
<1>12. Locking'
  <2>1. 0 \notin Users
    BY DEF MsgQueueAssumption
  <2>2. ASSUME NEW s \in Slots
        PROVE  /\ table'[s].lock.depth = IF table'[s].lock.owner = 0 THEN 0 ELSE 1
               /\ \A u \in Users : table'[s].lock.owner = u => slot'[u] = s /\ progress'[u] \in {"check", "unlock"}
    <3>1. CASE s = f
      BY <1>3, <1>5, <1>7, <2>1, <3>1 DEF f
    <3>2. CASE s # f
      <4>1. table'[s].lock.depth = IF table'[s].lock.owner = 0 THEN 0 ELSE 1
        BY <1>5, <3>2 DEF MsgQueueInv, Locking
      <4>2. ASSUME NEW u \in Users, table'[s].lock.owner = u PROVE slot'[u] = s /\ progress'[u] \in {"check", "unlock"}
        <5>1. slot[u] = s /\ progress[u] \in {"check", "unlock"}
          <6>1. table[s].lock.owner = u
            BY <1>5, <3>2, <4>2
          <6>2. Locking
            BY DEF MsgQueueInv
          <6> QED
            BY <6>1, <6>2 DEF Locking
        <5>2. u # t
          BY <3>2, <5>1 DEF f
        <5> QED
          BY <1>7, <5>1, <5>2
      <4> QED
        BY <4>1, <4>2
    <3> QED
      BY <3>1, <3>2
  <2>3. ASSUME NEW u \in Users, progress'[u] \in {"check", "unlock"} PROVE table'[slot'[u]].lock.owner = u
    <3>1. CASE u = t
      BY <1>1, <1>3, <1>5, <1>7, <2>3, <3>1 DEF f
    <3>2. CASE u # t
      <4>1. table[slot[u]].lock.owner = u /\ slot[u] \in Slots
        BY <1>1, <1>7, <2>3, <3>2 DEF MsgQueueInv, Locking
      <4>2. slot[u] # f
        BY <2>1, <3>2, <4>1 DEF f
      <4> QED
        BY <1>5, <4>1, <4>2
    <3> QED
      BY <3>1, <3>2
  <2> QED
    BY <2>2, <2>3 DEF Locking
<1>13. Kept'
  <2> SUFFICES ASSUME NEW s \in Slots
               PROVE  /\ Sorted(table'[s].msgs)
                      /\ \A k \in 1 .. Len(table'[s].msgs) : table'[s].msgs[k].to = table'[s].id
    BY DEF Kept
  <2>1. CASE s = f
    BY <1>3, <1>5, <2>1 DEF f
  <2>2. CASE s # f
    BY <1>5, <2>2 DEF MsgQueueInv, Kept
  <2> QED
    BY <2>1, <2>2
<1> QED
  BY <1>9, <1>10, <1>11, <1>12, <1>13 DEF MsgQueueInv

(* What a task that is in a call finds.                                    *)
LEMMA InCall ==
  ASSUME MsgQueueAssumption, MsgQueueInv, NEW t \in Users, progress[t] # "idle"
  PROVE  /\ slot[t] \in Slots /\ table[slot[t]] \in Queue
         /\ table[slot[t]].id = call[t].qid /\ table[slot[t]].id \in Ids
         /\ Messages(t) = table[slot[t]].msgs
         /\ Messages(t) \in BoundedSeq(Msgs, MAX) /\ Messages(t) \in Seq(Msgs)
         /\ Len(Messages(t)) <= MAX /\ Sorted(Messages(t))
         /\ \A k \in 1 .. Len(Messages(t)) : Messages(t)[k].to = table[slot[t]].id
         /\ table[slot[t]].lock \in Mutexes(Users, 1)
         /\ progress[t] \in {"check", "unlock"} =>
              table[slot[t]].lock.owner = t /\ table[slot[t]].lock.depth = 1
         /\ call[t].op = "send" => call[t].prio \in Prios
<1>1. table \in [Slots -> Queue] /\ slot \in [Users -> Slots] /\ nextId \in 1 .. MaxId + 1
  BY DEF MsgQueueInv, QueueTypeOK
<1>2. slot[t] \in Slots /\ table[slot[t]] \in Queue /\ Messages(t) = table[slot[t]].msgs
  BY <1>1 DEF Messages
<1>3. /\ table[slot[t]].used /\ table[slot[t]].id = call[t].qid
      /\ call[t].op = "send" => call[t].prio \in Prios
  BY DEF MsgQueueInv, CallsOn
<1>4. table[slot[t]].id \in Ids
  <2>1. table[slot[t]].id \in 1 .. nextId - 1
    BY <1>2, <1>3 DEF MsgQueueInv, Numbered
  <2>2. MaxId \in Nat
    BY DEF MsgQueueAssumption
  <2> QED
    BY <1>1, <2>1, <2>2 DEF Ids
<1>5. Messages(t) \in BoundedSeq(Msgs, MAX) /\ table[slot[t]].lock \in Mutexes(Users, 1)
  BY <1>2 DEF Queue
<1>6. Messages(t) \in Seq(Msgs) /\ Len(Messages(t)) <= MAX
  <2>1. MAX \in Nat
    BY DEF MsgQueueAssumption
  <2> QED
    BY <1>5, <2>1, Bounded
<1>7. /\ Sorted(Messages(t))
      /\ \A k \in 1 .. Len(Messages(t)) : Messages(t)[k].to = table[slot[t]].id
  BY <1>2 DEF MsgQueueInv, Kept
<1>8. ASSUME progress[t] \in {"check", "unlock"}
      PROVE  table[slot[t]].lock.owner = t /\ table[slot[t]].lock.depth = 1
  <2>1. Locking /\ t # 0
    BY DEF MsgQueueInv, MsgQueueAssumption
  <2>2. table[slot[t]].lock.owner = t
    BY <1>8, <2>1 DEF Locking
  <2> QED
    BY <1>2, <2>1, <2>2 DEF Locking
<1> QED
  BY <1>2, <1>3, <1>4, <1>5, <1>6, <1>7, <1>8

LEMMA LockKeeps ==
  ASSUME MsgQueueAssumption, MsgQueueInv, NEW t \in Users, Lock(t)
  PROVE  MsgQueueInv'
<1> DEFINE f    == slot[t]
           m    == table[f].lock
           lock == Locked(m, t)
<1>1. /\ progress[t] \in {"lock", "again"} /\ m.owner \in {0, t}
      /\ table' = [table EXCEPT ![f].lock = lock]
      /\ progress' = [progress EXCEPT ![t] = "check"]
      /\ nextId' = nextId /\ call' = call /\ slot' = slot /\ last' = last
  BY DEF Lock, Lockable
<1>2. progress[t] # "idle"
  BY <1>1
<1>3. /\ f \in Slots /\ table[f] \in Queue /\ Messages(t) = table[f].msgs
      /\ Messages(t) \in BoundedSeq(Msgs, MAX) /\ Sorted(Messages(t))
      /\ \A k \in 1 .. Len(Messages(t)) : Messages(t)[k].to = table[f].id
      /\ m \in Mutexes(Users, 1)
  BY <1>2, InCall
<1>4. m.owner # t /\ t # 0
  <2>1. Locking /\ t # 0
    BY DEF MsgQueueInv, MsgQueueAssumption
  <2>2. m.owner = t => progress[t] \in {"check", "unlock"}
    BY <1>3, <2>1 DEF Locking
  <2> QED
    BY <1>1, <2>1, <2>2
<1>5. lock \in Mutexes(Users, 1) /\ lock.owner = t /\ lock.depth = 1
  BY <1>4 DEF Locked, Mutexes
<1> HIDE DEF lock
<1>6. [table EXCEPT ![f].lock = lock]
        = [table EXCEPT ![f] = [table[f] EXCEPT !.msgs = Messages(t), !.lock = lock]]
  <2>1. [table[f] EXCEPT !.lock = lock] = [table[f] EXCEPT !.msgs = Messages(t), !.lock = lock]
    BY <1>3 DEF Queue
  <2> QED
    BY <2>1, Zenon
<1>7. /\ last' \in [msg : Msgs \cup {NoMsg}, asked : Ids \cup {0}]
      /\ OwnQueue'
  BY <1>1 DEF MsgQueueInv, QueueTypeOK, OwnQueue
<1>8. lock.depth = IF t = 0 THEN 0 ELSE 1
  BY <1>4, <1>5
<1>9. table' = [table EXCEPT ![f] = [table[f] EXCEPT !.msgs = Messages(t), !.lock = lock]]
  BY <1>1, <1>6
<1>10. /\ "check" \in {"idle", "check", "again", "unlock"} /\ t \in {0, t}
       /\ t = t <=> "check" \in {"check", "unlock"}
  OBVIOUS
<1>11. PICK x, l : x = Messages(t) /\ l = lock
  OBVIOUS
<1>12. /\ x \in BoundedSeq(Msgs, MAX) /\ Sorted(x)
       /\ \A k \in 1 .. Len(x) : x[k].to = table[f].id
       /\ table' = [table EXCEPT ![f] = [table[f] EXCEPT !.msgs = x, !.lock = l]]
       /\ l \in Mutexes(Users, 1) /\ l.owner = t /\ l.depth = IF t = 0 THEN 0 ELSE 1
  BY <1>3, <1>5, <1>8, <1>9, <1>11, Zenon
<1>13. /\ m.owner \in {0, t} /\ progress' = [progress EXCEPT ![t] = "check"]
       /\ nextId' = nextId /\ call' = call /\ slot' = slot
  BY <1>1
<1> QED
  BY <1>2, <1>7, <1>10, <1>12, <1>13, StepKeeps DEF m, f

(* The task leaves, to try again or for good.                              *)
LEMMA GiveBackKeeps ==
  ASSUME MsgQueueAssumption, MsgQueueInv, NEW t \in Users, progress[t] \in {"check", "unlock"},
         NEW place \in {"idle", "again"}, GiveBack(t, place),
         \/ call' = call
         \/ place = "idle" /\ call' = [call EXCEPT ![t] = NoCall]
  PROVE  MsgQueueInv'
<1> DEFINE f == slot[t]
           m == table[f].lock
<1>1. /\ table' = [table EXCEPT ![f].lock = Released(@)]
      /\ progress' = [progress EXCEPT ![t] = place] /\ last' = Nothing
      /\ nextId' = nextId /\ slot' = slot
  BY DEF GiveBack
<1>2. progress[t] # "idle"
  OBVIOUS
<1>3. /\ f \in Slots /\ table[f] \in Queue /\ Messages(t) = table[f].msgs
      /\ Messages(t) \in BoundedSeq(Msgs, MAX) /\ Sorted(Messages(t))
      /\ \A k \in 1 .. Len(Messages(t)) : Messages(t)[k].to = table[f].id
      /\ m.owner = t /\ m.depth = 1
  BY <1>2, InCall
<1>4. Released(m) = Unlocked
  BY <1>3 DEF Released
<1>5. Unlocked \in Mutexes(Users, 1) /\ Unlocked.owner = 0 /\ Unlocked.depth = 0
  BY DEF Unlocked, Mutexes
<1>6. table' = [table EXCEPT ![f] = [table[f] EXCEPT !.msgs = Messages(t), !.lock = Unlocked]]
  <2>1. [table[f] EXCEPT !.lock = Unlocked]
          = [table[f] EXCEPT !.msgs = Messages(t), !.lock = Unlocked]
    BY <1>3 DEF Queue
  <2>2. table' = [table EXCEPT ![f] = [table[f] EXCEPT !.lock = Unlocked]]
    BY <1>1, <1>4
  <2> QED
    BY <2>1, <2>2, Zenon
<1>7. /\ last' \in [msg : Msgs \cup {NoMsg}, asked : Ids \cup {0}]
      /\ OwnQueue'
  BY <1>1 DEF OwnQueue, Nothing, NoMsg
<1>8. /\ Unlocked.depth = IF 0 = 0 THEN 0 ELSE 1
      /\ 0 \in {0, t} /\ (0 = t <=> place \in {"check", "unlock"})
      /\ place \in {"idle", "check", "again", "unlock"}
      /\ m.owner \in {0, t}
  BY <1>3, <1>5 DEF MsgQueueAssumption
<1>9. PICK x, l : x = Messages(t) /\ l = Unlocked
  OBVIOUS
<1>10. /\ x \in BoundedSeq(Msgs, MAX) /\ Sorted(x)
       /\ \A k \in 1 .. Len(x) : x[k].to = table[f].id
       /\ table' = [table EXCEPT ![f] = [table[f] EXCEPT !.msgs = x, !.lock = l]]
       /\ l \in Mutexes(Users, 1) /\ l.owner = 0 /\ l.depth = IF 0 = 0 THEN 0 ELSE 1
  BY <1>3, <1>5, <1>6, <1>8, <1>9, Zenon
<1> QED
  BY <1>1, <1>2, <1>7, <1>8, <1>10, StepKeeps DEF m, f

(* The task has put msgs into the queue and is about to leave.             *)
LEMMA DoneKeeps ==
  ASSUME MsgQueueAssumption, MsgQueueInv, NEW t \in Users, progress[t] = "check",
         NEW msgs \in BoundedSeq(Msgs, MAX), Sorted(msgs),
         \A k \in 1 .. Len(msgs) : msgs[k].to = table[slot[t]].id,
         Done(t, msgs),
         last' \in [msg : Msgs \cup {NoMsg}, asked : Ids \cup {0}], OwnQueue'
  PROVE  MsgQueueInv'
<1> DEFINE f == slot[t]
           m == table[f].lock
<1>1. /\ table' = [table EXCEPT ![f].msgs = msgs]
      /\ progress' = [progress EXCEPT ![t] = "unlock"]
      /\ nextId' = nextId /\ slot' = slot /\ call' = call
  BY DEF Done
<1>2. progress[t] # "idle"
  OBVIOUS
<1>3. /\ f \in Slots /\ table[f] \in Queue /\ m \in Mutexes(Users, 1)
      /\ m.owner = t /\ m.depth = 1
  BY <1>2, InCall
<1>4. t # 0
  BY DEF MsgQueueAssumption
<1>5. table' = [table EXCEPT ![f] = [table[f] EXCEPT !.msgs = msgs, !.lock = m]]
  <2>1. [table[f] EXCEPT !.msgs = msgs] = [table[f] EXCEPT !.msgs = msgs, !.lock = m]
    BY <1>3 DEF Queue
  <2>2. table' = [table EXCEPT ![f] = [table[f] EXCEPT !.msgs = msgs]]
    BY <1>1
  <2> QED
    BY <2>1, <2>2, Zenon
<1>6. /\ m.depth = IF t = 0 THEN 0 ELSE 1
      /\ t \in {0, t} /\ (t = t <=> "unlock" \in {"check", "unlock"})
      /\ "unlock" \in {"idle", "check", "again", "unlock"}
      /\ m.owner \in {0, t}
  BY <1>3, <1>4
<1> HIDE DEF m, f
<1> QED
  BY <1>1, <1>2, <1>3, <1>5, <1>6, StepKeeps, ZenonT(30) DEF m, f

(* What a sender inserts.                                                  *)
Sent(t) == [prio |-> call[t].prio, from |-> t, to |-> call[t].qid]

LEMMA SendFacts ==
  ASSUME MsgQueueAssumption, MsgQueueInv, NEW t \in Users, Send(t)
  PROVE  /\ progress[t] = "check" /\ progress[t] # "idle" /\ Len(Messages(t)) < MAX
         /\ Sent(t) \in Msgs /\ last' = last
         /\ Done(t, Inserted(Messages(t), Sent(t)))
<1>1. progress[t] = "check" /\ call[t].op = "send"
  BY DEF Send, Sending
<1>2. progress[t] # "idle"
  BY <1>1
<1>3. call[t].prio \in Prios /\ call[t].qid \in Ids
  BY <1>1, <1>2, InCall
<1> QED
  BY <1>1, <1>2, <1>3 DEF Send, Sent, Msgs

LEMMA SendKeeps ==
  ASSUME MsgQueueAssumption, MsgQueueInv, NEW t \in Users, Send(t)
  PROVE  MsgQueueInv'
<1> DEFINE old == Messages(t)
           m   == Sent(t)
           new == Inserted(old, m)
           i   == table[slot[t]].id
<1>1. /\ progress[t] = "check" /\ progress[t] # "idle" /\ Len(old) < MAX /\ m \in Msgs
      /\ Done(t, new) /\ last' = last
  BY SendFacts
<1>2. /\ old \in Seq(Msgs) /\ Sorted(old) /\ i = call[t].qid
      /\ \A k \in 1 .. Len(old) : old[k].to = i
  BY <1>1, InCall
<1>3. m.to = i
  BY <1>2 DEF Sent
<1>4. MAX \in Nat /\ Len(old) \in Nat
  BY <1>2, LenProperties DEF MsgQueueAssumption
<1> HIDE DEF old, m, i
<1>5. /\ new \in Seq(Msgs) /\ Len(new) = Len(old) + 1 /\ Sorted(new)
      /\ Behind(old, m.prio) \in 1 .. Len(old) + 1
      /\ \A k \in 1 .. Len(old) + 1 :
           new[k] = IF k < Behind(old, m.prio) THEN old[k]
                    ELSE IF k = Behind(old, m.prio) THEN m ELSE old[k - 1]
  BY <1>1, <1>2, InsertedFacts
<1> HIDE DEF new
<1>6. new \in BoundedSeq(Msgs, MAX)
  <2>1. Len(new) <= MAX
    BY <1>1, <1>4, <1>5
  <2> QED
    BY <1>4, <1>5, <2>1, Bounded
<1>7. ASSUME NEW k \in 1 .. Len(new) PROVE new[k].to = i
  <2>1. k \in 1 .. Len(old) + 1
    BY <1>5
  <2>2. CASE k < Behind(old, m.prio)
    <3>1. k \in 1 .. Len(old) /\ new[k] = old[k]
      BY <1>4, <1>5, <2>1, <2>2
    <3> QED
      BY <1>2, <3>1
  <2>3. CASE k = Behind(old, m.prio)
    BY <1>3, <1>5, <2>1, <2>3
  <2>4. CASE k > Behind(old, m.prio)
    <3>1. k - 1 \in 1 .. Len(old) /\ new[k] = old[k - 1]
      BY <1>4, <1>5, <2>1, <2>4
    <3> QED
      BY <1>2, <3>1
  <2>5. k < Behind(old, m.prio) \/ k = Behind(old, m.prio) \/ k > Behind(old, m.prio)
    BY <1>4, <1>5
  <2> QED
    BY <2>2, <2>3, <2>4, <2>5
<1>8. last' \in [msg : Msgs \cup {NoMsg}, asked : Ids \cup {0}] /\ OwnQueue'
  BY <1>1 DEF MsgQueueInv, QueueTypeOK, OwnQueue
<1> QED
  BY <1>1, <1>5, <1>6, <1>7, <1>8, DoneKeeps DEF i

LEMMA ReceiveKeeps ==
  ASSUME MsgQueueAssumption, MsgQueueInv, NEW t \in Users, Receive(t)
  PROVE  MsgQueueInv'
<1> DEFINE old == Messages(t)
           new == Tail(old)
           i   == table[slot[t]].id
<1>1. /\ progress[t] = "check" /\ progress[t] # "idle" /\ old # <<>>
      /\ last' = [msg |-> Head(old), asked |-> call[t].qid] /\ Done(t, new)
  BY DEF Receive, Receiving
<1>2. /\ old \in Seq(Msgs) /\ Len(old) <= MAX /\ Sorted(old) /\ i = call[t].qid /\ i \in Ids
      /\ \A k \in 1 .. Len(old) : old[k].to = i
  BY <1>1, InCall
<1>3. MAX \in Nat
  BY DEF MsgQueueAssumption
<1> HIDE DEF old, i
<1>4. /\ Len(old) \in Nat \ {0} /\ Head(old) = old[1] /\ old[1] \in Msgs
      /\ new \in Seq(Msgs) /\ Len(new) = Len(old) - 1
      /\ \A k \in 1 .. Len(old) - 1 : new[k] = old[k + 1]
      /\ Sorted(new)
  BY <1>1, <1>2, TailFacts
<1> HIDE DEF new
<1>5. new \in BoundedSeq(Msgs, MAX)
  <2>1. Len(new) <= MAX
    BY <1>2, <1>3, <1>4
  <2> QED
    BY <1>3, <1>4, <2>1, Bounded
<1>6. ASSUME NEW k \in 1 .. Len(new) PROVE new[k].to = i
  <2>1. k \in 1 .. Len(old) - 1 /\ k + 1 \in 1 .. Len(old)
    BY <1>4
  <2> QED
    BY <1>2, <1>4, <2>1
<1>7. Head(old).to = i /\ Head(old) \in Msgs
  BY <1>2, <1>4
<1>8. last' \in [msg : Msgs \cup {NoMsg}, asked : Ids \cup {0}] /\ OwnQueue'
  BY <1>1, <1>2, <1>7 DEF OwnQueue
<1> QED
  BY <1>1, <1>4, <1>5, <1>6, <1>8, DoneKeeps DEF i

(* A step of a task inside its call.                                       *)
LEMMA TaskKeeps ==
  ASSUME MsgQueueAssumption, MsgQueueInv, NEW t \in Users, Step(t)
  PROVE  MsgQueueInv'
<1>1. CASE SendWaits(t)
  BY <1>1, GiveBackKeeps DEF SendWaits, Sending
<1>2. CASE Send(t)
  BY <1>2, SendKeeps
<1>3. CASE Receive(t)
  BY <1>3, ReceiveKeeps
<1>4. CASE ReceiveWaits(t)
  BY <1>4, GiveBackKeeps DEF ReceiveWaits, Receiving
<1>5. CASE ReceiveNothing(t)
  BY <1>5, GiveBackKeeps DEF ReceiveNothing, Receiving
<1>6. CASE Unlock(t)
  BY <1>6, GiveBackKeeps DEF Unlock
<1> QED
  BY <1>1, <1>2, <1>3, <1>4, <1>5, <1>6 DEF Step

LEMMA NextKeeps ==
  ASSUME MsgQueueAssumption, MsgQueueInv, [QueueNext]_queueVars
  PROVE  MsgQueueInv'
<1>1. CASE \E name \in Names : Open(name)
  BY <1>1, OpenKeeps
<1>2. CASE \E s \in Slots : Close(s)
  BY <1>2, CloseKeeps
<1>3. CASE \E t \in Users : Lock(t) \/ Step(t)
  BY <1>3, LockKeeps, TaskKeeps
<1>4. CASE \E t \in Users, c \in Calls : Call(t, c)
  BY <1>4, CallKeeps
<1>5. CASE (\E t \in Users, c \in Calls : Refused(t, c)) \/ UNCHANGED queueVars
  <2>1. /\ table' = table /\ nextId' = nextId /\ progress' = progress
        /\ call' = call /\ slot' = slot /\ last' = last
    BY <1>5 DEF Refused, queueVars
  <2> QED
    BY <2>1 DEF MsgQueueInv, QueueTypeOK, Numbered, CallsOn, Locking, Kept, OwnQueue, Messages
<1> QED
  BY <1>1, <1>2, <1>3, <1>4, <1>5 DEF QueueNext

(* Open queues have ids of their own, a call in progress holds its queue   *)
(* open, the owner of a mutex is the task that is inside, and every array  *)
(* is sorted and holds only messages for the queue of its slot.            *)
THEOREM QueueInvariant == QueueSpec => []MsgQueueInv
<1>1. QueueInit => MsgQueueInv
  BY MsgQueueAssumption, QueueBegins
<1>2. MsgQueueInv /\ [QueueNext]_queueVars => MsgQueueInv'
  BY MsgQueueAssumption, NextKeeps
<1> QED
  BY <1>1, <1>2, PTL DEF QueueSpec

(* mq_open, mq_send and mq_recv keep their tables in the bounds of         *)
(* MQ_MAX_QUEUES and MQ_MAX_MSGS: no array is ever over its limit.         *)
THEOREM QueueTypes == QueueSpec => []QueueTypeOK
<1>1. MsgQueueInv => QueueTypeOK
  BY DEF MsgQueueInv
<1> QED
  BY <1>1, QueueInvariant, PTL

(* A receiver gets only messages that were sent to the queue it asked for, *)
(* although mq_close leaves the messages in the slot and a slot passes     *)
(* from one queue to another.                                              *)
THEOREM ReceivesOwn == QueueSpec => []OwnQueue
<1>1. MsgQueueInv => OwnQueue
  BY DEF MsgQueueInv
<1> QED
  BY <1>1, QueueInvariant, PTL

-----------------------------------------------------------------------------
(* The array implements the priority queues *)

LEMMA NothingOfEmpty ==
  ASSUME MsgQueueAssumption, NEW p \in Prios
  PROVE  OfPriority(<<>>, p) = <<>>
<1>1. p \in Nat
  BY DEF MsgQueueAssumption
<1>2. <<>> \in Seq(Msgs) /\ Len(<<>>) = 0 /\ Sorted(<<>>)
  BY EmptyBounded, EmptySeq
<1>3. ASSUME NEW x \in Seq(Msgs), Len(x) = 0, Sorted(x) PROVE OfPriority(x, p) = <<>>
  <2>1. /\ Behind(x, p + 1) \in 1 .. Len(x) + 1
        /\ Behind(x, p) \in Behind(x, p + 1) .. Len(x) + 1
        /\ OfPriority(x, p) \in Seq(Msgs)
        /\ Len(OfPriority(x, p)) = Behind(x, p) - Behind(x, p + 1)
    BY <1>1, <1>3, PriorityFacts, ZenonT(30)
  <2>2. Len(OfPriority(x, p)) = 0
    BY <1>3, <2>1
  <2> QED
    BY <2>1, <2>2, EmptySeq
<1> QED
  BY <1>2, <1>3, Zenon

LEMMA FirstOfOne ==
  ASSUME NEW s \in Nat PROVE First({s}) = s
BY FirstFacts

(* What waits in an open queue is what is in its slot.                     *)
LEMMA WaitingUsed ==
  ASSUME MsgQueueAssumption, MsgQueueInv, NEW s \in Slots, table[s].used
  PROVE  /\ Found(table[s].id) = {s} /\ table[s].id \in Ids
         /\ \A p : Waiting(table[s].id, p) = OfPriority(table[s].msgs, p)
<1>1. Found(table[s].id) = {s}
  BY DEF Found, MsgQueueInv, Numbered
<1>2. s \in Nat
  BY DEF Slots, MsgQueueAssumption
<1>3. First({s}) = s /\ {s} # {}
  BY <1>2, FirstOfOne
<1>4. table[s].id \in Ids
  <2>1. table[s].id \in 1 .. nextId - 1 /\ nextId \in 1 .. MaxId + 1
    BY DEF MsgQueueInv, Numbered, QueueTypeOK
  <2>2. MaxId \in Nat
    BY DEF MsgQueueAssumption
  <2> QED
    BY <2>1, <2>2 DEF Ids
<1> QED
  BY <1>1, <1>3, <1>4 DEF Waiting

(* The boxes, when at most one of them changes.                            *)
LEMMA BoxesChange ==
  ASSUME NEW i \in Ids, NEW b,
         \A j \in Ids, p \in Prios : Waiting(j, p)' = IF j = i THEN b[p] ELSE Waiting(j, p),
         b = [p \in Prios |-> b[p]]
  PROVE  Boxes' = [Boxes EXCEPT ![i] = b]
<1>1. ASSUME NEW j \in Ids
      PROVE  [p \in Prios |-> Waiting(j, p)'] = IF j = i THEN b ELSE Boxes[j]
  <2>1. CASE j = i
    BY <2>1
  <2>2. CASE j # i
    BY <2>2 DEF Boxes
  <2> QED
    BY <2>1, <2>2
<1>2. Boxes' = [j \in Ids |-> IF j = i THEN b ELSE Boxes[j]]
  BY <1>1 DEF Boxes
<1>3. [Boxes EXCEPT ![i] = b] = [j \in Ids |-> IF j = i THEN b ELSE Boxes[j]]
  BY DEF Boxes
<1> QED
  BY <1>2, <1>3

(* A step that leaves names and messages alone.                            *)
LEMMA BoxesStay ==
  ASSUME MsgQueueAssumption,
         \A s \in Slots : /\ table'[s].used = table[s].used
                          /\ table'[s].id = table[s].id
                          /\ table'[s].msgs = table[s].msgs
  PROVE  Boxes' = Boxes
<1>1. \A i : Found(i)' = Found(i)
  BY DEF Found
<1>2. ASSUME NEW i \in Ids, NEW p \in Prios PROVE Waiting(i, p)' = Waiting(i, p)
  <2>1. CASE Found(i) = {}
    BY <1>1, <2>1 DEF Waiting
  <2>2. CASE Found(i) # {}
    <3>1. First(Found(i)) \in Slots
      BY <2>2, FoundFacts
    <3>2. table'[First(Found(i))].msgs = table[First(Found(i))].msgs
      BY <3>1
    <3>3. Waiting(i, p)' = OfPriority(table'[First(Found(i))].msgs, p)
      BY <1>1, <2>2 DEF Waiting
    <3>4. Waiting(i, p) = OfPriority(table[First(Found(i))].msgs, p)
      BY <2>2 DEF Waiting
    <3> QED
      BY <3>2, <3>3, <3>4
  <2> QED
    BY <2>1, <2>2
<1> QED
  BY <1>2 DEF Boxes

(* A step that changes the messages of an open queue and no more.          *)
LEMMA BoxChanges ==
  ASSUME MsgQueueAssumption, MsgQueueInv, NEW f \in Slots, table[f].used,
         \A s \in Slots : /\ table'[s].used = table[s].used
                          /\ table'[s].id = table[s].id
                          /\ s # f => table'[s].msgs = table[s].msgs
  PROVE  Boxes' = [Boxes EXCEPT ![table[f].id] = [p \in Prios |-> OfPriority(table'[f].msgs, p)]]
<1> DEFINE b == [p \in Prios |-> OfPriority(table'[f].msgs, p)]
<1>0. PICK i : i = table[f].id
  OBVIOUS
<1>1. \A j : Found(j)' = Found(j)
  BY DEF Found
<1>2. i \in Ids /\ Found(i) = {f}
  BY <1>0, WaitingUsed
<1>3. First({f}) = f /\ {f} # {}
  BY FirstOfOne DEF Slots, MsgQueueAssumption
<1>4. ASSUME NEW j \in Ids, NEW p \in Prios
      PROVE  Waiting(j, p)' = IF j = i THEN b[p] ELSE Waiting(j, p)
  <2>1. CASE j = i
    <3>1. Waiting(j, p)' = OfPriority(table'[f].msgs, p)
      BY <1>1, <1>2, <1>3, <2>1 DEF Waiting
    <3> QED
      BY <2>1, <3>1
  <2>2. CASE j # i /\ Found(j) = {}
    BY <1>1, <2>2 DEF Waiting
  <2>3. CASE j # i /\ Found(j) # {}
    <3>1. First(Found(j)) \in Slots /\ table[First(Found(j))].id = j
      BY <2>3, FoundFacts
    <3>2. First(Found(j)) # f
      BY <1>0, <2>3, <3>1
    <3>3. table'[First(Found(j))].msgs = table[First(Found(j))].msgs
      BY <3>1, <3>2
    <3>4. Waiting(j, p)' = OfPriority(table'[First(Found(j))].msgs, p)
      BY <1>1, <2>3 DEF Waiting
    <3>5. Waiting(j, p) = OfPriority(table[First(Found(j))].msgs, p)
      BY <2>3 DEF Waiting
    <3> QED
      BY <2>3, <3>3, <3>4, <3>5
  <2> QED
    BY <2>1, <2>2, <2>3
<1>5. PICK c : c = b
  OBVIOUS
<1>6. c = [p \in Prios |-> c[p]]
  BY <1>5
<1>7. Boxes' = [Boxes EXCEPT ![i] = c]
  BY <1>2, <1>4, <1>5, <1>6, BoxesChange
<1> QED
  BY <1>0, <1>5, <1>7

LEMMA BoxIs ==
  ASSUME MsgQueueAssumption, MsgQueueInv, NEW s \in Slots, table[s].used
  PROVE  /\ table[s].id \in Ids
         /\ Boxes[table[s].id] = [p \in Prios |-> OfPriority(table[s].msgs, p)]
<1>1. /\ table[s].id \in Ids
      /\ \A p : Waiting(table[s].id, p) = OfPriority(table[s].msgs, p)
  BY WaitingUsed
<1> QED
  BY <1>1 DEF Boxes

(* The queue mq_open makes is one nobody has seen, and empty.              *)
LEMMA OpenMaps ==
  ASSUME MsgQueueAssumption, MsgQueueInv, NEW name \in Names, Open(name)
  PROVE  Boxes' = Boxes /\ last' = last
<1> DEFINE free == {s \in Slots : ~table[s].used}
           f    == First(free)
<1>0. PICK n : n = nextId
  OBVIOUS
<1> DEFINE q == [used |-> TRUE, name |-> name, id |-> n, msgs |-> <<>>, lock |-> Unlocked]
<1>1. /\ nextId <= MaxId /\ free # {} /\ table' = [table EXCEPT ![f] = q] /\ last' = last
  BY <1>0 DEF Open
<1>2. f \in Slots /\ ~table[f].used
  <2>1. free \subseteq Nat
    BY DEF Slots, MsgQueueAssumption
  <2>2. f \in free
    BY <1>1, <2>1, FirstFacts
  <2> QED
    BY <2>2
<1>3. table \in [Slots -> Queue] /\ nextId \in 1 .. MaxId + 1 /\ MaxId \in Nat
  BY DEF MsgQueueInv, QueueTypeOK, MsgQueueAssumption
<1> HIDE DEF free
<1>a. PICK g : g = f
  OBVIOUS
<1> HIDE DEF f
<1>4. Found(n) = {}
  <2>1. \A s \in Slots : table[s].used => table[s].id \in 1 .. nextId - 1
    BY DEF MsgQueueInv, Numbered
  <2>2. \A s \in Slots : table[s].used => table[s].id # n
    BY <1>0, <1>3, <2>1
  <2> QED
    BY <2>2 DEF Found
<1>5. \A s \in Slots : table'[s] = IF s = g THEN q ELSE table[s]
  BY <1>1, <1>2, <1>3, <1>a
<1>6. q.used /\ q.id = n /\ q.msgs = <<>>
  OBVIOUS
<1> HIDE DEF q
<1>7. Found(n)' = {g}
  <2>1. \A s \in Slots : s # g => ~(table'[s].used /\ table'[s].id = n)
    BY <1>4, <1>5 DEF Found
  <2>2. table'[g].used /\ table'[g].id = n /\ g \in Slots
    BY <1>2, <1>5, <1>6, <1>a
  <2> QED
    BY <2>1, <2>2 DEF Found
<1>8. \A j : j # n => Found(j)' = Found(j)
  BY <1>2, <1>5, <1>6, <1>a DEF Found
<1>9. ASSUME NEW j \in Ids, NEW p \in Prios PROVE Waiting(j, p)' = Waiting(j, p)
  <2>1. CASE j = n
    <3>1. First({g}) = g /\ {g} # {}
      BY <1>2, <1>a, FirstOfOne DEF Slots, MsgQueueAssumption
    <3>2. Waiting(j, p)' = OfPriority(table'[g].msgs, p)
      BY <1>7, <2>1, <3>1 DEF Waiting
    <3>3. table'[g].msgs = <<>>
      BY <1>2, <1>5, <1>6, <1>a
    <3>4. Waiting(j, p)' = <<>>
      BY <3>2, <3>3, NothingOfEmpty
    <3> QED
      BY <1>4, <2>1, <3>4 DEF Waiting
  <2>2. CASE j # n /\ Found(j) = {}
    BY <1>8, <2>2 DEF Waiting
  <2>3. CASE j # n /\ Found(j) # {}
    <3>1. First(Found(j)) \in Slots /\ table[First(Found(j))].used
      BY <2>3, FoundFacts
    <3>2. First(Found(j)) # g
      BY <1>2, <1>a, <3>1
    <3>3. table'[First(Found(j))].msgs = table[First(Found(j))].msgs
      BY <1>5, <3>1, <3>2
    <3>4. Waiting(j, p)' = OfPriority(table'[First(Found(j))].msgs, p)
      BY <1>8, <2>3 DEF Waiting
    <3>5. Waiting(j, p) = OfPriority(table[First(Found(j))].msgs, p)
      BY <2>3 DEF Waiting
    <3> QED
      BY <3>3, <3>4, <3>5
  <2> QED
    BY <2>1, <2>2, <2>3
<1> QED
  BY <1>1, <1>9 DEF Boxes

(* mq_close takes what waits away from its id, whatever stays in the slot. *)
LEMMA CloseMaps ==
  ASSUME MsgQueueAssumption, MsgQueueInv, NEW s \in Slots, Close(s)
  PROVE  \E i \in Ids : Abstract!Close(i)
<1>0. PICK i : i = table[s].id
  OBVIOUS
<1>1. /\ table[s].used /\ last' = last
      /\ table' = [table EXCEPT ![s] = [table[s] EXCEPT !.used = FALSE]]
  BY DEF Close
<1>2. table \in [Slots -> Queue] /\ table[s] \in Queue
  BY DEF MsgQueueInv, QueueTypeOK
<1>3. i \in Ids /\ Found(i) = {s}
  BY <1>0, <1>1, WaitingUsed
<1>4. /\ ~table'[s].used
      /\ \A r \in Slots : r # s => table'[r] = table[r]
  BY <1>1, <1>2 DEF Queue
<1>5. Found(i)' = {}
  BY <1>3, <1>4 DEF Found
<1>6. \A j : j # i => Found(j)' = Found(j)
  <2> SUFFICES ASSUME NEW j, j # i, NEW r \in Slots
               PROVE  table'[r].used /\ table'[r].id = j <=> table[r].used /\ table[r].id = j
    BY DEF Found
  <2>1. CASE r = s
    BY <1>0, <1>4, <2>1
  <2>2. CASE r # s
    BY <1>4, <2>2
  <2> QED
    BY <2>1, <2>2
<1>7. ASSUME NEW j \in Ids, NEW p \in Prios
      PROVE  Waiting(j, p)' = IF j = i THEN Abstract!Empty[p] ELSE Waiting(j, p)
  <2>1. CASE j = i
    BY <1>5, <2>1 DEF Waiting, Abstract!Empty
  <2>2. CASE j # i /\ Found(j) = {}
    BY <1>6, <2>2 DEF Waiting
  <2>3. CASE j # i /\ Found(j) # {}
    <3>1. First(Found(j)) \in Slots /\ table[First(Found(j))].id = j
      BY <2>3, FoundFacts
    <3>2. First(Found(j)) # s
      BY <1>0, <2>3, <3>1
    <3>3. table'[First(Found(j))].msgs = table[First(Found(j))].msgs
      BY <1>4, <3>1, <3>2
    <3>4. Waiting(j, p)' = OfPriority(table'[First(Found(j))].msgs, p)
      BY <1>6, <2>3 DEF Waiting
    <3>5. Waiting(j, p) = OfPriority(table[First(Found(j))].msgs, p)
      BY <2>3 DEF Waiting
    <3> QED
      BY <2>3, <3>3, <3>4, <3>5
  <2> QED
    BY <2>1, <2>2, <2>3
<1>8. PICK c : c = Abstract!Empty
  OBVIOUS
<1>9. c = [p \in Prios |-> c[p]]
  BY <1>8 DEF Abstract!Empty
<1>10. Boxes' = [Boxes EXCEPT ![i] = c]
  BY <1>3, <1>7, <1>8, <1>9, BoxesChange
<1> QED
  BY <1>1, <1>3, <1>8, <1>10 DEF Abstract!Close

(* Shifting the messages down is appending to those of the priority.       *)
LEMMA SendMaps ==
  ASSUME MsgQueueAssumption, MsgQueueInv, NEW t \in Users, Send(t)
  PROVE  \E i \in Ids, m \in Msgs : Abstract!Send(i, m)
<1>0. PICK f, i, m, old : f = slot[t] /\ i = table[f].id /\ m = Sent(t) /\ old = Messages(t)
  OBVIOUS
<1>1. /\ progress[t] # "idle" /\ Len(old) < MAX /\ m \in Msgs /\ last' = last
      /\ Done(t, Inserted(old, m))
  BY <1>0, SendFacts
<1>2. /\ f \in Slots /\ table[f] \in Queue /\ old = table[f].msgs /\ old \in Seq(Msgs) /\ Sorted(old)
  BY <1>0, <1>1, InCall
<1>3. table[f].used /\ table \in [Slots -> Queue]
  BY <1>0, <1>1 DEF MsgQueueInv, CallsOn, QueueTypeOK
<1>4. table' = [table EXCEPT ![f] = [table[f] EXCEPT !.msgs = Inserted(old, m)]]
  BY <1>0, <1>1 DEF Done
<1>5. /\ table'[f] = [table[f] EXCEPT !.msgs = Inserted(old, m)]
      /\ \A s \in Slots : s # f => table'[s] = table[s]
  BY <1>2, <1>3, <1>4
<1>6. /\ table'[f].msgs = Inserted(old, m)
      /\ table'[f].id = table[f].id /\ table'[f].used = table[f].used
  BY <1>2, <1>5 DEF Queue
<1>7. \A s \in Slots : /\ table'[s].used = table[s].used
                       /\ table'[s].id = table[s].id
                       /\ s # f => table'[s].msgs = table[s].msgs
  BY <1>5, <1>6
<1>8. i \in Ids /\ Boxes[i] = [p \in Prios |-> OfPriority(old, p)]
  BY <1>0, <1>2, <1>3, BoxIs
<1>9. Boxes' = [Boxes EXCEPT ![i] = [p \in Prios |-> OfPriority(Inserted(old, m), p)]]
  <2>1. Boxes' = [Boxes EXCEPT ![table[f].id] = [p \in Prios |-> OfPriority(table'[f].msgs, p)]]
    BY <1>2, <1>3, <1>7, BoxChanges
  <2> QED
    BY <1>0, <1>6, <2>1, Zenon
<1>10. m.prio \in Prios /\ Prios \subseteq Nat
  BY <1>1 DEF Msgs, MsgQueueAssumption
<1>11. [p \in Prios |-> OfPriority(Inserted(old, m), p)]
         = [Boxes[i] EXCEPT ![m.prio] = Append(@, m)]
  <2>1. \A p \in Prios : OfPriority(Inserted(old, m), p) =
          IF p = m.prio THEN Append(OfPriority(old, p), m) ELSE OfPriority(old, p)
    BY <1>1, <1>2, <1>10, PriorityInserted
  <2> QED
    BY <1>8, <1>10, <2>1
<1>12. Boxes' = [Boxes EXCEPT ![i] = [Boxes[i] EXCEPT ![m.prio] = Append(@, m)]]
  BY <1>9, <1>11
<1>13. Abstract!Size(Boxes[i]) < MAX
  <2>1. /\ Abstract!Size([p \in Prios |-> OfPriority(old, p)]) \in Nat
        /\ Abstract!Size([p \in Prios |-> OfPriority(old, p)]) <= Len(old)
    BY <1>2, PlacesOfAll
  <2>2. Len(old) \in Nat /\ MAX \in Nat
    BY <1>2, LenProperties DEF MsgQueueAssumption
  <2>3. Abstract!Size(Boxes[i]) \in Nat /\ Abstract!Size(Boxes[i]) <= Len(old)
    BY <1>8, <2>1
  <2> QED
    BY <1>1, <2>2, <2>3
<1>14. Boxes' = [Boxes EXCEPT ![i][m.prio] = Append(@, m)]
  BY <1>12
<1> QED
  BY <1>1, <1>8, <1>13, <1>14 DEF Abstract!Send

(* The head of the array is the first of the highest priority there is.    *)
LEMMA ReceiveMaps ==
  ASSUME MsgQueueAssumption, MsgQueueInv, NEW t \in Users, Receive(t)
  PROVE  \E i \in Ids, p \in Prios : Abstract!Receive(i, p)
<1>0. PICK f, i, old : f = slot[t] /\ i = table[f].id /\ old = Messages(t)
  OBVIOUS
<1>1. /\ progress[t] # "idle" /\ old # <<>> /\ last'.msg = Head(old)
      /\ Done(t, Tail(old))
  BY <1>0 DEF Receive, Receiving
<1>2. /\ f \in Slots /\ table[f] \in Queue /\ old = table[f].msgs /\ old \in Seq(Msgs) /\ Sorted(old)
  BY <1>0, <1>1, InCall
<1>3. table[f].used /\ table \in [Slots -> Queue]
  BY <1>0, <1>1 DEF MsgQueueInv, CallsOn, QueueTypeOK
<1>4. table' = [table EXCEPT ![f] = [table[f] EXCEPT !.msgs = Tail(old)]]
  BY <1>0, <1>1 DEF Done
<1>5. /\ table'[f] = [table[f] EXCEPT !.msgs = Tail(old)]
      /\ \A s \in Slots : s # f => table'[s] = table[s]
  BY <1>2, <1>3, <1>4
<1>6. /\ table'[f].msgs = Tail(old)
      /\ table'[f].id = table[f].id /\ table'[f].used = table[f].used
  BY <1>2, <1>5 DEF Queue
<1>7. \A s \in Slots : /\ table'[s].used = table[s].used
                       /\ table'[s].id = table[s].id
                       /\ s # f => table'[s].msgs = table[s].msgs
  BY <1>5, <1>6
<1>8. i \in Ids /\ Boxes[i] = [p \in Prios |-> OfPriority(old, p)]
  BY <1>0, <1>2, <1>3, BoxIs
<1>9. Boxes' = [Boxes EXCEPT ![i] = [p \in Prios |-> OfPriority(Tail(old), p)]]
  <2>1. Boxes' = [Boxes EXCEPT ![table[f].id] = [p \in Prios |-> OfPriority(table'[f].msgs, p)]]
    BY <1>2, <1>3, <1>7, BoxChanges
  <2> QED
    BY <1>0, <1>6, <2>1, Zenon
<1>10. PICK q : q = Head(old).prio
  OBVIOUS
<1>11. q \in Prios /\ Prios \subseteq Nat
  <2>1. Head(old) \in Msgs
    BY <1>1, <1>2, TailFacts
  <2> QED
    BY <1>10, <2>1 DEF Msgs, MsgQueueAssumption
<1>12. \A p \in Prios :
         /\ p > q => OfPriority(old, p) = <<>>
         /\ p = q => OfPriority(old, p) # <<>> /\ Head(OfPriority(old, p)) = Head(old)
         /\ OfPriority(Tail(old), p) =
              IF p = q THEN Tail(OfPriority(old, p)) ELSE OfPriority(old, p)
  BY <1>1, <1>2, <1>10, <1>11, PriorityTail
<1>13. [p \in Prios |-> OfPriority(Tail(old), p)] = [Boxes[i] EXCEPT ![q] = Tail(@)]
  BY <1>8, <1>11, <1>12
<1>14. Boxes' = [Boxes EXCEPT ![i] = [Boxes[i] EXCEPT ![q] = Tail(@)]]
  BY <1>9, <1>13
<1>15. Boxes' = [Boxes EXCEPT ![i][q] = Tail(@)]
  BY <1>14
<1>16. /\ Boxes[i][q] # <<>> /\ last'.msg = Head(Boxes[i][q])
       /\ \A p \in Prios : p > q => Boxes[i][p] = <<>>
  BY <1>1, <1>8, <1>11, <1>12
<1> QED
  BY <1>8, <1>11, <1>15, <1>16 DEF Abstract!Receive

(* Taking and leaving the mutex is no step of the queues; a receiver that  *)
(* has left has forgotten what it took.                                    *)
LEMMA LockMaps ==
  ASSUME MsgQueueAssumption, MsgQueueInv, NEW t \in Users, NEW l,
         table' = [table EXCEPT ![slot[t]].lock = l]
  PROVE  Boxes' = Boxes
<1>1. table \in [Slots -> Queue] /\ slot[t] \in Slots
  BY DEF MsgQueueInv, QueueTypeOK
<1>2. ASSUME NEW s \in Slots
      PROVE  /\ table'[s].used = table[s].used
             /\ table'[s].id = table[s].id
             /\ table'[s].msgs = table[s].msgs
  <2>1. table[s] \in Queue
    BY <1>1
  <2>2. CASE s = slot[t]
    <3>1. table'[s] = [table[s] EXCEPT !.lock = l]
      BY <1>1, <2>2
    <3> QED
      BY <2>1, <3>1, ZenonT(30) DEF Queue
  <2>3. CASE s # slot[t]
    BY <1>1, <2>3
  <2> QED
    BY <2>2, <2>3
<1> QED
  BY <1>2, BoxesStay

LEMMA GiveBackMaps ==
  ASSUME MsgQueueAssumption, MsgQueueInv, NEW t \in Users, NEW place, GiveBack(t, place)
  PROVE  Abstract!Forget
<1>1. PICK l : l = Released(table[slot[t]].lock)
  OBVIOUS
<1>2. table' = [table EXCEPT ![slot[t]].lock = l] /\ last' = Nothing
  BY <1>1 DEF GiveBack
<1>3. Boxes' = Boxes
  BY <1>2, LockMaps
<1> QED
  BY <1>2, <1>3 DEF Abstract!Forget, Nothing

LEMMA NextMaps ==
  ASSUME MsgQueueAssumption, MsgQueueInv, [QueueNext]_queueVars
  PROVE  Abstract!Next \/ (Boxes' = Boxes /\ last'.msg = last.msg)
<1>1. CASE \E name \in Names : Open(name)
  BY <1>1, OpenMaps
<1>2. CASE \E s \in Slots : Close(s)
  BY <1>2, CloseMaps DEF Abstract!Next
<1>3. ASSUME NEW t \in Users, Lock(t) PROVE Boxes' = Boxes /\ last'.msg = last.msg
  <2>1. PICK l : l = Locked(table[slot[t]].lock, t)
    OBVIOUS
  <2>2. table' = [table EXCEPT ![slot[t]].lock = l] /\ last' = last
    BY <1>3, <2>1 DEF Lock
  <2> QED
    BY <2>2, LockMaps
<1>4. ASSUME NEW t \in Users, Step(t) PROVE Abstract!Next
  <2>1. CASE Send(t)
    BY <2>1, SendMaps DEF Abstract!Next
  <2>2. CASE Receive(t)
    BY <2>2, ReceiveMaps DEF Abstract!Next
  <2>3. CASE SendWaits(t) \/ ReceiveWaits(t) \/ ReceiveNothing(t) \/ Unlock(t)
    <3>1. \E place : GiveBack(t, place)
      BY <2>3 DEF SendWaits, ReceiveWaits, ReceiveNothing, Unlock
    <3> QED
      BY <3>1, GiveBackMaps DEF Abstract!Next
  <2> QED
    BY <1>4, <2>1, <2>2, <2>3 DEF Step
<1>5. CASE \E t \in Users, c \in Calls : Refused(t, c) \/ Call(t, c)
  <2>1. table' = table /\ last' = last
    BY <1>5 DEF Refused, Call, queueVars
  <2> QED
    BY <2>1, BoxesStay
<1>6. CASE UNCHANGED queueVars
  <2>1. table' = table /\ last' = last
    BY <1>6 DEF queueVars
  <2> QED
    BY <2>1, BoxesStay
<1> QED
  BY <1>1, <1>2, <1>3, <1>4, <1>5, <1>6 DEF QueueNext

(* msgqueue.h promises "ordered by priority (highest first), then FIFO     *)
(* within the same priority": the array that mq_send keeps sorted and      *)
(* mq_recv takes the head of is that queue, for any number of tasks,       *)
(* queues, messages and priorities.                                        *)
THEOREM QueuesByPriority == QueueSpec => ImplementsQueues
<1>1. QueueInit => Abstract!Init
  <2> SUFFICES ASSUME QueueInit PROVE Abstract!Init
    OBVIOUS
  <2>1. \A i : Found(i) = {}
    BY DEF QueueInit, Free, Found
  <2>2. \A i, p : Waiting(i, p) = <<>>
    BY <2>1 DEF Waiting
  <2>3. Boxes = [i \in Ids |-> Abstract!Empty]
    BY <2>2 DEF Boxes, Abstract!Empty
  <2> QED
    BY <2>3 DEF Abstract!Init, QueueInit, Nothing
<1>2. MsgQueueInv /\ [QueueNext]_queueVars => [Abstract!Next]_<<Boxes, last.msg>>
  <2> SUFFICES ASSUME MsgQueueInv, [QueueNext]_queueVars PROVE [Abstract!Next]_<<Boxes, last.msg>>
    OBVIOUS
  <2>1. Abstract!Next \/ (Boxes' = Boxes /\ last'.msg = last.msg)
    BY MsgQueueAssumption, NextMaps
  <2> QED
    BY <2>1
<1> QED
  BY <1>1, <1>2, QueueInvariant, PTL DEF QueueSpec, ImplementsQueues, Abstract!Spec

=============================================================================
