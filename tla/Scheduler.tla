----------------------------- MODULE Scheduler -----------------------------
(***************************************************************************)
(* The priority scheduler of src/kernal/sched/scheduler.c: the task table, *)
(* the 256-bit ready bitmap, the timer handler (which is also what         *)
(* task_yield enters, by INT 0x20), sleeping, exiting, aging and reaping.  *)
(*                                                                         *)
(* A step is one call of the running task or one interrupt.  The handler   *)
(* runs with interrupts off, and so do the bodies of task_sleep, task_exit,*)
(* task_wake and task_set_priority (irq_save); the INT 0x20 that ends the  *)
(* first two is a step of its own, and a timer interrupt may come first.   *)
(*                                                                         *)
(* Data kept relative, so that nothing needs a bound: "clock" is uptime_ms *)
(* modulo AGE_PERIOD, "sleepLeft" is sleep_until_ms - uptime_ms.  Both are *)
(* exact as long as uptime_ms has not wrapped at 2^32 (49.7 days).         *)
(***************************************************************************)
EXTENDS Integers

CONSTANTS
  NTasks,       \* SCHED_MAX_TASKS: slots of the task table, slot 0 is idle's
  RT,           \* TASK_PRIO_RT, 255: the highest priority, and bitmap_top()'s "empty"
  CreatePrios,  \* the priorities task_create_prio and task_set_priority are given
  QUANTUM,      \* SCHED_QUANTUM_TICKS
  AGE_PERIOD,   \* the "every 50 ms" of the timer handler
  AGING,        \* AGING_THRESHOLD
  REAP,         \* ZOMBIE_REAP_TICKS
  MaxSleep      \* the longest task_sleep

ASSUME SchedulerAssumption ==
  /\ NTasks \in Nat \ {0}
  /\ RT \in Nat /\ RT > 1
  /\ CreatePrios \subseteq 0 .. RT
  /\ QUANTUM \in Nat \ {0}
  /\ AGE_PERIOD \in Nat \ {0}
  /\ \E k \in 1 .. AGE_PERIOD : AGE_PERIOD = QUANTUM * k  \* 50 is a multiple of 10
  /\ AGING \in Nat \ {0}
  /\ REAP \in Nat \ {0}
  /\ MaxSleep \in Nat \ {0}

Tasks  == 0 .. NTasks - 1
Prio   == 0 .. RT
States == {"UNUSED", "READY", "RUNNING", "ZOMBIE", "SLEEPING"}

VARIABLES
  state,      \* task_t.state
  priority,   \* task_t.priority
  base,       \* task_t.base_priority
  run,        \* task_t.run_ticks
  wait,       \* task_t.wait_ticks, counted up to AGING
  zombie,     \* task_t.zombie_ticks
  sleepLeft,  \* task_t.sleep_until_ms - uptime_ms while it sleeps
  bitmap,     \* prio_bitmap, as the set of the bits that are set
  current,    \* current_task
  clock,      \* uptime_ms % AGE_PERIOD
  fresh,      \* the slots whose context still starts at the task's function
  pc,         \* where the slot's code is: see below
  sti,        \* cmain has enabled interrupts
  inService   \* IRQ0 was taken and no EOI has been sent for it

tcb  == <<state, priority, base, run, wait, zombie, sleepLeft, fresh, pc>>
vars == <<tcb, bitmap, current, clock, sti, inService>>

(* "run": the task's own code.  "yield", "exitYield": task_sleep or        *)
(* task_exit before its INT 0x20.  "halt": the hlt loop after task_exit.   *)
Places == {"run", "yield", "exitYield", "halt"}

TypeOK ==
  /\ state \in [Tasks -> States]
  /\ priority \in [Tasks -> Prio]
  /\ base \in [Tasks -> Prio]
  /\ run \in [Tasks -> 0 .. QUANTUM - 1]
  /\ wait \in [Tasks -> 0 .. AGING]
  /\ zombie \in [Tasks -> 0 .. REAP]
  /\ \A t \in Tasks : state[t] = "ZOMBIE" => zombie[t] < REAP
  /\ sleepLeft \in [Tasks -> 0 .. MaxSleep]
  /\ bitmap \subseteq Prio
  /\ current \in Tasks
  /\ clock \in 0 .. AGE_PERIOD - 1
  /\ fresh \subseteq Tasks
  /\ pc \in [Tasks -> Places]
  /\ sti \in BOOLEAN
  /\ inService \in BOOLEAN

(* sched_init: the idle task takes slot 0 and is the running task; its     *)
(* context is that of cmain, which calls sched_init and later the desktop. *)
Init ==
  /\ state = [t \in Tasks |-> IF t = 0 THEN "RUNNING" ELSE "UNUSED"]
  /\ priority = [t \in Tasks |-> 0]
  /\ base = [t \in Tasks |-> 0]
  /\ run = [t \in Tasks |-> 0]
  /\ wait = [t \in Tasks |-> 0]
  /\ zombie = [t \in Tasks |-> 0]
  /\ sleepLeft = [t \in Tasks |-> 0]
  /\ bitmap = {}
  /\ current = 0
  /\ clock = 0
  /\ fresh = {}
  /\ pc = [t \in Tasks |-> "run"]
  /\ sti = FALSE
  /\ inService = FALSE

-----------------------------------------------------------------------------
(* The bitmap and the choice of the next task *)

(* bitmap_top: 0xFF when no bit is set, which is RT's own number.          *)
Top(bits) ==
  IF bits = {} THEN RT ELSE CHOOSE p \in bits : \A q \in bits : q <= p

(* Round robin: how far after the running task's slot a slot is looked at. *)
Distance(t) == (t - current - 1) % NTasks

(* Mutant: "empty" told apart from the priority RT.                        *)
PickNextEmptyTest(st, pri, bits) ==
  LET best == {t \in Tasks : st[t] = "READY" /\ bits # {} /\ pri[t] = Top(bits)}
  IN  {t \in best : \A u \in best : Distance(t) <= Distance(u)}

(* sched_pick_next: the tasks it returns, none when it returns NULL.       *)
PickNext(st, pri, bits) ==
  LET top  == Top(bits)
      best == {t \in Tasks : st[t] = "READY" /\ pri[t] = top}
  IN  IF top = RT THEN {}
      ELSE {t \in best : \A u \in best : Distance(t) <= Distance(u)}

(* The bits after age_tasks has promoted "aged", in slot order: each       *)
(* promotion clears the bit of its old priority, whoever shares it, and    *)
(* sets the next one, so the last slot to touch a bit decides it.          *)
AgedBits(aged, pri, bits) ==
  LET Touching(p) == {t \in aged : pri[t] = p \/ pri[t] + 1 = p}
      Last(S)     == CHOOSE t \in S : \A u \in S : u <= t
  IN  {p \in Prio : IF Touching(p) = {} THEN p \in bits
                    ELSE pri[Last(Touching(p))] + 1 = p}

(* Mutant: the promotion without its limit.                                *)
AgeWithoutLimit(st, pri, w, bits) ==
  LET ready == {t \in Tasks : st[t] = "READY"}
      aged  == {t \in ready : w[t] + 1 >= AGING}
  IN  /\ wait' = [t \in Tasks |-> IF t \in aged THEN 0 ELSE IF t \in ready THEN w[t] + 1 ELSE w[t]]
      /\ priority' = [t \in Tasks |-> IF t \in aged THEN pri[t] + 1 ELSE pri[t]]
      /\ bitmap' = AgedBits(aged, pri, bits)
      /\ state' = st
      /\ UNCHANGED zombie

(* age_tasks(); reap_zombies();  UNUSED stands for the freed stack too.    *)
AgeAndReap(st, pri, w, bits) ==
  LET ready  == {t \in Tasks : st[t] = "READY"}
      aged   == {t \in ready : w[t] + 1 >= AGING /\ pri[t] < RT - 1}
      dead   == {t \in Tasks : st[t] = "ZOMBIE"}
      reaped == {t \in dead : zombie[t] + 1 >= REAP}
  IN  /\ wait' = [t \in Tasks |-> IF t \in aged THEN 0
                                  ELSE IF t \in ready /\ w[t] < AGING THEN w[t] + 1
                                  ELSE w[t]]
      /\ priority' = [t \in Tasks |-> IF t \in aged THEN pri[t] + 1 ELSE pri[t]]
      /\ bitmap' = AgedBits(aged, pri, bits)
      /\ zombie' = [t \in Tasks |-> IF t \in dead THEN zombie[t] + 1 ELSE zombie[t]]
      /\ state' = [t \in Tasks |-> IF t \in reaped THEN "UNUSED" ELSE st[t]]

LeaveAged(st, pri, w, bits) ==
  /\ state' = st /\ priority' = pri /\ wait' = w /\ bitmap' = bits
  /\ UNCHANGED zombie

-----------------------------------------------------------------------------
(* The timer handler *)

Tick(c) == (c + 1) % AGE_PERIOD

(* wake_sleepers, with uptime_ms already incremented.                      *)
Woken      == {t \in Tasks : state[t] = "SLEEPING" /\ sleepLeft[t] <= 1}
AwakeState == [t \in Tasks |-> IF t \in Woken THEN "READY" ELSE state[t]]
AwakeBits  == bitmap \cup {priority[t] : t \in Woken}

QuantumOver == run[current] + 1 >= QUANTUM

(* Mutant: age and reap on every tick.                                     *)
AgeEveryTick ==
  /\ ~QuantumOver
  /\ run' = [run EXCEPT ![current] = @ + 1]
  /\ AgeAndReap(AwakeState, priority, wait, AwakeBits)
  /\ inService' = FALSE
  /\ UNCHANGED <<current, fresh>>

(* The slice is not used up: age and reap on a multiple of 50 ms, return.  *)
StayInQuantum ==
  /\ ~QuantumOver
  /\ run' = [run EXCEPT ![current] = @ + 1]
  /\ IF Tick(clock) = 0 THEN AgeAndReap(AwakeState, priority, wait, AwakeBits)
                        ELSE LeaveAged(AwakeState, priority, wait, AwakeBits)
  /\ inService' = FALSE
  /\ UNCHANGED <<current, fresh>>

(* mlfq_demote(current), then READY if it was RUNNING.                     *)
Demotes == priority[current] > 1 /\ base[current] < RT

(* Mutant: the preempted task is not put back to READY.                    *)
RequeueRunning ==
  LET p == IF Demotes THEN priority[current] - 1 ELSE priority[current]
  IN  [st   |-> AwakeState,
       pri  |-> [priority EXCEPT ![current] = p],
       bits |-> AwakeBits \cup {p}]

Requeue ==
  LET p    == IF Demotes THEN priority[current] - 1 ELSE priority[current]
      kept == IF Demotes THEN AwakeBits \ {priority[current]} ELSE AwakeBits
      st   == AwakeState[current]
      bits == IF st = "RUNNING" \/ (Demotes /\ st = "READY") THEN kept \cup {p} ELSE kept
  IN  [st   |-> IF st = "RUNNING" THEN [AwakeState EXCEPT ![current] = "READY"] ELSE AwakeState,
       pri  |-> [priority EXCEPT ![current] = p],
       bits |-> bits]

(* Mutant: the slice counter is reset only when the processor changes hands. *)
KeepCurrentNoReset ==
  LET q == Requeue
  IN  /\ QuantumOver
      /\ PickNext(q.st, q.pri, q.bits) \subseteq {current}
      /\ LeaveAged([q.st EXCEPT ![current] = "RUNNING"], q.pri, wait,
                   q.bits \ {q.pri[current]})
      /\ inService' = FALSE
      /\ UNCHANGED <<run, current, fresh>>

(* No other task: the running task keeps the processor, whatever it was.   *)
KeepCurrent ==
  LET q == Requeue
  IN  /\ QuantumOver
      /\ PickNext(q.st, q.pri, q.bits) \subseteq {current}
      /\ run' = [run EXCEPT ![current] = 0]
      /\ LeaveAged([q.st EXCEPT ![current] = "RUNNING"], q.pri, wait,
                   q.bits \ {q.pri[current]})
      /\ inService' = FALSE
      /\ UNCHANGED <<current, fresh>>

(* The switch.  A task that was switched out before returns here, out of   *)
(* its own sched_switch_context: it ages and reaps if the clock says so,   *)
(* and leaves the interrupt through the EOI.  A fresh task starts in its   *)
(* function: neither happens.                                              *)
SwitchTo(next, hardware) ==
  LET q    == Requeue
      st   == [q.st EXCEPT ![next] = "RUNNING"]
      w    == [wait EXCEPT ![next] = 0]
      bits == q.bits \ {q.pri[next]}
  IN  /\ QuantumOver
      /\ next # current
      /\ next \in PickNext(q.st, q.pri, q.bits)
      /\ run' = [run EXCEPT ![current] = 0]
      /\ current' = next
      /\ fresh' = fresh \ {next}
      /\ IF next \notin fresh /\ Tick(clock) = 0
         THEN AgeAndReap(st, q.pri, w, bits)
         ELSE LeaveAged(st, q.pri, w, bits)
      /\ inService' = (next \in fresh /\ (inService \/ hardware))

(* timer_handler, called by isr_dispatch, which then sends the EOI.        *)
TimerHandler(hardware) ==
  /\ clock' = Tick(clock)
  /\ sleepLeft' = [t \in Tasks |-> IF sleepLeft[t] > 0 THEN sleepLeft[t] - 1 ELSE 0]
  /\ \/ StayInQuantum
     \/ KeepCurrent
     \/ \E next \in Tasks : SwitchTo(next, hardware)
  /\ UNCHANGED <<base, sti>>

-----------------------------------------------------------------------------
(* Interrupts and the calls of the running task *)

TimerInterrupt ==
  /\ sti
  /\ ~inService
  /\ TimerHandler(TRUE)
  /\ UNCHANGED pc

Yield ==
  /\ sti
  /\ pc[current] # "halt"
  /\ TimerHandler(FALSE)
  /\ pc' = [pc EXCEPT ![current] = IF @ = "exitYield" THEN "halt" ELSE "run"]

(* task_create_prio (alloc_task): the first unused slot.  Every caller in  *)
(* the tree is cmain, before it enables interrupts.                        *)
Create(p) ==
  /\ ~sti
  /\ \E t \in Tasks :
       /\ state[t] = "UNUSED"
       /\ \A u \in 0 .. t - 1 : state[u] # "UNUSED"
       /\ state' = [state EXCEPT ![t] = "READY"]
       /\ priority' = [priority EXCEPT ![t] = p]
       /\ base' = [base EXCEPT ![t] = p]
       /\ fresh' = fresh \cup {t}
  /\ bitmap' = bitmap \cup {p}
  /\ UNCHANGED <<run, wait, zombie, sleepLeft, pc, current, clock, sti, inService>>

EnableInterrupts ==
  /\ ~sti
  /\ sti' = TRUE
  /\ UNCHANGED <<tcb, bitmap, current, clock, inService>>

Sleep(ms) ==
  /\ sti
  /\ pc[current] = "run"
  /\ sleepLeft' = [sleepLeft EXCEPT ![current] = ms]
  /\ state' = [state EXCEPT ![current] = "SLEEPING"]
  /\ bitmap' = bitmap \ {priority[current]}
  /\ pc' = [pc EXCEPT ![current] = "yield"]
  /\ UNCHANGED <<priority, base, run, wait, zombie, fresh, current, clock, sti, inService>>

(* Mutant: task_exit halts without entering the handler.                   *)
ExitWithoutYield ==
  /\ sti
  /\ pc[current] = "run"
  /\ current # 0
  /\ state' = [state EXCEPT ![current] = "ZOMBIE"]
  /\ zombie' = [zombie EXCEPT ![current] = 0]
  /\ pc' = [pc EXCEPT ![current] = "halt"]
  /\ UNCHANGED <<priority, base, run, wait, sleepLeft, fresh, bitmap, current, clock, sti,
                 inService>>

(* cmain, the code of slot 0, never exits.                                 *)
Exit ==
  /\ sti
  /\ pc[current] = "run"
  /\ current # 0
  /\ state' = [state EXCEPT ![current] = "ZOMBIE"]
  /\ zombie' = [zombie EXCEPT ![current] = 0]
  /\ pc' = [pc EXCEPT ![current] = "exitYield"]
  /\ UNCHANGED <<priority, base, run, wait, sleepLeft, fresh, bitmap, current, clock, sti,
                 inService>>

SetPriority(t, p) ==
  /\ sti
  /\ pc[current] = "run"
  /\ state[t] # "UNUSED"
  /\ priority' = [priority EXCEPT ![t] = p]
  /\ base' = [base EXCEPT ![t] = p]
  /\ bitmap' = IF state[t] = "READY" THEN (bitmap \ {priority[t]}) \cup {p} ELSE bitmap
  /\ UNCHANGED <<state, run, wait, zombie, sleepLeft, fresh, pc, current, clock, sti, inService>>

Wake(t) ==
  /\ sti
  /\ pc[current] = "run"
  /\ state[t] = "SLEEPING"
  /\ sleepLeft' = [sleepLeft EXCEPT ![t] = 0]
  /\ state' = [state EXCEPT ![t] = "READY"]
  /\ bitmap' = bitmap \cup {priority[t]}
  /\ UNCHANGED <<priority, base, run, wait, zombie, fresh, pc, current, clock, sti, inService>>

Next ==
  \/ TimerInterrupt
  \/ Yield
  \/ Exit
  \/ EnableInterrupts
  \/ \E p \in CreatePrios : Create(p)
  \/ \E ms \in 1 .. MaxSleep : Sleep(ms)
  \/ \E t \in Tasks : Wake(t)
  \/ \E t \in Tasks, p \in CreatePrios : SetPriority(t, p)

Spec == Init /\ [][Next]_vars

(* Timer interrupts keep coming, and every task keeps sleeping or yielding *)
(* (all tasks of kernel.c and the desktop loops do).                       *)
FairSpec == Spec /\ WF_vars(TimerInterrupt) /\ WF_vars(Yield)

-----------------------------------------------------------------------------
(* Properties *)

(* Only current_task is RUNNING: no path of the handler, of a wake-up or   *)
(* of a sleep leaves a second task marked as owning the processor.         *)
RunningIsCurrent == \A t \in Tasks : state[t] = "RUNNING" => t = current

(* uptime_ms and run_ticks advance in lockstep: the position in the slice  *)
(* is always uptime_ms % SCHED_QUANTUM_TICKS, whoever runs.  So a multiple *)
(* of 50 ms always ends a slice, and the "every 50 ms: age and reap" of an *)
(* unfinished slice (scheduler.c:180) never happens.                       *)
QuantumAligned == clock % QUANTUM = run[current]

(* The reaper never frees the stack the processor is running on, although  *)
(* a task stays current_task for a while after task_exit.                  *)
StackOfCurrent == state[current] # "UNUSED"

(* While IRQ0 waits for its EOI (a fresh task was switched in from the     *)
(* interrupt) the running task still has code to run: were it halted, no   *)
(* interrupt could ever be taken again.                                    *)
TickNotLost == inService => pc[current] # "halt"

(* TASK_PRIO_RT is bitmap_top's value for "nothing ready": as long as a    *)
(* real-time task's bit is set, sched_pick_next finds nobody and the       *)
(* processor never changes hands.                                          *)
RTReadyStopsSwitching == [][(RT \in bitmap) => current' = current]_vars

(* What "anti-starvation" aging (scheduler.c:15, :104) promises: a ready   *)
(* task runs in the end.  The code breaks it: picking one of two tasks of  *)
(* equal priority clears the bit of both, and the one left behind is never *)
(* aged while the other keeps the processor.                               *)
ReadyRuns == \A t \in Tasks : state[t] = "READY" ~> state[t] # "READY"
=============================================================================
