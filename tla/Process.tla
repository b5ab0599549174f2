------------------------------ MODULE Process ------------------------------
(***************************************************************************)
(* The process table of src/kernal/mm/process.c and the areas of memory of *)
(* its entries, which are objects of the cache slab_cache_vma.  No entry   *)
(* is ever given back, so the process in entry p has PID p.  Nothing       *)
(* assigns current_proc.  At the end are the signals of one entry: nothing *)
(* sets sig_mask, so no signal is blocked, and a handler of the program's  *)
(* own returns.                                                            *)
(***************************************************************************)
EXTENDS Slab

CONSTANTS
  PROC_MAX,
  Bounds     \* the page boundaries areas are made of

ASSUME ProcessAssumption == PROC_MAX \in Nat \ {0} /\ Bounds \subseteq Nat

VARIABLES
  procs,   \* proc_table[] up to its first unused entry
  halted   \* proc_exit ran: the processor stands in cli; hlt

procVars == <<slab, procs, halted>>

Area == [obj : Objects, start : Bounds, end : Bounds, write : BOOLEAN]

ProcTypeOK ==
  /\ SlabTypeOK
  /\ procs \in Seq([ppid : 0 .. PROC_MAX, areas : Seq(Area)])
  /\ Len(procs) <= PROC_MAX
  /\ halted \in BOOLEAN

ProcInit == SlabInit /\ procs = <<>> /\ halted = FALSE

(* vma_insert: sorted by start, before those that start at the same page   *)
Sorted(areas, v) ==
  LET i == SelectInSeq(areas, LAMBDA w : w.start >= v.start)
  IN InsertAt(areas, IF i = 0 THEN Len(areas) + 1 ELSE i, v)

VmaInsert(k, areas, start, end, write) ==
  {IF r.object = NoObject THEN [slab |-> k, areas |-> areas]
   ELSE [slab |-> r.slab,
         areas |-> Sorted(areas, [obj |-> r.object, start |-> start, end |-> end, write |-> write])] :
     r \in SlabAlloc(k)}

Running == ~halted

(* proc_create goes on when there is no room for the kernel stack          *)
Create ==
  /\ Running
  /\ Len(procs) < PROC_MAX
  /\ procs' = Append(procs, [ppid |-> 0, areas |-> <<>>])
  /\ UNCHANGED <<slab, halted>>

(* proc_fork copies the areas, read-only, as far as there are objects.     *)
(* Without a page directory it calls proc_exit: no process is current, and *)
(* the machine stands still.                                               *)
Copies(areas) ==
  FoldLeft(LAMBDA outs, v : UNION {VmaInsert(o.slab, o.areas, v.start, v.end, FALSE) : o \in outs},
           {[slab |-> slab, areas |-> <<>>]}, areas)

Fork(p) ==
  /\ Running
  /\ Len(procs) < PROC_MAX
  /\ \E c \in Copies(procs[p].areas) :
       /\ slab' = c.slab
       /\ procs' = Append(procs, [ppid |-> p, areas |-> c.areas])
  /\ halted' \in BOOLEAN

(* a new area, here one that may be written                                *)
Insert(p, start, end) ==
  /\ Running
  /\ \E r \in VmaInsert(slab, procs[p].areas, start, end, TRUE) :
       /\ slab' = r.slab
       /\ procs' = [procs EXCEPT ![p].areas = r.areas]
  /\ UNCHANGED halted

(* vma_remove                                                              *)
VmaRemove(p, v) ==
  /\ Running
  /\ procs' = [procs EXCEPT ![p].areas = RemoveFirst(@, v)]
  /\ slab' = SlabFree(slab, v.obj)
  /\ UNCHANGED halted

ProcNext ==
  \/ Create
  \/ \E p \in DOMAIN procs :
       \/ Fork(p)
       \/ \E start, end \in Bounds : start < end /\ Insert(p, start, end)
       \/ \E v \in ToSet(procs[p].areas) : VmaRemove(p, v)

-----------------------------------------------------------------------------
Held == UNION {{v.obj : v \in ToSet(procs[p].areas)} : p \in DOMAIN procs}

(* Every object of the cache is in one place: on the freelist of its slab, *)
(* or an area of one process; every slab is in the one list that its count *)
(* of free slots says; areas stay sorted through fork, insert and remove.  *)
ObjectsOwned ==
  /\ IsInjective(Listed(slab))
  /\ \A s \in ToSet(Listed(slab)) :
       /\ IsInjective(slab.slots[s])
       /\ {o \in Held : o[1] = s} = {s} \X ((1 .. Objs) \ ToSet(slab.slots[s]))
       /\ s \in ToSet(slab.full)  <=> slab.slots[s] = <<>>
       /\ s \in ToSet(slab.empty) <=> Len(slab.slots[s]) = Objs
  /\ \A o \in Held : o[1] \in ToSet(Listed(slab))
  /\ FoldLeft(LAMBDA n, p : n + Len(p.areas), 0, procs) = Cardinality(Held)
  /\ \A p \in DOMAIN procs : \A i \in 1 .. Len(procs[p].areas) - 1 :
       procs[p].areas[i].start <= procs[p].areas[i + 1].start

-----------------------------------------------------------------------------
(* The signals of one process.                                             *)

CONSTANT Sigs  \* the signals that occur, by number

SIGKILL == 9
SIGCHLD == 17
SIGCONT == 18
SIGSTOP == 19

ASSUME SignalsAssumption == Sigs \subseteq 1 .. 31 /\ {SIGKILL, SIGCONT, SIGSTOP} \subseteq Sigs

VARIABLES
  process,  \* state, exit_code, sig_pending and sig_handlers
  killed,   \* ghost: the fatal signal that took effect last, 0 if none has
  stopped   \* ghost: SIGSTOP took effect after it

sigVars == <<process, killed, stopped>>

Handlers == {"SIG_DFL", "SIG_IGN", "own"}

SigTypeOK ==
  /\ process.state \in {"READY", "ZOMBIE", "STOPPED"}
  /\ process.exit_code \in {0} \cup {128 + s : s \in Sigs}
  /\ process.sig_pending \subseteq Sigs
  /\ process.sig_handlers \in [Sigs -> Handlers]
  /\ killed \in Sigs \cup {0} /\ stopped \in BOOLEAN

(* proc_create                                                             *)
SigInit ==
  /\ process = [state |-> "READY", exit_code |-> 0, sig_pending |-> {},
                sig_handlers |-> [s \in Sigs |-> "SIG_DFL"]]
  /\ killed = 0
  /\ stopped = FALSE

Fatal(s) == s \notin {SIGCHLD, SIGCONT, SIGSTOP}

(* sig_default_action                                                      *)
DefaultAction(p, s) ==
  CASE Fatal(s)    -> [p EXCEPT !.state = "ZOMBIE", !.exit_code = 128 + s]
    [] s = SIGSTOP -> [p EXCEPT !.state = "STOPPED"]
    [] s = SIGCONT -> [p EXCEPT !.state = IF @ = "STOPPED" THEN "READY" ELSE @]
    [] OTHER       -> p

(* proc_signal, which looks at no state                                    *)
Signal(s) ==
  /\ process' = [process EXCEPT !.sig_pending = @ \cup {s}]
  /\ UNCHANGED <<killed, stopped>>

SetHandler(s, h) ==
  /\ s \notin {SIGKILL, SIGSTOP}
  /\ process' = [process EXCEPT !.sig_handlers[s] = h]
  /\ UNCHANGED <<killed, stopped>>

(* proc_handle_signals: in the order of their numbers                      *)
ByNumber(sigs) ==
  CHOOSE order \in [1 .. Cardinality(sigs) -> sigs] :
    \A i, j \in DOMAIN order : i < j => order[i] < order[j]

HandleSignals ==
  LET acts == {s \in process.sig_pending : process.sig_handlers[s] = "SIG_DFL"}
      dead == {s \in acts : Fatal(s)}
  IN /\ process.sig_pending # {}
     /\ process' = [FoldLeft(DefaultAction, process, ByNumber(acts)) EXCEPT !.sig_pending = {}]
     /\ killed' = IF dead = {} THEN killed ELSE Max(dead)
     /\ stopped' = IF dead = {} THEN stopped \/ SIGSTOP \in acts
                   ELSE \E s \in acts : s = SIGSTOP /\ s > Max(dead)

SigNext ==
  \/ \E s \in Sigs : Signal(s) \/ (\E h \in Handlers : SetHandler(s, h))
  \/ HandleSignals

-----------------------------------------------------------------------------
(* A process ends with the number of the last signal that was fatal to it, *)
(* and one without runs or is stopped.  Once ended it is a zombie for good *)
(* unless it is stopped and then continued: SIGCONT alone, in whatever     *)
(* order signals come, does not bring it back.                             *)
EndsOnce ==
  /\ process.exit_code = IF killed = 0 THEN 0 ELSE 128 + killed
  /\ killed = 0 => process.state # "ZOMBIE"
  /\ killed # 0 /\ ~stopped => process.state = "ZOMBIE"

=============================================================================
