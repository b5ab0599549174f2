------------------------------- MODULE Debug -------------------------------
(***************************************************************************)
(* The two users of the exceptions 1 and 3.  Probes                        *)
(* (src/kernal/debug/kprobes.c) put an INT3 over an instruction: the hit   *)
(* calls a handler, puts the instruction back and runs it in a single      *)
(* step, after which the INT3 is set again.  The stub for GDB              *)
(* (src/kernal/debug/gdbstub.c) halts the kernel and talks to a debugger   *)
(* over a serial line.  cmain initialises the stub last, and from then on  *)
(* both exceptions are the stub's.                                         *)
(*                                                                         *)
(* An exception runs with interrupts off and is one step with the          *)
(* instruction that raised it; between the hit and the single step a timer *)
(* interrupt may switch tasks.                                             *)
(***************************************************************************)
EXTENDS Integers, FiniteSets, SequencesExt, FiniteSetsExt

CONSTANTS
  ProbeSlots,   \* KPROBE_MAX
  Spots,        \* addresses of instructions
  ProbeTasks,
  GdbCommands,  \* what the debugger asks: "c", "s" and others, which only ask
  GDBBUF,       \* GDB_BUF_SIZE, in characters of the model
  MaxAsked,     \* bound: commands of the debugger
  MaxFaults     \* bound: characters damaged or lost, and timeouts of the debugger

(* What a command has of the protocol's own characters comes escaped.      *)
ASSUME DebugAssumption ==
  /\ ProbeSlots \in Nat \ {0} /\ GDBBUF \in Nat \ {0, 1}
  /\ MaxAsked \in Nat /\ MaxFaults \in Nat
  /\ "none" \notin Spots
  /\ \A cmd \in GdbCommands : cmd \in Seq(Range(cmd)) /\ {"$", "#", "sum"} \cap Range(cmd) = {}

VARIABLES
  code,    \* the first byte of each instruction: its own or INT3
  probes,  \* probes[]
  stepper, \* each task: the instruction it is sent back to, its trap flag,
           \* and what happened at the instruction it reached last
  vectors, \* whose the two exceptions are
  mixed    \* ghost: a hit was not alone: another task, a change of the table
           \* or its own handler came between it and its single step

probeVars == <<code, probes, stepper, vectors, mixed>>

NoPlace == "none"
ProbeIds == 1 .. ProbeSlots
NoProbe == [addr |-> NoPlace, saved |-> "own", active |-> FALSE, stepping |-> FALSE]

ProbeTypeOK ==
  /\ code \in [Spots -> {"own", "int3"}]
  /\ probes \in [ProbeIds -> [addr : Spots \cup {NoPlace}, saved : {"own", "int3"},
                              active : BOOLEAN, stepping : BOOLEAN]]
  /\ \A t \in ProbeTasks : stepper[t].at \in Spots \cup {NoPlace} /\ stepper[t].tf \in BOOLEAN
  /\ vectors \in {"kprobes", "gdb"} /\ mixed \in BOOLEAN

(* after kprobes_init                                                      *)
ProbeInit ==
  /\ code = [a \in Spots |-> "own"]
  /\ probes = [i \in ProbeIds |-> NoProbe]
  /\ stepper = [t \in ProbeTasks |-> [at |-> NoPlace, tf |-> FALSE, calls |-> <<>>]]
  /\ vectors = "kprobes" /\ mixed = FALSE

(* gdbstub_init                                                            *)
StubTakesOver ==
  /\ vectors' = "gdb"
  /\ UNCHANGED <<code, probes, stepper, mixed>>

FindProbe(a) == {i \in ProbeIds : probes[i].active /\ probes[i].addr = a}
Stepping(ts) == \E t \in ts : stepper[t].tf

(* kprobe_register                                                         *)
Register(a) ==
  LET free == {i \in ProbeIds : ~probes[i].active} IN
  /\ FindProbe(a) = {} /\ free # {}
  /\ probes' = [probes EXCEPT ![Min(free)] = [addr |-> a, saved |-> code[a], active |-> TRUE, stepping |-> FALSE]]
  /\ code' = [code EXCEPT ![a] = "int3"]
  /\ mixed' = (mixed \/ Stepping(ProbeTasks))
  /\ UNCHANGED <<stepper, vectors>>

(* kprobe_unregister                                                       *)
Unregister(a) ==
  /\ FindProbe(a) # {}
  /\ LET i == Min(FindProbe(a))
     IN probes' = [probes EXCEPT ![i].active = FALSE] /\ code' = [code EXCEPT ![a] = probes[i].saved]
  /\ mixed' = (mixed \/ Stepping(ProbeTasks))
  /\ UNCHANGED <<stepper, vectors>>

-----------------------------------------------------------------------------
(* A task reaches an instruction, or is sent back to one.                  *)
Reaches(t, a) == stepper[t].at \in {NoPlace, a}
Before(t)     == IF stepper[t].at = NoPlace \/ mixed THEN <<>> ELSE stepper[t].calls

(* kprobe_int3_handler, whose pre handler may remove the probe             *)
Hit(t, a, removes) ==
  /\ Reaches(t, a) /\ code[a] = "int3" /\ vectors = "kprobes"
  /\ LET i == Min(FindProbe(a))
     IN /\ code' = [code EXCEPT ![a] = probes[i].saved]
        /\ probes' = [probes EXCEPT ![i].stepping = TRUE, ![i].active = ~removes]
  /\ stepper' = [stepper EXCEPT ![t] = [at |-> a, tf |-> TRUE, calls |-> Append(Before(t), "pre")]]
  /\ mixed' = (mixed \/ removes \/ Stepping(ProbeTasks \ {t}))
  /\ UNCHANGED vectors

(* the instruction runs; one with a probe that was not reported is missed  *)
Ran(t, a) == Append(Before(t), IF FindProbe(a) # {} /\ stepper[t].at # a THEN "missed" ELSE "ran")

Runs(t, a) ==
  /\ Reaches(t, a) /\ code[a] = "own" /\ ~stepper[t].tf
  /\ stepper' = [stepper EXCEPT ![t].calls = Ran(t, a)]
  /\ mixed' = (mixed \/ (FindProbe(a) # {} /\ Stepping(ProbeTasks \ {t})))
  /\ UNCHANGED <<code, probes, vectors>>

(* with the trap flag exception 1 follows: kprobe_debug_handler takes the  *)
(* first probe that is in a step, whoever hit it, and with none leaves the *)
(* trap flag set                                                           *)
RunsTraced(t, a) ==
  LET stepped == {i \in ProbeIds : probes[i].active /\ probes[i].stepping} IN
  /\ Reaches(t, a) /\ code[a] = "own" /\ stepper[t].tf /\ vectors = "kprobes"
  /\ IF stepped = {}
     THEN /\ stepper' = [stepper EXCEPT ![t].at = NoPlace, ![t].calls = Ran(t, a)]
          /\ UNCHANGED <<code, probes>>
     ELSE /\ stepper' = [stepper EXCEPT ![t] = [at |-> NoPlace, tf |-> FALSE, calls |-> Append(Ran(t, a), "post")]]
          /\ probes' = [probes EXCEPT ![Min(stepped)].stepping = FALSE]
          /\ code' = [code EXCEPT ![probes[Min(stepped)].addr] = "int3"]
  /\ mixed' = (mixed \/ Stepping(ProbeTasks \ {t}))
  /\ UNCHANGED vectors

(* The stub gets an INT3 of a probe and returns behind it: the instruction *)
(* is not run.  Its handler of exception 1 clears the trap flag.           *)
Skipped(t, a) ==
  /\ Reaches(t, a) /\ vectors = "gdb" /\ (code[a] = "int3" \/ stepper[t].tf)
  /\ stepper' = [stepper EXCEPT ![t] = [at |-> NoPlace, tf |-> code[a] = "int3" /\ @.tf,
                                        calls |-> Append(Before(t), IF code[a] = "int3" THEN "skipped" ELSE "ran")]]
  /\ UNCHANGED <<code, probes, vectors, mixed>>

ProbeNext ==
  \/ StubTakesOver
  \/ \E a \in Spots :
       \/ Register(a) \/ Unregister(a)
       \/ \E t \in ProbeTasks : Runs(t, a) \/ RunsTraced(t, a) \/ Skipped(t, a)
                                \/ (\E removes \in BOOLEAN : Hit(t, a, removes))

(* The kernel's code is never lost: an INT3 is there exactly where a probe *)
(* is armed and not in its step, and every probe knows the own byte of its *)
(* instruction, whatever tasks and handlers do meanwhile.  And a task that *)
(* reaches a probe alone calls the handler, runs the instruction once and  *)
(* calls the other handler, with the trap flag set in between only.        *)
ProbesTrue ==
  /\ \A a \in Spots :
       /\ code[a] = "int3" <=> \E i \in FindProbe(a) : ~probes[i].stepping
       /\ Cardinality(FindProbe(a)) <= 1
  /\ \A i \in ProbeIds : probes[i].active => probes[i].saved = "own"
  /\ vectors = "kprobes" /\ ~mixed =>
       \A t \in ProbeTasks :
         /\ stepper[t].calls \in {<<>>, <<"ran">>, <<"pre">>, <<"pre", "ran", "post">>}
         /\ stepper[t].tf <=> stepper[t].calls = <<"pre">>

-----------------------------------------------------------------------------
(* The stub, and at the other end of the line a debugger as the protocol   *)
(* has it.  The two digits of a checksum are one character, which tells    *)
(* the data it was made of and, as a ghost, the number of the command; a   *)
(* damaged character is none that the protocol knows.                      *)

VARIABLES
  stub,   \* where gdb_schleife is, paket, antwort, gdb_aktiv, the trap flag in
          \* halt_regs, and whether an INT3 was met in a single step
  host,   \* what the debugger waits for and the answers it took
  asked,  \* the commands of the debugger
  done,   \* ghost: the commands the stub has run
  toStub, toHost, \* the line: characters, and whole packets or "+" or "-"
  faults  \* characters damaged or lost, and timeouts

gdbVars == <<stub, host, asked, done, toStub, toHost, faults>>

On(c)     == [c |-> c, of |-> <<>>, nr |-> 0]
Packet(d) == [c |-> "packet", of |-> d, nr |-> 0]
StopReply == <<"S">>

GdbTypeOK ==
  /\ stub.at \in {"running", "ack", "start", "data", "sum"} /\ Len(stub.buf) < GDBBUF
  /\ stub.aktiv \in BOOLEAN /\ stub.tf \in BOOLEAN /\ stub.int3 \in BOOLEAN
  /\ host.at \in {"stop", "idle", "ack", "answer"}
  /\ Len(asked) <= MaxAsked /\ faults \in 0 .. MaxFaults

GdbInit ==
  /\ stub = [at |-> "running", buf |-> <<>>, reply |-> <<>>, aktiv |-> FALSE, tf |-> FALSE, int3 |-> FALSE]
  /\ host = [at |-> "stop", took |-> <<>>]
  /\ asked = <<>> /\ done = <<>> /\ toStub = <<>> /\ toHost = <<>> /\ faults = 0

(* gdb_int3_handler, or gdb_debug_handler, which clears the trap flag; an  *)
(* INT3 can be the very instruction of a single step                       *)
Halts(int3) ==
  /\ stub.at = "running" /\ (int3 \/ stub.tf)
  /\ stub' = [stub EXCEPT !.at = "ack", !.reply = StopReply, !.aktiv = TRUE, !.tf = int3 /\ @, !.int3 = int3 /\ stub.tf]
  /\ toHost' = Append(toHost, Packet(StopReply))
  /\ UNCHANGED <<host, asked, done, toStub, faults>>

(* gdb_send_packet: whatever comes and is not "+" has the packet sent      *)
(* again; after the answer to "c" or "s" the kernel runs on                *)
Acknowledged ==
  /\ stub.at = "ack" /\ toStub # <<>>
  /\ IF Head(toStub).c = "+"
     THEN stub' = [stub EXCEPT !.at = IF stub.aktiv THEN "start" ELSE "running"] /\ UNCHANGED toHost
     ELSE toHost' = Append(toHost, Packet(stub.reply)) /\ UNCHANGED stub
  /\ toStub' = Tail(toStub)
  /\ UNCHANGED <<host, asked, done, faults>>

(* gdb_recv_packet up to the checksum                                      *)
Receives ==
  LET c == Head(toStub).c IN
  /\ stub.at \in {"start", "data"} /\ toStub # <<>>
  /\ stub' = CASE stub.at = "start" /\ c = "$" -> [stub EXCEPT !.at = "data", !.buf = <<>>]
               [] stub.at = "start" /\ c # "$" -> stub
               [] stub.at = "data" /\ (c = "#" \/ Len(stub.buf) + 1 >= GDBBUF) -> [stub EXCEPT !.at = "sum"]
               [] OTHER -> [stub EXCEPT !.buf = Append(@, c)]
  /\ toStub' = Tail(toStub)
  /\ UNCHANGED <<host, asked, done, toHost, faults>>

Answer(cmd) == CASE cmd = <<"?">> -> StopReply [] cmd \in {<<"c">>, <<"s">>} -> <<"OK">> [] OTHER -> cmd

(* the checksum is that of the data                                        *)
Checks(sum) == sum.c = "sum" /\ sum.of = stub.buf

(* the checksum, and with the right one the body of gdb_schleife           *)
RunsCommand ==
  LET goes == stub.buf \in {<<"c">>, <<"s">>} IN
  /\ stub.at = "sum" /\ toStub # <<>>
  /\ IF Checks(Head(toStub))
     THEN /\ stub' = [stub EXCEPT !.at = "ack", !.reply = Answer(stub.buf), !.aktiv = ~goes, !.tf = @ \/ stub.buf = <<"s">>]
          /\ done' = Append(done, [cmd |-> stub.buf, nr |-> Head(toStub).nr])
          /\ toHost' = toHost \o <<On("+"), Packet(Answer(stub.buf))>>
     ELSE stub' = [stub EXCEPT !.at = "start"] /\ toHost' = Append(toHost, On("-")) /\ UNCHANGED done
  /\ toStub' = Tail(toStub)
  /\ UNCHANGED <<host, asked, faults>>

-----------------------------------------------------------------------------
(* The debugger, and the line.                                             *)
Frame(nr, d) == <<On("$")>> \o [i \in DOMAIN d |-> On(d[i])] \o <<On("#"), [c |-> "sum", of |-> d, nr |-> nr]>>

Asks(cmd) ==
  /\ host.at = "idle" /\ Len(asked) < MaxAsked
  /\ asked' = Append(asked, cmd) /\ host' = [host EXCEPT !.at = "ack"]
  /\ toStub' = toStub \o Frame(Len(asked'), cmd)
  /\ UNCHANGED <<stub, done, toHost, faults>>

(* an old packet before the "+" is acknowledged and dropped; a command     *)
(* that lets the kernel run is answered when it stops again                *)
HostHears ==
  LET m == Head(toHost)
      expected == host.at = "answer" \/ (host.at = "stop" /\ m.of = StopReply)
  IN /\ host.at # "idle" /\ toHost # <<>>
     /\ toHost' = Tail(toHost)
     /\ host' = IF m.c = "packet" /\ expected
                THEN [at |-> "idle", took |-> IF host.at = "stop" THEN host.took
                                              ELSE Append(host.took, [nr |-> Len(asked), of |-> m.of])]
                ELSE IF m.c = "+" /\ host.at = "ack"
                THEN [host EXCEPT !.at = IF Last(asked) \in {<<"c">>, <<"s">>} THEN "stop" ELSE "answer"]
                ELSE host
     /\ toStub' = toStub \o (CASE m.c = "packet" \/ (m.c = "x" /\ host.at = "ack" /\ m.of # <<>>) -> <<On("+")>>
                               [] m.c = "x" /\ host.at # "ack" /\ m.of # <<>> -> <<On("-")>>
                               [] m.c = "-" /\ host.at = "ack" -> Frame(Len(asked), Last(asked))
                               [] OTHER -> <<>>)
     /\ UNCHANGED <<stub, asked, done, faults>>

(* the debugger loses patience: it asks again, or asks for the answer      *)
TimesOut ==
  /\ faults < MaxFaults /\ faults' = faults + 1
  /\ host.at \in {"ack", "answer"}
  /\ toStub' = toStub \o (IF host.at = "ack" THEN Frame(Len(asked), Last(asked)) ELSE <<On("-")>>)
  /\ UNCHANGED <<stub, host, asked, done, toHost>>

LineFails ==
  /\ faults < MaxFaults /\ faults' = faults + 1
  /\ \/ /\ toStub # <<>> /\ toStub' \in {Tail(toStub), <<On("x")>> \o Tail(toStub)} /\ UNCHANGED toHost
     \/ /\ toHost # <<>> /\ toHost' \in {Tail(toHost), <<[Head(toHost) EXCEPT !.c = "x"]>> \o Tail(toHost)}
        /\ UNCHANGED toStub
  /\ UNCHANGED <<stub, host, asked, done>>

GdbNext ==
  \/ \E int3 \in BOOLEAN : Halts(int3)
  \/ Acknowledged \/ Receives \/ RunsCommand
  \/ \E cmd \in GdbCommands : Asks(cmd)
  \/ HostHears \/ TimesOut \/ LineFails

(* Whatever the line does, the stub runs only commands that were asked,    *)
(* whole and in their order, the kernel runs only after "c" or "s", and    *)
(* with the trap flag only after "s" or where an INT3 was met in a step;   *)
(* on a line without faults each command is run once and the answer the    *)
(* debugger takes is the one to it.                                        *)
GdbTrue ==
  /\ \A i \in DOMAIN done :
       /\ done[i].nr \in DOMAIN asked /\ done[i].cmd = asked[done[i].nr]
       /\ i > 1 => done[i - 1].nr <= done[i].nr
  /\ stub.at = "running" /\ done # <<>> => Last(done).cmd \in {<<"c">>, <<"s">>}
  /\ stub.at = "running" /\ stub.tf => Last(done).cmd = <<"s">> \/ stub.int3
  /\ faults = 0 =>
       /\ \A i \in DOMAIN done : done[i].nr = i
       /\ \A i \in DOMAIN host.took : host.took[i].of = Answer(asked[host.took[i].nr])
       /\ host.at \in {"idle", "answer"} => Len(done) = Len(asked)

=============================================================================
