------------------------------- MODULE Input -------------------------------
(***************************************************************************)
(* src/kernal/drivers/keyboard.c: IRQ 1 puts every key pressed into a ring *)
(* and keeps the modifier keys to itself; a task takes the keys out.  The  *)
(* handler runs with interrupts off, so that it is one step; the task is   *)
(* interrupted between the copy of an event and the move of kbd_head.      *)
(*                                                                         *)
(* src/kernal/drivers/mouse.c and vmmouse.c: IRQ 12 puts together packets  *)
(* of three bytes, or takes an absolute position from the host, and queues *)
(* events; the desktop empties the queue once a frame.  One coordinate     *)
(* stands for both, the left button (1) and the right one (2) for the      *)
(* three.                                                                  *)
(***************************************************************************)
EXTENDS Integers, Sequences, FiniteSets, SequencesExt

CONSTANTS
  KBD_BUFFER_SIZE,
  CharKeys,  \* the keys that are no modifiers
  HeldKeys,  \* the modifier keys that are used, of those below
  MaxKeys    \* bound: keys pressed in a behaviour

(* the flag a modifier key sets: the two shift keys share one              *)
ModOf == [LSHIFT |-> "SHIFT", RSHIFT |-> "SHIFT", LCTRL |-> "CTRL", LALT |-> "ALT"]

ASSUME KeyboardAssumption ==
  /\ KBD_BUFFER_SIZE \in Nat \ {0, 1} /\ MaxKeys \in Nat
  /\ HeldKeys \subseteq DOMAIN ModOf

VARIABLES
  modifiers, kbd_buf, kbd_head, kbd_tail,
  taken,  \* what buf_pop has copied before it moves kbd_head, or nothing
  held,   \* the modifier keys that are down
  downs,  \* ghost: the keys pressed while fewer than KBD_BUFFER_SIZE - 1 waited
  reads   \* ghost: the events the task was given

kbdVars == <<modifiers, kbd_buf, kbd_head, kbd_tail, taken, held, downs, reads>>

Modifiers == {ModOf[k] : k \in HeldKeys} \cup {"CAPS"}
KeyEvents == [key : CharKeys, shifted : BOOLEAN, mods : SUBSET Modifiers]
NoKey     == [key |-> "", shifted |-> FALSE, mods |-> {}]
KbdSlots  == 0 .. KBD_BUFFER_SIZE - 1

KbdTypeOK ==
  /\ modifiers \subseteq Modifiers /\ held \subseteq HeldKeys
  /\ kbd_buf \in [KbdSlots -> KeyEvents \cup {NoKey}]
  /\ kbd_head \in KbdSlots /\ kbd_tail \in KbdSlots
  /\ taken \in KeyEvents \cup {NoKey}
  /\ downs \in Seq(KeyEvents) /\ reads \in Seq(KeyEvents)

KbdInit ==
  /\ modifiers = {} /\ held = {}
  /\ kbd_buf = [i \in KbdSlots |-> NoKey] /\ kbd_head = 0 /\ kbd_tail = 0
  /\ taken = NoKey /\ downs = <<>> /\ reads = <<>>

(* the two columns of the layout tables                                    *)
KeyEvent(k) == [key |-> k, shifted |-> {"SHIFT", "CAPS"} \cap modifiers # {}, mods |-> modifiers]

(* Mutant: a full ring is taken for an empty one.                          *)
PushFull(ev) ==
  /\ kbd_buf' = [kbd_buf EXCEPT ![kbd_tail] = ev]
  /\ kbd_tail' = (kbd_tail + 1) % KBD_BUFFER_SIZE

(* buf_push: a key that finds the ring full is dropped                     *)
Push(ev) ==
  LET next == (kbd_tail + 1) % KBD_BUFFER_SIZE IN
  IF next # kbd_head
  THEN kbd_buf' = [kbd_buf EXCEPT ![kbd_tail] = ev] /\ kbd_tail' = next
  ELSE UNCHANGED <<kbd_buf, kbd_tail>>

(* kbd_irq_handler: a key goes down, for the first time or once more       *)
KeyDown(k) ==
  /\ Len(downs) < MaxKeys
  /\ Push(KeyEvent(k))
  /\ downs' = IF Len(downs) - Len(reads) < KBD_BUFFER_SIZE - 1 THEN Append(downs, KeyEvent(k)) ELSE downs
  /\ UNCHANGED <<modifiers, kbd_head, taken, held, reads>>

(* kbd_irq_handler: a modifier goes down or up                             *)
ModifierDown(m) ==
  /\ held' = held \cup {m} /\ modifiers' = modifiers \cup {ModOf[m]}
  /\ UNCHANGED <<kbd_buf, kbd_head, kbd_tail, taken, downs, reads>>

ModifierUp(m) ==
  /\ m \in held
  /\ held' = held \ {m} /\ modifiers' = modifiers \ {ModOf[m]}
  /\ UNCHANGED <<kbd_buf, kbd_head, kbd_tail, taken, downs, reads>>

CapsDown ==
  /\ modifiers' = IF "CAPS" \in modifiers THEN modifiers \ {"CAPS"} ELSE modifiers \cup {"CAPS"}
  /\ UNCHANGED <<kbd_buf, kbd_head, kbd_tail, taken, held, downs, reads>>

(* buf_pop: the copy, and then the move of kbd_head                        *)
KbdCopy ==
  /\ taken = NoKey /\ kbd_head # kbd_tail
  /\ taken' = kbd_buf[kbd_head]
  /\ UNCHANGED <<modifiers, kbd_buf, kbd_head, kbd_tail, held, downs, reads>>

KbdAdvance ==
  /\ taken # NoKey
  /\ kbd_head' = (kbd_head + 1) % KBD_BUFFER_SIZE
  /\ reads' = Append(reads, taken) /\ taken' = NoKey
  /\ UNCHANGED <<modifiers, kbd_buf, kbd_tail, held, downs>>

KbdNext ==
  \/ \E k \in CharKeys : KeyDown(k)
  \/ \E m \in HeldKeys : ModifierDown(m) \/ ModifierUp(m)
  \/ CapsDown \/ KbdCopy \/ KbdAdvance

-----------------------------------------------------------------------------
(* what lies in the ring, oldest first                                     *)
Waiting ==
  [i \in 1 .. (kbd_tail - kbd_head) % KBD_BUFFER_SIZE |->
     kbd_buf[(kbd_head + i - 1) % KBD_BUFFER_SIZE]]

(* Keys come out of the ring in the order and with the shift state they    *)
(* were pressed in, one that was pressed with room left is never lost or   *)
(* overwritten, not even while the reader is halfway through taking one,   *)
(* and no modifier stays set without a key that holds it.                  *)
KeysArrive ==
  /\ reads \o Waiting = downs
  /\ taken # NoKey => taken = Head(Waiting)
  /\ modifiers \subseteq {ModOf[m] : m \in held} \cup {"CAPS"}

-----------------------------------------------------------------------------
(* The mouse.                                                              *)

CONSTANTS
  MOUSE_QUEUE_SIZE,
  ScreenW,     \* the pixels across
  Packets,     \* what a packet may say: the buttons down, the movement, an overflow
  Hosted,      \* x positions the host may report, in HostRange; {} without vmmouse
  MaxPackets   \* bound: packets the mouse sends

PacketKinds == [buttons : SUBSET {1, 2}, dx : -256 .. 255, over : BOOLEAN]
HostRange   == 0 .. 65535

ASSUME MouseAssumption ==
  /\ MOUSE_QUEUE_SIZE \in Nat \ {0, 1} /\ ScreenW \in Nat \ {0} /\ MaxPackets \in Nat
  /\ Packets \subseteq PacketKinds /\ Hosted \subseteq HostRange

VARIABLES
  pkt,         \* pkt[0 .. pkt_idx)
  evt_queue, q_head, q_tail,
  mouse_x, mouse_buttons, prev_buttons,
  wire,        \* bytes of the packet under way
  packets,     \* packets sent
  report,      \* ghost: the last packet sent
  eaten,       \* ghost: a byte was thrown away for a report of the host
  clicks,      \* what the frame under way has collected
  unseen,      \* ghost: buttons pressed since the last frame
  full         \* ghost: an event found no room since the last frame

mouseVars == <<pkt, evt_queue, q_head, q_tail, mouse_x, mouse_buttons, prev_buttons,
               wire, packets, report, eaten, clicks, unseen, full>>

NoPacket   == [buttons |-> {}, dx |-> 0, over |-> FALSE]
MouseSlots == 0 .. MOUSE_QUEUE_SIZE - 1
MouseTypeOK ==
  /\ pkt \in Seq(0 .. 255) /\ Len(pkt) < 3
  /\ evt_queue \in [MouseSlots -> SUBSET {1, 2}] /\ q_head \in MouseSlots /\ q_tail \in MouseSlots
  /\ mouse_x \in 0 .. (IF Hosted = {} THEN ScreenW - 1 ELSE ScreenW)
  /\ mouse_buttons \subseteq {1, 2} /\ prev_buttons \subseteq {1, 2}
  /\ wire \in Seq(0 .. 255) /\ packets \in 0 .. MaxPackets
  /\ clicks \subseteq {1, 2} /\ unseen \subseteq {1, 2} /\ eaten \in BOOLEAN /\ full \in BOOLEAN
  /\ report \in Packets \cup {NoPacket}

MouseInit ==
  /\ pkt = <<>> /\ wire = <<>> /\ packets = 0 /\ eaten = FALSE
  /\ evt_queue = [i \in MouseSlots |-> {}] /\ q_head = 0 /\ q_tail = 0
  /\ mouse_x = 0 /\ mouse_buttons = {} /\ prev_buttons = {}
  /\ report = NoPacket
  /\ clicks = {} /\ unseen = {} /\ full = FALSE

Bit(n, i)  == (n \div i) % 2 = 1
Pressed(n) == {b \in {1, 2} : Bit(n, b)}
Clamped(x) == IF x < 0 THEN 0 ELSE IF x >= ScreenW THEN ScreenW - 1 ELSE x

(* The mouse sends a packet: status with bit 3, the sign and the overflow, *)
(* and two movements, of which the second is none.                         *)
Send(p) ==
  /\ wire = <<>> /\ packets < MaxPackets
  /\ wire' = <<8 + (IF 1 \in p.buttons THEN 1 ELSE 0) + (IF 2 \in p.buttons THEN 2 ELSE 0)
                 + (IF p.dx < 0 THEN 16 ELSE 0) + (IF p.over THEN 64 ELSE 0), p.dx % 256, 0>>
  /\ packets' = packets + 1 /\ report' = p
  /\ UNCHANGED <<pkt, evt_queue, q_head, q_tail, mouse_x, mouse_buttons, prev_buttons,
                 eaten, clicks, unseen, full>>

(* the edges of an event and its place in the queue, which may be full     *)
Enqueue(buttons) ==
  LET next == (q_head + 1) % MOUSE_QUEUE_SIZE IN
  IF next # q_tail
  THEN /\ evt_queue' = [evt_queue EXCEPT ![q_head] = buttons \ prev_buttons]
       /\ q_head' = next /\ UNCHANGED full
  ELSE UNCHANGED <<evt_queue, q_head>> /\ full' = TRUE

Buttons(buttons) ==
  /\ Enqueue(buttons)
  /\ mouse_buttons' = buttons /\ prev_buttons' = buttons
  /\ unseen' = unseen \cup (buttons \ mouse_buttons)

(* mouse_irq_handler: a byte that completes no packet, or a packet that is *)
(* thrown away: bit 3 missing, or an overflow                              *)
Byte ==
  /\ wire # <<>> /\ wire' = Tail(wire)
  /\ LET p == Append(pkt, Head(wire)) IN
     IF Len(p) < 3
     THEN pkt' = p /\ UNCHANGED <<evt_queue, q_head, mouse_x, mouse_buttons, prev_buttons, unseen, full>>
     ELSE /\ pkt' = <<>>
          /\ IF Bit(p[1], 8) /\ p[1] < 64
             THEN /\ mouse_x' = Clamped(mouse_x + p[2] - (IF Bit(p[1], 16) THEN 256 ELSE 0))
                  /\ Buttons(Pressed(p[1]))
             ELSE UNCHANGED <<evt_queue, q_head, mouse_x, mouse_buttons, prev_buttons, unseen, full>>
  /\ UNCHANGED <<q_tail, packets, report, eaten, clicks>>

(* mouse_set_abs_position                                                  *)
PixelOf(x) == (x * ScreenW) \div 65535

(* mouse_irq_handler, vmmouse_poll and mouse_set_abs_position: the host    *)
(* has a report, and the byte that came is thrown away.  The last position *)
(* is one past the screen.                                                 *)
Absolute(x, buttons) ==
  /\ wire # <<>> /\ wire' = Tail(wire) /\ eaten' = TRUE
  /\ mouse_x' = PixelOf(x)
  /\ Buttons(buttons)
  /\ UNCHANGED <<pkt, q_tail, packets, report, clicks>>

(* mouse_poll, as the loop of desktop_run calls it                         *)
MousePoll ==
  /\ q_head # q_tail
  /\ clicks' = clicks \cup evt_queue[q_tail]
  /\ q_tail' = (q_tail + 1) % MOUSE_QUEUE_SIZE
  /\ UNCHANGED <<pkt, evt_queue, q_head, mouse_x, mouse_buttons, prev_buttons, wire, packets,
                 report, eaten, unseen, full>>

(* the queue is empty: the frame acts on clicks, and the next begins *)
MouseFrame ==
  /\ q_head = q_tail
  /\ clicks' = {} /\ unseen' = {} /\ full' = FALSE
  /\ UNCHANGED <<pkt, evt_queue, q_head, q_tail, mouse_x, mouse_buttons, prev_buttons, wire,
                 packets, report, eaten>>

MouseNext ==
  \/ \E p \in Packets : Send(p)
  \/ Byte
  \/ \E x \in Hosted, b \in SUBSET {1, 2} : Absolute(x, b)
  \/ MousePoll \/ MouseFrame

-----------------------------------------------------------------------------
QueuedClicks ==
  UNION {evt_queue[(q_tail + i) % MOUSE_QUEUE_SIZE] : i \in 0 .. ((q_head - q_tail) % MOUSE_QUEUE_SIZE) - 1}

(* A button that was pressed makes a click in the frame that follows, once *)
(* and not again while it is held, unless its event found the queue full;  *)
(* and as long as no byte was thrown away for the host, what the last      *)
(* packet says of the buttons is what the desktop reads.                   *)
ClicksSeen ==
  /\ clicks \cup QueuedClicks \subseteq unseen
  /\ ~full => unseen \subseteq clicks \cup QueuedClicks
  /\ wire = <<>> /\ ~eaten /\ ~report.over => mouse_buttons = report.buttons

=============================================================================
