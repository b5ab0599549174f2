# PinguinOS in TLA+

PinguinOS is a 32-bit x86 kernel with a desktop on top: one processor, kernel
tasks under a priority scheduler driven by a 1 kHz timer interrupt, a physical
page allocator and a heap, IPC (pipes, message queues, Unix sockets), a VFS with
several file systems, a network stack, a set of drivers, and a session of
log-in, windows and menus. This directory holds a formal model of the parts
where interleaving, ordering, failure and boundaries decide whether the code is
right, the TLC configurations that check them on small instances, and proofs,
checked by TLAPS, of what holds for every instance.

Paths below are relative to `src/kernal/` unless they start with `src/`.

## 1. The modules at a glance

| Module | Models | Checked by | Proved in |
|---|---|---|---|
| `Scheduler` | `sched/scheduler.c`, the interrupt path of `cpu/idt.c`, what `kernel.c` creates | `MCScheduler` (`.cfg`, `MCStarvation.cfg`) | `TaskProofs` |
| `Mutex` | `mutex_t` of `sync/sync.c` as a value with operators | through its users | through its users |
| `RWLock` | the read-write lock and its semaphore, `sync/sync.c` | `RWLock` (`.cfg`, `SleepingReader.cfg`) | `TaskProofs` |
| `ByteStream` | *abstract:* what a pipe promises | `Pipe` implements it | `PipeProofs` |
| `Pipe` | `ipc/pipe.c`, with `condvar_wait` | `MCPipe` | `PipeProofs` |
| `PriorityQueues` | *abstract:* what message queues promise | `MsgQueue` implements it | `TaskProofs` |
| `MsgQueue` | `ipc/msgqueue.c` | `MsgQueue` (`.cfg`) | `TaskProofs` |
| `Pmm` | `mm/phys_alloc.c` | `MCPmm` (`.cfg`, `MCPmmHigh.cfg`, `MCPmmRace.cfg`) | `PmmProofs` |
| `KHeap` | `mm/heap.c` with its leak table | `MCMemory` | `MemoryProofs` |
| `Slab`, `Process` | `mm/slab.c`; the process table with its areas and the signals of a process, `mm/process.c` | `MCMemory` | `MemoryProofs` |
| `Swap` | `mm/swap.c`, the page fault of `mm/paging.c` | `MCMemory` | `MemoryProofs` |
| `UnixSock`, `Env` | `ipc/unix_sock.c`, `ipc/env.c` | `MCMemory` | `StoreProofs` |
| `Vfs` | `fs/vfs.c`, `ramfs.c`, `devfs.c`, `procfs.c`, `sysfs.c` | `MCMemory` | `FileProofs` |
| `Fat32`, `Ext2`, `Iso9660` | the three disk file systems | `MCMemory` | `FileProofs` |
| `Drives` | `drivers/ide.c`, `fs/partition.c`, `drivers/nvme.c` | `MCMemory` | `StoreProofs` |
| `Exe` | `fs/pe.c`, `fs/initrd.c`, `elf32_load` of `ipc/syscall.c`, `mm/paging.c` | `MCMemory` | `StoreProofs`; the last two `MemoryProofs` |
| `Debug` | `debug/kprobes.c`, `debug/gdbstub.c` | `MCMemory` | `StoreProofs`; the stub `MemoryProofs` |
| `Memory` | the composition of the modules from `KHeap` to here | `MCMemory` | `MemoryProofs` |
| `Net` | `net/net.c`, `net/loopback.c` | `MCNetwork` | `NetworkProofs` |
| `NetClients` | `net/dns.c`, `net/dhcp.c` on top of `Net` | `MCNetwork` | `NetworkProofs` |
| `Tcp` | `net/tcp.c` against a peer | `MCNetwork` | `NetworkProofs` |
| `E1000` | the two rings of `drivers/e1000.c` | `MCNetwork` | `NetworkProofs` |
| `Network` | the composition of the four modules above | `MCNetwork` | `NetworkProofs` |
| `Input` | `drivers/keyboard.c`; `drivers/mouse.c` and `vmmouse.c` | `MCDesktop` | `DesktopProofs` |
| `Rtc` | `drivers/rtc.c`, `drivers/watchdog.c` | `MCDesktop` | `DesktopProofs` |
| `Login`, `Windows` | `src/os/src/login.c`; `desktop.c` and `app.c` | `MCDesktop` | `DesktopProofs` |
| `Desktop` | the composition of the four modules above, with `pinguinos.c` | `MCDesktop` | `DesktopProofs` |

`Pipe` and `MsgQueue` EXTEND `Mutex`: the exclusion they rely on is the one of
the mutex code, not an assumption. Definitions whose comment begins with
"Mutant:" are not part of the model; each is the definition after it with a
plausible bug, kept to show that the property it is listed with notices the bug.

`Memory`, `Network` and `Desktop` gather modules that share no state in the
code, or only through a call whose answer is free: the heap gives a ring or does
not, a sector can be read or not, a key comes or does not. A variable (`side`,
`part`) says which of them a behaviour is about, so that their state spaces add
up instead of multiplying. What does share state is composed for real:
`NetClients` works on the sockets of `Net` while its interrupt fills them,
`Process` on the objects of `Slab`, the session goes from `Login` to `Windows`
and back, the CMOS clock and the watchdog meet in `Rtc`.

## 2. Inventory of the system

For each component: the state it keeps, its operations, with whom it interacts,
what is hard about it, and what makes it correct.

**Scheduler** (`sched/scheduler.c`). State: a table of 32 task blocks (state,
priority, base priority, slice and waiting counters, deadline, context), a
256-bit bitmap of ready priorities, `current_task`, `uptime_ms`. Operations:
`task_create*`, `task_sleep`, `task_wake`, `task_yield`, `task_exit`,
`task_set_priority`, and `timer_handler`, called by IRQ0 and by INT 0x20. Every
blocking primitive ends in it. Hard: a timer interrupt between a state change
and the INT 0x20 that belongs to it; a bitmap bit shared by tasks of one
priority; a task that starts inside the interrupt, before its EOI; a reaper that
frees stacks while an exited task is still on its own. Correct when: one task
runs, its stack lives, ready tasks get the processor, the timer is never lost.

**Synchronisation** (`sync/sync.c`, `include/sync.h`). State: spinlocks,
semaphores, recursive mutexes with an owner and a depth, condition variables,
read-write locks. Waiting is polling over `task_sleep`/`task_yield`; the waiter
lists are written and never read. Hard: what is held while sleeping. Correct
when: exclusion, no task sleeps with a spinlock, the first reader's and last
reader's use of the semaphore match.

**Pipes** (`ipc/pipe.c`). State: 32 slots with a 4 KB ring, two positions that
are never reduced, a count, a mutex, two reference counts. Operations: create,
read, write (in chunks), close of either end. Hard: partial writes that give the
mutex up, wrap of the positions at 2^32, close against blocked calls, reuse of a
slot. Correct when: an ordered byte stream, true end of file, no use after reuse.

**Message queues** (`ipc/msgqueue.c`). State: 16 named queues, each a sorted
array of 32 messages under a mutex; a counter of ids. Operations: open, close,
send, receive, try-receive. Hard: insertion by priority, full and empty, a slot
that is closed and opened again. Correct when: priority order, FIFO within a
priority, no message of another queue, nobody blocked for ever without cause.

**Unix sockets** (`ipc/unix_sock.c`). State: a table of sockets under a
spinlock; a listening socket and its one client share two rings, crossed over,
each under a mutex. Operations: create, connect, send, receive, close. Hard: who
frees the rings, what a blocked end learns of a close, partial copies. Correct
when: whole messages, once, at the peer of their sender.

**Environment, system calls** (`ipc/env.c`, `ipc/syscall.c`). A table of
variables whose keys are cut to their field; a dispatch table for INT 0x80,
which no IDT gate leads to (`exception_register` takes vectors below 32 only,
`cpu/idt.c:148`), and an ELF loader nobody calls.

**Physical pages** (`mm/phys_alloc.c`). State: one bit per page and a counter.
Operations: initialisation from the boot loader's map, allocation and release of
a page or a run. Everything that needs memory calls it. Hard: rounding and
overflow at the edges of the map, no lock. Correct when: one owner per page,
nothing reserved is given away, nothing is lost, the counter is right.

**Heap and slabs** (`mm/heap.c`, `mm/slab.c`). State: a list of blocks in the
order of addresses, a table of allocations for leak reports; caches of equal
objects in three lists. Operations: allocate, free, resize, grow, report. Hard:
splitting and coalescing, growth that fails half way, no lock in the heap.
Correct when: blocks are disjoint, each caller's is its own, every object
is in one place and every slab in the list its count says.

**Paging and swap** (`mm/paging.c`, `mm/swap.c`). State: page directory and
tables, large pages for the kernel; a bitmap of disk slots and a table of 1024
entries from address to slot. Operations: map, unmap, translate; swap out and
in. Hard: a frame freed before the table knows the slot, a full table, I/O errors
half way. Correct when: a page is in a frame of its own or in a slot of its own,
and holds what was written last.

**Processes and signals** (`mm/process.c`). State: a table of processes with
pending signals, handlers and a sorted list of memory areas from a slab cache.
Operations: create, fork, exit, signal, handle, insert and remove areas. Nothing
schedules them and `current_proc` is never set. Hard: signals handled by number
and not in the order they came, fork when the cache runs out. Correct when: a dead
process stays dead, areas stay sorted and every one is owned once.

**IP stack** (`net/net.c`, `net/loopback.c`). State: interfaces in the order of
registration, an ARP cache, UDP sockets with rings. Operations: `net_receive` in
the card's interrupt, `ip4_send`, socket calls of tasks. Hard: the ring shared
with the interrupt without a lock; a datagram that finds no address is dropped.
Correct when: a reader gets every byte once, in order.

**DHCP and DNS clients** (`net/dhcp.c`, `net/dns.c`). State: a transaction id
each, the current lease. Operations: one blocking call each, which polls its
socket every 10 ms to a deadline. Hard: late, repeated and foreign answers.
Correct when: the answer belongs to the question, the call always returns and
leaves no socket open.

**TCP** (`net/tcp.c`). State: 16 connections with sequence numbers, a state and a
receive ring. Operations: connect, send, receive, close, and `tcp_receive` for a
segment. Hard: loss, repetition and reordering, partial fits, a FIN in between.
Correct when: sequence numbers count what was sent and stored, and what the
receiver reads is a prefix of what the peer sent (it is not, see 4).

**VFS and file systems** (`fs/`). State: the table of file systems, the mount
table, node trees (ramfs), tables of entries (devfs, procfs, sysfs), and
read-only views of disks (ext2, FAT32, ISO 9660). Operations: mount, look up,
open, read, write, list. Hard: path prefixes, chains and indirections across
sectors, disk errors in the middle. Correct when: what is listed is found, what
is read are the file's bytes.

**Block drivers** (`drivers/ide.c`, `nvme.c`, `ahci.c`, `fs/partition.c`). State:
the registers of a channel shared by two drives and every task; submission and
completion rings with phase bits. Hard: overlapping calls, late completions.
Correct when: a driver's answer is the one to the call.

**Network drivers** (`drivers/e1000.c`, `drivers/rtl8139.c`). State: two
descriptor rings between the device, the interrupt handler and tasks. Hard: an
interrupt raised while one is served; a send interrupted by an ARP answer. Correct
when: every frame the device kept is handed up once and in order.

**Input drivers** (`drivers/keyboard.c`, `mouse.c`, `vmmouse.c`, `serial.c`).
State: rings between interrupt and task, a packet being put together, modifiers.
Correct when: no key or click is lost or doubled while there is room.

**Watchdog and clock** (`drivers/watchdog.c`, `drivers/rtc.c`). State: two
counters, the CMOS index register shared with IRQ 8. Hard: reading a clock that
moves, an interrupt between index and data. Correct when: a time that was read is
one the clock had; a reset comes a timeout after the last pet, and only then.

**Desktop** (`src/os/src/`). State: the one stored user, the form being filled,
windows with focus and dragging, two menus. Operations: a frame of the log-in and
of the desktop; log-out, shutdown. Hard: a button still down from the screen
before, press and release in one frame, a click seen by two layers. Correct when:
the desktop runs only for the stored user, and a click acts on one thing.

**Debugging** (`debug/`). Probes put an INT3 over an instruction and step over it;
the GDB stub halts the kernel and takes commands from the serial line; both want
exceptions 1 and 3. Hard: a task switch or a change of the table between a hit and
its single step; a damaged or lost character, a command sent twice. Correct when:
code is never lost, a hit calls its handlers once around the instruction, and the
stub runs what was asked, whole and in order. The rest prints.

**Boot, CPU, SMP, display, sound, USB** (`boot.S`, `kernel.c`, `cpu/`,
`drivers/`). Initialisation in a fixed order with interrupts off, descriptor
tables, application processors that are started and halt, framebuffer and
register I/O.

`PROJECT.json` lists every component with its sources and whether it is modelled,
and every hazard at its line with the properties that watch it.

## 3. The modules and the code

### 3.1 `Scheduler`

A step is one call of the running task or one interrupt. `timer_handler` runs
with interrupts off and is one action (`TimerHandler`), split by its outcome:
`StayInQuantum` (slice not used up), `KeepCurrent` (nobody else is found),
`SwitchTo`. The action holds all it does: the clock, `wake_sleepers`,
`mlfq_demote`, the requeueing, the choice, the switch, and `age_tasks` and
`reap_zombies` on multiples of 50 ms. `TimerInterrupt` is IRQ0, `Yield` is INT
0x20. `task_sleep` and `task_exit` are two steps each, the change under `irq_save`
(`Sleep`, `Exit`) and the INT 0x20 after it: `pc` says who is in between.

* A task switched out returns out of its own `sched_switch_context`, ages, reaps
  and leaves through the EOI of `isr_dispatch`. A task that never ran (`fresh`)
  starts in its function (`boot.S:155-201`) without either: `inService` stays set
  and no timer interrupt comes until it enters INT 0x20.
* `clock` is `uptime_ms` modulo 50 and `sleepLeft` the time to the deadline. That
  is exact up to the wrap of `uptime_ms` after 49.7 days, which is left out.
* `RT` stands for 255, which is both `TASK_PRIO_RT` and `bitmap_top`'s "empty".
* Slot 0 is the idle task, whose context is that of `cmain` and the desktop.
* State BLOCKED does not occur: nothing in the tree sets it.

### 3.2 `Mutex`, `RWLock`

`Mutex` gives `mutex_t` as a record with `Lockable`, `Locked` and `Released`. The
waiter lists are left out because no code reads them: `mutex_lock` polls,
`condvar_wait` is unlock, sleep, lock, and signal and broadcast wake nobody.

`RWLock` has the spinlock (`guard`), the readers' count, the semaphore and the
place of each task. On one processor a task that holds a spinlock has interrupts
off, so nobody runs until it enters the scheduler by itself, which the first
reader does inside `sem_wait` with the spinlock taken. The next reader spins for
ever (`Spin`): the machine stops, and so does the model (`CHECK_DEADLOCK FALSE`).

### 3.3 `Pipe` over `ByteStream`

One slot, byte by byte: taking the mutex, each test of a wait loop, each byte,
the update of `count`, giving the mutex back, and the freeing of the slot after
it are separate steps. Reader and writers follow the API: an end is closed once
and not during a call on that end; the other end may be in any call.

`ByteStream` is a sequence of at most `CAP` bytes with write, read, end of file
and a fresh start. The refinement mapping takes the bytes between the two
positions, less those a read in progress has copied, plus those a write in
progress has stored, so a byte passes at the moment it is copied.

### 3.4 `MsgQueue` over `PriorityQueues`

The array is touched only by the owner of the mutex, so an insertion with its
shifting is one step; the look-up of the id comes before the mutex and is a step
of its own. `mq_open` and `mq_close` take no lock. The model keeps to what that
asks of the callers: one task at a time opens queues, and a queue is closed when
no call on it is in progress. Slots are closed and opened again with the old
messages still in them (`memset` clears them only then), and callers keep ids of
closed queues.

`PriorityQueues` has one FIFO per priority and queue and delivers from the
highest that is not empty. The mapping (`Boxes`) takes the messages of a priority
to be those between the insertion point of the next higher priority and its own
(`Behind`, `OfPriority`), so the insertion point and the shifts must be right for
it to hold.

### 3.5 `Pmm`

`pmm_init` is computed: `MemBytes`, `Total`, the regions rounded inward, the
pages of the kernel and of the bitmap, all in arithmetic modulo 2^32 (`ADDRS`).
A call is then a scan with a position and the length of the run in hand, the
test that ends it, and the marking. The build keeps the word of the bitmap it
tested in a register and stores the changed copy (`kernel.asm:2571-2592`,
`:2619-2631`), so test and store are two steps (`Find` and `Take`, `Test` and
`ClearOne`); the calls for runs hold `free_pages` in a register to their end
(`:2668-2681`, `:2716-2742`).

`Preempt` says whether calls may interrupt each other. FALSE is boot, where
interrupts are off, or callers that exclude each other; TRUE is what the code
allows, as it takes no lock. Callers release pages they own, and also pages that
are free already, page 0 and a page beyond the memory.

### 3.6 `KHeap`

A call is one step: the list of blocks with its holes, first fit, splitting,
merging with the next and the previous block, and growth. A growth may get any
number of the pages it asks for (`Grown`); what it got before it failed belongs
to no block afterwards, as in the code. Sizes count units of eight bytes, so that
alignment is built in. The file takes no lock although the network interrupt
allocates (`net/net.c:177`); the model keeps to callers that exclude each other.
The leak table is that of callers compiled with `HEAP_LEAK_DETECT`; `krealloc`
does not tell it of a move and a full table overwrites its slots in turn.

### 3.7 `Slab`, `Process`

`Slab` gives a cache as a value with operators: `SlabAlloc` is the set of ways
an allocation may come out (the heap or the pages may be missing), `SlabFree` a
function. Both run with interrupts off. `Process` keeps the areas of processes
in such a cache. `Fork` copies areas as far as the cache gives. Its second half is the signals of
one process: pending signals, handlers, and `HandleSignals`, which takes them by
number. Slots of the process table are never given back, and exit of the running
process halts the machine as `current_proc` is never set.

### 3.8 `Swap`

`swap_out` and `swap_in` are split at the disk transfer and at the steps after
it (`Written`, `Unmap`, `Note`; `ReadIn`, `Forget`), each transfer may fail, and
tasks write to pages and fault meanwhile. Swapping has no caller; the workers
follow the comments of the file (one page is moved by one worker at a time).
`page_fault_handler` gives a page in the heap's range a new frame and never asks
the swap table, although the comment at `mm/swap.c:11` says so: a page that is
touched while away is `disturbed`, one that finds the table full is
`dropped_out`, and the property speaks of the others.

### 3.9 `UnixSock`, `Env`

A look at a ring under its mutex is one step; a call that waits looks again.
`SockClose` of a listening socket gives its rings back, also under a call that
waits on one of them: such a ring is `pulled`, and the properties end there. An
environment key that is too long is stored cut and never found again.

### 3.10 `Vfs`

Paths are sequences of characters, because the code compares characters: the
mount point is the one with the longest matching beginning, then names are taken
between slashes. Tables of devfs, procfs and sysfs are registered and looked up
by name; a node of a table is a value, as every lookup allocates a new one.
`O_CREAT` does nothing, `umount` does not call the file system, and nothing calls
`mkdir` or `unlink` of ramfs; those two are modelled as the interface offers them.

### 3.11 `Fat32`, `Ext2`, `Iso9660`

One job at a time, one disk access a step, any of which may fail. A byte is known
by its place on the disk, so that the clusters, sectors and offsets a read goes
through are what the property compares with the file's own. Volumes are well
formed (no cyclic chains). The code takes things that real volumes have another way:
the root record of a disc at offset 134 and not 156, a hole of an ext2 file as
block 0, only the twelve direct blocks of a directory, FAT sectors above 512
bytes: the volumes here are as the code reads them, and these are named in 6.

### 3.12 `Drives`

`ide_read` and `ide_write` are split at the register writes, the command and
each sector, by two tasks without a lock; the channel and the drive keep their
registers. A call is `alone` while nothing overlaps it. `partition_read` reads the
first sector, the header and the entries, of which those behind its 32 sectors
are whatever the heap has there. The NVMe queues have phase bits, positions,
answers that come late, and timeouts; commands do not compare the identifier.

### 3.13 `Exe`

`pe_load` check by check, the copy of headers and sections and the relocations;
the archive of `initrd`; `elf32_load` over the two-level page tables with large
pages, where `paging_map_page` refuses a large page and the loader does not look.
A place in an image is a word of the file, known by its place there.

### 3.14 `Debug`

An exception with its handler is one step with the instruction that raised it;
between a hit and its single step other tasks run, and the table may change, also
by the handler of the hit. `mixed` is a hit that was not alone: of those the
handlers' order is claimed for, the kernel's code is for all. The stub takes one
character a step off the line, and so does the debugger at its other end, which is
modelled from the protocol: it sends again on `-` and after a timeout, and
acknowledges an old packet. The checksum is one character that tells the data it
was made of: faults that cancel out in eight bits are not modelled.

### 3.15 `Net`, `NetClients`

`net_receive` runs in the interrupt and is one step. The loop of `sock_recvfrom`
is two, the copy of a cell and the move of the head, since the interrupt may come
in between. Frames on their way are a set that nothing leaves: each arrives late,
twice, out of order or never. What a station answers is joined to the sending.
The loopback interface is registered first and becomes primary in one of the two
configurations, as at boot; it adds a second Ethernet header, so nothing comes
back (`Lo`). `NetClients` is the one task that calls `dns_resolve` and
`dhcp_discover`: a call opens a socket, sends, polls to its deadline and closes.
A cell is a piece of a datagram; a DHCP reply shorter than `dhcp_pkt_t` is dropped.

### 3.16 `Tcp`

The calling task goes through socket, connect, send, receive and close;
`TcpReceive` is the handler of a segment, whole. The peer is an RFC 793
endpoint, and segments in flight are a set as above. A send is split between the
segment and the advance of `snd_nxt`, as the interrupt may come there. `Recv` is
as wrong as the code: it reads at the position where the next byte will be stored
and advances both. Nothing retransmits.

### 3.17 `E1000`

The device fills descriptors while the handler empties the ring, and may raise
the interrupt again while it is served. A task's `e1000_send_frame` is three
steps (buffer, position, register), between which the handler may come in and
send an ARP answer; that, and a ring that is overrun, is `torn`.

### 3.18 `Input`, `Rtc`

Handlers run with interrupts off and are one step; the task's `buf_pop` is two.
A mouse packet comes byte by byte, a report of the host may come in its middle
and throws it away. The CMOS index register is shared: a task selects and reads,
IRQ 8 selects register C in between; the clock moves on any step. The watchdog's
counters count modulo `TICKS`, and a pet is a load and a store. The two
conversions, hours of both modes and months from 1970 to 2099, are run through.

### 3.19 `Login`, `Windows`, `Desktop`

A frame of the log-in is one step: buttons sampled, a click, a key. A frame of
the desktop is several: the context menu, the windows and the rest act in turn on
one sampled input. Where the pointer is stays open in each, so windows lie
anywhere. `Desktop` joins them: log-out ends `Windows` and begins `Login`.

## 4. The runs

| Run | Bounds | Shows |
|---|---|---|
| `scheduler` | 3 slots, priorities 0..3 with 3 as RT, quantum 2, period 4, aging and reaping limits 2 and 1, sleeps up to 2 | one RUNNING task (`RunningIsCurrent`), no reaping of the stack in use (`StackOfCurrent`), no lost timer (`TickNotLost`), slice and clock in step (`QuantumAligned`), and no switch at all while a task of priority RT is ready (`RTReadyStopsSwitching`) |
| `starvation` | the same, all tasks of priority 2, fair | **violated:** a ready task runs in the end (`ReadyRuns`) |
| `pipe` | 1 reader, 2 writers, buffer 2, positions modulo 4, calls up to 3 bytes | the ring is a `ByteStream`; `count` and positions agree; exclusion; no late use; a close frees the other end's blocked tasks |
| `rwlock` | 3 readers, 3 writers | a writer is alone (`Exclusion`); leaving never spins |
| `sleeping_reader` | the same | **violated:** nobody sleeps with a spinlock (`NeverHeldAsleep`) |
| `mqueue` | 3 tasks, 1 slot of 2 messages, 2 priorities, 2 ids | `ImplementsQueues`, `OwnQueue`, `CallsEnd` |
| `pmm` | 2 users, pages of 2 bytes in 32 bytes of addresses, 9 pages at most, words of 4 bits, runs up to 3, four maps | one owner per page, nothing lost, the counter, only available pages, failure only when there is no run |
| `pmm_high` | a map with a region above the address space | **violated:** only available pages (`OnlyAvailable`) |
| `pmm_race` | `Preempt` TRUE | **violated:** one owner (`OneOwner`) |
| `network` | *clients:* 1 socket with a ring of 4 cells, 1 ARP entry, 2 stations, 2 DHCP servers, 2 calls, 3 datagrams that arrive, 2 polls; *TCP:* 1 slot, ring 3, segments of 2, one or two connections with up to 3 bytes; *card:* rings of 3 descriptors, 6 frames in, 4 out | sockets lose and repeat no byte while they have room (`BytesExact`); an address is that of the name asked for, a lease one a server acknowledged (`AnswersAreOwn`); the card's frames go up and out in order and once (`CardTrue`); `snd_nxt` and `rcv_nxt` count what was sent and stored (`SequenceNumbersTrue`); every call returns and leaves no socket (`CallsReturn`, under fairness) |
| `memory` | *heap:* 4 pages of 8 units, requests of 2, 7 and 12; *leaks:* 2 slots, 4 blocks; *areas:* 2 processes, 2 slabs of 2; *signals:* KILL, STOP, CONT and one more; *swap:* 2 pages, 3 frames, 2 slots, 1 entry, 2 workers; *sockets:* 2 slots, rings of 3, 2 tasks; *environment:* 3 slots, 3 keys and a long one; *files:* 2 mount points, 2 entries a table, 2 nodes; *disks:* a volume of each kind with several clusters, all kinds of pointers, two versions of a file; *IDE:* 2 tasks, 2 drives, 3 calls; *partitions:* tables of both kinds; *NVMe:* rings of 3, 6 commands; *images:* one good file and one for each check; *probes:* 2 slots, 2 instructions, 2 tasks; *debugger:* 2 commands out of 4, a buffer of 3, 2 faults of the line or timeouts | blocks never overlap and each caller's is its own and large enough (`HeapDisjoint`); objects, areas and deaths are accounted for (`ProcessesTrue`); a page left alone survives the swap (`SwapKeepsPages`); what was stored, listed or linked is what is found, read and loaded, a probe's code is kept and a debugger's commands are run as asked (`StoredIsFound`, with a part for each module) |
| `desktop` | rings of 3 for keys and the mouse, 5 keys, 2 packets, a screen of 10 pixels, a clock of 2 by 2, counters modulo 8 with a timeout of 3, all hours and months to 2099; names of 2 and passwords of 3 characters out of 2, 4 applications for 3 windows | keys, clicks and times are those there were, the watchdog fires when it should (`DriversTrue`); only the stored user gets the desktop (`OnlyUsers`); focus, drag and click go to one window (`WindowsTrue`) |

Why the bounds are enough. *Scheduler:* two ordinary slots beside idle make every
sharing of a bitmap bit possible, two quanta to a period separate "end of slice"
from "multiple of 50 ms", limits of 2 and 1 make aging and reaping happen within
few passes. *Pipe:* the buffer is shorter than a call, so partial writes and full
and empty occur, and positions wrap after two buffers. *Read-write lock:* three
of each give a first, a middle and a last reader beside competing writers.
*Queues:* two messages of two priorities give every insertion point, a full and
an empty queue; the second id makes the slot pass from one queue to the next.
*Pages:* words of four bits lie across regions and runs, memory maps end inside
pages, and memory is small enough to run out.
*Network:* one ARP entry makes the cache overflow, one socket is opened again by
the second call while answers to the first are under way, a ring of four cells
wraps and overflows with three datagrams; two connections one after the other
give segments of an earlier one. *Card:* six frames go twice round three
descriptors. *Memory:* four pages let a growth fail half way and the heap grow
behind the gap; one entry in the swap table is full with the second page; rings of
three are shorter than two messages; every chain crosses a cluster, a sector and
an offset, and every pointer kind of ext2 is used. *NVMe:* six commands go
twice round with the phase bit, with and without timeouts. *Desktop:* rings of
three wrap, three windows leave one application without a place, the watchdog's
counter wraps between pets.

### Findings

1. `scheduler.c:205` A ready task can starve. Tasks of one priority share a bit
   that switching to one of them clears; `bitmap_rebuild`, which the comment at
   `:52` says runs on every switch, is never called.
2. `scheduler.c:139` The watchdog task's priority, 255, is the answer "nothing
   ready": while it is ready nobody is ever switched in, and the watchdog it is
   to pet resets the machine after ten seconds.
3. `scheduler.c:181` The aging pass of an unfinished slice is dead code, because
   slice and clock advance together.
4. `sync.c:172` The first reader sleeps with the lock's spinlock taken.
5. `phys_alloc.c:108` A memory region above 4 GB frees all of the memory, because
   the clamped start overflows when it is aligned.
6. `phys_alloc.c:187` Two interleaved allocations return the same page.

Met while modelling, and without a run of their own since each shows in a single
call or in the text of a definition:

* `net/tcp.c:200` `tcp_recv` returns what lies behind the newest byte, and the
  buffer never becomes emptier. `net/tcp.c:176` nothing is sent again;
  `:276` a FIN is taken whatever its number; `tcp_send` spins on a closed window.
* `net/net.c:251` A ring that overflows looks empty afterwards. `net/loopback.c:23`
  Nothing that is sent to loopback arrives. DHCP runs on loopback first, as it is
  registered first, and cannot resolve the broadcast address on either.
* `mm/heap.c:94` The growth ignores whether a page could be mapped, and pages of a
  growth that failed are lost. `mm/swap.c:11` The page fault does not ask the swap
  table. `mm/swap.c:71` A page that finds the table full is lost without a word.
* `mm/process.c:29` A zombie that is stopped and continued runs again.
* `ipc/unix_sock.c:212` Closing a listening socket frees rings under a call that
  waits on them; `:68` a message longer than a ring waits for ever.
* `fs/vfs.c:77` `/devices` is looked up in the mount of `/dev`. Names with a slash
  (`fs/procfs.c:11`) are listed and never found. `debug/crashdump.c:120` opens a
  file with `O_CREAT`, which nothing creates.
* `fs/fat32.c` The partition's start is ignored, and a FAT sector that cannot be
  read ends a file early without an error.
* `drivers/nvme.c:122` After a timeout every command takes the answer of the one
  before; `:190` a controller that never gets ready is not noticed.
* `drivers/rtc.c:44` says the clock is read twice; only the seconds are.
  `:62` In 12-hour mode the afternoon is lost. `:99` `rtc_to_unix` is a day ahead
  throughout leap years.
* `drivers/mouse.c:133` A click that finds the queue full is lost for good; `:96` a
  report of the host in the middle of a packet shifts all that follow.
* `debug/gdbstub.c:228` takes over the vectors `kprobes_init` registered just
  before (`kernel.c:410`): an armed probe stops in the stub, and the instruction
  under it is skipped. `debug/kprobes.c:72` The first probe in a step is taken for
  the one that was hit; one removed in its step leaves the trap flag set.
* `debug/gdbstub.c:210` An INT3 met in a single step leaves the trap flag set, so
  that `c` stops again after one instruction. `:83` any character but `+` has a
  packet sent again, so that one damaged `+` has it sent for every character of
  the next command. `gdbstub.h:13` lists `G` and `M`, which have no case.
* `src/os/src/desktop.c:421` A click on the context menu also reaches the window
  below. `src/os/src/app.c:293` Closing a window in the background leaves two
  with the focus. `:429` A press and release in one frame leaves a window
  dragged by the next press anywhere.

### Fairness

* `Scheduler!FairSpec`: weak fairness of `TimerInterrupt` (the PIT keeps ticking)
  and `Yield` (every task of `kernel.c` and the desktop loops sleep or yield).
* `Pipe!FairSpec`, `MsgQueue!QueueFairSpec`: inside a call a task keeps running (weak
  fairness of its steps). For taking the mutex, strong fairness per task:
  `mutex_lock` tries again each time the task runs, and the assumption is that
  it does not find the mutex taken at every one of its attempts. That is an
  assumption on the scheduler; the run `starvation` shows that the scheduler
  does not give it to tasks of equal priority, so `CloseReleases` and
  `CallsEnd` say that the IPC code loses no wake-up, not that the whole system
  is free of starvation. There is no fairness on starting calls, on `Close` or
  `Create`.
* `Network!Spec`: weak fairness of the client task's own steps (`ClientStep`): it
  is scheduled again and again, its sleeps of 10 ms end. Nothing is asked of the
  network, the servers or the task's decision to make a call: `CallsReturn` holds
  by the deadlines alone. As with the queues, that is an assumption on the
  scheduler, which the runs `scheduler` and `starvation` show it does not keep
  while the watchdog task is ready or others share the task's priority:
  `CallsReturn` says that the clients never wait for what does not come.

## 5. What is proved

TLAPS checks these for every value of the constants that satisfies the named
ASSUME of the module. Each rests on an inductive invariant, proved by
`Init => IInv`, `IInv /\ [Next]_vars => IInv'` and `IInv => ...`.

**`TaskProofs`** has the scheduler, the read-write lock and the message queues, each
with an invariant of its own.

* Scheduler (`SchedulerAssumption`, in particular that the aging period is a
  multiple of the quantum, 50 = 5 * 10). `IInv` adds to the run's properties that a
  task that is not current has a full slice (`OthersHaveFullSlice`, why
  `QuantumAligned` survives a switch), that fresh tasks are at the start of their
  code and not current (`FreshAtStart`), and that priority RT is only ever given,
  never reached by aging (`RTIsGiven`). Theorems: `TypeCorrect`, `AlignmentHolds`,
  `OneRunning`, `NeverReapsCurrent`, `TickSurvives`, `RTFreeze`.
* Read-write lock (finitely many readers). `LockInv`: the semaphore is taken exactly
  when a writer or an admitted group of readers is inside, and `readers` counts them
  and the one that waits. Theorems: `RWLockTypes` (the semaphore never above 1),
  `WriterAlone`, `LeavingIsFree`.
* Message queues (`MsgQueueAssumption`). `MsgQueueInv` says that ids of open queues
  differ and are below the counter (`Numbered`), that a call stays on the queue it
  found (`CallsOn`), who owns a mutex (`Locking`), and that every array is sorted
  and holds messages for the queue of its slot (`Kept`). Theorems: `QueueTypes`,
  `ReceivesOwn`, and `QueuesByPriority`: the sorted array implements
  `PriorityQueues`. An insertion moves the insertion point of every lower priority by
  one, so one box grows at its end and the others keep their messages; a removal
  takes the first message, which is the head of the highest box that is not empty.

**`PipeProofs`** (`PipeAssumption`: the wrap is a multiple of the buffer size, as
2^32 is of 4096). The invariant relates the mutex to where tasks are
(`OwnerInside`, `DepthOne`), the copy in progress to the positions and the count
(`CopyInv`, `CountMatches`), and the references to who may still come
(`EndInv`). Theorems: `PipeExclusion`, `PipeCount`, `PipeReuse`, and
`PipeIsStream`: the pipe implements `ByteStream`, step by step, for every
capacity, set of tasks and call length; `PipeTypes` is the type invariant.

**`PmmProofs`** (`PmmAssumption`; `MapsAssumption`, that addresses and sizes in a
memory map are natural numbers; and `~Preempt` as a hypothesis of every theorem,
since `pmm_race` shows that they fail without it). The invariant is a
conservation law, `Conserved`: the pages free at boot are those with a clear bit,
those with an owner, and those the call in progress is handing over
(`Transit`). It needs that calls do not overlap (`Sole`), what each place of a
call knows of its registers (`Register`, with `Scanning` for the run in hand) and
what the counter lacks in the middle of a call (`Counted`). A step of a caller
only has to balance its own books (`Balanced`); `StepKeeps` gives the rest.
Theorems: `PmmTypes`, `PmmOneOwner`, `PmmCount`, `PmmConserves`, `PmmFails`, and
`PmmOnlyAvailable`, with the hypothesis `LowMemory` that no available memory
begins in the last page of the 32-bit address space or above; `pmm_high` is the
case it excludes.

**`NetworkProofs`** (the assumptions of the four modules; all sizes of rings, caches,
windows and tables). Each part has an invariant, and the composition takes them
together. `CardInv`: measured from the position the handler has reached, the
descriptors that are done hold the frames that were not handed up, in order, and
those between the tail and the position the frames not yet sent. `StackInv`: the
cells between the two positions of a socket's ring are the bytes that were stored
and not read, the interrupt only writes behind them, and what the client in
progress has read and waits for is of its own question. `TcpInv`: `rcv_nxt` counts
the bytes stored, `snd_nxt` those sent, and every segment in flight is one that
was sent with the number it has. Theorems: `CardDeliversInOrder`, `SocketsExact`,
`ClientsBelieveTheirOwn`, `TcpNumbersTrue`, `NetworkTypes`.

**`StoreProofs`, `FileProofs`, `MemoryProofs`** prove about the sides of `Memory`. The
first begins with the lemmas all three use (remainders, least elements, sequences,
folds) and goes on with sockets, environment, drives, images and probes; the second
has the file systems; the third has memory itself and the debugger's stub, and in it
the sides are put together. What each invariant says:

* `SwapInv`: workers are on pages, frames and slots of their own (`WorkersApart`,
  `FramesApart`, `SlotsApart`), the table agrees with the disk (`TableTrue`), and a
  page nobody disturbed is where its entry or its worker says (`Kept`). Theorems:
  `SwapInvariant`, `SwappedPagesKept`.
* `HeapInv`: the list is in ascending order without overlap below `heap_brk`, with
  `used_bytes` its sum (`Shape`), and callers hold exactly the used blocks, each as
  large as was asked for (`HeldIn`). The heart is the merge: one pass over the
  whole list. It is a fold, and the invariant goes along the table of the function
  the fold is defined by (`FoldTable`, `FoldAlong`). Theorems: `HeapInvariant`,
  `BlocksDisjoint`.
* `SlabInv` says that every slab is in the list its free slots call for; `ProcTrue`
  that the objects given out are those of areas, one each. The copy of areas in
  `Fork` and the handling of signals by number go along the table of their fold
  as well. `SigInv`: where a process stands agrees with the signals that took effect.
  Theorems: `ProcessInvariant`, `AreasOwned`, `SignalsEndOnce`, `ProcessesKeep`.
* `LeakInv`: while no block moved in `krealloc`, the slots name blocks that are held,
  each once; while none was overwritten, all of them.
* `SockInv`: as long as no half of a message was taken, the two ends of a connection
  share their rings and nobody else does (`EndTrue`, `Related`), all who are sending
  into a ring do so for one end (`CallTrue`), and what a ring holds, with what
  is still to be sent, are whole messages of one end (`Whole`, `Known`).
* `EnvInv`: a key that fits is in at most one entry, and that has the value set last
  (`EnvKept`).
* `VfsInv`: the children of a ramfs node live and have names, each is the child
  of one node at one place (`KidsNamed`, `KidsOnce`), roots of mounts live and are
  nobody's child (`RootsTrue`), what a caller has open lives or is an entry that is
  still there (`OpenedTrue`), a node's references are those callers (`RefsTrue`), and
  what was written is in its bytes (`PutsTrue`). The walk over the components of a
  path and the choice of the longest mount point go along their folds.
* `IsoInv`, `ExtInv`, `FatInv`: of a call in progress, that what was read so far is
  what the file has at those places, in its order: for each place how many sectors,
  blocks or clusters lie before it, never a sequence built up a second time. A
  directory's listing is the set of the names met so far, with the positions they
  have; a search has met no entry of the name before where it stands. For FAT that
  needs the chain as a sequence and the place the call has in it, for ext2 which of
  the direct, indirect and doubly indirect blocks an index falls into.
* `DriveInv`: on the IDE channel a call that nobody disturbed finds its own drive,
  sector and count in the registers and its own data on the drive (`Undisturbed`); a
  list of partitions holds the records of the table before the place reached
  (`PartInv`); the two rings of an NVMe queue agree with a number of wraps that
  exists for each state, `\E c : RingsTrue(q, c)`, and completions are
  taken in the order of the commands, each by the call that waits for it until one
  timed out (`NvInv`).
* `ExeInv`: the images of running applications and of the one being started lie in
  blocks of their own (`BlocksApart`), the heap has those and no others (`HeldOnes`),
  each image is what its sections and relocations make of the file (`AppsOK`), and
  the files of the archive are the ones in it (`FilesTaken`). Sections and relocations
  are folds again.
* `ElfInv`: the directory and the tables map each page to at most one frame of its own
  (`TablesAre`; no two pages on one frame, none on a free one or on a table:
  `FramesAre`), and the words of the segments loaded so far are in the
  frames of their pages (`JobKept`).
* `ProbeInv`: an instruction begins with INT3 exactly where a probe is active
  (`ProbeKept`), and a task that hits one alone runs the handlers once each, with its
  own instruction between them (`Alone`). `GdbInv`: a checksum on the line is that of
  a command that was asked, and commands are carried out in their order (`SumsTrue`);
  the kernel was let go by "c" or "s" only (`HaltedTrue`); and while the line made
  no fault, every command is carried out once, and what the debugger took is the
  answer to the command it asked (`ClearTrue`).
* `StoreInv` is all of these and is inductive for `Memory`. Theorems: `StoresKeep`,
  `TypesKeep` (`TypeOK`) and `StoresGiveBack` (`StoredIsFound`), without a side
  condition.

The assumptions are the named ones of the modules. What they ask beyond types:
`DrivesAssumption`, that four partitions fit the table (`PART_MAX` is 128);
`IsoAssumption`, `ExtAssumption` and `FatAssumption`, that a volume is well formed,
its chains and block lists lead to sectors it has, and, on ISO 9660, that no name
looked for is what the cleaning makes of one against the standard; `VfsAssumption`, that names are not empty
and that the largest file is a multiple of the block it grows by; `ExeAssumption`,
that headers and relocations lie in the image; `ElfAssumption`, that programs are
linked to pages outside the large pages the kernel maps memory and devices with;
`DebugAssumption`, that a command has none of the characters that frame it;
`KHeapAssumption`, that a page is longer than a block header.

**`DesktopProofs`** (the assumptions of `Input`, `Rtc`, `Login`, `Windows`). Again an
invariant for each part.

* `KbdInv`: what was read followed by what lies in the ring is what was pressed, and
  what the reader has copied is the oldest of it. `MouseInv`: the queue and the
  clicks of the frame are the buttons pressed since the last one, and as long as no
  byte was eaten, what is in the packet and on the wire is what the mouse sent
  (`InStep`).
* `RtcInv`: for each stage of `rtc_read` what the values read so far allow
  (`ReadTrue`). The clock may go on for any number of minutes between the reads;
  after the minutes were read, the pair is a time that was there, or one that is
  still to come in that minute, and then the second reading of the seconds
  differs. `WatchTrue` gives the distances of the watchdog's counters across their
  wrap.
* `DateInv` goes from month to month; that a year is a leap year exactly when four
  divides it holds until 2099 only, and so does the count of leap days in the code.
* `LoginInv` is the property with its types. `WinInv` adds to the windows what a
  click has acted on as far as the frame has come (`ClickTrue`), and that two
  windows have the focus only after one behind was closed (`AppsTrue`).

Theorems: `DesktopTyped`, `DriversReport`, `OnlyUsersEnter`, `WindowsKept`.

The library's theorems of induction take an operator, which no prover here can
instantiate. A well-founded relation gives induction over a set of numbers, and for
a fold the table of its recursive function is a function like any other: what holds
of the first value and passes from each to the next holds of the last (`FoldAlong`).

Only model-checked: liveness under fairness (`CloseReleases`, `CallsEnd`,
`CallsReturn`), beyond the prover, and the violated properties, which are not
true. Every invariant a passing run checks is stated by a theorem.

## 6. Deviations

* `pipe_create`, `mq_open` and `alloc_task` scan a table and then mark the slot
  without a lock. Each is one step here: none has a caller in the tree that runs
  beside another, and two that did could take the same slot.
* A broken pipe's return value, the truncation of messages and the clearing of
  pages are left out: no property speaks of them.
* Statistics, console output and the serial log are left out, as are checksums
  and byte order of packets.
* Code without a caller is modelled as its interface and comments describe its
  use: swapping, `tcp_receive`, `elf32_load`, `app_launch_exe`, Unix sockets,
  `mkdir` and `unlink` of ramfs. The module says so each time.
* Malformed input that the code does not check is outside the models: cyclic FAT
  chains, PE headers and relocations outside the image, ELF headers outside the
  file. `ExeAssumption` and the volumes of `MCMemory` state it.
* Properties stop where the code leaves an undefined value, and a ghost says
  where: `lost` (a ring of a socket overflowed), `torn`, `pulled`, `disturbed`,
  `dropped_out`, `overwritten`, `alone`, `eaten`, `pushedBack`. What the code does
  there is in the model; what it promises is not stated.
* Time is relative: deadlines are counted down, so the wrap of `uptime_ms` after
  49.7 days is left out.

## 7. Not modelled, and the plan

Not modelled, with the reason:

* `drivers/rtl8139.c`: driver and device disagree on the size of the receive
  buffer (8192 + 16 against 8192), so that what is read after the first wrap is
  not determined by the code. `drivers/ahci.c` reads through `ide.c`, with the port
  number as the drive (`:131`), and has no caller. `drivers/serial.c` polls a
  register.
* `cpu/smp.c`: the other processors start and halt. ACPI, PCI and the interrupt
  controllers: register programming and the walk over tables.
* `debug/`: the shell, the profiler and the crash dump print; of a command of
  the debugger, which registers and bytes it reads.
* Dispatch of system calls: no gate leads to it. `env_clone`, `kmalloc_aligned`,
  `slab_cache_destroy`, copy-on-write, turning the watchdog off: no caller, or
  nothing that sets `current_proc`.
* Display, sound, USB, the drawing of the desktop, and what an application does
  with a key in its own window: no protocol between actors.
* String functions, the entropy pool, and the stubs `mm/shmem.c`, `fs/pagecache.c`.

What would be next: a call without a lock in the heap, the block list between two
tasks (3.6), which needs `kmalloc` in steps; and the stream of bytes of a TCP
connection, once `tcp_recv` reads where the bytes lie.

## 8. Running

    tlc -workers 2 -config MCPipe.cfg MCPipe
    tlapm PipeProofs.tla

The runs finish within about two minutes each, the proofs of a module within one to twenty-five.
