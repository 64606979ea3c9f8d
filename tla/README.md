# jordyOS in TLA+

A TLA+ development kept beside the code of `jordyOS`, the teaching kernel of
this repository. It models the kernel's parts as state machines, checks them
with TLC on small instances and proves the central properties with TLAPS for
every value of the constants.

## 1. The system

jordyOS is a small x86-64 kernel: one address space for the kernel, cooperative
tasks, a RAM file system, an RTL8139 network driver, an eBPF firewall, a TCP
client for file transfers, and a ring-3 isolation layer for the Apelang
interpreter. Nothing preempts kernel code. The network is polled: every wait for
a key (`poll_ch`), every `yield` and every pass of a waiting loop calls
`rtl_poll`, which hands received frames to the protocol code and then calls
`tcp_tick`. Its concurrency is therefore that of events: which frame, which key
and which timer comes first; each handler runs to its end.

| Component | State | Operations | Hard behaviour |
|---|---|---|---|
| TCP connection, `net/tcp.c` | one `Tcp`: sequence numbers, retransmission queue of 16 slots, windows, timers, both files | `tcp_start`, `tcp_input`, `tcp_tick`, `tcp_abort` | loss, reordering, duplication, wrap of sequence numbers, zero windows, failed emissions, retransmission timer, close of both directions, deadline |
| TCP adapter, `net/tcp_native.c` | the connection, `running`, `resolving`, peer's MAC, next port, 8 TIME-WAIT records | `tcp_command`, `tcp_net_input`, `tcp_net_poll`, `tcp_net_arp`, `tcp_net_down` | cancellation racing completion, interface reset in the middle of a transfer, exhausted ports and TIME-WAIT records |
| LARP congestion control (submodule, absent; `net/larp.c` is its self-test) | rate, window, minimum RTT | `larp_update`, `larp_window`, `larp_ack_window` | answers depend on timing |
| RTL8139 driver, `net/rtl8139.c` | receive ring and offset, transmit slot, up/down | `rtl_up`, `rtl_down`, `rtl_send`, `rtl_poll` | ring wrap, overflow reset, busy transmit slot |
| Frame dispatch, `net/network.c`; decoding, `net/packet.c` | counters | `net_receive`, `net_decode`, `net_cidr`, `net_number` | malformed frames, numeric edges |
| Firewall, `net/firewall.c`, `net/fw_bpf.c`, `net/command.c`, `net/bpf/program.bpf.c` | ordered rules (32), defaults, counters, maps of the two eBPF programs | add, delete, reset, enable, decide per packet | order of rules, table limits, the compiled maps against the rule list |
| eBPF VM, `net/bpf_vm.c` | registers, stack, fuel | validate, execute | bounds, jumps, division, fuel |
| RAM file system, `kernel.c` | 16 file slots | list, read, write, delete | full table, oversize, overwriting |
| Tasks and shell, `kernel.c`, `ctx_switch.asm` | 6 task slots, current task, command line, shift keys | create, yield, exit; desktop, prompt, foreground loop; `poll_ch` | slot reuse, one shared application stack, keys from two devices, polling in every wait |
| Isolation, `isolation.c`, `interrupts.asm` | two processes, page tables, active process | prepare, run, system calls, faults | range checks, kill and return to the kernel |
| Apelang platform, `ape/platform.c` | heap, open files | malloc/free/realloc, FILE layer | splitting and coalescing, write-back on close |
| Console, desktop, boot, applications | screen, cursor | drawing, key input | device I/O |
| Simulators `cpu/`, `memory/`, `locks/` | stand-alone Python scripts | | plot experiments |

How they interact: shell -> `tcp_command` -> ARP and transfer loop -> `sys_pollc`
-> `rtl_poll` -> `net_receive` -> firewall -> `tcp_net_input` -> `tcp_input`;
then `tcp_net_poll` -> `tcp_tick` -> `emit` -> firewall -> `rtl_send`, which
fails when the transmit slot is busy, the interface is down or a rule says so.
A completed transfer writes its file with `sys_write_file`.

What makes the parts correct, in one line each: TCP delivers both byte streams
unchanged, respects the peer's window, ends, and completes when it can; the
adapter saves a file only for a completed transfer and answers late FINs; the
driver never reads outside its ring; the firewall decides as the first matching
rule says; the VM stays inside its memory; a failed file operation changes
nothing; one foreground application at a time; a user process reaches only its
own pages; the heap's blocks stay disjoint and owned; a stream holds what was
written.

`PROJECT.json` lists every component with its status, and the hazards with the
line where each bites.

## 2. Modules

| Module | Models | Composed of |
|---|---|---|
| `Tcp` | `net/tcp.c`: the connection against arbitrary segments | |
| `Stream` | what a connection promises its user | |
| `TcpConnection` | the connection, a conforming peer, a faulty network, a clock | `Tcp` |
| `TcpTransfer` | `net/tcp_native.c` and the polling of `net/rtl8139.c` | `Stream` |
| `RamFs` | the RAM file system of `kernel.c` | |
| `FileMap` | what the file system promises | |
| `Isolation` | `isolation.c`: processes, their memory and system calls | `RamFs` |
| `Firewall` | rule list and commands (`net/firewall.c`, `net/command.c`), maps (`net/fw_bpf.c`), programs, `net_receive` | `Powers` |
| `Packet` | the pure functions of `net/packet.c` and the rewriting of a request into its answer | |
| `Rtl8139` | `net/rtl8139.c` and the card it shares its rings with | |
| `Link` | what a card and its driver promise the protocol code | |
| `Shell` | tasks, console and shell of `kernel.c`, the desktop of `gui.c` | |
| `Heap` | the allocator of `ape/platform.c`, as operators | |
| `Stdio` | its FILE layer | `Heap`, `FileMap` |
| `Streams` | what the FILE layer promises its programs | `FileMap` |
| `BpfMemory` | the address space of the eBPF machine: `memory()` of `net/bpf_vm.c` | |
| `BpfVm` | `bpf_validate` and `bpf_execute` | `BpfMemory`, `Powers` |
| `Powers` | powers of two | |
| `MCTcp`, `MCTcpConnection`, `MCTcpTransfer`, `MCRtl8139`, `MCShell`, `MCStdio`, `MCRamFs`, `MCIsolation`, `MCBpfVm`, `MCFirewall` | instances for TLC | |
| `TcpProofs`, `TransferProofs`, `Rtl8139Proofs`, `RamFsProofs`, `ProgramProofs`, `IsolationProofs`, `FilterProofs` | theorems | |
| `NumberLemmas` | induction, recursion and division, for the proofs | |

The chain from the bottom: `Tcp` implements `Stream` (proved), `TcpTransfer` is
built on `Stream`; `RamFs` implements `FileMap` (proved), `Isolation` uses
`RamFs` for its files and `Stdio`, which implements `Streams`, uses `FileMap`;
`Rtl8139` implements `Link` (proved).

### Tcp

The variables are the fields of `struct Tcp`, under their names. One slot of
`pending` is a record with the fields of `TcpSegment`; `kind` stands for the
flags. `out` is the set of segments the last call emitted. `tx` and `rx` are the
contents of the two buffers, so `tx_size` and `rx_size` are their lengths.

* `Start` is `tcp_start`: `StartInvalid`, `StartValid`.
* `Input` is `tcp_input`, one action per way through it: `InputRefused`,
  `InputSynAck` (the whole option scan is the field `mss` of the message: zero
  when the code returns from it), `InputReset`, `InputChallenged` (all returns
  with `ack_pending = true`), `InputDuplicateAck` and `InputAccepted` (the rest,
  with `ack`, the window update and the data), `InputIgnored`.
* `Tick` is `tcp_tick`, in the code's order: deadline, the owed acknowledgement,
  DONE, the retransmission timer, SYN, close, probe, new data or FIN. `f` and
  `e` say whether `c->emit` accepts the acknowledgement and the other segment.
* `Cancel` is `tcp_abort` as the adapter calls it, `Advance` the clock.

Abstractions: a sequence number is a number modulo `SeqSpace` (2^32 in the
code); `Before` is the signed comparison. Times are in an abstract unit. LARP
answers any window of `Cwnds` and any gap of `PaceGaps`, an RTT sample sets any
timeout of `RtoSamples`: properties hold whatever the controller decides.
`dupacks` is cut at 4 (only the step from 2 to 3 matters). Left out are the
statistics counters and the fields only LARP reads (`flight_us`, `delivered_us`,
`app_limited`, `sent_us`). Ports and checksums are checked before the model's
messages begin.

### Stream

The abstract connection: idle, open, done or failed, and a received stream that
is only appended to, by chunks that fit, until the peer ends it. `Complete` is
possible only for an ended stream. The mapping (`Status`, and the fields `rx` and
`peer_fin`) is in `Tcp`; `ImplementsStream` states it.

### TcpConnection

The peer is not in the repository (`tools/tcp_echo.py` runs on a host's TCP), so
it is modelled as any conforming one: it takes what is in order and inside its
window, acknowledges every segment that occupies sequence space, sends and
repeats its file in any split the host's window allows, and reads its buffer
when it is full. The variable `world`, chosen from `Worlds` at the start, fixes
one transfer's surroundings: both files, the peer's buffer, whether it sends only
after it has received, whether the network reorders, how many segments it holds
in each direction (what does not fit is lost), and how many faults there may be:
losses, duplications and failed emissions. A `prompt` world is much faster than
the clock: time passes only when nothing else can happen, which is the case of a
one-second timer on a local network. In a `silent` world nothing obliges the
peer and the network to do anything. The model stops at DONE and FAILED, where
`tcp_command` leaves its loop.

### TcpTransfer

`tcp_command` with everything it waits for. `phase` is where the command is
(`shell`, `arp`, `run`), `stage` how far the current `rtl_poll` has got: `loop`
(between polls), `frames` (it takes up to `Budget` frames), `after` (before the
key is looked at). `wait`, `local`, `saves` are the command's locals: the
TIME-WAIT record chosen before the lookup, the port, and whether there is a
destination file. `timewait` is the table of records. A deadline is represented
by the time that is left of it, which keeps the state finite without bounding
the clock. `completed` is history: the transfers completed within the last
TIME-WAIT, for stating `RecordsKept`.

Between the stages the environment may deliver an ARP reply, a segment of the
connection, a late FIN for an old record, or a receive error that resets the
interface (`rtl_down`, `rtl_up`, which calls `tcp_net_down` and may fail).

### Rtl8139 and Link

`rx_ring` and `tx_buffers` are the bytes the driver shares with the card,
`rx_offset` and `tx_slot` its own places in them, `left` the frames the current
`rtl_poll` may still take. A poll is one step per frame, so the card acts between
any two of them. `Send` is `rtl_send`, `Reset` the part of `rtl_up` that sets the
card, and `Restarts` the two places where a poll restarts the interface.

The card is external. It is modelled from what the driver relies on: a header of
status and size in front of each frame, 4-byte alignment, a size of 0xfff0 while
it is still writing (`CardBegins`, `CardReceives`), the overflow bit
(`CardMisses`), and transmit slots it takes in turn (`CardSends`). CAPR is a
16-bit register to which the card adds 16.

`Link` is two queues: frames that have arrived and were not taken, packets that
were accepted and have not left, and a restart that discards both. Its variables
are history variables of `Rtl8139`: no guard of `Rtl8139` reads them. A poll that
took a frame from an empty link would violate `Take`.

### Shell

`tasks` and `cur` are the task table, `at` says where a task is in its program:
the desktop, the prompt, the loop that waits for other tasks, or within an
application. `stack` names the task whose frames lie on a program's stack: both
programs have one stack for all of their instances. One step is one pass of the
loop that runs. `PollCh` is `poll_ch` with the scan codes, the shift flags and
the serial line, `ReadLine` a character of the prompt, `Desktop` a key of the
launcher, `Dispatch` the end of a line and its command, `Waits` and `Continues`
the loop behind every command, `AppExits` is `sys_exit_task`. `Devices` are the
keyboard and the serial line; `held` are the shift keys that are down, which the
kernel does not see. The controller holds `KbdCap` codes and loses what is sent to
it while it is full (`Sends`). Keyboards send codes of shift keys also around
extended keys, with E0 in front, which `poll_ch` ignores (`FeignedShift`; which
keyboard does so when is left open, each of the codes may come at any time).
`astray` is history: the shift keys whose last code was lost or is contradicted by
a feigned one. `polls` alternates with every `rtl_poll`.

Commands that are not applications are over within the step of `Dispatch`; what
they do is the subject of `Firewall`, `TcpTransfer` and `RamFs`. The application
is any sequence of system calls that ends.

### Heap, Stdio and Streams

`Heap` is the allocator: a heap is a function from the addresses of the headers
to `Block`, and `Malloc`, `Freed` and `Realloc` are functions of it, with the
code's rounding, its condition for splitting and its joining of neighbours.

`Stdio` are the calls of the FILE layer. `streams` holds the FILE structures by
the addresses of their blocks, `mem` the bytes of the data blocks, `client` the
blocks a program has allocated itself. Each call is an action: `Fopen` with its
ways to fail, `OpenMemstream`, `Fwrite` with the growth of the block, `Fread`,
`Fgets`, `Fseek`, `Fflush`, `Fclose` with the writing back, `Remove`. The files
are those of `FileMap`, which `RamFs` is proved to implement.

`Streams` promises that a stream is a sequence of bytes with a position, that a
failed call changes nothing, and that a successful close saves the bytes, except
for a file opened under the empty name: `fopen` accepts it and `fclose` saves
nothing while it reports success.

### BpfMemory and BpfVm

`BpfMemory` is `memory()`: an access is turned into a place in the stack, the
context, the packet or a map's values. Next to it is its reference, `Places`,
which knows only the pieces of memory a program may access and asks for every
byte separately.

`BpfVm` has the validator as an operator on programs (`Validate`, one operator
per class of instruction) and the executor as a step per instruction, with all
arithmetic and jump operations, the byte swaps, `lookup` in every type of map and
the bounds of program and fuel. `why` records how a run failed. A program that
the validator refuses runs as well: the executor does not rely on it. Bytes have
`BYTE_BITS` bits, so that a word of eight bytes has 16; `Times` and `Divide`
avoid products beyond what TLC's integers hold, the latter by the code's own
shift-and-subtract loop, which `DivisionExact` compares with division. The bit
operations are operations on the sets of bits of two words, which `BitsExact`
compares with those of the module `Bitwise`.

### RamFs and FileMap

`RamFs` is the table of slots with `in_use`, name, size and the data array, in
which deleted and overwritten bytes stay. `ret` and `buf` are the result and the
buffer of the last call. The three calls are one action per return; the listing
is a function of the table (`ListFiles`) that yields the copied names and the
number of characters, separators included.

`FileMap` is a partial function from names to contents with the same results.
`ImplementsMap` maps the used slots to it.

### Isolation

One process at a time in one of two slots. `tables` is the access of every page
of a slot, `memory` its bytes, `kernel` the bytes of every other address, as the
processor would see them with the slot's page tables. `AppApe` launches in
alternating slots, `TestRun` is the launch of the self-tests, `Leave` the exit or
fault, `Store` an instruction of the process. The calls are `TextCall`,
`ReadLine`, `Files`, `ReadFileCall`, `WriteFileCall`, `DeleteFileCall`, and
`PlainCall` for those without pointers. `CopyTo` writes where the code's `memcpy`
would, the kernel's memory included, so a wrong check is visible as a write.

### Firewall

`rules`, `enabled`, `defaults`, `allowed` and `denied` are the fields of
`native_firewall`, `echo` is the echo service's switch and `wire` what the last
step handed to the driver. One action per command that changes something; a
refused or malformed command changes nothing. `prepare` rebuilds its maps from
the list for every packet, so `PolicyMap`, `Position` and `Blocked` are functions
of the list: the policy map in the order the two passes give it, and the blocks
as prefixes of `bits` length. `Policy` is `jordyos_policy` over the map, `Xdp`
the early program with the longest-prefix lookup. `Receive` is `net_receive` for
an IPv4 frame, one disjunct per way out; `Send` is a TCP segment that passes
`send_to`. The reference (`Allowed`, `Decides`, `Narrowest`) knows neither maps
nor prefixes: it speaks of the list and of ranges of addresses.

The early program and `matches` come from a submodule that is not in the tree;
they are modelled from the maps they are given and from `tools/test_bpf.c`, and
both programs are taken to pass their validation. ARP, which no rule applies to,
and the statistics of `net status` are left out.

### Packet

Sequences of bytes and characters, one operator per function. The definitions
that call them are in `MCFirewall`, which instantiates the module and states as
assumptions, evaluated when the run `Firewall` starts, what each is for:
`NumberExact` (decimal numbers up to the maximum, nothing else), `CidrAccepts` and
`CidrExact` (which texts are networks, and which bits the mask and the address
keep), `ChecksumExact` (the sum with its checksum is a multiple of 65535),
`DecodeExact` (a packet is decoded whatever follows it and refused when one byte
is damaged or the end is missing) and `AnswersDecode` (the answer built in place
is a valid packet back to the sender: what `Firewall` abbreviates as `Answer`).

## 3. Runs

| Run | Shows |
|---|---|
| `MCTcp` | the nine properties of `Tcp` against arbitrary segments, `ImplementsStream` among them |
| `Conn` | uploads and downloads arrive unchanged and are complete when they are reported so; a conforming peer never causes an abort |
| `ConnLive` | transfers complete with a prompt peer; the loop ends even if the peer is silent |
| `ConnProbeFin` | expected violation: a probe takes the FIN's place |
| `Transfer` | several transfers, resets of the interface, exhausted ports and records; the command returns |
| `Rtl8139` | driver and card agree on the ring's offsets over any number of wraps and restarts; frames pass whole, in order, once; none is left |
| `Shell` | one foreground application on an intact stack, a shift flag differs from its key only after a lost or feigned code, the prompt returns, the network is polled in every wait |
| `Stdio` | the allocator loses no memory, every block has one owner, streams and files hold what was written |
| `RamFs` | any sequence of calls behaves as a map; listings fit |
| `Isolation` | range check exact, kernel memory never written, slots private |
| `BpfVm` | the machine's address check is exact; a validated program meets no unknown instruction |
| `Firewall` | both programs decide as the rule list says, hits go to the right rule, nothing forbidden is sent |

Bounds. In the TCP runs sequence spaces have 18 numbers, the host starts at 16
and the peer at 17, so both streams wrap within the handshake and the first
byte. `MCTcp` takes 2 slots, segments of at most 2 bytes, a 2-byte buffer, one
retry and a clock of 4 instants with all timeouts at 1 or 2. That is enough for
two segments in flight, an acknowledgement of the first byte of a segment, reuse
of a slot, a retransmission limit, a deadline, an oversized file and a receive
overflow. The messages are chosen around the numbers a transfer uses: right,
repeated, overlapping, ahead, never sent, with and without data, FIN, RST, zero
windows and bad options. Files are 2 bytes, or 3, one more than the buffer.

`Conn` takes five worlds: uploads with one fault, to an ample window on a
reordering network and to a window of one byte that closes after every byte, a
download on a reordering network, one with a fault, and one of exactly the
buffer's size. Its `VIEW` leaves out `out`, which no step reads. There
are two segments in flight each way and one unit of time, so that one
retransmission of everything unacknowledged can meet the late original. (The
violation of `CompletionIsReal` in `ConnProbeFin` needs two faults and a probe
after the FIN, more time than `Conn` has; there the property is about everything
else that could complete a transfer too early.) `ConnLive` takes three faults,
13 units of time and eight retries as in the code, with files in both directions.

`Rtl8139` has a ring of 32 bytes, which holds two frames, and lengths that need
alignment and lengths that do not: every alignment of a frame to the ring's end
occurs. One frame is damaged, one is longer than the kernel accepts, packets are
shorter than the wire's minimum, equal to it, and too short for `rtl_send`. Its
`VIEW` leaves out stale bytes of the ring, which the card overwrites before the
driver reads them, and the last packet on the wire, on which no step depends.

`Shell` has three task slots, lines of one character and two scan codes in the
controller, so that codes are lost in it, those of shift keys too. The keyboard
sends p, Enter, two arrows, E0, both shift keys and the feigned codes of both,
the serial line Enter, Escape and delete. The line p starts an application, P,
which needs a shift or a shift that sticks, the desktop. An application starts
and ends again and again, so that its slot is reused; three slots suffice since
a fourth would only stay unused. `Stdio` has an arena of 22 units with headers of 2: two streams and
a block of the program fit or not depending on fragmentation, and a block of 16
or 20 leaves a rest that can or cannot be split off. At most two streams and
blocks are held, of at most two bytes, on a file system with one file of one
byte, so that closing fails too. Its `VIEW` leaves out the result of the last
call and the bytes behind a stream's size, and the two names are symmetric.
`BpfVm` runs every instruction of a set that has each class, each operation and
breaks most of the validator's rules, between each of 19 prefixes (lookups in
maps of each type, addresses at the edges of each region) and each of 7 last
instructions (memory accesses, jumps back, wide loads), on two packets.

`Transfer` has one peer, three ports, two records and a TIME-WAIT of 3 units
against a transfer deadline of 1: the records fill up, expire, are revived by
late FINs and are reused, and the last port is used. `RamFs` has two slots,
three names of different lengths, contents of 0 to 3 bytes with a limit of 2,
and buffers up to one byte more than a full listing. `Isolation` has sixteen
addresses in pages of two bytes, one page of each kind in the order of the real
layout; `RangeExact` is evaluated for every address, size and kind of access,
the calls take pointers at the ends of pages. Its `VIEW` leaves out the result
of the last call, on which no step depends. `Firewall` has three rules, so that
the map's order can be a rotation of the list's, two nested blocks of which one
covers the host itself, ordinary rules that overlap in both directions, and
addresses of three bits. Its `VIEW` leaves out `allowed`, `denied` and `wire`,
on which no step depends; the properties about them are action properties, which
are checked on every step.

Fairness. `FairSpec` of `TcpConnection` says that the polling loop runs and time
passes: the loop of `tcp_command` does nothing else. Unless the world is silent
it also says that the network delivers what it does not lose and that the peer's
program reads and sends. Losses and refused emissions are bounded by the world,
not by fairness. `Completes` is claimed for prompt worlds only: with arbitrary
delays the 120-second deadline ends any transfer. `Terminates` holds in all of
them. `TcpTransfer`'s `Spec` assumes that the host's own steps are taken and that
time passes, nothing of the network, the user or the device: `CommandReturns`
holds even when the interface is reset in every poll. `Rtl8139`'s `FairSpec` says
that polls go on, which `Shell` shows (`NetworkPolled`), and that the card
finishes a frame it has begun. `Shell`'s says that the processor runs and that an
application ends, by exit or by a fault; without the latter no prompt can return,
and nothing is assumed of the keys.

Deadlock is not checked in the connection runs and in `BpfVm`, since a transfer
and a program end.

### What the violation shows

`ConnProbeFin`. The host has sent its FIN, which did not fit the peer's closed
window. A probe goes out at `next - 1`, now the FIN's number, with the last data
byte. If the peer's window has opened by then, the byte is new data to it: its
stream has a byte too many, and its acknowledgement equals `next`, which the
host takes for that of the FIN.

Three further behaviours of the code were met while modelling. They contradict no
statement of the repository as plainly, and no run is about them:

* A segment ahead of `receive_next` is discarded, but its sequence number becomes
  `window_seq` (`tcp.c:209`). The segment that fills the gap comes with a lower
  number and a newer acknowledgement: `una` moves, the window does not, and the
  host's idea of the right edge lies beyond the peer's.
* `sys_pollc` polls the network before it returns the key (`tcp_native.c:179`).
  The poll in which the connection completes may also be the one that reads
  Escape; the command then calls `tcp_abort` on a completed connection and
  reports the transfer as cancelled.
* A shift can stick. `poll_ch` follows the codes it reads (`kernel.c:56`), so a
  release that the controller lost while a command or an application did not read
  keys leaves the flag set; and it discards E0 (`kernel.c:58`), so E0 2A around an
  extended key counts as the left shift. `ShiftTracksKeys` says that these are the
  only ways, whichever loop reads and whatever else is typed, and that the next
  code of that key which is not lost sets the flag right.

## 4. Mutants

A definition `D_bug` next to `D` is `D` with one slip. Replacing `D` by it must
violate the property named here.

| Run | Property | Slip |
|---|---|---|
| `MCTcp` | `TypeOK` | `Fits_Window`: the size check uses the window's extra byte |
| | `QueueTiles` | `AckSegment_DropsPartial`: a partly acknowledged segment is freed |
| | `QueueMatchesStream` | `AckSegment_KeepsOffset`: trimming forgets the offset |
| | `EmitsStream` | `OutputSegment_FromUna`: payload taken from `una`, not the slot |
| | `FinIsLast` | `FinDue_Unacknowledged`: FIN without waiting for the data |
| | `SendsInWindow` | `MaySend_ClosedWindow`: a full window still counts as open |
| | `SenderAdvances` | `Processed_OldAck`: old acknowledgements are not dropped |
| | `ReceiverAdvances` | `InOrder_AfterFin`: data behind the peer's FIN is stored |
| | `ImplementsStream` | `CloseDue_HalfOpen`: closed without the peer's FIN |
| `Conn` | `StreamsIntact` | `OutputSegment_FromUna` |
| | `CompletionIsReal` | `CloseDue_OneSided`: closed before the FIN is acknowledged |
| | `FailsOnlyByTime` | `Fits_Strictly`: a file that fills the buffer is refused |
| `ConnLive` | `Terminates` | `Expired_SinceTimer`: the deadline restarts with the timer |
| | `Completes` | `ProbeDue_Outstanding`: probes only while something is outstanding |
| `Rtl8139` | `InStep` | `NextOffset_Unaligned`: the offset is not aligned |
| | `ImplementsLink` | `FrameRead_Linear`: a frame across the ring's end is read on at its last byte |
| | `FramesTaken` | `PollResets_Breaks`: a bad size ends the poll without a restart |
| `Shell` | `OneForeground` | `Exited_Keeps`: an exited task keeps its stack pointer |
| | `ShiftTracksKeys` | `RightAfter_Both`: the codes of both keys set the right flag |
| | `PromptReturns` | `Foreground_OrSelf`: the shell waits for itself |
| | `NetworkPolled` | `PollCh_KeysOnly`: waiting for a key does not poll the network |
| `Stdio` | `HeapExact` | `Joined_Once`: a freed block is joined with one neighbour at most |
| | `BlocksOwned` | `OpenFailed_KeepsData`: a failed open keeps the data block |
| | `ImplementsStreams` | `Elements_Bytes`: the elements left are counted as bytes |
| `BpfVm` | `MemoryExact` | `Refused_FitsSpan`: an access may pass the end of a value within its span |
| | `ValidatedRuns` | `target_AnySlot`: a jump may go into a wide load |
| `Transfer` | `CommandReturns` | `TcpNetDown_KeepsRunning`: the interface goes down, the connection stays open |
| | `RecordsKept` | `ExpiredRecord_First`: the first record is taken, expired or not |
| | `Unambiguous` | `PortAfter_Wraps`: ports start again at the first |
| | `SavedWhole` | `Saves_Partial`: the file is saved whatever the outcome |
| `RamFs` | `NamesUnique` | `Target_AlwaysNew`: an existing name is not looked up |
| | `ListingFits` | `ListStep_FillsBuffer`: no byte is kept for the zero |
| | `ImplementsMap` | `Filled_KeepsSize`: a shorter write keeps the old size |
| `Isolation` | `RangeExact` | `UserRange_Wraps`: the end is computed and compared instead of the size |
| | `KernelIntact` | `UserRange_FirstPage`: only the pointer's own page is checked |
| | `PagesPrivate` | `Prepared_KeepsMemory`: a reused slot is not cleared |
| `Firewall` | `VerdictIsReference` | `Position_ListOrder`: the map keeps the order of the list |
| | `ProgramsAgree` | `Blocked_DestinationBits`: the prefix length of the other address |
| | `HitsAreAttributed` | `Longest_First`: the first matching prefix instead of the longest |
| | `SendsAllowed` | `Sent_Unchecked`: the answer is sent whatever the outgoing rules say |

## 5. Theorems

All for every value of the constants that satisfies the named assumptions of the
modules.

`ConstantsAssumption` of `Tcp` says that buffer and window together are smaller
than half of the sequence space (16 KiB against 2^31 in the code): without it
the signed comparison `Before` is no order. `TimesAssumption` and
`InputsAssumption` only give the types of constants and messages; the set of
arriving segments is arbitrary. `FsAssumption` of `RamFs` says that the name of a
free slot is not a name, and gives types. `TransferAssumption` asks for a
positive `TIME_WAIT` (120 seconds in the code): with none, a record would be free
again in the step that fills it. `LayoutAssumption` of `Isolation` says that the
user's part of the address space consists of whole pages and ends below the last
address, `NamesAssumption` that every string a process can pass as a name is a
name of the file system or one it refuses. `ShellAssumption` asks for two task
slots (6 in the code) and keeps the codes of the shift keys, which have actions of
their own, out of `ScanCodes`.
`RingAssumption` of `Rtl8139` says that the ring consists of whole words and
divides 2^16, so that CAPR may wrap (8192 in the code), that a frame with its
header is smaller than the ring and not empty, and that a frame on the wire has
at least one byte (60 in the code): a packet of none would leave a transmit slot
marked as given back.
`FirewallAssumption` says what `net_cidr` and the parsing of `fw_command` leave
of a request: addresses of `AddrBits` bits, prefixes no longer than that, a port
only with TCP or UDP. `SpaceAssumption` of `BpfMemory` keeps the regions of the
eBPF address space apart and asks for whole values in a map's span;
`VmAssumption` says what `prepare` and `fw_bpf_xdp` hand over (`EnvironmentOK`):
context and packet end before the next region begins (24 and at most 1514 bytes,
in regions of 2^28), and a map that has values has as many as its capacity. The
programs are arbitrary. `HeapAssumption` says that header and arena consist of
whole units of the alignment and that a block fits (32, 4 MiB and 16 in the code);
`StdioAssumption` gives types, keeps the kinds of names apart and says that zero
and newline are bytes and an unwritten one is none.

* `TcpProofs!TypeCorrect`. `TypeOK` is inductive by itself. Its content is the
  bound of the receive buffer and that `tx_offset` stays within the file. One
  lemma per action.
* Also in `TcpProofs`: `QueueTilesAlways`, `QueueMatchesStreamAlways`,
  `FinIsLastAlways`, `SenderAdvancesAlways`. None of these properties is
  inductive. The invariant is `SenderInv`: either the connection is before the
  end of its handshake (`Early`: only the SYN may be queued), or `Late`: relative
  to the initial number, `next` is the number of bytes cut into segments, plus
  one for the SYN and one for a FIN (`Bounds`), and the used slots cover the
  positions from `una` to `next` once each, each with the offset its number
  implies (`Shape`). `Bounds` ties sequence numbers to `tx_offset`, so that they
  stay below half of the sequence space and compare as numbers (`RelBefore`);
  `Shape` is what an acknowledgement that trims or frees slots, and a new
  segment in a free slot, preserve. The lemmas are about a queue and plain
  numbers, not about the variables, so the same facts serve both sides of a step.
* Also in `TcpProofs`: `TcpImplementsStream`: the initial state maps to `Stream`'s;
  every action of `Tcp` maps to `Open`, `Deliver`, `Complete`, `Fail` or a
  stutter. It needs `SenderInv` for `Complete`, and `TypeOK` for the capacity.
  `EmitsStreamAlways`: what a step emits is made from a slot of the queue, from
  the next bytes of the file or from the last byte sent, and `SenderInv` says
  where each of them lies; one lemma per kind of segment. `SendsInWindowAlways`:
  the amount a step may cut is the difference of two sequence numbers, which
  `Bounds` turns into a difference of numbers; the slots in use grow by one. It
  needs a second invariant, that a connection past its start has a nonzero
  segment size (`MssInv`). `ReceiverAdvancesAlways`: the window shrinks by what
  is stored, so the right edge stays, except for the byte behind a full buffer.
* Also in `TcpProofs`, on `TcpConnection`, a transfer from end to end with a
  conforming peer, for every world, every number of segments in flight and of
  faults: `StreamsIntactAlways`, `CompletionIsRealAlways`,
  `FailsOnlyByTimeAlways`, `DownloadAlways`, `UploadAlways`. None of the properties
  is inductive, since each is about two ends and an arriving segment may be as old
  as the transfer. `ConnCorrect` proves the invariant: `TypeOK` and `SenderInv` of
  the host, and
  * `WorldInv`: every segment in flight is one of `HostSegments` or `PeerSegments`.
    These sets say what a segment of any age carries: the bytes of the file at its
    own positions, a FIN only behind the file, an acknowledgement of no more than
    its sender has taken. They only grow (`MoreHostSegments`, `MorePeerSegments`),
    so loss, repetition and reordering keep a network inside them (`WithoutType`,
    `CarryType`); what a call emits lies in them (`TickSends`, `InputSends`).
  * `DownInv`, `UpInv`: each receiver's next number is its place behind the bytes
    it took, and `una` is not past the peer's. `ReceiveDown` and `Taken` are the
    steps of the two receivers, `AckedBound` that what `tcp_input` counts as
    delivered lies below the acknowledgement.
  * `RoomInv`: in an ample world no window closes.

  `Ample`, the hypothesis of the first two theorems, says that the peer's buffer
  holds the host's file and its FIN. Files have at most 16 KiB, so a peer that
  advertises a full 16-bit window is one. It is needed: where the window may
  close, a probe after the FIN repeats the last byte in the FIN's place (section 3),
  and a peer that reads late takes it for a byte of the file. `DownloadAlways` and
  `UploadAlways` say what is true with every peer: at most that one byte is wrong,
  and none is missing. `FailsOnlyByTimeAlways` asks only that both files fit the
  connection's buffers; the larger ones are refused. `PeerAssumption` keeps the
  peer's window below half of the sequence space (16 bits against 2^31).
* `Rtl8139Proofs`: `RingInvariant`, and from it `DriverInStep` and
  `DriverImplementsLink`. `InStep` is not inductive: it says nothing of the bytes
  behind the headers, nor that the frames do not overlap. The invariant has a
  function of offsets (`Layout`): frame i begins `d[i-1]` bytes behind the
  driver's offset, each takes its aligned length, all together less than the
  ring, and where each begins the ring holds its header and its bytes (`Stored`);
  a frame that is still being written fits behind them and its size reads as
  0xfff0 (`Busy`). The card's check for room is what keeps `d` below the ring's
  size (`Room`), so a write at `d[n]` reaches no earlier frame whatever wraps
  (`PlaceKeeps`), and a poll that does not read 0xfff0 has a whole frame before it
  (`FirstFound`). For the transmitter, `Queued`: the slots from `turn` on hold the
  accepted packets, padded, and the others are free; the driver's next slot is the
  one behind them. Each action then is one of `Link`: a poll that takes a frame is
  `Take`, the card sending is `Leave`, a reset at any moment is `Restart`. The
  lemmas on `%` by a ring of any size are in `NumberLemmas`; the provers do not
  know them.
* `RamFsProofs`: `NamesUniqueAlways` from the inductive `TypeOK /\ NamesUnique`;
  `RamFsImplementsMap`: uniqueness makes the slot of a name well defined, so
  that a write changes one name of the map, a delete removes one, and the table
  is full exactly when the map has `MAX_FILES` names. `ListingFitsAlways` is an
  induction over the loop of `sys_list_files`: `Progress` says after each slot
  what has been listed and how much of the buffer and of `Needed` is used.
* `TransferProofs`: `TransfersRemembered`, `SegmentsUnambiguous`,
  `SavesWholeStreams` and `TransferTypes`, from one invariant: in which phase
  what is open (`ThreadInv`), ports grow, so that the port in use is above those
  of all records (`PortsInv`), and the record chosen before the lookup is expired
  until it is filled (`RecordsInv`). The last is why a late FIN, which revives
  only live records, cannot take the record away.
* `ProgramProofs`, on `Shell`: `ForegroundOnly`, from `TableInv`: every live task owns the stack
  of its program (`Owners`), and either the shell runs, any other task being
  unstarted, or an application runs and the shell waits with a saved stack
  pointer (`Turn`). `yield` takes the first live slot behind the current one; with
  two live tasks that is the other one. `ShiftSticksOnlyByLoss`, from `ShiftInv`:
  there is a run of the flag through the queued codes, every run ends alike, and
  for a key that is not astray it ends as the key is; reading the first code
  (`SettlesTail`), queueing one more (`SettlesAppend`) and losing one keep this.
* `ProgramProofs`, on `Heap` and `Stdio`: `HeapIsExact`, `BlocksHaveOwners` and
  `FileLayerImplementsStreams`, from `StdioInv`. Its part about the heap, `HeapInv`,
  says that blocks tile the arena in the order of their addresses, that each
  points to the next and that no two free ones touch (`Layout`, `Apart`). What a
  function of the allocator does to it is `Becomes`: which blocks are no longer in
  use, which are new, and that the others keep their place and room. Splitting and
  taking a block keep it (`SplitInv`, `Marked`); for `free`, which joins whole runs
  of free neighbours, it is shown that before a block is freed no two touch, so
  that a run is that block with at most one neighbour on either side
  (`CoalescedIs`, `FreedBecomes`), and that joining two blocks keeps the tiling
  (`MergedInv`). `GapExact` derives `HeapExact`: a gap between blocks in use is one
  free block. The rest of `StdioInv` gives every block in use one owner and bounds
  a stream by its block (`Owned`), and files by their largest size; opening,
  changing, moving and closing a stream keep it (`OpenStep`, `ChangeStep`,
  `CloseStep`), and each call is one of these. For the refinement a stream is seen
  as the first `size` bytes of its block (`ViewOf`). Every call leaves the others'
  bytes alone (`OthersKept`), what `fwrite` copies into a block that moved and back
  over it is what `Streams` writes (`WrittenIs`), and the first newline in reach is
  where `fgets` stops (`FgetsTakes`).
* `IsolationProofs`: `UserRangeExact`: the loop of `user_range` visits the page of
  every byte, for every layout (`PageStart`, `Boundaries`). `KernelUntouched`, from
  `IInv`: types, the file table's own invariant and `KernelIntact`. Every copy of
  the kernel goes to a range it has checked, so it suffices that what is copied is
  no longer than that range; for a listing this is an induction over the slots,
  for a line and a file it is the cut at the buffer's size. `ProcessesPrivate`:
  `prepare` builds the memory anew, everything after goes through writable pages.
* `FilterProofs`, on `Firewall`: `FirewallSafe`, and from it `Verdicts`,
  `Agreement`, `Attribution` and `Sends`. The properties are not inductive: they
  hold of lists of well-formed rules, which is what `FirewallInv` adds, rules whose
  masks come from prefix lengths and whose addresses lie on their boundaries. For
  such rules the mask test, the comparison of bits of the longest-prefix lookup and
  the range of addresses of the reference say the same (`Pow2Plus` and the lemmas
  on masks and bits; powers of two are a recursive function and are derived by
  `SetInduction`). `Position` is a bijection between list and map that keeps the
  order among blocks and among the others, so the first match in the map is the
  reference's, and its index leads back to the rule that is counted.
* `FilterProofs`, on `BpfVm`: `Validation`, from `RunInv`: `pc` is a slot the
  validator visited, or the end. The validator skips the second half of a wide
  load, whose opcode is zero; that `target` refuses such slots is why a jump cannot
  leave the visited ones. `VmSafe`, from the inductive `VmTypes`, for programs that
  were not validated as well: every operation yields a number, every place that
  `Places` yields lies inside its object (`PlacesInside`, by `PlaceExists` and
  `TypesPlaces`), a store keeps its object's length. `MemoryChecks`: on a number,
  `memory` agrees with `Places`: an address among the values is a map, a slot and a
  byte in one way only (`AddressParts`, `AddressUnique`), the regions do not touch,
  and a test of the first and the last byte is one of all (`FitsIs`). `Division`:
  after k passes of `divide` quotient and rest are those of the first k bits;
  the pass whose doubled rest does not fit the word is `DivisionPass`.
* `NumberLemmas` holds the principle the inductions above use, for sets instead of
  predicates: a set of numbers with zero that is closed under successor, up to a
  bound or without. It follows from `WellFoundedInduction`'s theorems without
  operator parameters. `FiniteRecursion` derives from it that a function given by
  a first value and a step exists; for the recursive definitions of the modules
  this gives their equation, and so what they compute. The lemmas on `%` and
  `\div` by a number that is not a literal are here too.

Only model-checked:

* liveness (`Terminates`, `Completes`, `CommandReturns`, `FramesTaken`,
  `PromptReturns`, `NetworkPolled`), which needs fairness;
* `StreamsIntact` and `CompletionIsReal` of `TcpConnection` where the peer's window
  may close. Neither holds there in general, so there is no theorem: `Conn`
  checks them for the tight world it has, which is too short for the probe of
  section 3 (`ConnProbeFin`). What remains true with such peers is proved as
  `UploadAlways` and `DownloadAlways`.

## 6. Not modelled

Drawing, device set-up and boot code, printing and the parsing of command lines:
their state does not outlive a call or is the device's. The LARP controller is a
submodule whose source is not in the tree; it is an arbitrary environment here.
Of `net_receive` the answer to ARP requests and the counters are left out. Of `ape/platform.c` the number formatting, `strtod` and
the string helpers are pure functions of text. `app_edit.c` and `app_calc.c` are
single-user programs on the console that call `read_line` and the file system.
The ring-3 demonstration programs are inputs of `Isolation`. The Python
simulators are experiments of their own.

## 7. What is left

Were `tcp_tick` to leave the probe out once the FIN is sent, the hypothesis
`Ample` of the two theorems should fall: the proof needs it only to know that a
host that has sent its FIN emits no byte at the FIN's position. Beyond that:
liveness, which the provers do not reach.
