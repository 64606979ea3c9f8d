----------------------------- MODULE TcpTransfer ------------------------------
(***************************************************************************)
(* The adapter of jordyOS/net/tcp_native.c: the shell command that runs    *)
(* one file transfer at a time, its ARP lookup, ephemeral ports and        *)
(* TIME-WAIT records, above the polled driver of jordyOS/net/rtl8139.c.    *)
(* The connection itself is what Stream promises, which Tcp implements.    *)
(*                                                                         *)
(* Everything runs on the shell's thread: phase is where tcp_command is,   *)
(* stage how far one pass of its waiting loop has got.  The environment    *)
(* chooses the frames, the keys and the failures of the device.            *)
(*                                                                         *)
(* A deadline is the time that is left of it; zero means it has passed.    *)
(* Left out: the ARP requests the host sends (a reply may come at any      *)
(* time), the calibration of the clock, the arguments of the command and   *)
(* its messages, and frames that no handler reacts to.                     *)
(*                                                                         *)
(* D_bug is definition D with a slip in it; see README.md.                 *)
(***************************************************************************)
EXTENDS Naturals, Sequences, FiniteSets

CONSTANTS
    Peers,                  \* hosts of the local network, each with its port
    FirstPort, LastPort,    \* ephemeral ports (49152, 65535)
    Records,                \* number of TIME-WAIT records (8)
    TIME_WAIT,              \* lifetime of a record (120 s)
    ARP_TIMEOUT,            \* of the lookup (5 s)
    DEADLINE,               \* of a transfer (120 s)
    Budget,                 \* frames one poll takes (8)
    Chunks, Capacity        \* of the stream

ASSUME TransferAssumption ==
    /\ FirstPort \in Nat \ {0} /\ LastPort \in Nat /\ FirstPort <= LastPort
    /\ Records \in Nat \ {0} /\ Budget \in Nat \ {0}
    /\ TIME_WAIT \in Nat \ {0} /\ ARP_TIMEOUT \in Nat /\ DEADLINE \in Nat

VARIABLES
    up,                         \* native_network.up
    running, resolving, have_mac, peer_ip, next_port, timewait,
    phase, stage, budget,       \* of the shell's thread
    wait, local, saves,         \* tcp_command's locals: record, port, destination?
    arp_left, deadline_left,    \* time left
    status, received, ended,    \* the connection
    file,                       \* the destination RAM file
    completed                   \* transfers completed within the last TIME_WAIT

connection == <<status, received, ended>>
adapter == <<running, resolving, have_mac, peer_ip, next_port, timewait>>
locals == <<wait, local, saves>>
vars == <<up, adapter, phase, stage, budget, locals, arp_left, deadline_left,
          connection, file, completed>>

Connection == INSTANCE Stream

Slots == 1 .. Records
NoFile == [exists |-> FALSE, data |-> <<>>]
File(stream) == [exists |-> TRUE, data |-> stream]
Record(p, port, left) == [ip |-> p, local |-> port, left |-> left]
NoRecord == [ip |-> "none", local |-> 0, left |-> 0]
Live(i) == timewait[i].left > 0
Less(n) == IF n = 0 THEN 0 ELSE n - 1
Aged(r) == Record(r.ip, r.local, Less(r.left))

Init ==
    /\ up = FALSE /\ running = FALSE /\ resolving = FALSE /\ have_mac = FALSE
    /\ peer_ip = "none" /\ next_port = FirstPort
    /\ timewait = [i \in Slots |-> NoRecord]
    /\ phase = "shell" /\ stage = "loop" /\ budget = 0
    /\ wait = 1 /\ local = 0 /\ saves = FALSE
    /\ arp_left = 0 /\ deadline_left = 0
    /\ Connection!Init
    /\ file = NoFile /\ completed = {}
-----------------------------------------------------------------------------
(* The interface: rtl_up, rtl_down, and tcp_net_down.                      *)

TcpNetDown_KeepsRunning ==
    /\ UNCHANGED connection
    /\ have_mac' = FALSE
TcpNetDown ==
    /\ IF running THEN Connection!Fail ELSE UNCHANGED connection
    /\ have_mac' = FALSE

\* net up, net down: commands of the shell.
NetUp ==
    /\ phase = "shell" /\ stage = "loop" /\ ~ up
    /\ up' = TRUE
    /\ UNCHANGED <<adapter, phase, stage, budget, locals, arp_left, deadline_left,
                   connection, file, completed>>

NetDown ==
    /\ phase = "shell" /\ stage = "loop" /\ up
    /\ TcpNetDown
    /\ up' = FALSE
    /\ UNCHANGED <<running, resolving, peer_ip, next_port, timewait, phase, stage,
                   budget, locals, arp_left, deadline_left, file, completed>>

\* rtl_poll finds the ring overflown or a frame of an impossible size: the
\* interface is stopped and started again (ok: successfully), and the poll ends
\* without a tick.
Reset(ok) ==
    /\ TcpNetDown
    /\ up' = ok
    /\ stage' = "after" /\ budget' = 0
    /\ UNCHANGED <<running, resolving, peer_ip, next_port, timewait, phase,
                   locals, arp_left, deadline_left, file, completed>>
-----------------------------------------------------------------------------
(* One pass of a waiting loop: the condition, rtl_poll, the key.           *)

Ended == status \in {"done", "failed"}
KeepsWaiting ==
    \/ phase = "shell"
    \/ phase = "arp" /\ ~ have_mac /\ up /\ arp_left > 0
    \/ phase = "run" /\ ~ Ended

PollStart ==
    /\ stage = "loop" /\ KeepsWaiting
    /\ stage' = IF up THEN "frames" ELSE "after"
    /\ budget' = IF up THEN Budget ELSE 0
    /\ UNCHANGED <<up, adapter, phase, locals, arp_left, deadline_left,
                   connection, file, completed>>

\* The overflow is seen before the first frame, a bad size at any frame.
PollReset == stage = "frames" /\ budget > 0 /\ \E ok \in BOOLEAN : Reset(ok)

Frame == stage = "frames" /\ budget > 0 /\ budget' = budget - 1

\* tcp_net_arp: a reply from p.
ArpReply(p) ==
    /\ Frame /\ resolving /\ p = peer_ip
    /\ have_mac' = TRUE
    /\ UNCHANGED <<up, running, resolving, peer_ip, next_port, timewait, phase,
                   stage, locals, arp_left, deadline_left, connection, file, completed>>

\* tcp_net_input: a segment of host p to a port.  The first live record with
\* this pair takes it, and answers it when it is the FIN of its connection.
Recorded(i, p, port) == Live(i) /\ timewait[i].ip = p /\ timewait[i].local = port
FirstRecorded(i, p, port) ==
    Recorded(i, p, port) /\ \A j \in 1 .. i - 1 : ~ Recorded(j, p, port)

LateFin(p, port) ==
    /\ Frame
    /\ \E i \in Slots :
         /\ FirstRecorded(i, p, port)
         /\ timewait' = [timewait EXCEPT ![i] = Record(p, port, TIME_WAIT)]
    /\ UNCHANGED <<up, running, resolving, have_mac, peer_ip, next_port, phase,
                   stage, locals, arp_left, deadline_left, connection, file, completed>>

\* tcp_input of the running connection: bytes, the end, a failure.
SegmentInput(p, port) ==
    /\ Frame
    /\ \A i \in Slots : ~ Recorded(i, p, port)
    /\ running /\ p = peer_ip /\ port = local /\ status = "open"
    /\ \/ \E chunk \in Chunks, last \in BOOLEAN : Connection!Deliver(chunk, last)
       \/ Connection!Fail
    /\ UNCHANGED <<up, adapter, phase, stage, locals, arp_left, deadline_left,
                   file, completed>>

\* tcp_net_poll, the end of rtl_poll: tcp_tick of the running connection.
PollEnd ==
    /\ stage = "frames"
    /\ stage' = "after" /\ budget' = 0
    /\ IF running /\ status = "open"
       THEN \/ deadline_left = 0 /\ Connection!Fail
            \/ deadline_left > 0 /\ (Connection!Fail \/ Connection!Complete
                                     \/ UNCHANGED connection)
       ELSE UNCHANGED connection
    /\ UNCHANGED <<up, adapter, phase, locals, arp_left, deadline_left, file, completed>>

\* The rest of the pass.  In a transfer Escape and Ctrl-C abort the connection.
NoKey ==
    /\ stage = "after"
    /\ stage' = "loop"
    /\ UNCHANGED <<up, adapter, phase, budget, locals, arp_left, deadline_left,
                   connection, file, completed>>

CancelKey ==
    /\ stage = "after" /\ phase = "run"
    /\ Connection!Fail
    /\ stage' = "loop"
    /\ UNCHANGED <<up, adapter, phase, budget, locals, arp_left, deadline_left,
                   file, completed>>
-----------------------------------------------------------------------------
(* tcp_command.                                                            *)

MayStart == up /\ next_port <= LastPort

ExpiredRecord_First(i) == i = 1
ExpiredRecord(i) == i \in Slots /\ ~ Live(i) /\ \A j \in 1 .. i - 1 : Live(j)

\* A transfer with host p; dest: the stream is saved.  The command returns at
\* once when the interface is down or no port or no record is left.
TcpCommand(p, dest) ==
    /\ phase = "shell" /\ stage = "loop" /\ MayStart
    /\ \E i \in Slots : ExpiredRecord(i) /\ wait' = i
    /\ peer_ip' = p /\ have_mac' = FALSE /\ resolving' = TRUE /\ saves' = dest
    /\ arp_left' = ARP_TIMEOUT
    /\ phase' = "arp"
    /\ UNCHANGED <<up, running, next_port, timewait, stage, budget, local,
                   deadline_left, connection, file, completed>>

ArpFailed ==
    /\ phase = "arp" /\ stage = "loop" /\ ~ KeepsWaiting /\ ~ have_mac
    /\ resolving' = FALSE /\ phase' = "shell"
    /\ UNCHANGED <<up, running, have_mac, peer_ip, next_port, timewait, stage, budget,
                   locals, arp_left, deadline_left, connection, file, completed>>

PortAfter_Wraps(port) == IF port = LastPort THEN FirstPort ELSE port + 1
PortAfter(port) == port + 1

\* The address is known: the next port is taken and the connection opened.  The
\* arguments were checked, so tcp_start finds them valid.
StartTransfer ==
    /\ phase = "arp" /\ stage = "loop" /\ have_mac
    /\ resolving' = FALSE /\ running' = TRUE
    /\ local' = next_port /\ next_port' = PortAfter(next_port)
    /\ Connection!Open(TRUE)
    /\ deadline_left' = DEADLINE + 1
    /\ phase' = "run"
    /\ UNCHANGED <<up, have_mac, peer_ip, timewait, stage, budget, wait, saves,
                   arp_left, file, completed>>

Saves_Partial == saves
Saves == saves /\ status = "done"

\* The loop has ended: a completed transfer is recorded and saved (written:
\* sys_write_file succeeds).
Finish(written) ==
    /\ phase = "run" /\ stage = "loop" /\ Ended
    /\ running' = FALSE /\ phase' = "shell"
    /\ IF status = "done"
       THEN /\ timewait' = [timewait EXCEPT ![wait] = Record(peer_ip, local, TIME_WAIT)]
            /\ completed' = completed \cup {Record(peer_ip, local, TIME_WAIT)}
       ELSE UNCHANGED <<timewait, completed>>
    /\ file' = IF Saves /\ written THEN File(received) ELSE file
    /\ UNCHANGED <<up, resolving, have_mac, peer_ip, next_port, stage, budget, locals,
                   arp_left, deadline_left, connection>>

\* Time passes.
Advance ==
    /\ timewait' = [i \in Slots |-> Aged(timewait[i])]
    /\ completed' = {Aged(c) : c \in {c \in completed : c.left > 1}}
    /\ arp_left' = Less(arp_left) /\ deadline_left' = Less(deadline_left)
    /\ UNCHANGED <<up, running, resolving, have_mac, peer_ip, next_port, phase, stage,
                   budget, locals, connection, file>>
-----------------------------------------------------------------------------
Ports == FirstPort .. LastPort

\* What the host does by itself, what its user does and what arrives.
Host == \/ PollStart \/ PollEnd \/ NoKey
        \/ ArpFailed \/ StartTransfer
        \/ \E written \in BOOLEAN : Finish(written)
User == \/ NetUp \/ NetDown \/ CancelKey
        \/ \E p \in Peers, dest \in BOOLEAN : TcpCommand(p, dest)
Arrival == \/ PollReset
           \/ \E p \in Peers : ArpReply(p)
           \/ \E p \in Peers, port \in Ports : LateFin(p, port) \/ SegmentInput(p, port)

Next == Host \/ User \/ Arrival \/ Advance

\* The loops run, and time passes.  Nothing is assumed of the network.
Spec == Init /\ [][Next]_vars /\ WF_vars(Host) /\ WF_vars(Advance)
-----------------------------------------------------------------------------
(* Properties.                                                             *)

RecordType == [ip : Peers, local : Ports, left : 0 .. TIME_WAIT]

\* Every variable of the adapter keeps its type; no port above 65535 is used.
TypeOK ==
    /\ up \in BOOLEAN /\ running \in BOOLEAN /\ resolving \in BOOLEAN
    /\ have_mac \in BOOLEAN /\ peer_ip \in Peers \cup {"none"}
    /\ next_port \in FirstPort .. LastPort + 1
    /\ timewait \in [Slots -> RecordType \cup {NoRecord}]
    /\ phase \in {"shell", "arp", "run"} /\ stage \in {"loop", "frames", "after"}
    /\ budget \in 0 .. Budget
    /\ wait \in Slots /\ local \in Ports \cup {0} /\ saves \in BOOLEAN
    /\ arp_left \in 0 .. ARP_TIMEOUT /\ deadline_left \in 0 .. DEADLINE + 1
    /\ status \in {"idle", "open", "done", "failed"} /\ ended \in BOOLEAN
    /\ completed \subseteq RecordType

\* A completed transfer is remembered for the whole TIME_WAIT: the record chosen
\* when the command began is still expired when the transfer ends, so no other
\* transfer's live record is overwritten, whatever late FINs revive meanwhile.
RecordsKept ==
    \A c \in completed : \E i \in Slots :
        timewait[i].ip = c.ip /\ timewait[i].local = c.local /\ timewait[i].left >= c.left

\* A segment of the running connection is never taken by an old record: its port
\* differs from that of every record.
Unambiguous ==
    running => \A i \in Slots : ~ (timewait[i].ip = peer_ip /\ timewait[i].local = local)

\* The destination is written only with a whole stream: one that the peer ended
\* and whose connection was not cancelled, reset or timed out before the loop
\* looked at it.
SavedWhole ==
    [][file' # file => status = "done" /\ ended /\ file' = File(received)]_vars

\* tcp_command returns to the shell, whatever the network does and however often
\* the interface is restarted or fails to restart.
CommandReturns == phase # "shell" ~> phase = "shell"
=============================================================================
