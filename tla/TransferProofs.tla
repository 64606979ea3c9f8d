---------------------------- MODULE TransferProofs ----------------------------
(***************************************************************************)
(* TcpTransfer, for every number of ports and of records, every lifetime   *)
(* of a record and every set of peers.  The invariant says in which order  *)
(* tcp_command does things: a connection is open only within its loop, the *)
(* record it chose stays expired until it is filled, and ports only grow,  *)
(* so the port in use is above those of all records.                       *)
(***************************************************************************)
EXTENDS TcpTransfer, TLAPS

\* Where the command is, and what the connection then is.
ThreadInv ==
    /\ running <=> phase = "run"
    /\ phase = "run" => status # "idle"
    /\ status = "open" => phase = "run"
    /\ status = "done" => ended
    /\ phase # "shell" => peer_ip \in Peers
    /\ phase = "arp" => next_port <= LastPort
    /\ running => local \in Ports

\* Ports are handed out in increasing order.
PortsInv ==
    /\ running => local < next_port
    /\ \A i \in Slots : /\ timewait[i].local < next_port
                        /\ running => timewait[i].local < local

\* The record of the running command is expired, the completed transfers have
\* live ones.
RecordsInv ==
    /\ phase # "shell" => timewait[wait].left = 0
    /\ \A c \in completed : c.left > 0
    /\ RecordsKept

Inv == TypeOK /\ ThreadInv /\ PortsInv /\ RecordsInv
records == <<timewait, completed, next_port, wait, local>>
-----------------------------------------------------------------------------
(* Records and the connection.                                             *)

\* The fields of a record of the table, and of one that is aged.
LEMMA RecordFields ==
    ASSUME TypeOK, NEW i \in Slots
    PROVE  /\ timewait[i] \in RecordType \cup {NoRecord}
           /\ timewait[i].left \in 0 .. TIME_WAIT /\ timewait[i].left \in Nat
           /\ timewait[i].local \in Nat
           /\ timewait[i].left > 0 => timewait[i] \in RecordType
           /\ Aged(timewait[i]) \in RecordType \cup {NoRecord}
           /\ Aged(timewait[i]).ip = timewait[i].ip
           /\ Aged(timewait[i]).local = timewait[i].local
           /\ Aged(timewait[i]).left = Less(timewait[i].left)
  BY TransferAssumption DEF TypeOK, RecordType, NoRecord, Record, Aged, Less, Ports

\* The record of a transfer that completes.
LEMMA NewRecord ==
    ASSUME NEW p \in Peers, NEW port \in Ports
    PROVE  /\ Record(p, port, TIME_WAIT) \in RecordType
           /\ Record(p, port, TIME_WAIT).ip = p
           /\ Record(p, port, TIME_WAIT).local = port
           /\ Record(p, port, TIME_WAIT).left = TIME_WAIT
  BY TransferAssumption DEF Record, RecordType

\* What a completed transfer is remembered as.
LEMMA CompletedFields ==
    ASSUME TypeOK, NEW c \in completed
    PROVE  c \in RecordType /\ c.left \in 0 .. TIME_WAIT /\ c.left \in Nat
  BY TransferAssumption DEF TypeOK, RecordType

\* A step of the running connection.
LEMMA ConnectionStep ==
    ASSUME TypeOK, ThreadInv, running,
           \/ Connection!Fail \/ Connection!Complete \/ UNCHANGED connection
           \/ \E chunk \in Chunks, last \in BOOLEAN : Connection!Deliver(chunk, last)
    PROVE  /\ status' \in {"open", "done", "failed"} /\ ended' \in BOOLEAN
           /\ status' = "open" => status = "open"
           /\ status' = "done" => ended'
  BY DEF TypeOK, ThreadInv, connection, Connection!Fail, Connection!Complete,
         Connection!Deliver

\* tcp_net_down fails a running connection and leaves any other alone.
LEMMA NetDownStep ==
    ASSUME TypeOK, ThreadInv, TcpNetDown
    PROVE  /\ status' \in {"idle", "open", "done", "failed"} /\ ended' \in BOOLEAN
           /\ have_mac' = FALSE
           /\ running => status' = "failed"
           /\ ~ running => status' = status /\ ended' = ended
  BY DEF TypeOK, TcpNetDown, connection, Connection!Fail

\* A step that changes neither the records nor the ports nor the phase.
LEMMA RecordsStep ==
    ASSUME PortsInv, RecordsInv, UNCHANGED <<records, running, phase>>
    PROVE  PortsInv' /\ RecordsInv'
  BY DEF PortsInv, RecordsInv, RecordsKept, records

\* The same, with what has to be shown of the other variables.
LEMMA QuietStep ==
    ASSUME Inv, UNCHANGED <<records, phase, running, resolving, peer_ip, saves>>,
           up' \in BOOLEAN, have_mac' \in BOOLEAN, arp_left' = arp_left,
           deadline_left' = deadline_left,
           stage' \in {"loop", "frames", "after"}, budget' \in 0 .. Budget,
           \/ UNCHANGED connection
           \/ /\ running /\ status' \in {"open", "done", "failed"} /\ ended' \in BOOLEAN
              /\ status' = "done" => ended'
    PROVE  Inv'
  <1>1. TypeOK'
    BY DEF Inv, TypeOK, records, connection
  <1>2. ThreadInv'
    BY DEF Inv, ThreadInv, records, connection
  <1> QED BY <1>1, <1>2, RecordsStep DEF Inv
-----------------------------------------------------------------------------
(* One lemma per step.                                                     *)

LEMMA InitInv == Init => Inv
  <1> SUFFICES ASSUME Init PROVE Inv
    OBVIOUS
  <1>1. status = "idle" /\ ended = FALSE
    BY DEF Init, Connection!Init
  <1>2. timewait \in [Slots -> RecordType \cup {NoRecord}] /\ wait \in Slots
    BY TransferAssumption DEF Init, Slots
  <1>3. next_port \in FirstPort .. LastPort + 1
    BY TransferAssumption DEF Init
  <1>4. 0 \in 0 .. Budget /\ 0 \in 0 .. ARP_TIMEOUT /\ 0 \in 0 .. DEADLINE + 1
    BY TransferAssumption
  <1>5. TypeOK
    <2>1. completed \subseteq RecordType /\ local \in Ports \cup {0} /\ peer_ip \in Peers \cup {"none"}
      BY DEF Init
    <2> QED BY <1>1, <1>2, <1>3, <1>4, <2>1 DEF Init, TypeOK
  <1>6. ThreadInv
    BY <1>1 DEF Init, ThreadInv
  <1>7. PortsInv /\ RecordsInv
    BY TransferAssumption DEF Init, PortsInv, RecordsInv, RecordsKept, NoRecord
  <1> QED BY <1>5, <1>6, <1>7 DEF Inv

\* The commands of the interface, and its restart within a poll.
LEMMA InterfaceInv ==
    ASSUME Inv, NetUp \/ NetDown \/ PollReset
    PROVE  Inv'
  <1> USE DEF records, locals, adapter
  <1>1. CASE NetUp
    BY <1>1, QuietStep DEF NetUp, Inv, TypeOK
  <1>2. CASE NetDown
    <2>1. ~ running
      BY <1>2 DEF NetDown, Inv, ThreadInv
    <2>2. UNCHANGED connection
      BY <1>2, <2>1 DEF NetDown, TcpNetDown
    <2> QED BY <1>2, <2>2, QuietStep DEF NetDown, TcpNetDown, Inv, TypeOK
  <1>3. CASE PollReset
    <2>1. PICK ok \in BOOLEAN : Reset(ok)
      BY <1>3 DEF PollReset
    <2>2. /\ running => status' = "failed" /\ ended' \in BOOLEAN
          /\ ~ running => UNCHANGED connection
      BY <2>1, NetDownStep DEF Reset, Inv, TcpNetDown
    <2>3. 0 \in 0 .. Budget
      BY TransferAssumption
    <2> QED BY <2>1, <2>2, <2>3, QuietStep DEF Reset, TcpNetDown, Inv, TypeOK
  <1> QED BY <1>1, <1>2, <1>3

\* One pass of a waiting loop.
LEMMA PollInv ==
    ASSUME Inv, PollStart \/ PollEnd \/ NoKey \/ CancelKey
    PROVE  Inv'
  <1> USE DEF records, locals, adapter
  <1>1. 0 \in 0 .. Budget /\ Budget \in 0 .. Budget
    BY TransferAssumption
  <1>2. CASE PollStart
    BY <1>1, <1>2, QuietStep DEF PollStart, Inv, TypeOK
  <1>3. CASE PollEnd
    <2>1. running => Connection!Fail \/ Connection!Complete \/ UNCHANGED connection
      BY <1>3 DEF PollEnd
    <2>2. ~ running => UNCHANGED connection
      BY <1>3 DEF PollEnd
    <2>3. running => /\ status' \in {"open", "done", "failed"} /\ ended' \in BOOLEAN
                     /\ status' = "done" => ended'
      BY <2>1, ConnectionStep DEF Inv
    <2> QED BY <1>1, <1>3, <2>2, <2>3, QuietStep DEF PollEnd, Inv, TypeOK
  <1>4. CASE NoKey
    BY <1>4, QuietStep DEF NoKey, Inv, TypeOK
  <1>5. CASE CancelKey
    <2>1. running
      BY <1>5 DEF CancelKey, Inv, ThreadInv
    <2>2. /\ status' \in {"open", "done", "failed"} /\ ended' \in BOOLEAN
          /\ status' = "done" => ended'
      BY <1>5, <2>1, ConnectionStep DEF CancelKey, Inv
    <2> QED BY <1>5, <2>1, <2>2, QuietStep DEF CancelKey, Inv, TypeOK
  <1> QED BY <1>2, <1>3, <1>4, <1>5

\* A frame for the lookup or for the running connection.
LEMMA FrameInv ==
    ASSUME Inv, NEW p \in Peers, NEW port \in Ports,
           ArpReply(p) \/ SegmentInput(p, port)
    PROVE  Inv'
  <1> USE DEF records, locals, adapter
  <1>1. budget' \in 0 .. Budget
    BY TransferAssumption DEF ArpReply, SegmentInput, Frame, Inv, TypeOK
  <1>2. CASE ArpReply(p)
    BY <1>1, <1>2, QuietStep DEF ArpReply, Inv, TypeOK
  <1>3. CASE SegmentInput(p, port)
    <2>1. running
      BY <1>3 DEF SegmentInput
    <2>2. /\ status' \in {"open", "done", "failed"} /\ ended' \in BOOLEAN
          /\ status' = "done" => ended'
      BY <1>3, <2>1, ConnectionStep DEF SegmentInput, Inv
    <2> QED BY <1>1, <1>3, <2>1, <2>2, QuietStep DEF SegmentInput, Inv, TypeOK
  <1> QED BY <1>2, <1>3

\* A late FIN renews a live record, which is not the one the command chose.
LEMMA LateFinInv ==
    ASSUME Inv, NEW p \in Peers, NEW port \in Ports, LateFin(p, port)
    PROVE  Inv'
  <1> USE DEF records, locals, adapter
  <1>1. PICK i \in Slots : /\ FirstRecorded(i, p, port)
                           /\ timewait' = [timewait EXCEPT ![i] = Record(p, port, TIME_WAIT)]
    BY DEF LateFin
  <1>2. timewait[i].left > 0 /\ timewait[i].ip = p /\ timewait[i].local = port
    BY <1>1 DEF FirstRecorded, Recorded, Live
  <1>3. \A j \in Slots : /\ timewait'[j].local = timewait[j].local
                         /\ timewait'[j].ip = timewait[j].ip
                         /\ timewait'[j].left >= timewait[j].left
                         /\ timewait[j].left = 0 => timewait'[j].left = 0
    BY <1>1, <1>2, NewRecord, RecordFields DEF Inv, TypeOK
  <1>4. timewait' \in [Slots -> RecordType \cup {NoRecord}]
    BY <1>1, NewRecord DEF Inv, TypeOK
  <1>5. budget' \in 0 .. Budget
    BY TransferAssumption DEF LateFin, Frame, Inv, TypeOK
  <1>6. TypeOK'
    BY <1>4, <1>5 DEF LateFin, Inv, TypeOK, connection
  <1>7. ThreadInv'
    BY DEF LateFin, Inv, ThreadInv, connection
  <1>8. PortsInv'
    BY <1>3 DEF LateFin, Inv, PortsInv
  <1>9. RecordsKept'
    <2> SUFFICES ASSUME NEW c \in completed
                 PROVE  \E j \in Slots : /\ timewait'[j].ip = c.ip
                                         /\ timewait'[j].local = c.local
                                         /\ timewait'[j].left >= c.left
      BY DEF RecordsKept, LateFin
    <2>1. PICK j \in Slots : /\ timewait[j].ip = c.ip /\ timewait[j].local = c.local
                             /\ timewait[j].left >= c.left
      BY DEF Inv, RecordsInv, RecordsKept
    <2>2. timewait'[j].left \in Nat /\ timewait[j].left \in Nat /\ c.left \in Nat
      BY <1>6, RecordFields, CompletedFields, TransferAssumption DEF Inv, TypeOK, RecordType, NoRecord
    <2> QED BY <1>3, <2>1, <2>2
  <1>10. RecordsInv'
    BY <1>3, <1>9 DEF LateFin, Inv, RecordsInv, TypeOK
  <1> QED BY <1>6, <1>7, <1>8, <1>10 DEF Inv

\* The command begins with an expired record.
LEMMA CommandInv ==
    ASSUME Inv, NEW p \in Peers, NEW dest \in BOOLEAN, TcpCommand(p, dest)
    PROVE  Inv'
  <1>1. wait' \in Slots /\ timewait[wait'].left = 0
    BY RecordFields DEF TcpCommand, ExpiredRecord, Live, Inv
  <1>2. ARP_TIMEOUT \in 0 .. ARP_TIMEOUT
    BY TransferAssumption
  <1>3. TypeOK'
    BY <1>1, <1>2 DEF TcpCommand, Inv, TypeOK, connection
  <1>4. ThreadInv'
    BY DEF TcpCommand, MayStart, Inv, ThreadInv, connection
  <1>5. PortsInv' /\ RecordsInv'
    BY <1>1 DEF TcpCommand, Inv, PortsInv, RecordsInv, RecordsKept
  <1> QED BY <1>3, <1>4, <1>5 DEF Inv

LEMMA ArpFailedInv == ASSUME Inv, ArpFailed PROVE Inv'
  <1> USE DEF locals
  <1>1. TypeOK'
    BY DEF ArpFailed, Inv, TypeOK, connection
  <1>2. ThreadInv'
    BY DEF ArpFailed, Inv, ThreadInv, connection
  <1>3. PortsInv' /\ RecordsInv'
    BY DEF ArpFailed, Inv, ThreadInv, PortsInv, RecordsInv, RecordsKept
  <1> QED BY <1>1, <1>2, <1>3 DEF Inv

\* The port taken is above those of all records.
LEMMA StartInv == ASSUME Inv, StartTransfer PROVE Inv'
  <1>1. local' = next_port /\ next_port' = next_port + 1 /\ timewait' = timewait
    BY DEF StartTransfer, PortAfter
  <1>2. next_port \in FirstPort .. LastPort
    BY TransferAssumption DEF StartTransfer, Inv, TypeOK, ThreadInv
  <1>3. local' \in Ports /\ next_port' \in FirstPort .. LastPort + 1
    BY <1>1, <1>2, TransferAssumption DEF Ports
  <1>4. status' = "open" /\ ended' = FALSE
    BY DEF StartTransfer, Connection!Open
  <1>5. deadline_left' \in 0 .. DEADLINE + 1
    BY TransferAssumption DEF StartTransfer
  <1>6. TypeOK'
    BY <1>3, <1>4, <1>5 DEF StartTransfer, Inv, TypeOK
  <1>7. ThreadInv'
    BY <1>3, <1>4 DEF StartTransfer, Inv, ThreadInv
  <1>8. PortsInv'
    <2> SUFFICES ASSUME NEW i \in Slots
                 PROVE  timewait[i].local < next_port' /\ timewait[i].local < local'
      BY <1>1, <1>2, TransferAssumption DEF PortsInv
    <2>1. timewait[i].local \in Nat /\ timewait[i].local < next_port
      BY RecordFields DEF Inv, PortsInv
    <2> QED BY <1>1, <1>2, <2>1, TransferAssumption
  <1>9. RecordsInv'
    BY DEF StartTransfer, Inv, RecordsInv, RecordsKept
  <1> QED BY <1>6, <1>7, <1>8, <1>9 DEF Inv

\* A completed transfer fills the record that was expired when it began, so no
\* other transfer loses its own.
LEMMA FinishInv ==
    ASSUME Inv, NEW written \in BOOLEAN, Finish(written)
    PROVE  Inv'
  <1> USE DEF locals
  <1>1. running /\ peer_ip \in Peers /\ local \in Ports /\ wait \in Slots
    BY DEF Finish, Inv, ThreadInv, TypeOK
  <1>2. CASE status # "done"
    <2>1. timewait' = timewait /\ completed' = completed
      BY <1>2 DEF Finish
    <2>2. TypeOK'
      BY <2>1 DEF Finish, Inv, TypeOK, connection
    <2>3. ThreadInv'
      BY DEF Finish, Ended, Inv, ThreadInv, connection
    <2>4. PortsInv' /\ RecordsInv'
      BY <2>1 DEF Finish, Inv, PortsInv, RecordsInv, RecordsKept
    <2> QED BY <2>2, <2>3, <2>4 DEF Inv
  <1>3. CASE status = "done"
    <2> DEFINE new == Record(peer_ip, local, TIME_WAIT)
    <2>1. /\ timewait' = [timewait EXCEPT ![wait] = new]
          /\ completed' = completed \cup {new}
      BY <1>3 DEF Finish
    <2>2. /\ new \in RecordType /\ new.ip = peer_ip /\ new.local = local
          /\ new.left = TIME_WAIT
      BY <1>1, NewRecord
    <2> HIDE DEF new
    <2>3. /\ timewait'[wait] = new
          /\ \A i \in Slots : i # wait => timewait'[i] = timewait[i]
      BY <1>1, <2>1 DEF Inv, TypeOK
    <2>4. TypeOK'
      BY <2>1, <2>2 DEF Finish, Inv, TypeOK, connection
    <2>5. ThreadInv'
      BY DEF Finish, Ended, Inv, ThreadInv, connection
    <2>6. PortsInv'
      BY <1>1, <2>2, <2>3 DEF Finish, Inv, PortsInv
    <2>7. \A c \in completed' : c.left > 0
      BY <2>1, <2>2, TransferAssumption DEF Inv, RecordsInv
    <2>8. RecordsKept'
      <3> SUFFICES ASSUME NEW c \in completed'
                   PROVE  \E i \in Slots : /\ timewait'[i].ip = c.ip
                                           /\ timewait'[i].local = c.local
                                           /\ timewait'[i].left >= c.left
        BY DEF RecordsKept
      <3>1. CASE c = new
        BY <1>1, <2>2, <2>3, <3>1, TransferAssumption
      <3>2. CASE c \in completed
        <4>1. PICK i \in Slots : /\ timewait[i].ip = c.ip /\ timewait[i].local = c.local
                                 /\ timewait[i].left >= c.left
          BY <3>2 DEF Inv, RecordsInv, RecordsKept
        <4>2. c.left > 0 /\ c.left \in Nat /\ timewait[wait].left = 0
          BY <3>2, CompletedFields DEF Finish, Inv, RecordsInv
        <4>3. i # wait
          BY <4>1, <4>2
        <4> QED BY <2>3, <4>1, <4>3
      <3> QED BY <2>1, <3>1, <3>2
    <2>9. RecordsInv'
      BY <2>7, <2>8 DEF Finish, RecordsInv
    <2> QED BY <2>4, <2>5, <2>6, <2>9 DEF Inv
  <1> QED BY <1>2, <1>3

\* Records and completed transfers age together.
LEMMA AdvanceInv == ASSUME Inv, Advance PROVE Inv'
  <1> USE DEF locals
  <1>1. \A i \in Slots : timewait'[i] = Aged(timewait[i])
    BY DEF Advance
  <1>2. timewait' \in [Slots -> RecordType \cup {NoRecord}]
    BY RecordFields DEF Advance, Inv
  <1>3. ASSUME NEW c \in completed'
        PROVE  /\ c \in RecordType /\ c.left > 0
               /\ \E i \in Slots : /\ timewait'[i].ip = c.ip
                                   /\ timewait'[i].local = c.local
                                   /\ timewait'[i].left >= c.left
    <2>1. PICK b \in completed : b.left > 1 /\ c = Aged(b)
      BY <1>3 DEF Advance
    <2>2. b \in RecordType /\ b.left \in 0 .. TIME_WAIT /\ b.left \in Nat
      BY CompletedFields DEF Inv
    <2>3. /\ c \in RecordType /\ c.ip = b.ip /\ c.local = b.local
          /\ c.left = b.left - 1
      BY <2>1, <2>2, TransferAssumption DEF Aged, Less, Record, RecordType
    <2>4. PICK i \in Slots : /\ timewait[i].ip = b.ip /\ timewait[i].local = b.local
                             /\ timewait[i].left >= b.left
      BY DEF Inv, RecordsInv, RecordsKept
    <2>5. /\ timewait'[i].ip = c.ip /\ timewait'[i].local = c.local
          /\ timewait'[i].left = Less(timewait[i].left) /\ timewait[i].left \in Nat
      BY <1>1, <2>3, <2>4, RecordFields DEF Inv
    <2>6. timewait'[i].left >= c.left
      BY <2>1, <2>2, <2>3, <2>4, <2>5 DEF Less
    <2> QED BY <2>1, <2>2, <2>3, <2>5, <2>6
  <1>4. arp_left' \in 0 .. ARP_TIMEOUT /\ deadline_left' \in 0 .. DEADLINE + 1
    BY TransferAssumption DEF Advance, Less, Inv, TypeOK
  <1>5. completed' \subseteq RecordType
    BY <1>3
  <1>6. TypeOK'
    BY <1>2, <1>4, <1>5 DEF Advance, Inv, TypeOK, connection
  <1>7. ThreadInv'
    BY DEF Advance, Inv, ThreadInv, connection
  <1>8. PortsInv'
    BY <1>1, RecordFields DEF Advance, Inv, PortsInv
  <1>9. phase' # "shell" => timewait'[wait'].left = 0
    BY <1>1, RecordFields DEF Advance, Inv, TypeOK, RecordsInv, Less
  <1>10. RecordsInv'
    BY <1>3, <1>9 DEF RecordsInv, RecordsKept
  <1> QED BY <1>6, <1>7, <1>8, <1>10 DEF Inv

LEMMA StutterInv == ASSUME Inv, UNCHANGED vars PROVE Inv'
  <1> USE DEF vars, records, locals, adapter, connection
  <1> QED BY QuietStep DEF Inv, TypeOK
-----------------------------------------------------------------------------
(* The theorems.                                                           *)

LEMMA NextInv == Inv /\ [Next]_vars => Inv'
  <1> SUFFICES ASSUME Inv, [Next]_vars PROVE Inv'
    OBVIOUS
  <1>1. CASE Host
    BY <1>1, PollInv, ArpFailedInv, StartInv, FinishInv DEF Host
  <1>2. CASE User
    BY <1>2, InterfaceInv, PollInv, CommandInv DEF User
  <1>3. CASE Arrival
    <2>1. CASE PollReset
      BY <2>1, InterfaceInv
    <2>2. ASSUME NEW p \in Peers, ArpReply(p) PROVE Inv'
      <3>1. FirstPort \in Ports
        BY TransferAssumption DEF Ports
      <3> QED BY <2>2, <3>1, FrameInv
    <2>3. ASSUME NEW p \in Peers, NEW port \in Ports, LateFin(p, port) \/ SegmentInput(p, port)
          PROVE  Inv'
      BY <2>3, LateFinInv, FrameInv
    <2> QED BY <1>3, <2>1, <2>2, <2>3 DEF Arrival
  <1>4. CASE Advance
    BY <1>4, AdvanceInv
  <1>5. CASE UNCHANGED vars
    BY <1>5, StutterInv
  <1> QED BY <1>1, <1>2, <1>3, <1>4, <1>5 DEF Next

\* The invariant holds of every behaviour of the adapter.
LEMMA SpecInv == Spec => []Inv
  BY InitInv, NextInv, PTL DEF Spec

\* Every variable of tcp_native.c keeps its type, and no port above the last
\* ephemeral one is ever used.
THEOREM TransferTypes == Spec => []TypeOK
  <1>1. Inv => TypeOK
    BY DEF Inv
  <1> QED BY <1>1, SpecInv, PTL

\* The record of a completed transfer lives as long as it must: neither a later
\* command nor a late FIN overwrites or shortens it.
THEOREM TransfersRemembered == Spec => []RecordsKept
  <1>1. Inv => RecordsKept
    BY DEF Inv, RecordsInv
  <1> QED BY <1>1, SpecInv, PTL

\* No record of the table claims the segments of the running connection.
THEOREM SegmentsUnambiguous == Spec => []Unambiguous
  <1>1. Inv => Unambiguous
    <2> SUFFICES ASSUME Inv, running, NEW i \in Slots
                 PROVE  timewait[i].local # local
      BY DEF Unambiguous
    <2>1. timewait[i].local < local /\ timewait[i].local \in Nat
      BY RecordFields DEF Inv, PortsInv
    <2> QED BY <2>1
  <1> QED BY <1>1, SpecInv, PTL

\* tcp_command writes its destination only with a stream that the peer ended and
\* that no cancel, reset or timeout reached first.
THEOREM SavesWholeStreams == Spec => SavedWhole
  <1> DEFINE Whole == file' # file => status = "done" /\ ended /\ file' = File(received)
  <1>1. Inv /\ [Next]_vars => [Whole]_vars
    <2> SUFFICES ASSUME Inv, Next, file' # file PROVE Whole
      BY DEF vars
    <2>1. PICK written \in BOOLEAN : Finish(written)
      BY DEF Next, Host, User, Arrival, NetUp, NetDown, PollReset, Reset, PollStart, PollEnd,
             NoKey, CancelKey, ArpReply, LateFin, SegmentInput, TcpCommand, ArpFailed,
             StartTransfer, Advance
    <2>2. Saves /\ file' = File(received)
      BY <2>1 DEF Finish
    <2> QED BY <2>2 DEF Saves, Inv, ThreadInv
  <1> QED BY <1>1, SpecInv, PTL DEF Spec, SavedWhole

=============================================================================
