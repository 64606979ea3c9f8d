--------------------------------- MODULE Tcp ---------------------------------
(***************************************************************************)
(* The bounded active-open TCP stream of jordyOS/net/tcp.c: one connection *)
(* that sends the file `tx', receives the peer's file into `rx' and closes *)
(* both directions.  The connection is driven by three calls, each one     *)
(* atomic because the kernel is cooperative: tcp_start, tcp_input (a       *)
(* segment that arrived) and tcp_tick (every pass of the polling loop),    *)
(* and by tcp_abort.                                                       *)
(*                                                                         *)
(* The environment here is as hostile as it can be: any segment of         *)
(* Segments may arrive at any time, and every call of c->emit may fail     *)
(* (no transmit slot, interface down, firewall).  TcpConnection composes   *)
(* the same actions with a conforming peer and a faulty network.           *)
(*                                                                         *)
(* A sequence number is a number of 0 .. SeqSpace-1 and wraps; the code    *)
(* has SeqSpace = 2^32.  Times are in an abstract unit.  What the LARP     *)
(* library answers (the congestion window, the pacing gap) and the         *)
(* retransmission timeout of an RTT sample are nondeterministic choices.   *)
(*                                                                         *)
(* An operator named D_bug is definition D with a slip in it.  The         *)
(* specification uses none of them: README.md says which property fails    *)
(* when D_bug takes the place of D.                                        *)
(***************************************************************************)
EXTENDS Integers, Sequences, FiniteSets, FiniteSetsExt

CONSTANTS
    SeqHalf,          \* half of the sequence space (2^31)
    TCP_BUFFER,       \* largest file, in bytes (16384)
    TCP_SLOTS,        \* segments that may await an acknowledgement (16)
    TCP_MSS,          \* largest payload (536)
    RCV_WND,          \* largest window advertised (4096)
    MAX_RETRIES,      \* retransmissions of one segment (8)
    RTO_INIT,         \* initial retransmission timeout (1 s)
    RTO_SYN_RETRIED,  \* the timeout after a retransmitted SYN (3 s)
    RTO_MAX,          \* the timeout's upper bound (60 s)
    RtoSamples,       \* timeouts an RTT sample may yield
    PROBE_INTERVAL,   \* between two zero-window probes (1 s)
    DEADLINE,         \* of the whole transfer (120 s)
    PaceGaps,         \* gaps LARP's rate may impose after a data segment (0: the
                      \* gap is shorter than one unit of the clock)
    Cwnds,            \* congestion windows LARP may answer, in segments
    Byte,             \* values of a byte
    Files,            \* files a transfer may be asked to send
    Isns,             \* initial sequence numbers (the low half of the TSC)
    Segments,         \* segments that may arrive
    MaxTime           \* bound on the clock

SeqSpace == 2 * SeqHalf
Seqs == 0 .. SeqSpace - 1
Slots == 1 .. TCP_SLOTS
Flags == {"SYN", "ACK", "FIN", "RST"}
ZERO == 0             \* the byte a probe carries when nothing was sent yet

\* The bounds a proof relies on: file and window fit in half the sequence
\* space, as 16384 and 4096 do in 2^31.
ASSUME ConstantsAssumption ==
    /\ SeqHalf \in Nat /\ TCP_BUFFER \in Nat /\ TCP_SLOTS \in Nat \ {0}
    /\ TCP_MSS \in Nat \ {0} /\ RCV_WND \in Nat \ {0} /\ MAX_RETRIES \in Nat
    /\ TCP_BUFFER + RCV_WND + 4 < SeqHalf
ASSUME TimesAssumption ==
    /\ RTO_INIT \in Nat \ {0} /\ RTO_SYN_RETRIED \in Nat \ {0}
    /\ RTO_MAX \in Nat \ {0} /\ RtoSamples \subseteq 1 .. RTO_MAX
    /\ PROBE_INTERVAL \in Nat /\ DEADLINE \in Nat /\ MaxTime \in Nat
    /\ PaceGaps \subseteq Nat
\* What the header and the payload of a segment that arrives can hold.
IsSegment(m) ==
    /\ m.flags \subseteq Flags /\ m.seq \in Seqs /\ m.ack \in Seqs
    /\ m.wnd \in Nat /\ m.mss \in Nat /\ m.data \in Seq(Byte)
ASSUME InputsAssumption ==
    /\ Cwnds \subseteq Nat \ {0} /\ Isns \subseteq Seqs
    /\ ZERO \in Byte /\ Files \subseteq Seq(Byte)
    /\ \A m \in Segments : IsSegment(m)

VARIABLES
    state, error,                          \* of the connection, and why it failed
    isn, tx, mss, started_us,              \* the transfer
    una, next, tx_offset, delivered,       \* the sending side
    own_fin, own_fin_acked,
    pending,                               \* the retransmission queue
    receive_next, rx, peer_fin,            \* the receiving side
    ack_pending,                           \* an acknowledgement is owed
    peer_window, window_seq, window_ack,   \* flow control
    cwnd, recovery, recovery_end,          \* congestion control
    dupacks,
    timer_us, next_send_us, probe_us, rto_us,
    now,                                   \* the clock
    out                                    \* segments the last call emitted

transfer == <<isn, tx, mss, started_us>>
sender == <<una, next, tx_offset, delivered, own_fin, own_fin_acked>>
receiver == <<receive_next, rx, peer_fin>>
window == <<peer_window, window_seq, window_ack>>
congestion == <<cwnd, recovery, recovery_end>>
timers == <<timer_us, next_send_us, probe_us, rto_us>>
vars == <<state, error, transfer, sender, pending, receiver, ack_pending,
          window, congestion, dupacks, timers, now, out>>
-----------------------------------------------------------------------------
(* Sequence arithmetic and the retransmission queue.                       *)

SeqAdd(a, n) == IF a + n >= SeqSpace THEN a + n - SeqSpace ELSE a + n
SeqSub(a, b) == IF a >= b THEN a - b ELSE a - b + SeqSpace
Before(a, b) == SeqSub(a, b) >= SeqHalf
Min2(a, b) == IF a < b THEN a ELSE b

\* A slot of c->pending; kind stands for the flags.
NoSegment == [used |-> FALSE, kind |-> "DATA", sequence |-> 0,
              offset |-> 0, length |-> 0, retries |-> 0]
Segment(k, s, o, n) == [used |-> TRUE, kind |-> k, sequence |-> s,
                        offset |-> o, length |-> n, retries |-> 0]

Retried(s) == [used |-> TRUE, kind |-> s.kind, sequence |-> s.sequence,
               offset |-> s.offset, length |-> s.length, retries |-> s.retries + 1]

\* Sequence numbers a segment occupies: its payload, and one for SYN or FIN.
SequenceSize(s) == s.length + (IF s.kind = "DATA" THEN 0 ELSE 1)

Used == {i \in Slots : pending[i].used}
Inflight == Cardinality(Used)

IsOldest(i) == i \in Used /\ \A j \in Used \ {i} :
                  Before(pending[i].sequence, pending[j].sequence)
-----------------------------------------------------------------------------
(* Output.  e says whether c->emit accepts the segment.                    *)

Window == Min2(RCV_WND, TCP_BUFFER + 1 - Len(rx))

Output(s, f, d) ==
    [flags |-> f, seq |-> s, ack |-> receive_next, wnd |-> Window, data |-> d]

OutputSegment_FromUna(s) ==
    Output(s.sequence, IF s.kind = "SYN" THEN {"SYN"} ELSE
                       IF s.kind = "FIN" THEN {"ACK", "FIN"} ELSE {"ACK"},
           SubSeq(tx, SeqSub(una, isn), SeqSub(una, isn) + s.length - 1))
OutputSegment(s) ==
    Output(s.sequence,
           CASE s.kind = "SYN" -> {"SYN"}
             [] s.kind = "FIN" -> {"ACK", "FIN"}
             [] OTHER -> {"ACK"},
           SubSeq(tx, s.offset + 1, s.offset + s.length))

SetWindow(w, s, a) == peer_window' = w /\ window_seq' = s /\ window_ack' = a

\* A transmitted data segment reserves the time until the next one.
Pace(n) ==
    IF n = 0 THEN next_send_us' = next_send_us
    ELSE \E g \in PaceGaps : next_send_us' = now + g

\* tcp_abort: an open connection is reset; `sent' was emitted before the RST.
Abort(reason, sent, e) ==
    /\ state' = "FAILED" /\ error' = reason
    /\ out' = sent \cup
         (IF state \in {"ESTABLISHED", "CLOSING"} /\ e
          THEN {Output(next, {"RST", "ACK"}, <<>>)} ELSE {})

\* loss: retransmit the oldest segment i, unless its retries are used up,
\* the pace forbids it or the segment cannot be emitted.
LossGivesUp(i, sent, e) ==
    /\ pending[i].retries >= MAX_RETRIES
    /\ Abort("retransmission limit", sent, e)
    /\ UNCHANGED <<pending, congestion, timers>>

LossDeferred(i, sent, e) ==
    /\ pending[i].retries < MAX_RETRIES
    /\ (now < next_send_us /\ pending[i].length > 0) \/ ~e
    /\ out' = sent
    /\ UNCHANGED <<state, error, pending, congestion, timers>>

LossRetransmits(i, timeout, sent, e) ==
    /\ pending[i].retries < MAX_RETRIES
    /\ now >= next_send_us \/ pending[i].length = 0
    /\ e
    /\ out' = sent \cup {OutputSegment(pending[i])}
    /\ pending' = [pending EXCEPT ![i] = Retried(@)]
    /\ timer_us' = now
    /\ rto_us' = IF timeout THEN Min2(RTO_MAX, 2 * rto_us) ELSE rto_us
    /\ Pace(pending[i].length)
    /\ IF state = "SYN_SENT" THEN UNCHANGED congestion
       ELSE /\ recovery' = TRUE /\ recovery_end' = next
            /\ IF timeout THEN cwnd' = 1 ELSE cwnd' \in Cwnds
    /\ UNCHANGED <<state, error, probe_us>>

Loss(timeout, sent, e) ==
    \E i \in Slots :
        /\ IsOldest(i)
        /\ \/ LossGivesUp(i, sent, e)
           \/ LossDeferred(i, sent, e)
           \/ LossRetransmits(i, timeout, sent, e)
-----------------------------------------------------------------------------
(* tcp_start                                                               *)

\* memset: every field that no assignment of tcp_start sets.
ClearConnection ==
    /\ pending' = [i \in Slots |-> NoSegment]
    /\ tx_offset' = 0 /\ delivered' = 0
    /\ own_fin' = FALSE /\ own_fin_acked' = FALSE
    /\ receive_next' = 0 /\ rx' = <<>> /\ peer_fin' = FALSE /\ ack_pending' = FALSE
    /\ SetWindow(0, 0, 0)
    /\ recovery' = FALSE /\ recovery_end' = 0 /\ dupacks' = 0
    /\ timer_us' = 0 /\ next_send_us' = 0 /\ probe_us' = 0

\* valid is FALSE for a zero port.
StartInvalid(data, valid) ==
    /\ ~ valid \/ Len(data) > TCP_BUFFER
    /\ state' = "FAILED" /\ error' = "invalid TCP transfer"
    /\ tx' = <<>> /\ mss' = 0 /\ started_us' = 0
    /\ isn' = 0 /\ una' = 0 /\ next' = 0
    /\ rto_us' = 0 /\ cwnd' = 0
    /\ ClearConnection
    /\ out' = {} /\ now' = now

StartValid(data, s, valid) ==
    /\ valid /\ Len(data) <= TCP_BUFFER
    /\ state' = "SYN_SENT" /\ error' = "none"
    /\ tx' = data /\ mss' = TCP_MSS /\ started_us' = now
    /\ isn' = s /\ una' = s /\ next' = s
    /\ rto_us' = RTO_INIT /\ cwnd' \in Cwnds
    /\ ClearConnection
    /\ out' = {} /\ now' = now

TcpStart(data, s, valid) == StartInvalid(data, valid) \/ StartValid(data, s, valid)
-----------------------------------------------------------------------------
(* tcp_input.  A segment with a malformed header or other ports leaves the *)
(* connection alone; m.mss = 0 is a malformed or zero MSS option.          *)

Refuses(m) == /\ state = "SYN_SENT"
              /\ {"RST", "ACK"} \subseteq m.flags /\ m.ack = SeqAdd(isn, 1)

InputRefused(m) ==
    /\ Refuses(m)
    /\ Abort("connection refused", {}, FALSE)
    /\ UNCHANGED <<transfer, sender, pending, receiver, ack_pending, window,
                   congestion, dupacks, timers, now>>

Establishes(m) ==
    /\ state = "SYN_SENT"
    /\ m.flags = {"SYN", "ACK"} /\ m.ack = SeqAdd(isn, 1) /\ m.ack = next
    /\ m.data = <<>> /\ m.mss # 0

InputSynAck(m) ==
    /\ Establishes(m)
    /\ mss' = Min2(TCP_MSS, m.mss)
    /\ receive_next' = SeqAdd(m.seq, 1)
    /\ SetWindow(m.wnd, m.seq, m.ack)
    /\ una' = m.ack
    /\ pending' = [pending EXCEPT ![1] = NoSegment]
    /\ IF pending[1].retries = 0 THEN rto_us' \in RtoSamples
       ELSE rto_us' = RTO_SYN_RETRIED
    /\ state' = "ESTABLISHED" /\ ack_pending' = TRUE
    /\ out' = {}
    /\ UNCHANGED <<error, isn, tx, started_us, next, tx_offset, delivered,
                   own_fin, own_fin_acked, rx, peer_fin, congestion, dupacks,
                   timer_us, next_send_us, probe_us, now>>

Synchronized == state \in {"ESTABLISHED", "CLOSING", "DONE"}

Resets(m) == Synchronized /\ "RST" \in m.flags /\ m.seq = receive_next

InputReset(m) ==
    /\ Resets(m)
    /\ state' = "FAILED" /\ error' = "peer reset" /\ out' = {}
    /\ UNCHANGED <<transfer, sender, pending, receiver, ack_pending, window,
                   congestion, dupacks, timers, now>>

SequenceLength(m) == Len(m.data) + (IF "FIN" \in m.flags THEN 1 ELSE 0)

Acceptable(m) ==
    LET edge == SeqAdd(receive_next, Window)
        n == SequenceLength(m)
    IN IF n > 0
       THEN /\ Before(m.seq, edge)
            /\ ~ Before(SeqAdd(m.seq, n - 1), receive_next)
       ELSE \/ m.seq = receive_next
            \/ ~ Before(m.seq, receive_next) /\ Before(m.seq, edge)

\* Segments that only make the connection repeat its acknowledgement: a reset
\* with another sequence number, the handshake's SYN/ACK again, a segment
\* outside the window, an acknowledgement of what was never sent.
DuplicateSynAck(m) ==
    /\ {"SYN", "ACK"} \subseteq m.flags
    /\ SeqAdd(m.seq, 1) = receive_next /\ m.ack = SeqAdd(isn, 1)

Challenged(m) ==
    /\ Synchronized
    /\ IF "RST" \in m.flags THEN m.seq # receive_next
       ELSE IF "SYN" \in m.flags THEN DuplicateSynAck(m)
       ELSE "ACK" \in m.flags /\ (~ Acceptable(m) \/ Before(next, m.ack))

InputChallenged(m) ==
    /\ Challenged(m)
    /\ ack_pending' = TRUE /\ out' = {}
    /\ UNCHANGED <<state, error, transfer, sender, pending, receiver, window,
                   congestion, dupacks, timers, now>>

\* The segment is processed: it is neither answered nor ignored.
Processed_OldAck(m) ==
    /\ Synchronized /\ m.flags \cap {"RST", "SYN", "ACK"} = {"ACK"}
    /\ Acceptable(m) /\ ~ Before(next, m.ack)
Processed(m) ==
    /\ Synchronized /\ m.flags \cap {"RST", "SYN", "ACK"} = {"ACK"}
    /\ Acceptable(m)
    /\ ~ Before(next, m.ack) /\ ~ Before(m.ack, una)

WindowUpdate(m) == \/ Before(window_seq, m.seq)
                   \/ window_seq = m.seq /\ ~ Before(m.ack, window_ack)
WindowChanged(m) == WindowUpdate(m) /\ peer_window # m.wnd
UpdateWindow(m) == IF WindowUpdate(m) THEN SetWindow(m.wnd, m.seq, m.ack)
                   ELSE UNCHANGED window

\* A pure ACK of nothing new that changes no window signals a loss.
Duplicate(m) == m.ack = una /\ SequenceLength(m) = 0 /\ ~ WindowChanged(m)

InputDuplicateAck(m, e) ==
    /\ Processed(m) /\ Duplicate(m)
    /\ UpdateWindow(m)
    /\ dupacks' = IF Used = {} THEN dupacks ELSE Min2(4, dupacks + 1)
    /\ IF Used # {} /\ dupacks = 2 /\ ~ recovery
       THEN Loss(FALSE, {}, e)
       ELSE /\ out' = {}
            /\ UNCHANGED <<state, error, pending, congestion, timers>>
    /\ UNCHANGED <<transfer, sender, receiver, ack_pending, now>>

\* What ack does to one slot: free it, trim a data segment, or leave it.
AckSegment_DropsPartial(s, a) ==
    IF ~ s.used \/ ~ Before(s.sequence, a) THEN s ELSE NoSegment
AckSegment_KeepsOffset(s, a) ==
    LET consumed == SeqSub(a, s.sequence) IN
    IF ~ s.used \/ ~ Before(s.sequence, a) THEN s
    ELSE IF consumed >= SequenceSize(s) THEN NoSegment
    ELSE [s EXCEPT !.sequence = SeqAdd(@, consumed), !.length = @ - consumed]
AckSegment(s, a) ==
    LET consumed == SeqSub(a, s.sequence) IN
    IF ~ s.used \/ ~ Before(s.sequence, a) THEN s
    ELSE IF consumed >= SequenceSize(s) THEN NoSegment
    ELSE [used |-> TRUE, kind |-> s.kind, retries |-> s.retries,
          sequence |-> SeqAdd(s.sequence, consumed),
          offset |-> s.offset + consumed, length |-> s.length - consumed]

AckedBytes(s, a) ==
    IF s.used /\ Before(s.sequence, a)
    THEN Min2(s.length, SeqSub(a, s.sequence)) ELSE 0

TotalAcked(a) == MapThenSumSet(LAMBDA i : AckedBytes(pending[i], a), Slots)

\* ack, for an acknowledgement that advances c->una.
Acknowledge(a) ==
    LET touched == {i \in Used : Before(pending[i].sequence, a)} IN
    /\ pending' = [i \in Slots |-> AckSegment(pending[i], a)]
    /\ delivered' = delivered + TotalAcked(a)
    /\ own_fin_acked' = (own_fin_acked \/ \E i \in touched : pending[i].kind = "FIN")
    /\ una' = a /\ dupacks' = 0 /\ timer_us' = now
    /\ IF touched # {} /\ \A i \in touched : pending[i].retries = 0
       THEN rto_us' \in RtoSamples ELSE rto_us' = rto_us
    /\ cwnd' \in Cwnds
    /\ recovery' = (recovery /\ Before(a, recovery_end))
    /\ UNCHANGED <<recovery_end, next, tx_offset, own_fin, next_send_us, probe_us>>

\* The part of the payload that was not received before.
Trim(m) == IF Before(m.seq, receive_next)
           THEN Min2(SeqSub(receive_next, m.seq), Len(m.data)) ELSE 0
Fresh(m) == SubSeq(m.data, Trim(m) + 1, Len(m.data))
InOrder_AfterFin(m) ==
    SequenceLength(m) > 0 /\ SeqAdd(m.seq, Trim(m)) = receive_next
InOrder(m) == /\ SequenceLength(m) > 0 /\ ~ peer_fin
              /\ SeqAdd(m.seq, Trim(m)) = receive_next

Fits_Window(m) == Len(Fresh(m)) <= TCP_BUFFER + 1 - Len(rx)
Fits_Strictly(m) == Len(Fresh(m)) < TCP_BUFFER - Len(rx)
Fits(m) == Len(Fresh(m)) <= TCP_BUFFER - Len(rx)

Receive(m, e) ==
    /\ ack_pending' = (ack_pending \/ SequenceLength(m) > 0)
    /\ \/ /\ ~ InOrder(m)
          /\ out' = {} /\ UNCHANGED <<state, error, receiver>>
       \/ /\ InOrder(m) /\ ~ Fits(m)
          /\ Abort("receive file exceeds 16 KiB", {}, e)
          /\ UNCHANGED receiver
       \/ /\ InOrder(m) /\ Fits(m)
          /\ rx' = rx \o Fresh(m)
          /\ peer_fin' = ("FIN" \in m.flags)
          /\ receive_next' = SeqAdd(receive_next, Len(Fresh(m)) +
                                (IF "FIN" \in m.flags THEN 1 ELSE 0))
          /\ out' = {} /\ UNCHANGED <<state, error>>

InputAccepted(m, e) ==
    /\ Processed(m) /\ ~ Duplicate(m)
    /\ UpdateWindow(m)
    /\ IF m.ack # una THEN Acknowledge(m.ack)
       ELSE /\ dupacks' = IF WindowChanged(m) THEN 0 ELSE dupacks
            /\ UNCHANGED <<sender, pending, congestion, timers>>
    /\ Receive(m, e)
    /\ UNCHANGED <<transfer, now>>

\* Every other segment: an early return without effect.
InputIgnored(m) ==
    /\ ~ Refuses(m) /\ ~ Establishes(m) /\ ~ Resets(m)
    /\ ~ Challenged(m) /\ ~ Processed(m)
    /\ out' = {}
    /\ UNCHANGED <<state, error, transfer, sender, pending, receiver,
                   ack_pending, window, congestion, dupacks, timers, now>>

TcpInput(m, e) ==
    \/ InputIgnored(m)
    \/ InputRefused(m)
    \/ InputSynAck(m)
    \/ InputReset(m)
    \/ InputChallenged(m)
    \/ InputDuplicateAck(m, e)
    \/ InputAccepted(m, e)
-----------------------------------------------------------------------------
(* tcp_tick.  Past the deadline the transfer is aborted.  Otherwise an     *)
(* acknowledgement that is owed goes out first (f: the emission succeeds), *)
(* and then at most one other segment (e: the emission succeeds).          *)

Active == state \in {"SYN_SENT", "ESTABLISHED", "CLOSING"}
Expired_SinceTimer == now - timer_us > DEADLINE
Expired == now - started_us > DEADLINE

Flushed(f) == IF ack_pending /\ f THEN {Output(next, {"ACK"}, <<>>)} ELSE {}
Owed(f) == ack_pending /\ ~ f

TickExpired(e) ==
    /\ Active /\ Expired
    /\ Abort("120-second transfer deadline", {}, e)
    /\ UNCHANGED <<transfer, sender, pending, receiver, ack_pending, window,
                   congestion, dupacks, timers, now>>

TickDone(f) ==
    /\ state = "DONE"
    /\ out' = Flushed(f) /\ ack_pending' = Owed(f)
    /\ UNCHANGED <<state, error, transfer, sender, pending, receiver, window,
                   congestion, dupacks, timers, now>>

RtoDue == Used # {} /\ now - timer_us >= rto_us

TickRto(f, e) ==
    /\ Active /\ ~ Expired /\ RtoDue
    /\ ack_pending' = Owed(f)
    /\ Loss(TRUE, Flushed(f), e)
    /\ UNCHANGED <<transfer, sender, receiver, window, dupacks, now>>

CloseDue_HalfOpen(f) == state # "SYN_SENT" /\ own_fin_acked /\ ~ Owed(f)
CloseDue_OneSided(f) == state # "SYN_SENT" /\ own_fin /\ peer_fin /\ ~ Owed(f)
CloseDue(f) == state # "SYN_SENT" /\ own_fin_acked /\ peer_fin /\ ~ Owed(f)

\* The tick gets past the deadline, the retransmission timer and the close.
Running(f) == Active /\ ~ Expired /\ ~ RtoDue /\ ~ CloseDue(f)

TickClose(f) ==
    /\ Active /\ ~ Expired /\ ~ RtoDue /\ CloseDue(f)
    /\ state' = "DONE"
    /\ out' = Flushed(f) /\ ack_pending' = Owed(f)
    /\ UNCHANGED <<error, transfer, sender, pending, receiver, window,
                   congestion, dupacks, timers, now>>

SynDue == state = "SYN_SENT" /\ next = isn

TickSyn(f) ==
    /\ Running(f) /\ SynDue
    /\ LET s == Segment("SYN", isn, 0, 0) IN
       /\ out' = Flushed(f) \cup {OutputSegment(s)}
       /\ pending' = [pending EXCEPT ![1] = s]
    /\ ack_pending' = Owed(f)
    /\ next' = SeqAdd(next, 1) /\ timer_us' = now
    /\ UNCHANGED <<state, error, transfer, una, tx_offset, delivered, own_fin,
                   own_fin_acked, receiver, window, congestion, dupacks,
                   next_send_us, probe_us, rto_us, now>>

ProbeDue_Outstanding ==
    /\ state # "SYN_SENT" /\ Used # {}
    /\ peer_window = 0 /\ now - probe_us >= PROBE_INTERVAL
ProbeDue == /\ state # "SYN_SENT"
            /\ peer_window = 0 /\ now - probe_us >= PROBE_INTERVAL

\* A zero-window probe repeats the last byte below c->next.
ProbeByte == IF tx_offset = 0 THEN ZERO ELSE tx[tx_offset]
ProbeSegment == Output(SeqSub(next, 1), {"ACK"}, <<ProbeByte>>)

TickProbe(f) ==
    /\ Running(f) /\ ProbeDue
    /\ out' = Flushed(f) \cup {ProbeSegment}
    /\ ack_pending' = Owed(f)
    /\ probe_us' = now
    /\ UNCHANGED <<state, error, transfer, sender, pending, receiver, window,
                   congestion, dupacks, timer_us, next_send_us, rto_us, now>>

Outstanding == SeqSub(next, una)
SendLength == Min2(mss, Min2(Len(tx) - tx_offset, peer_window - Outstanding))

\* The gates of a new segment: pace, congestion window, peer window, a slot.
MaySend_ClosedWindow ==
    /\ state # "SYN_SENT" /\ ~ own_fin
    /\ now >= next_send_us /\ Inflight < cwnd /\ Outstanding <= peer_window
    /\ Used # Slots
MaySend ==
    /\ state # "SYN_SENT" /\ ~ own_fin
    /\ now >= next_send_us /\ Inflight < cwnd /\ Outstanding < peer_window
    /\ Used # Slots
SendDue == MaySend /\ SendLength > 0
\* FIN waits until every byte is acknowledged.
FinDue_Unacknowledged == MaySend /\ SendLength = 0 /\ tx_offset = Len(tx)
FinDue == MaySend /\ SendLength = 0 /\ tx_offset = Len(tx) /\ Used = {}

FirstFree(i) == i \in Slots \ Used /\ \A j \in Slots \ Used : i <= j

\* The common part of sending s and entering it in the queue.
Enqueue(s, f) ==
    /\ \E i \in Slots : FirstFree(i) /\ pending' = [pending EXCEPT ![i] = s]
    /\ out' = Flushed(f) \cup {OutputSegment(s)}
    /\ ack_pending' = Owed(f)
    /\ Pace(s.length)
    /\ timer_us' = IF Used = {} THEN now ELSE timer_us
    /\ next' = SeqAdd(next, SequenceSize(s))
    /\ tx_offset' = tx_offset + s.length
    /\ UNCHANGED <<error, transfer, una, delivered, own_fin_acked, receiver,
                   window, congestion, dupacks, probe_us, rto_us, now>>

TickSend(f) ==
    /\ Running(f) /\ SendDue
    /\ Enqueue(Segment("DATA", next, tx_offset, SendLength), f)
    /\ UNCHANGED <<state, own_fin>>

TickFin(f) ==
    /\ Running(f) /\ FinDue
    /\ Enqueue(Segment("FIN", next, tx_offset, 0), f)
    /\ own_fin' = TRUE /\ state' = "CLOSING"

\* Nothing is due, or what is due cannot be emitted.
TickIdle(f, e) ==
    /\ Running(f)
    /\ SynDue \/ ProbeDue \/ SendDue \/ FinDue => ~ e
    /\ out' = Flushed(f) /\ ack_pending' = Owed(f)
    /\ UNCHANGED <<state, error, transfer, sender, pending, receiver, window,
                   congestion, dupacks, timers, now>>

TcpTick(f, e) ==
    \/ TickExpired(e)
    \/ TickDone(f)
    \/ TickRto(f, e)
    \/ TickClose(f)
    \/ e /\ TickSyn(f)
    \/ e /\ TickProbe(f)
    \/ e /\ TickSend(f)
    \/ e /\ TickFin(f)
    \/ TickIdle(f, e)

\* tcp_abort as the adapter calls it: a key cancels the transfer, or the
\* interface stops (one reason stands for the two).
TcpAbort(reason, e) ==
    /\ state # "IDLE"
    /\ Abort(reason, {}, e)
    /\ UNCHANGED <<transfer, sender, pending, receiver, ack_pending, window,
                   congestion, dupacks, timers, now>>
-----------------------------------------------------------------------------
Init ==
    /\ state = "IDLE" /\ error = "none"
    /\ isn = 0 /\ tx = <<>> /\ mss = 0 /\ started_us = 0
    /\ una = 0 /\ next = 0 /\ tx_offset = 0 /\ delivered = 0
    /\ own_fin = FALSE /\ own_fin_acked = FALSE
    /\ pending = [i \in Slots |-> NoSegment]
    /\ receive_next = 0 /\ rx = <<>> /\ peer_fin = FALSE /\ ack_pending = FALSE
    /\ peer_window = 0 /\ window_seq = 0 /\ window_ack = 0
    /\ cwnd = 0 /\ recovery = FALSE /\ recovery_end = 0 /\ dupacks = 0
    /\ timer_us = 0 /\ next_send_us = 0 /\ probe_us = 0 /\ rto_us = 0
    /\ now = 0 /\ out = {}

\* Time passes between two calls.
Advance ==
    /\ now < MaxTime
    /\ now' = now + 1 /\ out' = {}
    /\ UNCHANGED <<state, error, transfer, sender, pending, receiver,
                   ack_pending, window, congestion, dupacks, timers>>

Start == /\ state \in {"IDLE", "DONE", "FAILED"}
         /\ \E f \in Files, s \in Isns, v \in BOOLEAN : TcpStart(f, s, v)
\* The adapter hands over segments while a transfer runs; a connection that
\* has failed ignores them.
Input == /\ state \notin {"IDLE", "FAILED"}
         /\ \E m \in Segments, e \in BOOLEAN : TcpInput(m, e)
Tick == \E f, e \in BOOLEAN : TcpTick(f, e)
Cancel == \E e \in BOOLEAN : TcpAbort("cancelled", e)

Next == Start \/ Input \/ Tick \/ Cancel \/ Advance

Spec == Init /\ [][Next]_vars
-----------------------------------------------------------------------------
(* Properties.                                                             *)

Reasons == {"none", "invalid TCP transfer", "connection refused", "peer reset",
            "retransmission limit", "120-second transfer deadline", "cancelled",
            "receive file exceeds 16 KiB"}

SegmentType == [used : BOOLEAN, kind : {"SYN", "DATA", "FIN"}, sequence : Seqs,
                offset : Nat, length : Nat,
                retries : 0 .. MAX_RETRIES]

\* Every field of Tcp keeps its type; the receive buffer never overflows.
TypeOK ==
    /\ state \in {"IDLE", "SYN_SENT", "ESTABLISHED", "CLOSING", "DONE", "FAILED"}
    /\ error \in Reasons
    /\ isn \in Seqs /\ una \in Seqs /\ next \in Seqs
    /\ tx \in Seq(Byte) /\ Len(tx) <= TCP_BUFFER
    /\ mss \in 0 .. TCP_MSS /\ started_us \in Nat
    /\ tx_offset \in 0 .. Len(tx)
    /\ own_fin \in BOOLEAN /\ own_fin_acked \in BOOLEAN
    /\ pending \in [Slots -> SegmentType]
    /\ receive_next \in Seqs /\ peer_fin \in BOOLEAN /\ ack_pending \in BOOLEAN
    /\ rx \in Seq(Byte) /\ Len(rx) <= TCP_BUFFER
    /\ peer_window \in Nat /\ window_seq \in Seqs /\ window_ack \in Seqs
    /\ cwnd \in Nat /\ recovery \in BOOLEAN /\ recovery_end \in Seqs
    /\ dupacks \in 0 .. 4
    /\ timer_us \in Nat /\ next_send_us \in Nat /\ probe_us \in Nat /\ rto_us \in Nat
    /\ now \in Nat

\* The distance of a sequence number from the initial one: the SYN has
\* position 0, byte k of the file position k, the FIN position Len(tx) + 1.
Rel(x) == SeqSub(x, isn)

Covers(i, p) == /\ Rel(pending[i].sequence) <= p
                /\ p < Rel(pending[i].sequence) + SequenceSize(pending[i])

\* The retransmission queue covers exactly what was sent and is not yet
\* acknowledged: every position of [una, next) lies in one slot and no slot
\* reaches outside.  Out-of-order acknowledgements, partial ones (ack trims a
\* slot), reused slots and the wrap of the sequence space must all keep it:
\* a gap would never be retransmitted and the transfer would hang.
QueueTiles ==
    /\ Rel(una) <= Rel(next)
    /\ \A i \in Used : /\ Rel(una) <= Rel(pending[i].sequence)
                       /\ Rel(pending[i].sequence) + SequenceSize(pending[i]) <= Rel(next)
                       /\ SequenceSize(pending[i]) > 0
    /\ \A p \in Rel(una) .. Rel(next) - 1 : \E i \in Used : Covers(i, p)
    /\ \A i, j \in Used : \A p \in Rel(una) .. Rel(next) - 1 :
           Covers(i, p) /\ Covers(j, p) => i = j

\* Every slot of the queue still describes the bytes its sequence numbers
\* stand for: the offset moves with the sequence number when ack trims it.
QueueMatchesStream ==
    \A i \in Used : LET s == pending[i] IN
        \/ s.kind = "DATA" /\ Rel(s.sequence) = s.offset + 1
           /\ s.offset + s.length <= tx_offset
        \/ s.kind = "FIN" /\ own_fin /\ Rel(s.sequence) = Len(tx) + 1 /\ s.length = 0
        \/ s.kind = "SYN" /\ Rel(s.sequence) = 0 /\ s.length = 0

\* A byte put on the wire at the position of a byte of the file is that byte,
\* in a first transmission, in a retransmission of a trimmed segment and in a
\* zero-window probe.  (A probe sent before any data repeats the SYN's
\* position; one sent after FIN repeats the FIN's position.)
EmitsStream ==
    \A o \in out : \A k \in 1 .. Len(o.data) :
        LET p == Rel(o.seq) + k - 1 IN
        \/ p = 0
        \/ p <= tx_offset /\ o.data[k] = tx[p]
        \/ own_fin /\ p = Len(tx) + 1 /\ Len(o.data) = 1

\* The FIN is sent only after every byte was sent and acknowledged, and
\* own_fin_acked says exactly that the peer acknowledged it.
FinIsLast ==
    /\ own_fin => tx_offset = Len(tx) /\ Rel(una) >= Len(tx) + 1
    /\ own_fin_acked <=> own_fin /\ una = next
    /\ state = "DONE" => own_fin_acked /\ peer_fin

\* The connection as its user sees it.
Status == CASE state = "IDLE" -> "idle"
            [] state = "DONE" -> "done"
            [] state = "FAILED" -> "failed"
            [] OTHER -> "open"
Chunks == UNION {[1 .. n -> Byte] : n \in 0 .. TCP_BUFFER}

Promise == INSTANCE Stream WITH Capacity <- TCP_BUFFER, status <- Status,
                                received <- rx, ended <- peer_fin

\* The connection implements Stream: bytes are only appended, at most 16384 of
\* them and none after the peer's FIN, and the user sees DONE only for a stream
\* that the peer ended, whatever arrives between two ticks.
ImplementsStream == Promise!Spec

\* The step does not start another transfer.
SameTransfer == transfer' = transfer /\ state' # "SYN_SENT"

\* New sequence numbers are used only inside the window the peer advertised,
\* and no more segments are outstanding than the congestion window allows:
\* next grows only so far, whatever window and cwnd were when earlier segments
\* were sent.
SendsInWindow ==
    [][Synchronized /\ SameTransfer /\ next' # next =>
          SeqSub(next', una) <= peer_window /\ Cardinality(Used') <= cwnd]_vars

\* While a transfer runs, una and next only move forward, and una never passes
\* what was sent.
SenderAdvances ==
    [][Active /\ state' # "IDLE" =>
          /\ ~ Before(una', una) /\ ~ Before(next', next)
          /\ ~ Before(next, una')]_vars

Edge == SeqAdd(receive_next, Window)

\* Bytes received are never changed or dropped, nothing is received after the
\* peer's FIN, and the right edge of the window that is advertised never
\* moves back, although the window itself shrinks as the buffer fills.
ReceiverAdvances ==
    [][Synchronized /\ SameTransfer =>
          /\ Len(rx) <= Len(rx') /\ SubSeq(rx', 1, Len(rx)) = rx
          /\ peer_fin => rx' = rx /\ receive_next' = receive_next
          /\ ~ Before(Edge', Edge)]_vars
=============================================================================
