---------------------------- MODULE TcpConnection ----------------------------
(***************************************************************************)
(* One transfer of net/tcp.c from start to end: the connection of module   *)
(* Tcp, a conforming peer and the network between them.                    *)
(*                                                                         *)
(* The peer is not part of the repository (tools/tcp_echo.py runs on a     *)
(* host's TCP).  It accepts the connection, takes the bytes that are in    *)
(* order and inside its window, acknowledges every segment that occupies   *)
(* sequence space, sends its own file and FIN inside the window it was     *)
(* given, retransmits, and never moves the right edge of its window back.  *)
(*                                                                         *)
(* The network loses and duplicates segments, and c->emit fails, a bounded *)
(* number of times; it may also deliver segments in any order.  The files, *)
(* the peer and the network of one transfer are its world.                 *)
(***************************************************************************)
EXTENDS Tcp, SequencesExt

CONSTANTS
    PeerIsn,       \* the peer's initial sequence number
    PeerMss,       \* its MSS option
    Worlds         \* what surrounds a transfer, one record for each case

WorldType ==
    [file : Files, peerfile : Seq(Byte),  \* what the host and the peer send
     wnd : Nat,                           \* the peer's receive buffer
     waits : BOOLEAN,                     \* it answers after the host's FIN
     reorder : BOOLEAN,                   \* segments may overtake each other
     cap : Nat,                           \* segments in flight in each direction
     faults : Nat,                        \* losses, duplications, failed emissions
     prompt : BOOLEAN,                    \* network, polling loop and peer are
                                          \* much faster than a unit of the clock
     silent : BOOLEAN]                    \* the peer and the network may stop

ASSUME PeerAssumption ==
    /\ PeerIsn \in Seqs /\ PeerMss \in Nat \ {0}
    /\ Worlds \subseteq WorldType
    /\ \A w \in Worlds : w.wnd < SeqHalf    \* the field has 16 bits

VARIABLES
    p_open,        \* the peer has seen a SYN
    p_rcv,         \* the next sequence number it expects
    p_rx, p_fin,   \* what it received, and whether the host's FIN arrived
    p_edge,        \* the right edge of its window
    p_una,         \* position of its stream the host acknowledged (0: its SYN)
    p_nxt,         \* position behind everything it has sent
    p_grant,       \* position up to which the host lets it send
    p_turn,        \* it has not sent in this unit of time (only if Prompt)
    toPeer, toHost,
    faults,
    world          \* the same throughout a behaviour

peer == <<p_open, p_rcv, p_rx, p_fin, p_edge, p_una, p_nxt, p_grant>>
net == <<toPeer, toHost>>
cvars == <<vars, peer, p_turn, net, faults, world>>

PeerFile == world.peerfile
Prompt == world.prompt

CInit ==
    /\ Init
    /\ p_open = FALSE /\ p_rcv = 0 /\ p_rx = <<>> /\ p_fin = FALSE
    /\ p_edge = 0 /\ p_una = 0 /\ p_nxt = 1 /\ p_grant = 0 /\ p_turn = TRUE
    /\ toPeer = <<>> /\ toHost = <<>> /\ world \in Worlds
    /\ faults = world.faults
-----------------------------------------------------------------------------
(* The host.                                                               *)

Cost(f, e) == (IF f THEN 0 ELSE 1) + (IF e THEN 0 ELSE 1)

\* The segments of a network that may be delivered next.
Deliverable(s) == IF world.reorder THEN 1 .. Len(s) ELSE {i \in 1 .. Len(s) : i = 1}
\* Delivery of segment i; a duplicated one (d) stays in flight.
Without(s, i, d) == IF d THEN s ELSE RemoveAt(s, i)

\* A network takes world.cap segments; what does not fit is lost.
Carry(s, t) == SubSeq(s \o t, 1, Min2(world.cap, Len(s) + Len(t)))

\* An acknowledgement leaves before the other segment of the same call: a call
\* emits at most one of each.
PureAck(m) == m.flags = {"ACK"} /\ m.data = <<>>
OneOf(S) == IF S = {} THEN <<>> ELSE <<CHOOSE m \in S : TRUE>>
Emitted ==
    toPeer' = Carry(toPeer, OneOf({m \in out' : PureAck(m)}) \o
                            OneOf({m \in out' : ~ PureAck(m)}))

HostStart ==
    /\ state = "IDLE"
    /\ \E s \in Isns : TcpStart(world.file, s, TRUE)
    /\ UNCHANGED <<peer, p_turn, net, faults, world>>

\* A tick has something to emit besides an acknowledgement.
EmissionDue == RtoDue \/ SynDue \/ ProbeDue \/ SendDue \/ FinDue
TickDue == ack_pending \/ CloseDue(TRUE) \/ EmissionDue

\* One pass of the polling loop.  When the environment is prompt, what is in
\* flight arrives first.
HostTick(f, e) ==
    /\ Prompt => toPeer = <<>> /\ toHost = <<>>
    /\ f \/ ack_pending
    /\ e \/ EmissionDue
    /\ faults >= Cost(f, e) /\ faults' = faults - Cost(f, e)
    /\ TcpTick(f, e) /\ Emitted
    /\ UNCHANGED <<peer, p_turn, toHost, world>>

HostInput(i, d, e) ==
    /\ e \/ dupacks = 2
    /\ faults >= Cost(~ d, e) /\ faults' = faults - Cost(~ d, e)
    /\ TcpInput(toHost[i], e) /\ Emitted
    /\ toHost' = Without(toHost, i, d)
    /\ UNCHANGED <<peer, p_turn, world>>
-----------------------------------------------------------------------------
(* The peer.                                                               *)

PeerSegment(f, pos, d) ==
    [flags |-> f, seq |-> SeqAdd(PeerIsn, pos), ack |-> p_rcv',
     wnd |-> SeqSub(p_edge', p_rcv'), data |-> d, mss |-> PeerMss]

PeerSends(m) == toHost' = Carry(toHost, <<m>>)

PeerSyn(m) ==
    /\ m.flags = {"SYN"}
    /\ IF p_open THEN UNCHANGED <<p_open, p_rcv, p_edge>>
       ELSE /\ p_open' = TRUE
            /\ p_rcv' = SeqAdd(m.seq, 1)
            /\ p_edge' = SeqAdd(m.seq, 1 + world.wnd)
    /\ PeerSends(IF p_una = 0 THEN PeerSegment({"SYN", "ACK"}, 0, <<>>)
                 ELSE PeerSegment({"ACK"}, p_nxt, <<>>))
    /\ UNCHANGED <<p_rx, p_fin, p_una, p_nxt, p_grant>>

\* Bytes of m that the peer takes: in order and inside its window.
PeerTakes(m) ==
    LET old == SeqSub(p_rcv, m.seq)
        room == SeqSub(p_edge, p_rcv)
    IN IF Before(p_rcv, m.seq) \/ old >= Len(m.data) \/ p_fin THEN <<>>
       ELSE SubSeq(m.data, old + 1, Min2(Len(m.data), old + room))

PeerAck(m) ==
    /\ m.flags \cap {"SYN", "ACK"} = {"ACK"} /\ p_open
    /\ LET taken == PeerTakes(m)
           behind == SeqAdd(p_rcv, Len(taken))
           fin == /\ "FIN" \in m.flags /\ ~ p_fin
                  /\ SeqAdd(m.seq, Len(m.data)) = behind /\ behind # p_edge
           pos == SeqSub(m.ack, PeerIsn)
       IN /\ p_rx' = p_rx \o taken
          /\ p_fin' = (p_fin \/ fin)
          /\ p_rcv' = IF fin THEN SeqAdd(behind, 1) ELSE behind
          /\ p_una' = IF pos > p_una THEN pos ELSE p_una
          /\ p_grant' = IF pos + m.wnd > p_grant THEN pos + m.wnd ELSE p_grant
    /\ UNCHANGED <<p_open, p_edge, p_nxt>>
    /\ IF SequenceLength(m) = 0 THEN UNCHANGED toHost
       ELSE PeerSends(PeerSegment({"ACK"}, p_nxt, <<>>))

PeerIgnores(m) ==
    /\ ~ p_open /\ "ACK" \in m.flags
    /\ UNCHANGED <<peer, toHost>>

HostUnchanged ==
    /\ out' = {}
    /\ UNCHANGED <<state, error, transfer, sender, pending, receiver, ack_pending,
                   window, congestion, dupacks, timers, now, world>>

PeerInput(i, d) ==
    /\ faults >= Cost(~ d, TRUE) /\ faults' = faults - Cost(~ d, TRUE)
    /\ LET m == toPeer[i] IN
       PeerSyn(m) \/ PeerAck(m) \/ PeerIgnores(m)
    /\ toPeer' = Without(toPeer, i, d)
    /\ UNCHANGED p_turn
    /\ HostUnchanged

\* The peer's stream: its bytes, then its FIN.
LastPos == Len(PeerFile) + 1
PeerHasData == p_open /\ p_una >= 1 /\ p_una <= LastPos /\ (world.waits => p_fin)

\* The peer sends or repeats the bytes from position k to l, its FIN included
\* when l is its position.  A prompt peer repeats from the first one that is
\* not acknowledged, once in a unit of time.
PeerSend(k, l) ==
    /\ PeerHasData /\ k \in p_una .. p_nxt /\ k <= l /\ l < p_grant
    /\ Prompt => \/ k = p_nxt
                 \/ k = p_una /\ p_turn /\ toPeer = <<>> /\ toHost = <<>>
    /\ p_nxt' = IF l >= p_nxt THEN l + 1 ELSE p_nxt
    /\ UNCHANGED <<p_open, p_rcv, p_rx, p_fin, p_edge, p_una, p_grant, toPeer, faults>>
    /\ PeerSends(PeerSegment(IF l = LastPos THEN {"ACK", "FIN"} ELSE {"ACK"}, k,
                   SubSeq(PeerFile, k, Min2(l, Len(PeerFile)))))
    /\ p_turn' = ~ Prompt
    /\ HostUnchanged

\* The peer's program reads a full buffer: the closed window opens and the
\* peer says so.
PeerReads ==
    /\ p_open /\ p_una >= 1
    /\ p_edge = p_rcv
    /\ p_edge' = SeqAdd(p_rcv, world.wnd)
    /\ UNCHANGED <<p_open, p_rcv, p_rx, p_fin, p_una, p_nxt, p_grant, p_turn, toPeer, faults>>
    /\ PeerSends(PeerSegment({"ACK"}, p_nxt, <<>>))
    /\ HostUnchanged
-----------------------------------------------------------------------------
(* The network and the clock.                                              *)

Lose ==
    /\ faults > 0 /\ faults' = faults - 1
    /\ \/ \E i \in 1 .. Len(toPeer) : toPeer' = RemoveAt(toPeer, i) /\ UNCHANGED toHost
       \/ \E i \in 1 .. Len(toHost) : toHost' = RemoveAt(toHost, i) /\ UNCHANGED toPeer
    /\ UNCHANGED <<peer, p_turn>>
    /\ HostUnchanged

\* In a prompt environment time passes only when nothing else can happen.
Passes ==
    /\ Active
    /\ Prompt => /\ toPeer = <<>> /\ toHost = <<>> /\ ~ TickDue
                 /\ PeerHasData => ~ p_turn
                 /\ p_open /\ p_una >= 1 => p_edge # p_rcv
    /\ Advance
    /\ p_turn' = TRUE
    /\ UNCHANGED <<peer, net, faults, world>>

\* tcp_command leaves its loop, and nothing calls the connection any more, once
\* it is DONE or FAILED.
Going == state \notin {"DONE", "FAILED"}

CNext ==
  /\ Going
  /\ \/ HostStart
     \/ \E f, e \in BOOLEAN : HostTick(f, e)
     \/ \E i \in Deliverable(toHost), d, e \in BOOLEAN : HostInput(i, d, e)
     \/ \E i \in Deliverable(toPeer), d \in BOOLEAN : PeerInput(i, d)
     \/ \E k, l \in 1 .. LastPos : PeerSend(k, l)
     \/ PeerReads
     \/ Lose
     \/ Passes

CSpec == CInit /\ [][CNext]_cvars

\* The kernel's loop polls until the transfer ends and time passes.  Unless the
\* world is silent the peer's programs run too and the network delivers.
Responsive == Going /\ ~ world.silent
Fairness ==
    /\ WF_cvars(Going /\ HostStart)
    /\ WF_cvars(Going /\ HostTick(TRUE, TRUE))
    /\ WF_cvars(Going /\ Passes)
    /\ WF_cvars(Responsive /\ toHost # <<>> /\ HostInput(1, FALSE, TRUE))
    /\ WF_cvars(Responsive /\ toPeer # <<>> /\ PeerInput(1, FALSE))
    /\ WF_cvars(Responsive /\ PeerSend(p_una, Min2(LastPos, p_grant - 1)))
    /\ WF_cvars(Responsive /\ PeerReads)

FairSpec == CSpec /\ Fairness
-----------------------------------------------------------------------------
(* Properties.                                                             *)

IsPrefixOf(s, t) == Len(s) <= Len(t) /\ SubSeq(t, 1, Len(s)) = s

\* Each side holds a prefix of what the other one sent, and all of it once the
\* other's FIN was taken: loss, reordering, duplication, partial delivery and
\* retransmission neither lose, repeat nor exchange a byte.
StreamsIntact ==
    /\ IsPrefixOf(rx, PeerFile) /\ (peer_fin => rx = PeerFile)
    /\ IsPrefixOf(p_rx, tx) /\ (p_fin => p_rx = tx)

\* What the host counts as acknowledged has arrived at the peer, and a transfer
\* reported as complete is complete on both sides.
CompletionIsReal ==
    /\ delivered <= Len(p_rx)
    /\ own_fin_acked => p_fin
    /\ state = "DONE" => p_rx = tx /\ p_fin /\ rx = PeerFile

\* A conforming peer never makes the transfer fail by what it sends.
FailsOnlyByTime ==
    error \in {"none", "120-second transfer deadline", "retransmission limit"}

\* Every transfer ends, whatever the network does and even if the peer is gone.
Terminates == <>(state \in {"DONE", "FAILED"})

\* A peer that answers within one unit of time always gets the transfer to its
\* end, in spite of the faults: no lost acknowledgement, window update, FIN or
\* fast retransmission leaves both sides waiting for each other.
Completes == (~ world.silent) => <>(state = "DONE")
=============================================================================
