------------------------------ MODULE TcpProofs ------------------------------
(***************************************************************************)
(* Proofs about Tcp: type correctness, the shape of the retransmission     *)
(* queue, and what a connection shows, for every size of the sequence      *)
(* space, buffer, window and queue, and whatever segments arrive.  To its  *)
(* user Tcp implements Stream: every call maps to one step of Stream or    *)
(* changes nothing the user sees.  To its peer, the bytes it emits are     *)
(* those of the file, it sends within the window, and the window it        *)
(* advertises never moves back.  With a conforming peer and a network that *)
(* loses, repeats and reorders (TcpConnection), both files arrive intact   *)
(* and a transfer that is reported as done is complete on both sides.      *)
(***************************************************************************)
EXTENDS TcpConnection, SequenceTheorems, FiniteSetTheorems, NumberLemmas, TLAPS

USE DEF Slots, Seqs, SeqSpace, ZERO

\* The constants as the provers need them.
LEMMA Times ==
    /\ RtoSamples \subseteq Nat /\ PaceGaps \subseteq Nat /\ Cwnds \subseteq Nat
    /\ RTO_INIT \in Nat /\ RTO_SYN_RETRIED \in Nat /\ RTO_MAX \in Nat
  BY TimesAssumption, InputsAssumption

LEMMA MessageType ==
    ASSUME NEW m, IsSegment(m)
    PROVE  /\ m.seq \in Seqs /\ m.ack \in Seqs /\ m.wnd \in Nat /\ m.mss \in Nat
           /\ m.data \in Seq(Byte) /\ Len(m.data) \in Nat
  <1>1. /\ m.seq \in Seqs /\ m.ack \in Seqs /\ m.wnd \in Nat /\ m.mss \in Nat
        /\ m.data \in Seq(Byte)
    BY DEF IsSegment
  <1> QED BY <1>1, LenProperties

-----------------------------------------------------------------------------
(* Sequence arithmetic.                                                    *)

\* Adding and subtracting stay in the sequence space.
LEMMA SeqTypes ==
    ASSUME NEW a \in Seqs, NEW b \in Seqs, NEW n \in 0 .. SeqSpace - 1
    PROVE  SeqAdd(a, n) \in Seqs /\ SeqSub(a, b) \in Seqs
  BY ConstantsAssumption DEF SeqAdd, SeqSub

\* The window that is advertised is positive and small.
LEMMA WindowType ==
    ASSUME TypeOK
    PROVE  Window \in 1 .. RCV_WND
  BY ConstantsAssumption, LenProperties DEF Window, Min2, TypeOK

\* Trimming and freeing keep a slot a slot.
LEMMA AckSegmentType ==
    ASSUME NEW s \in SegmentType, NEW a \in Seqs
    PROVE  AckSegment(s, a) \in SegmentType
  <1>1. NoSegment \in SegmentType
    BY ConstantsAssumption DEF NoSegment, SegmentType
  <1> DEFINE c == SeqSub(a, s.sequence)
             t == [used |-> TRUE, kind |-> s.kind, retries |-> s.retries,
                   sequence |-> SeqAdd(s.sequence, c),
                   offset |-> s.offset + c, length |-> s.length - c]
  <1>2. s.sequence \in Seqs /\ s.length \in Nat /\ s.offset \in Nat
    BY DEF SegmentType
  <1>3. c \in Seqs /\ SeqAdd(s.sequence, c) \in Seqs
    BY <1>2, SeqTypes, ConstantsAssumption
  <1>4. ASSUME c < SequenceSize(s) PROVE t \in SegmentType
    <2>1. s.length - c \in Nat
      BY <1>2, <1>3, <1>4, ConstantsAssumption DEF SequenceSize
    <2>2. s.offset + c \in Nat
      BY <1>2, <1>3, ConstantsAssumption
    <2> QED BY <1>2, <1>3, <2>1, <2>2 DEF SegmentType
  <1>5. c >= SequenceSize(s) \/ c < SequenceSize(s)
    BY <1>2, <1>3, ConstantsAssumption DEF SequenceSize
  <1> QED BY <1>1, <1>4, <1>5 DEF AckSegment

-----------------------------------------------------------------------------
(* Type correctness.                                                       *)

USE DEF transfer, sender, receiver, window, congestion, timers

\* Retransmission changes only what loss changes.
LEMMA LossType ==
    ASSUME TypeOK, NEW timeout \in BOOLEAN, NEW sent, NEW e \in BOOLEAN,
           Loss(timeout, sent, e)
    PROVE  /\ state' \in {state, "FAILED"} /\ error' \in {error, "retransmission limit"}
           /\ pending' \in [Slots -> SegmentType]
           /\ cwnd' \in Nat /\ recovery' \in BOOLEAN /\ recovery_end' \in Seqs
           /\ timer_us' \in Nat /\ next_send_us' \in Nat /\ probe_us' \in Nat
           /\ rto_us' \in Nat
  <1> PICK i \in Slots : \/ LossGivesUp(i, sent, e) \/ LossDeferred(i, sent, e)
                         \/ LossRetransmits(i, timeout, sent, e)
    BY DEF Loss
  <1>1. CASE LossGivesUp(i, sent, e)
    BY <1>1 DEF LossGivesUp, Abort, TypeOK
  <1>2. CASE LossDeferred(i, sent, e)
    BY <1>2 DEF LossDeferred, TypeOK
  <1>3. CASE LossRetransmits(i, timeout, sent, e)
    <2>0. pending[i] \in SegmentType /\ pending[i].retries < MAX_RETRIES
      BY <1>3 DEF LossRetransmits, TypeOK
    <2>1. Retried(pending[i]) \in SegmentType
      BY <2>0, ConstantsAssumption DEF Retried, SegmentType
    <2>2. pending' \in [Slots -> SegmentType]
      BY <1>3, <2>1 DEF LossRetransmits, TypeOK
    <2>3. next_send_us' \in Nat
      BY <1>3, Times, SMTT(60) DEF LossRetransmits, Pace, TypeOK
    <2>4. cwnd' \in Nat /\ recovery_end' \in Seqs
      <3>1. \/ cwnd' = cwnd /\ recovery_end' = recovery_end
            \/ recovery_end' = next /\ (cwnd' = 1 \/ cwnd' \in Cwnds)
        BY <1>3 DEF LossRetransmits
      <3>2. cwnd \in Nat /\ recovery_end \in Seqs /\ next \in Seqs
        BY DEF TypeOK
      <3>3. 1 \in Nat /\ \A c \in Cwnds : c \in Nat
        BY Times
      <3>4. recovery_end' \in Seqs
        BY <3>1, <3>2
      <3>5. cwnd' \in Nat
        BY <3>1, <3>2, <3>3, Zenon
      <3> QED BY <3>4, <3>5
    <2>6. recovery' \in BOOLEAN
      BY <1>3, Zenon DEF LossRetransmits, TypeOK
    <2>5. timer_us' \in Nat /\ rto_us' \in Nat /\ probe_us' = probe_us
          /\ state' = state /\ error' = error
      BY <1>3, Times DEF LossRetransmits, TypeOK, Min2
    <2> QED BY <2>2, <2>3, <2>4, <2>5, <2>6 DEF TypeOK
  <1> QED BY <1>1, <1>2, <1>3

LEMMA InitType == Init => TypeOK
  <1> SUFFICES ASSUME Init PROVE TypeOK OBVIOUS
  <1>1. NoSegment \in SegmentType
    BY ConstantsAssumption DEF NoSegment, SegmentType
  <1>2. pending \in [Slots -> SegmentType]
    BY <1>1 DEF Init
  <1>3. <<>> \in Seq(Byte) /\ Len(<<>>) = 0
    OBVIOUS
  <1>4. /\ isn \in Seqs /\ una \in Seqs /\ next \in Seqs /\ receive_next \in Seqs
        /\ window_seq \in Seqs /\ window_ack \in Seqs /\ recovery_end \in Seqs
        /\ mss \in 0 .. TCP_MSS /\ dupacks \in 0 .. 4
        /\ Len(tx) <= TCP_BUFFER /\ Len(rx) <= TCP_BUFFER /\ tx_offset \in 0 .. Len(tx)
    BY <1>3, ConstantsAssumption DEF Init
  <1>5. /\ own_fin \in BOOLEAN /\ own_fin_acked \in BOOLEAN /\ peer_fin \in BOOLEAN
        /\ ack_pending \in BOOLEAN /\ recovery \in BOOLEAN
    BY Zenon DEF Init
  <1> QED BY <1>2, <1>3, <1>4, <1>5 DEF Init, TypeOK, Reasons

\* What memset leaves behind is well typed.
LEMMA ClearType ==
    ASSUME ClearConnection
    PROVE  /\ pending' \in [Slots -> SegmentType] /\ tx_offset' = 0
           /\ own_fin' \in BOOLEAN /\ own_fin_acked' \in BOOLEAN
           /\ receive_next' \in Seqs /\ peer_fin' \in BOOLEAN /\ ack_pending' \in BOOLEAN
           /\ rx' \in Seq(Byte) /\ Len(rx') <= TCP_BUFFER
           /\ peer_window' \in Nat /\ window_seq' \in Seqs /\ window_ack' \in Seqs
           /\ recovery' \in BOOLEAN /\ recovery_end' \in Seqs /\ dupacks' \in 0 .. 4
           /\ timer_us' \in Nat /\ next_send_us' \in Nat /\ probe_us' \in Nat
  <1>1. NoSegment \in SegmentType
    BY ConstantsAssumption DEF NoSegment, SegmentType
  <1>2. pending' \in [Slots -> SegmentType]
    BY <1>1 DEF ClearConnection
  <1>3. rx' = <<>> /\ rx' \in Seq(Byte) /\ Len(rx') <= TCP_BUFFER
    BY ConstantsAssumption DEF ClearConnection
  <1>4. /\ own_fin' \in BOOLEAN /\ own_fin_acked' \in BOOLEAN /\ peer_fin' \in BOOLEAN
        /\ ack_pending' \in BOOLEAN /\ recovery' \in BOOLEAN
    BY Zenon DEF ClearConnection
  <1>5. /\ receive_next' = 0 /\ window_seq' = 0 /\ window_ack' = 0 /\ recovery_end' = 0
        /\ peer_window' = 0 /\ timer_us' = 0 /\ next_send_us' = 0 /\ probe_us' = 0
        /\ dupacks' = 0 /\ tx_offset' = 0
    BY DEF ClearConnection, SetWindow
  <1> QED BY <1>2, <1>3, <1>4, <1>5, ConstantsAssumption

LEMMA StartType == ASSUME TypeOK, Start PROVE TypeOK'
  <1> PICK f \in Files, n \in Isns, v \in BOOLEAN : TcpStart(f, n, v)
    BY DEF Start
  <1>1. f \in Seq(Byte) /\ n \in Seqs /\ 0 \in Seqs
    BY InputsAssumption, ConstantsAssumption
  <1>2. CASE StartInvalid(f, v)
    <2>1. ClearConnection /\ tx' = <<>> /\ tx' \in Seq(Byte) /\ Len(tx') = 0
      <3>1. tx' = <<>> /\ ClearConnection
        BY <1>2 DEF StartInvalid
      <3> QED BY <3>1
    <2>2. /\ cwnd' = 0 /\ started_us' = 0 /\ rto_us' = 0 /\ now' \in Nat /\ mss' = 0
          /\ isn' = 0 /\ una' = 0 /\ next' = 0
          /\ state' = "FAILED" /\ error' = "invalid TCP transfer"
      BY <1>2 DEF StartInvalid, TypeOK
    <2>4. /\ pending' \in [Slots -> SegmentType] /\ tx_offset' = 0
          /\ receive_next' \in Seqs /\ recovery_end' \in Seqs /\ dupacks' \in 0 .. 4
          /\ rx' \in Seq(Byte) /\ Len(rx') <= TCP_BUFFER
          /\ peer_window' \in Nat /\ window_seq' \in Seqs /\ window_ack' \in Seqs
          /\ timer_us' \in Nat /\ next_send_us' \in Nat /\ probe_us' \in Nat
      BY <2>1, <2>2, ClearType
    <2>5. /\ own_fin' \in BOOLEAN /\ own_fin_acked' \in BOOLEAN /\ peer_fin' \in BOOLEAN
          /\ ack_pending' \in BOOLEAN /\ recovery' \in BOOLEAN
      BY <2>1, <2>2, ClearType
    <2>6. /\ mss' \in 0 .. TCP_MSS /\ tx_offset' \in 0 .. Len(tx')
          /\ tx' \in Seq(Byte) /\ Len(tx') <= TCP_BUFFER
      <3>1. mss' = 0 /\ tx_offset' = 0 /\ Len(tx') = 0 /\ tx' \in Seq(Byte)
        BY <2>1, <2>2, <2>4
      <3>2. 0 \in 0 .. TCP_MSS /\ 0 \in 0 .. 0 /\ 0 <= TCP_BUFFER
        BY ConstantsAssumption
      <3> QED BY <3>1, <3>2, Zenon
    <2>7. isn' \in Seqs /\ una' \in Seqs /\ next' \in Seqs
      BY <1>1, <2>2
    <2> QED BY <2>2, <2>4, <2>5, <2>6, <2>7 DEF TypeOK, Reasons
  <1>3. CASE StartValid(f, n, v)
    <2>1. cwnd' \in Nat /\ started_us' \in Nat /\ rto_us' \in Nat /\ now' \in Nat
      BY <1>3, Times DEF StartValid, TypeOK
    <2>2. ClearConnection /\ tx' = f /\ Len(f) \in Nat /\ Len(f) <= TCP_BUFFER
      BY <1>1, <1>3, LenProperties DEF StartValid
    <2>3. /\ isn' = n /\ una' = n /\ next' = n /\ mss' = TCP_MSS
          /\ state' = "SYN_SENT" /\ error' = "none"
      BY <1>3 DEF StartValid
    <2>4. /\ pending' \in [Slots -> SegmentType] /\ tx_offset' = 0
          /\ receive_next' \in Seqs /\ recovery_end' \in Seqs /\ dupacks' \in 0 .. 4
          /\ rx' \in Seq(Byte) /\ Len(rx') <= TCP_BUFFER
          /\ peer_window' \in Nat /\ window_seq' \in Seqs /\ window_ack' \in Seqs
          /\ timer_us' \in Nat /\ next_send_us' \in Nat /\ probe_us' \in Nat
      BY <2>1, <2>2, ClearType
    <2>5. /\ own_fin' \in BOOLEAN /\ own_fin_acked' \in BOOLEAN /\ peer_fin' \in BOOLEAN
          /\ ack_pending' \in BOOLEAN /\ recovery' \in BOOLEAN
      BY <2>1, <2>2, ClearType
    <2>6. /\ mss' \in 0 .. TCP_MSS /\ tx_offset' \in 0 .. Len(tx')
          /\ tx' \in Seq(Byte) /\ Len(tx') <= TCP_BUFFER
      BY <1>1, <2>1, <2>2, <2>3, <2>4, ConstantsAssumption
    <2>7. isn' \in Seqs /\ una' \in Seqs /\ next' \in Seqs
      BY <1>1, <2>2, <2>3
    <2> QED BY <2>1, <2>3, <2>4, <2>5, <2>6, <2>7 DEF TypeOK, Reasons
  <1> QED BY <1>2, <1>3 DEF TcpStart

\* What a segment brings beyond what was received is a sequence of bytes.
LEMMA FreshType ==
    ASSUME TypeOK, NEW m, IsSegment(m)
    PROVE  Fresh(m) \in Seq(Byte) /\ Len(Fresh(m)) \in Nat
  <1>0. m.seq \in Seqs /\ m.data \in Seq(Byte) /\ Len(m.data) \in Nat
    BY MessageType
  <1>1. Trim(m) \in 0 .. Len(m.data)
    <2>1. SeqSub(receive_next, m.seq) \in Nat
      BY <1>0, ConstantsAssumption, SMTT(30) DEF SeqSub, TypeOK
    <2>2. PICK k \in Nat, n \in Nat : k = SeqSub(receive_next, m.seq) /\ n = Len(m.data)
      BY <1>0, <2>1
    <2> QED BY <2>2 DEF Trim, Min2
  <1>2. \A i \in Trim(m) + 1 .. Len(m.data) : m.data[i] \in Byte
    BY <1>0, <1>1, ElementOfSeq
  <1>3. Trim(m) + 1 \in Int /\ Len(m.data) \in Int
    BY <1>0, <1>1
  <1>4. Fresh(m) \in Seq(Byte)
    BY <1>2, <1>3, SubSeqProperties DEF Fresh
  <1> QED BY <1>4, LenProperties

\* Whatever arrives, the connection stays well typed.
LEMMA InputType ==
    ASSUME TypeOK, NEW m, IsSegment(m), NEW e \in BOOLEAN, TcpInput(m, e)
    PROVE  TypeOK'
  <1>0. /\ m.seq \in Seqs /\ m.ack \in Seqs /\ m.wnd \in Nat /\ m.mss \in Nat
        /\ m.data \in Seq(Byte) /\ Len(m.data) \in Nat
    BY MessageType
  <1>1. CASE InputIgnored(m)
    BY <1>1 DEF InputIgnored, TypeOK
  <1>2. CASE InputRefused(m)
    BY <1>2 DEF InputRefused, Abort, TypeOK, Reasons
  <1>3. CASE InputSynAck(m)
    <2>1. NoSegment \in SegmentType
      BY ConstantsAssumption DEF NoSegment, SegmentType
    <2>2. pending' \in [Slots -> SegmentType]
      BY <1>3, <2>1 DEF InputSynAck, TypeOK
    <2>3. receive_next' \in Seqs
      BY <1>0, <1>3, ConstantsAssumption DEF InputSynAck, SeqAdd
    <2>4. mss' \in 0 .. TCP_MSS
      BY <1>0, <1>3, ConstantsAssumption DEF InputSynAck, Min2
    <2>5. rto_us' \in Nat
      BY <1>3, Times DEF InputSynAck
    <2> QED BY <1>0, <1>3, <2>2, <2>3, <2>4, <2>5
            DEF InputSynAck, SetWindow, TypeOK
  <1>4. CASE InputReset(m)
    BY <1>4 DEF InputReset, TypeOK, Reasons
  <1>5. CASE InputChallenged(m)
    BY <1>5 DEF InputChallenged, TypeOK
  <1>w. ASSUME UpdateWindow(m)
        PROVE  peer_window' \in Nat /\ window_seq' \in Seqs /\ window_ack' \in Seqs
    BY <1>0, <1>w DEF UpdateWindow, SetWindow, TypeOK
  <1>6. CASE InputDuplicateAck(m, e)
    <2>1. dupacks' \in 0 .. 4
      BY <1>6 DEF InputDuplicateAck, TypeOK, Min2
    <2>2. CASE Loss(FALSE, {}, e)
      <3>1. error' \in Reasons /\ state' \in {state, "FAILED"}
        BY <2>2, LossType DEF TypeOK, Reasons
      <3>2. /\ pending' \in [Slots -> SegmentType]
            /\ cwnd' \in Nat /\ recovery' \in BOOLEAN /\ recovery_end' \in Seqs
            /\ timer_us' \in Nat /\ next_send_us' \in Nat /\ probe_us' \in Nat
            /\ rto_us' \in Nat
        BY <2>2, LossType
      <3> QED BY <1>6, <1>w, <2>1, <3>1, <3>2 DEF InputDuplicateAck, TypeOK
    <2>3. CASE UNCHANGED <<state, error, pending, congestion, timers>>
      BY <1>6, <1>w, <2>1, <2>3 DEF InputDuplicateAck, TypeOK
    <2> QED BY <1>6, <2>2, <2>3 DEF InputDuplicateAck
  <1>7. CASE InputAccepted(m, e)
    <2>1. /\ una' \in Seqs /\ next' = next /\ tx_offset' = tx_offset
          /\ own_fin' = own_fin /\ own_fin_acked' \in BOOLEAN
          /\ pending' \in [Slots -> SegmentType]
          /\ cwnd' \in Nat /\ recovery' \in BOOLEAN /\ recovery_end' = recovery_end
          /\ dupacks' \in 0 .. 4 /\ timer_us' \in Nat
          /\ next_send_us' = next_send_us /\ probe_us' = probe_us /\ rto_us' \in Nat
      <3>1. CASE m.ack # una
        <4>1. Acknowledge(m.ack)
          BY <1>7, <3>1 DEF InputAccepted
        <4>2. pending' \in [Slots -> SegmentType]
          BY <1>0, <4>1, AckSegmentType DEF Acknowledge, TypeOK
        <4>3. rto_us' \in Nat /\ cwnd' \in Nat
          BY <4>1, Times DEF Acknowledge, TypeOK
        <4>4. own_fin_acked' \in BOOLEAN /\ recovery' \in BOOLEAN
          BY <4>1 DEF Acknowledge
        <4> QED BY <1>0, <4>1, <4>2, <4>3, <4>4 DEF Acknowledge, TypeOK
      <3>2. CASE m.ack = una
        <4>1. /\ dupacks' = IF WindowChanged(m) THEN 0 ELSE dupacks
              /\ UNCHANGED <<sender, pending, congestion, timers>>
          BY <1>7, <3>2 DEF InputAccepted
        <4> QED BY <4>1 DEF TypeOK
      <3> QED BY <3>1, <3>2
    <2>2. /\ receive_next' \in Seqs /\ rx' \in Seq(Byte) /\ Len(rx') <= TCP_BUFFER
          /\ peer_fin' \in BOOLEAN /\ ack_pending' \in BOOLEAN
          /\ state' \in {state, "FAILED"} /\ error' \in Reasons
      <3>0. Receive(m, e) /\ Len(rx) \in Nat
        BY <1>7, LenProperties DEF InputAccepted, TypeOK
      <3>1. CASE UNCHANGED <<state, error, receiver>>
        BY <3>0, <3>1 DEF Receive, TypeOK
      <3>2. CASE Abort("receive file exceeds 16 KiB", {}, e) /\ UNCHANGED receiver
        BY <3>0, <3>2 DEF Receive, Abort, TypeOK, Reasons
      <3>3. CASE /\ Len(Fresh(m)) <= TCP_BUFFER - Len(rx)
                 /\ rx' = rx \o Fresh(m)
                 /\ peer_fin' = ("FIN" \in m.flags)
                 /\ receive_next' = SeqAdd(receive_next, Len(Fresh(m)) +
                                (IF "FIN" \in m.flags THEN 1 ELSE 0))
                 /\ UNCHANGED <<state, error>>
        <4>2. Fresh(m) \in Seq(Byte) /\ Len(Fresh(m)) \in Nat
          BY FreshType
        <4>3. rx' \in Seq(Byte) /\ Len(rx') = Len(rx) + Len(Fresh(m))
          BY <3>3, <4>2, ConcatProperties DEF TypeOK
        <4>4. receive_next' \in Seqs
          <5> DEFINE k == Len(Fresh(m)) + (IF "FIN" \in m.flags THEN 1 ELSE 0)
          <5>1. k \in 0 .. TCP_BUFFER + 1
            BY <3>0, <3>3, <4>2, ConstantsAssumption
          <5>2. receive_next' = SeqAdd(receive_next, k)
            BY <3>3
          <5> HIDE DEF k
          <5> QED BY <5>1, <5>2, ConstantsAssumption DEF TypeOK, SeqAdd
        <4>5. peer_fin' \in BOOLEAN /\ ack_pending' \in BOOLEAN
          <5>1. peer_fin' = ("FIN" \in m.flags)
            BY <3>3
          <5>2. ack_pending' = (ack_pending \/ SequenceLength(m) > 0)
            BY <3>0 DEF Receive
          <5>3. peer_fin' \in BOOLEAN BY <5>1
          <5>4. ack_pending' \in BOOLEAN BY <5>2
          <5> QED BY <5>3, <5>4
        <4>6. Len(rx') <= TCP_BUFFER
          BY <3>0, <3>3, <4>2, <4>3, ConstantsAssumption
        <4> QED BY <3>3, <4>3, <4>4, <4>5, <4>6 DEF TypeOK
      <3> QED BY <3>0, <3>1, <3>2, <3>3 DEF Receive, Fits
    <2> QED BY <1>7, <1>w, <2>1, <2>2 DEF InputAccepted, TypeOK
  <1> QED BY <1>1, <1>2, <1>3, <1>4, <1>5, <1>6, <1>7 DEF TcpInput

\* Owed is a truth value.
LEMMA OwedType == ASSUME NEW f \in BOOLEAN PROVE Owed(f) \in BOOLEAN
  BY DEF Owed

\* A segment entered in the queue and the counters that follow it.
LEMMA EnqueueType ==
    ASSUME TypeOK, NEW f \in BOOLEAN, NEW s \in SegmentType,
           s.length <= Len(tx) - tx_offset, Enqueue(s, f)
    PROVE  /\ pending' \in [Slots -> SegmentType]
           /\ ack_pending' \in BOOLEAN
           /\ next_send_us' \in Nat /\ timer_us' \in Nat
           /\ next' \in Seqs /\ tx_offset' \in 0 .. Len(tx)
  <1>0. s.length \in Nat /\ Len(tx) \in Nat /\ tx_offset \in 0 .. Len(tx)
        /\ Len(tx) <= TCP_BUFFER /\ next \in Seqs
    BY LenProperties DEF SegmentType, TypeOK
  <1>1. pending' \in [Slots -> SegmentType]
    BY DEF Enqueue, TypeOK
  <1>2. ack_pending' \in BOOLEAN
    BY OwedType DEF Enqueue
  <1>3. next_send_us' \in Nat
    BY Times, SMTT(30) DEF Enqueue, Pace, TypeOK
  <1>4. timer_us' \in Nat
    BY DEF Enqueue, TypeOK
  <1>5. tx_offset' \in 0 .. Len(tx)
    BY <1>0 DEF Enqueue
  <1>6. next' \in Seqs
    <2>1. SequenceSize(s) \in 0 .. TCP_BUFFER + 1
      BY <1>0, ConstantsAssumption DEF SequenceSize
    <2>2. next' = SeqAdd(next, SequenceSize(s))
      BY DEF Enqueue
    <2> QED BY <1>0, <2>1, <2>2, ConstantsAssumption DEF SeqAdd
  <1> QED BY <1>1, <1>2, <1>3, <1>4, <1>5, <1>6

\* The length of a new data segment fits what is left of the file.
LEMMA SendLengthType ==
    ASSUME TypeOK, SendDue
    PROVE  SendLength \in Nat /\ SendLength <= Len(tx) - tx_offset
  <1>1. /\ Len(tx) \in Nat /\ tx_offset \in 0 .. Len(tx) /\ mss \in Nat
        /\ next \in Seqs /\ una \in Seqs /\ peer_window \in Nat
    BY LenProperties DEF TypeOK
  <1>2. Outstanding \in Nat
    BY <1>1, ConstantsAssumption DEF Outstanding, SeqSub
  <1>3. SendLength > 0
    BY DEF SendDue
  <1> QED BY <1>1, <1>2, <1>3 DEF SendLength, Min2

LEMMA TickType ==
    ASSUME TypeOK, NEW f \in BOOLEAN, NEW e \in BOOLEAN, TcpTick(f, e)
    PROVE  TypeOK'
  <1>0. Owed(f) \in BOOLEAN
    BY OwedType
  <1>1. CASE TickExpired(e)
    BY <1>1 DEF TickExpired, Abort, TypeOK, Reasons
  <1>2. CASE TickDone(f)
    BY <1>0, <1>2 DEF TickDone, TypeOK
  <1>3. CASE TickRto(f, e)
    <2>0. Loss(TRUE, Flushed(f), e)
      BY <1>3 DEF TickRto
    <2>1. error' \in Reasons /\ state' \in {state, "FAILED"}
      BY <2>0, LossType DEF TypeOK, Reasons
    <2>2. /\ pending' \in [Slots -> SegmentType]
          /\ cwnd' \in Nat /\ recovery' \in BOOLEAN /\ recovery_end' \in Seqs
          /\ timer_us' \in Nat /\ next_send_us' \in Nat /\ probe_us' \in Nat
          /\ rto_us' \in Nat
      BY <2>0, LossType
    <2> QED BY <1>0, <1>3, <2>1, <2>2 DEF TickRto, TypeOK
  <1>4. CASE TickClose(f)
    BY <1>0, <1>4 DEF TickClose, TypeOK
  <1>5. CASE TickSyn(f)
    <2>1. Segment("SYN", isn, 0, 0) \in SegmentType
      BY ConstantsAssumption DEF Segment, SegmentType, TypeOK
    <2>2. pending' \in [Slots -> SegmentType]
      BY <1>5, <2>1 DEF TickSyn, TypeOK
    <2>3. next' \in Seqs
      BY <1>5, ConstantsAssumption DEF TickSyn, SeqAdd, TypeOK
    <2> QED BY <1>0, <1>5, <2>2, <2>3 DEF TickSyn, TypeOK
  <1>6. CASE TickProbe(f)
    BY <1>0, <1>6 DEF TickProbe, TypeOK
  <1>7. CASE TickSend(f)
    <2> DEFINE s == Segment("DATA", next, tx_offset, SendLength)
    <2>1. s \in SegmentType /\ s.length <= Len(tx) - tx_offset
      BY <1>7, SendLengthType, ConstantsAssumption, LenProperties
         DEF TickSend, Segment, SegmentType, TypeOK
    <2>2. Enqueue(s, f) /\ UNCHANGED <<state, own_fin>>
      BY <1>7 DEF TickSend
    <2> HIDE DEF s
    <2>3. /\ pending' \in [Slots -> SegmentType] /\ ack_pending' \in BOOLEAN
          /\ next_send_us' \in Nat /\ timer_us' \in Nat
          /\ next' \in Seqs /\ tx_offset' \in 0 .. Len(tx)
      BY <2>1, <2>2, EnqueueType
    <2> QED BY <2>2, <2>3 DEF Enqueue, TypeOK
  <1>8. CASE TickFin(f)
    <2> DEFINE s == Segment("FIN", next, tx_offset, 0)
    <2>1. s \in SegmentType /\ s.length <= Len(tx) - tx_offset
      BY ConstantsAssumption, LenProperties DEF Segment, SegmentType, TypeOK
    <2>2. Enqueue(s, f) /\ own_fin' = TRUE /\ state' = "CLOSING"
      BY <1>8 DEF TickFin
    <2> HIDE DEF s
    <2>3. /\ pending' \in [Slots -> SegmentType] /\ ack_pending' \in BOOLEAN
          /\ next_send_us' \in Nat /\ timer_us' \in Nat
          /\ next' \in Seqs /\ tx_offset' \in 0 .. Len(tx)
      BY <2>1, <2>2, EnqueueType
    <2>4. own_fin' \in BOOLEAN
      BY <2>2
    <2> QED BY <2>2, <2>3, <2>4 DEF Enqueue, TypeOK
  <1>9. CASE TickIdle(f, e)
    BY <1>0, <1>9 DEF TickIdle, TypeOK
  <1> QED BY <1>1, <1>2, <1>3, <1>4, <1>5, <1>6, <1>7, <1>8, <1>9 DEF TcpTick

\* TypeOK is preserved by every call.
LEMMA NextType == ASSUME TypeOK, [Next]_vars PROVE TypeOK'
  <1>1. CASE Start
    BY <1>1, StartType
  <1>2. CASE Input
    BY <1>2, InputType, InputsAssumption DEF Input
  <1>3. CASE Tick
    BY <1>3, TickType DEF Tick
  <1>4. CASE Cancel
    BY <1>4 DEF Cancel, TcpAbort, Abort, TypeOK, Reasons
  <1>5. CASE Advance
    BY <1>5 DEF Advance, TypeOK
  <1>6. CASE UNCHANGED vars
    BY <1>6 DEF vars, TypeOK
  <1> QED BY <1>1, <1>2, <1>3, <1>4, <1>5, <1>6 DEF Next

\* Every field of a connection keeps its type and the receive buffer its bound,
\* whatever segments arrive and whichever emissions fail.
THEOREM TypeCorrect == Spec => []TypeOK
  <1>1. Init => TypeOK
    BY InitType
  <1>2. TypeOK /\ [Next]_vars => TypeOK'
    BY NextType
  <1> QED BY <1>1, <1>2, PTL DEF Spec
-----------------------------------------------------------------------------
(* The retransmission queue covers exactly what is unacknowledged, every   *)
(* slot describes the bytes its sequence numbers stand for, and the FIN is *)
(* sent last: for every file, window, queue and controller.                *)
(*                                                                         *)
(* The inductive invariant is SenderInv: before the handshake there is     *)
(* nothing in the queue but the SYN (Early), afterwards the queue tiles    *)
(* the positions from una to next (Late).  Shape speaks of a queue q, a    *)
(* base b and the numbers u (una) and n (next) so that the lemmas about it *)
(* are about plain values.                                                 *)

Holds(s, b, p) == /\ s.used /\ SeqSub(s.sequence, b) <= p
                  /\ p < SeqSub(s.sequence, b) + SequenceSize(s)

SlotOK(s, b, lo, hi, off, fin, len) ==
    /\ lo <= SeqSub(s.sequence, b)
    /\ SeqSub(s.sequence, b) + SequenceSize(s) <= hi
    /\ \/ /\ s.kind = "DATA" /\ s.length >= 1
          /\ SeqSub(s.sequence, b) = s.offset + 1 /\ s.offset + s.length <= off
       \/ /\ s.kind = "FIN" /\ s.length = 0 /\ fin
          /\ SeqSub(s.sequence, b) = len + 1

Bounds(lo, hi, off, fin, len) ==
    /\ 1 <= lo /\ lo <= hi
    /\ fin => off = len /\ lo >= len + 1 /\ hi = off + 2
    /\ ~ fin => hi = off + 1

SlotsOK(q, b, lo, hi, off, fin, len) ==
    \A i \in Slots : q[i].used => SlotOK(q[i], b, lo, hi, off, fin, len)
NoGap(q, b, lo, hi) ==
    \A p \in Nat : lo <= p /\ p < hi => \E i \in Slots : Holds(q[i], b, p)
NoOverlap(q, b) ==
    \A i, j \in Slots : \A p \in Nat : Holds(q[i], b, p) /\ Holds(q[j], b, p) => i = j

Shape(q, b, lo, hi, off, fin, len) ==
    /\ SlotsOK(q, b, lo, hi, off, fin, len)
    /\ NoGap(q, b, lo, hi) /\ NoOverlap(q, b)

Early ==
    /\ state \in {"IDLE", "SYN_SENT", "FAILED"}
    /\ una = isn /\ tx_offset = 0 /\ own_fin = FALSE /\ own_fin_acked = FALSE
    /\ \/ next = isn /\ \A i \in Slots : ~ pending[i].used
       \/ /\ next = SeqAdd(isn, 1)
          /\ \A i \in Slots : pending[i].used <=> i = 1
          /\ pending[1].kind = "SYN" /\ pending[1].sequence = isn
          /\ pending[1].length = 0

Late ==
    /\ state \notin {"IDLE", "SYN_SENT"}
    /\ Bounds(Rel(una), Rel(next), tx_offset, own_fin, Len(tx))
    /\ Shape(pending, isn, Rel(una), Rel(next), tx_offset, own_fin, Len(tx))
    /\ own_fin_acked <=> own_fin /\ una = next

SenderInv ==
    /\ Early \/ Late
    /\ state = "DONE" => own_fin_acked /\ peer_fin
-----------------------------------------------------------------------------
(* Sequence arithmetic relative to a base.                                 *)

\* Positions below half of the sequence space compare as numbers.
LEMMA RelBefore ==
    ASSUME NEW b \in Seqs, NEW x \in Seqs, NEW y \in Seqs,
           SeqSub(x, b) < SeqHalf, SeqSub(y, b) < SeqHalf
    PROVE  /\ Before(x, y) <=> SeqSub(x, b) < SeqSub(y, b)
           /\ SeqSub(x, b) <= SeqSub(y, b) => SeqSub(y, x) = SeqSub(y, b) - SeqSub(x, b)
           /\ SeqSub(x, b) = SeqSub(y, b) => x = y
  BY ConstantsAssumption DEF Before, SeqSub

\* Adding moves the position.
LEMMA RelAdd ==
    ASSUME NEW b \in Seqs, NEW x \in Seqs, NEW k \in Nat,
           SeqSub(x, b) + k < SeqHalf
    PROVE  SeqAdd(x, k) \in Seqs /\ SeqSub(SeqAdd(x, k), b) = SeqSub(x, b) + k
  BY ConstantsAssumption DEF SeqAdd, SeqSub

\* An acknowledgement that tcp_input lets pass lies between una and next.
LEMMA AckRange ==
    ASSUME NEW b \in Seqs, NEW u \in Seqs, NEW n \in Seqs, NEW a \in Seqs,
           SeqSub(u, b) <= SeqSub(n, b), SeqSub(n, b) < SeqHalf,
           ~ Before(a, u), ~ Before(n, a)
    PROVE  SeqSub(u, b) <= SeqSub(a, b) /\ SeqSub(a, b) <= SeqSub(n, b)
  BY ConstantsAssumption DEF Before, SeqSub

-----------------------------------------------------------------------------
(* One slot.                                                               *)

\* Acknowledging up to a keeps exactly the positions of a slot from a on.
LEMMA SlotAck ==
    ASSUME NEW s \in SegmentType, NEW b \in Seqs, NEW a \in Seqs,
           NEW lo \in Nat, NEW hi \in Nat, NEW off \in Nat, NEW fin \in BOOLEAN,
           NEW len \in Nat, hi < SeqHalf,
           s.used => SlotOK(s, b, lo, hi, off, fin, len),
           lo < SeqSub(a, b), SeqSub(a, b) <= hi
    PROVE  /\ AckSegment(s, a).used => SlotOK(AckSegment(s, a), b, SeqSub(a, b), hi, off, fin, len)
           /\ \A p \in Nat : Holds(AckSegment(s, a), b, p) <=> Holds(s, b, p) /\ SeqSub(a, b) <= p
  <1> DEFINE r == SeqSub(s.sequence, b)
             z == SequenceSize(s)
             c == SeqSub(a, s.sequence)
             x == SeqSub(a, b)
             t == [used |-> TRUE, kind |-> s.kind, retries |-> s.retries,
                   sequence |-> SeqAdd(s.sequence, c),
                   offset |-> s.offset + c, length |-> s.length - c]
  <1>1. /\ s.sequence \in Seqs /\ s.length \in Nat /\ s.offset \in Nat /\ s.used \in BOOLEAN
        /\ s.kind \in {"SYN", "DATA", "FIN"}
    BY DEF SegmentType
  <1>2. r \in Nat /\ x \in Nat /\ z \in Nat
    <2>1. r \in Nat /\ x \in Nat
      BY <1>1, ConstantsAssumption DEF SeqSub
    <2>2. z \in Nat
      BY <1>1 DEF SequenceSize
    <2> QED BY <2>1, <2>2
  <1>3. CASE ~ s.used
    BY <1>3 DEF AckSegment, Holds
  <1>4. CASE s.used
    <2>0. SlotOK(s, b, lo, hi, off, fin, len)
      BY <1>4
    <2>1. r + z <= hi /\ r < SeqHalf /\ x < SeqHalf /\ z >= 1 /\ lo <= r
      BY <1>1, <1>2, <2>0, ConstantsAssumption DEF SlotOK, SequenceSize
    <2>2. /\ Before(s.sequence, a) <=> r < x
          /\ r <= x => c = x - r
      BY <1>1, <2>1, RelBefore
    <2>3. CASE ~ (r < x)
      <3>1. AckSegment(s, a) = s
        BY <2>2, <2>3 DEF AckSegment
      <3>2. SlotOK(s, b, x, hi, off, fin, len)
        BY <1>2, <2>0, <2>3 DEF SlotOK
      <3>3. \A p \in Nat : Holds(s, b, p) <=> Holds(s, b, p) /\ x <= p
        BY <1>2, <2>3 DEF Holds
      <3> QED BY <3>1, <3>2, <3>3
    <2>4. CASE r < x /\ r + z <= x
      <3>1. AckSegment(s, a) = NoSegment
        BY <1>2, <1>4, <2>2, <2>4 DEF AckSegment
      <3>2. NoSegment.used = FALSE
        BY DEF NoSegment
      <3>3. \A p \in Nat : ~ (Holds(s, b, p) /\ x <= p)
        BY <1>2, <2>4 DEF Holds
      <3> QED BY <3>1, <3>2, <3>3 DEF Holds
    <2>5. CASE r < x /\ x < r + z
      <3>1. c = x - r /\ c \in Nat
        BY <1>2, <2>2, <2>5
      <3>2. AckSegment(s, a) = t
        BY <1>2, <1>4, <2>2, <2>5, <3>1 DEF AckSegment
      <3>3. s.kind = "DATA" /\ z = s.length /\ r = s.offset + 1 /\ s.offset + s.length <= off
        BY <1>1, <1>2, <2>0, <2>5 DEF SlotOK, SequenceSize
      <3>4. SeqSub(SeqAdd(s.sequence, c), b) = x
        <4>1. SeqSub(s.sequence, b) + c < SeqHalf
          BY <1>2, <2>1, <3>1
        <4>2. SeqSub(SeqAdd(s.sequence, c), b) = SeqSub(s.sequence, b) + c
          BY <1>1, <3>1, <4>1, RelAdd
        <4> QED BY <1>2, <3>1, <4>2
      <3>5. /\ t.used /\ t.kind = "DATA" /\ t.sequence = SeqAdd(s.sequence, c)
            /\ t.offset = s.offset + c /\ t.length = s.length - c
        BY <3>3
      <3> HIDE DEF t
      <3>6. SequenceSize(t) = r + z - x
        BY <1>1, <1>2, <3>1, <3>3, <3>5 DEF SequenceSize
      <3>7. SeqSub(t.sequence, b) = x
        BY <3>4, <3>5
      <3>8. SlotOK(t, b, x, hi, off, fin, len)
        BY <1>1, <1>2, <2>1, <2>5, <3>1, <3>3, <3>5, <3>6, <3>7 DEF SlotOK
      <3>9. \A p \in Nat : Holds(t, b, p) <=> Holds(s, b, p) /\ x <= p
        BY <1>2, <1>4, <2>5, <3>5, <3>6, <3>7 DEF Holds
      <3> QED BY <3>2, <3>8, <3>9
    <2> QED BY <1>2, <2>3, <2>4, <2>5
  <1> QED BY <1>1, <1>3, <1>4

-----------------------------------------------------------------------------
(* The queue.                                                              *)

\* ack: the queue tiles what remains.
AckedQueue(t, q, b, a, lo, hi, off, fin, len) ==
    /\ q \in [Slots -> SegmentType] /\ b \in Seqs /\ a \in Seqs
    /\ lo \in Nat /\ hi \in Nat /\ off \in Nat /\ fin \in BOOLEAN /\ len \in Nat /\ hi < SeqHalf
    /\ Shape(q, b, lo, hi, off, fin, len)
    /\ lo < SeqSub(a, b) /\ SeqSub(a, b) <= hi
    /\ \A i \in Slots : t[i] = AckSegment(q[i], a)

LEMMA QueueAck ==
    ASSUME NEW t, NEW q, NEW b, NEW a, NEW lo, NEW hi, NEW off, NEW fin, NEW len,
           AckedQueue(t, q, b, a, lo, hi, off, fin, len)
    PROVE  Shape(t, b, SeqSub(a, b), hi, off, fin, len)
  <1> USE DEF AckedQueue
  <1> DEFINE x == SeqSub(a, b)
  <1>1. x \in Nat
    BY ConstantsAssumption DEF SeqSub
  <1>2. \A i \in Slots : q[i] \in SegmentType /\ t[i] = AckSegment(q[i], a)
    OBVIOUS
  <1>3. \A i \in Slots : /\ t[i].used => SlotOK(t[i], b, x, hi, off, fin, len)
                         /\ \A p \in Nat : Holds(t[i], b, p) <=> Holds(q[i], b, p) /\ x <= p
    <2> SUFFICES ASSUME NEW i \in Slots
                 PROVE  /\ t[i].used => SlotOK(t[i], b, x, hi, off, fin, len)
                        /\ \A p \in Nat : Holds(t[i], b, p) <=> Holds(q[i], b, p) /\ x <= p
      OBVIOUS
    <2>1. q[i].used => SlotOK(q[i], b, lo, hi, off, fin, len)
      BY DEF Shape, SlotsOK
    <2>2. /\ AckSegment(q[i], a).used =>
                SlotOK(AckSegment(q[i], a), b, x, hi, off, fin, len)
          /\ \A p \in Nat : Holds(AckSegment(q[i], a), b, p) <=> Holds(q[i], b, p) /\ x <= p
      BY <1>2, <2>1, SlotAck, SMTT(60)
    <2> QED BY <1>2, <2>2
  <1> HIDE DEF x
  <1>4. SlotsOK(t, b, x, hi, off, fin, len)
    BY <1>3 DEF SlotsOK
  <1>5. NoGap(t, b, x, hi)
    <2> SUFFICES ASSUME NEW p \in Nat, x <= p, p < hi
                 PROVE  \E i \in Slots : Holds(t[i], b, p)
      BY DEF NoGap
    <2>1. lo <= p
      BY <1>1 DEF x
    <2>2. PICK i \in Slots : Holds(q[i], b, p)
      BY <2>1 DEF Shape, NoGap
    <2> QED BY <1>3, <2>2
  <1>6. NoOverlap(t, b)
    BY <1>3 DEF Shape, NoOverlap
  <1>7. Shape(t, b, x, hi, off, fin, len)
    BY <1>4, <1>5, <1>6 DEF Shape
  <1> QED BY <1>7 DEF x

\* Queue t is queue q with the new segment s in the free slot i.
Appended(q, t, b, i, s, lo, hi, hi2, off, off2, fin, fin2, len) ==
    /\ q \in [Slots -> SegmentType] /\ b \in Seqs /\ i \in Slots /\ s \in SegmentType
    /\ lo \in Nat /\ hi \in Nat /\ hi2 \in Nat /\ off \in Nat /\ off2 \in Nat /\ len \in Nat
    /\ fin \in BOOLEAN /\ fin2 \in BOOLEAN
    /\ Shape(q, b, lo, hi, off, fin, len) /\ lo <= hi /\ off <= off2 /\ (fin => fin2)
    /\ ~ q[i].used /\ s.used /\ SeqSub(s.sequence, b) = hi
    /\ hi2 = hi + SequenceSize(s) /\ SlotOK(s, b, lo, hi2, off2, fin2, len)
    /\ t[i] = s /\ \A j \in Slots \ {i} : t[j] = q[j]

\* A new segment behind everything that was sent extends the tiling.
LEMMA QueueAppend ==
    ASSUME NEW q, NEW t, NEW b, NEW i, NEW s, NEW lo, NEW hi, NEW hi2, NEW off,
           NEW off2, NEW fin, NEW fin2, NEW len,
           Appended(q, t, b, i, s, lo, hi, hi2, off, off2, fin, fin2, len)
    PROVE  Shape(t, b, lo, hi2, off2, fin2, len)
  <1> USE DEF Appended
  <1>1. t[i] = s /\ \A j \in Slots \ {i} : t[j] = q[j]
    OBVIOUS
  <1>2. \A j \in Slots : /\ q[j].sequence \in Seqs /\ q[j].length \in Nat
                         /\ q[j].offset \in Nat /\ q[j].kind \in {"SYN", "DATA", "FIN"}
    BY DEF SegmentType
  <1>3. /\ s.sequence \in Seqs /\ s.length \in Nat /\ SequenceSize(s) \in Nat
        /\ \A j \in Slots : SeqSub(q[j].sequence, b) \in Nat /\ SequenceSize(q[j]) \in Nat
    <2>1. s.sequence \in Seqs /\ s.length \in Nat
      BY DEF SegmentType
    <2>2. SequenceSize(s) \in Nat
      BY <2>1 DEF SequenceSize
    <2>3. ASSUME NEW j \in Slots PROVE SeqSub(q[j].sequence, b) \in Nat
      BY <1>2, ConstantsAssumption, SMTT(60) DEF SeqSub
    <2>4. ASSUME NEW j \in Slots PROVE SequenceSize(q[j]) \in Nat
      BY <1>2 DEF SequenceSize
    <2> QED BY <2>1, <2>2, <2>3, <2>4
  <1>4. SlotsOK(t, b, lo, hi2, off2, fin2, len)
    <2> SUFFICES ASSUME NEW j \in Slots, t[j].used
                 PROVE  SlotOK(t[j], b, lo, hi2, off2, fin2, len)
      BY DEF SlotsOK
    <2>1. CASE j = i
      BY <1>1, <2>1
    <2>2. CASE j # i
      <3>1. t[j] = q[j] /\ SlotOK(q[j], b, lo, hi, off, fin, len)
        BY <1>1, <2>2 DEF Shape, SlotsOK
      <3>2. SlotOK(q[j], b, lo, hi2, off2, fin2, len)
        <4> DEFINE r == SeqSub(q[j].sequence, b)
                   z == SequenceSize(q[j])
        <4>1. r \in Nat /\ z \in Nat /\ q[j].offset \in Nat /\ q[j].length \in Nat
          BY <1>2, <1>3
        <4>2. r + z <= hi2
          BY <1>3, <3>1, <4>1, SMTT(30) DEF SlotOK
        <4>3. q[j].offset + q[j].length <= off => q[j].offset + q[j].length <= off2
          BY <4>1, SMTT(30)
        <4> QED BY <3>1, <4>2, <4>3 DEF SlotOK
      <3> QED BY <3>1, <3>2
    <2> QED BY <2>1, <2>2
  <1>5. NoGap(t, b, lo, hi2)
    <2> SUFFICES ASSUME NEW p \in Nat, lo <= p, p < hi2
                 PROVE  \E j \in Slots : Holds(t[j], b, p)
      BY DEF NoGap
    <2>1. CASE p < hi
      <3>1. PICK j \in Slots : Holds(q[j], b, p)
        BY <2>1 DEF Shape, NoGap
      <3>2. j # i
        BY <3>1 DEF Holds
      <3> QED BY <1>1, <3>1, <3>2
    <2>2. CASE hi <= p
      BY <1>1, <1>3, <2>2 DEF Holds
    <2> QED BY <2>1, <2>2
  <1>6. \A j \in Slots, p \in Nat : Holds(q[j], b, p) => p < hi
    <2>1. SlotsOK(q, b, lo, hi, off, fin, len) /\ hi \in Nat
      BY DEF Shape
    <2> HIDE DEF Appended
    <2> QED BY <1>2, <1>3, <2>1 DEF SlotsOK, SlotOK, Holds
  <1>7. NoOverlap(t, b)
    <2> SUFFICES ASSUME NEW j \in Slots, NEW k \in Slots, NEW p \in Nat,
                        Holds(t[j], b, p), Holds(t[k], b, p)
                 PROVE  j = k
      BY DEF NoOverlap
    <2>1. CASE j # i /\ k # i
      BY <1>1, <2>1 DEF Shape, NoOverlap
    <2>2. Holds(s, b, p) => hi <= p
      BY DEF Holds
    <2>3. CASE j = i /\ k # i
      BY <1>1, <1>6, <2>2, <2>3
    <2>4. CASE k = i /\ j # i
      BY <1>1, <1>6, <2>2, <2>4
    <2> QED BY <2>1, <2>3, <2>4
  <1>8. Shape(t, b, lo, hi2, off2, fin2, len)
    BY <1>4, <1>5, <1>7 DEF Shape
  <1> QED BY <1>8

\* Only used, kind, sequence, offset and length matter: a retransmission
\* changes none of them.
LEMMA QueueSame ==
    ASSUME NEW q, NEW t, NEW b, NEW lo, NEW hi, NEW off, NEW fin, NEW len,
           Shape(q, b, lo, hi, off, fin, len),
           \A i \in Slots : /\ t[i].used = q[i].used /\ t[i].kind = q[i].kind
                            /\ t[i].sequence = q[i].sequence
                            /\ t[i].offset = q[i].offset /\ t[i].length = q[i].length
    PROVE  Shape(t, b, lo, hi, off, fin, len)
  <1>1. \A i \in Slots : SequenceSize(t[i]) = SequenceSize(q[i])
    BY DEF SequenceSize
  <1>2. \A i \in Slots : \A p \in Nat : Holds(t[i], b, p) <=> Holds(q[i], b, p)
    BY <1>1 DEF Holds
  <1>3. SlotsOK(t, b, lo, hi, off, fin, len)
    BY <1>1 DEF Shape, SlotsOK, SlotOK
  <1>4. NoGap(t, b, lo, hi) /\ NoOverlap(t, b)
    BY <1>2 DEF Shape, NoGap, NoOverlap
  <1> QED BY <1>3, <1>4 DEF Shape

-----------------------------------------------------------------------------
(* Steps.                                                                  *)

core == <<isn, tx, una, next, tx_offset, own_fin, own_fin_acked>>

SameSlots == \A i \in Slots :
    /\ pending'[i].used = pending[i].used /\ pending'[i].kind = pending[i].kind
    /\ pending'[i].sequence = pending[i].sequence
    /\ pending'[i].offset = pending[i].offset /\ pending'[i].length = pending[i].length

\* The positions of a connection stay below half of the sequence space.
LEMMA LateBounds ==
    ASSUME TypeOK, Late
    PROVE  /\ Rel(una) \in Nat /\ Rel(next) \in Nat /\ Len(tx) \in Nat
           /\ Rel(una) <= Rel(next) /\ Rel(next) < SeqHalf - 1
           /\ tx_offset \in Nat /\ own_fin \in BOOLEAN
  <1>1. Len(tx) \in Nat /\ Len(tx) <= TCP_BUFFER /\ tx_offset \in 0 .. Len(tx)
    BY LenProperties DEF TypeOK
  <1>2. Rel(una) \in Nat /\ Rel(next) \in Nat /\ own_fin \in BOOLEAN
    BY ConstantsAssumption DEF TypeOK, Rel, SeqSub
  <1> QED BY <1>1, <1>2, ConstantsAssumption DEF Late, Bounds

\* A step that leaves the sender alone, or only retransmits.
LEMMA SameInv ==
    ASSUME SenderInv, UNCHANGED core, SameSlots,
           state' \in {state, "FAILED"}, peer_fin => peer_fin'
    PROVE  SenderInv'
  <1>1. state' = "DONE" => own_fin_acked' /\ peer_fin'
    BY DEF SenderInv, core
  <1>2. CASE Early
    <2>1. Early'
      BY <1>2, ConstantsAssumption DEF Early, core, SameSlots
    <2> QED BY <1>1, <2>1 DEF SenderInv
  <1>3. CASE Late
    <2>1. Rel(una)' = Rel(una) /\ Rel(next)' = Rel(next)
      BY DEF Rel, core
    <2>2. Shape(pending', isn, Rel(una), Rel(next), tx_offset, own_fin, Len(tx))
      BY <1>3, QueueSame DEF Late, SameSlots
    <2>3. Late'
      BY <1>3, <2>1, <2>2 DEF Late, core
    <2> QED BY <1>1, <2>3 DEF SenderInv
  <1> QED BY <1>2, <1>3 DEF SenderInv

\* loss retransmits a segment and changes no position.
LEMMA LossSame ==
    ASSUME TypeOK, NEW timeout \in BOOLEAN, NEW sent, NEW e \in BOOLEAN,
           Loss(timeout, sent, e)
    PROVE  SameSlots /\ state' \in {state, "FAILED"}
  <1> PICK i \in Slots : IsOldest(i) /\
                         \/ LossGivesUp(i, sent, e) \/ LossDeferred(i, sent, e)
                         \/ LossRetransmits(i, timeout, sent, e)
    BY DEF Loss
  <1>1. CASE LossGivesUp(i, sent, e)
    BY <1>1 DEF LossGivesUp, Abort, SameSlots
  <1>2. CASE LossDeferred(i, sent, e)
    BY <1>2 DEF LossDeferred, SameSlots
  <1>3. CASE LossRetransmits(i, timeout, sent, e)
    <2>1. pending' = [pending EXCEPT ![i] = Retried(pending[i])] /\ state' = state
      BY <1>3 DEF LossRetransmits
    <2>2. pending \in [Slots -> SegmentType] /\ pending[i].used
      BY DEF TypeOK, IsOldest, Used
    <2>3. pending'[i] = Retried(pending[i]) /\ \A j \in Slots \ {i} : pending'[j] = pending[j]
      BY <2>1, <2>2
    <2>4. /\ Retried(pending[i]).used = TRUE /\ Retried(pending[i]).kind = pending[i].kind
          /\ Retried(pending[i]).sequence = pending[i].sequence
          /\ Retried(pending[i]).offset = pending[i].offset
          /\ Retried(pending[i]).length = pending[i].length
      BY DEF Retried
    <2>5. pending[i].used = TRUE
      BY <2>2 DEF SegmentType
    <2> QED BY <2>1, <2>3, <2>4, <2>5 DEF SameSlots
  <1> QED BY <1>1, <1>2, <1>3

\* tcp_start: nothing is in the queue.
LEMMA StartInv ==
    ASSUME NEW data, NEW s, NEW valid, TcpStart(data, s, valid)
    PROVE  SenderInv'
  <1>1. \A i \in Slots : ~ pending'[i].used
    <2>1. pending' = [i \in Slots |-> NoSegment]
      BY DEF TcpStart, StartValid, StartInvalid, ClearConnection
    <2>2. ~ NoSegment.used
      BY DEF NoSegment
    <2> QED BY <2>1, <2>2
  <1>2. /\ state' \in {"SYN_SENT", "FAILED"} /\ una' = isn' /\ next' = isn'
        /\ tx_offset' = 0 /\ own_fin' = FALSE /\ own_fin_acked' = FALSE
    BY DEF TcpStart, StartValid, StartInvalid, ClearConnection
  <1> QED BY <1>1, <1>2 DEF SenderInv, Early

\* The handshake ends: the SYN leaves the queue.
LEMMA SynAckInv ==
    ASSUME TypeOK, SenderInv, NEW m, IsSegment(m), InputSynAck(m)
    PROVE  SenderInv'
  <1>1. /\ state = "SYN_SENT" /\ m.ack = SeqAdd(isn, 1) /\ m.ack = next
        /\ una' = m.ack /\ next' = next /\ isn' = isn /\ tx' = tx
        /\ tx_offset' = tx_offset /\ own_fin' = own_fin /\ own_fin_acked' = own_fin_acked
        /\ pending' = [pending EXCEPT ![1] = NoSegment] /\ state' = "ESTABLISHED"
    BY DEF InputSynAck, Establishes
  <1>2. Early
    BY <1>1 DEF SenderInv, Late
  <1>3. pending \in [Slots -> SegmentType] /\ 1 \in Slots /\ isn \in Seqs
    BY ConstantsAssumption DEF TypeOK
  <1>4. \A i \in Slots \ {1} : ~ pending[i].used
    BY <1>2 DEF Early
  <1>5. \A i \in Slots : ~ pending'[i].used
    BY <1>1, <1>3, <1>4 DEF NoSegment
  <1>6. Rel(una)' = 1 /\ Rel(next)' = 1
    BY <1>1, <1>3, ConstantsAssumption DEF Rel, SeqAdd, SeqSub
  <1>7. Shape(pending', isn', 1, 1, 0, FALSE, Len(tx'))
    <2>1. SlotsOK(pending', isn', 1, 1, 0, FALSE, Len(tx'))
      BY <1>5 DEF SlotsOK
    <2>2. NoGap(pending', isn', 1, 1)
      BY DEF NoGap
    <2>3. NoOverlap(pending', isn')
      BY <1>5 DEF NoOverlap, Holds
    <2> QED BY <2>1, <2>2, <2>3 DEF Shape
  <1>8. tx_offset' = 0 /\ own_fin' = FALSE /\ own_fin_acked' = FALSE
    BY <1>1, <1>2 DEF Early
  <1>9. Bounds(1, 1, 0, FALSE, Len(tx'))
    BY DEF Bounds
  <1>10. Late'
    BY <1>1, <1>6, <1>7, <1>8, <1>9 DEF Late
  <1> QED BY <1>1, <1>10 DEF SenderInv

\* An acknowledgement frees and trims: own_fin_acked becomes true with the
\* acknowledgement of the FIN's position and never otherwise.
LEMMA AcknowledgeInv ==
    ASSUME TypeOK, Late, NEW a \in Seqs, Acknowledge(a),
           UNCHANGED <<isn, tx>>, state' \in {state, "FAILED"},
           ~ Before(next, a), ~ Before(a, una), a # una
    PROVE  Late'
  <1> DEFINE lo == Rel(una)
             hi == Rel(next)
             x == SeqSub(a, isn)
  <1>1. /\ isn \in Seqs /\ una \in Seqs /\ next \in Seqs
        /\ pending \in [Slots -> SegmentType] /\ own_fin_acked \in BOOLEAN
    BY DEF TypeOK
  <1>2. /\ lo \in Nat /\ hi \in Nat /\ Len(tx) \in Nat /\ hi < SeqHalf /\ lo <= hi
        /\ tx_offset \in Nat /\ own_fin \in BOOLEAN
    BY LateBounds, ConstantsAssumption
  <1>3. lo <= x /\ x <= hi /\ x \in Nat
    <2>1. lo <= x /\ x <= hi
      BY <1>1, <1>2, AckRange DEF Rel
    <2>2. x \in Nat
      BY <1>1, ConstantsAssumption DEF SeqSub
    <2> QED BY <2>1, <2>2
  <1>4. lo < x /\ (x = hi <=> a = next)
    <2>1. x < SeqHalf /\ lo < SeqHalf /\ hi < SeqHalf
      BY <1>2, <1>3, ConstantsAssumption
    <2>2. x = lo => a = una
      BY <1>1, <2>1, RelBefore DEF Rel
    <2>3. x = hi => a = next
      BY <1>1, <2>1, RelBefore DEF Rel
    <2>4. a = next => x = hi
      BY DEF Rel
    <2> QED BY <1>2, <1>3, <2>2, <2>3, <2>4
  <1>5. /\ pending' = [i \in Slots |-> AckSegment(pending[i], a)]
        /\ una' = a /\ next' = next /\ tx_offset' = tx_offset /\ own_fin' = own_fin
    BY DEF Acknowledge
  <1>6. Rel(una)' = x /\ Rel(next)' = hi
    BY <1>5 DEF Rel
  <1>7. Shape(pending, isn, lo, hi, tx_offset, own_fin, Len(tx))
    BY DEF Late
  <1>8. Shape(pending', isn, x, hi, tx_offset, own_fin, Len(tx))
    <2> DEFINE len == Len(tx)
    <2>1. \A i \in Slots : pending'[i] = AckSegment(pending[i], a)
      BY <1>5
    <2>2. /\ Shape(pending, isn, lo, hi, tx_offset, own_fin, len)
          /\ lo \in Nat /\ hi \in Nat /\ hi < SeqHalf /\ len \in Nat
          /\ tx_offset \in Nat /\ own_fin \in BOOLEAN
          /\ lo < SeqSub(a, isn) /\ SeqSub(a, isn) <= hi
      BY <1>2, <1>3, <1>4, <1>7
    <2> HIDE DEF lo, hi, len
    <2>3. Shape(pending', isn, SeqSub(a, isn), hi, tx_offset, own_fin, len)
      <3>1. AckedQueue(pending', pending, isn, a, lo, hi, tx_offset, own_fin, len)
        BY <1>1, <2>1, <2>2 DEF AckedQueue
      <3> QED BY <3>1, QueueAck
    <2> QED BY <2>3 DEF len
  <1>9. Bounds(lo, hi, tx_offset, own_fin, Len(tx))
    BY DEF Late
  <1>10. Bounds(x, hi, tx_offset, own_fin, Len(tx))
    BY <1>2, <1>3, <1>4, <1>9 DEF Bounds
  <1>11. own_fin_acked' <=> own_fin /\ a = next
    <2> DEFINE touched == {i \in Used : Before(pending[i].sequence, a)}
    <2>1. own_fin_acked' = (own_fin_acked \/ \E i \in touched : pending[i].kind = "FIN")
      BY DEF Acknowledge
    <2>2. ~ own_fin_acked
      <3>1. own_fin_acked => una = next
        BY DEF Late
      <3>2. una = next => lo = hi
        BY DEF Rel
      <3> QED BY <1>2, <1>3, <1>4, <3>1, <3>2
    <2>3. \A i \in Slots : pending[i].used =>
              SlotOK(pending[i], isn, lo, hi, tx_offset, own_fin, Len(tx))
      BY <1>7 DEF Shape, SlotsOK
    <2>4. ASSUME NEW i \in Slots, pending[i].used
          PROVE  /\ SeqSub(pending[i].sequence, isn) \in Nat
                 /\ pending[i].length \in Nat /\ pending[i].offset \in Nat
                 /\ Before(pending[i].sequence, a) <=> SeqSub(pending[i].sequence, isn) < x
      <3>1. pending[i].sequence \in Seqs /\ pending[i].length \in Nat /\ pending[i].offset \in Nat
        BY <1>1 DEF SegmentType
      <3>2. SeqSub(pending[i].sequence, isn) \in Nat
        BY <1>1, <3>1, ConstantsAssumption, SMTT(60) DEF SeqSub
      <3>3. SequenceSize(pending[i]) \in Nat
        BY <3>1 DEF SequenceSize
      <3>4. SeqSub(pending[i].sequence, isn) < SeqHalf /\ x < SeqHalf
        BY <1>2, <1>3, <2>3, <2>4, <3>2, <3>3, ConstantsAssumption DEF SlotOK
      <3>5. Before(pending[i].sequence, a) <=> SeqSub(pending[i].sequence, isn) < x
        BY <1>1, <3>1, <3>4, RelBefore
      <3> QED BY <3>1, <3>2, <3>5
    <2>5. ASSUME NEW i \in touched, pending[i].kind = "FIN"
          PROVE  own_fin /\ a = next
      <3>1. i \in Slots /\ pending[i].used /\ Before(pending[i].sequence, a)
        BY DEF Used
      <3>2. own_fin /\ SeqSub(pending[i].sequence, isn) = Len(tx) + 1
        BY <2>3, <2>5, <3>1 DEF SlotOK
      <3>3. Len(tx) + 1 < x
        BY <2>4, <3>1, <3>2
      <3>4. hi = Len(tx) + 2
        BY <1>9, <3>2 DEF Bounds
      <3> QED BY <1>2, <1>3, <1>4, <3>2, <3>3, <3>4
    <2>6. ASSUME own_fin, a = next
          PROVE  \E i \in touched : pending[i].kind = "FIN"
      <3>1. hi = Len(tx) + 2 /\ tx_offset = Len(tx) /\ lo >= Len(tx) + 1 /\ x = hi
        BY <1>4, <1>9, <2>6 DEF Bounds
      <3>2. Len(tx) + 1 \in Nat /\ lo <= Len(tx) + 1 /\ Len(tx) + 1 < hi
        BY <1>2, <1>3, <1>4, <3>1
      <3>3. PICK i \in Slots : Holds(pending[i], isn, Len(tx) + 1)
        BY <1>7, <3>2 DEF Shape, NoGap
      <3>4. pending[i].used /\ SlotOK(pending[i], isn, lo, hi, tx_offset, own_fin, Len(tx))
        BY <2>3, <3>3 DEF Holds
      <3>5. pending[i].kind = "FIN"
        <4>1. ASSUME pending[i].kind = "DATA" PROVE FALSE
          <5>1. /\ SeqSub(pending[i].sequence, isn) = pending[i].offset + 1
                /\ pending[i].offset + pending[i].length <= Len(tx)
                /\ Len(tx) + 1 < SeqSub(pending[i].sequence, isn) + pending[i].length
            BY <2>4, <3>1, <3>3, <3>4, <4>1 DEF SlotOK, Holds, SequenceSize
          <5> QED BY <1>2, <2>4, <3>4, <5>1, SMTT(60)
        <4> QED BY <3>4, <4>1 DEF SlotOK
      <3>6. SeqSub(pending[i].sequence, isn) < x
        BY <1>2, <2>4, <3>1, <3>3, <3>4 DEF Holds
      <3>7. i \in touched
        BY <2>4, <3>4, <3>6 DEF Used
      <3> QED BY <3>5, <3>7
    <2> QED BY <2>1, <2>2, <2>5, <2>6
  <1> QED BY <1>5, <1>6, <1>8, <1>10, <1>11 DEF Late

\* A segment that is sent for the first time extends the tiling.
LEMMA EnqueueInv ==
    ASSUME TypeOK, Late, NEW f \in BOOLEAN, NEW s \in SegmentType, Enqueue(s, f),
           s.used, s.sequence = next, s.offset = tx_offset,
           \/ /\ s.kind = "DATA" /\ s.length >= 1 /\ s.length <= Len(tx) - tx_offset
              /\ own_fin' = own_fin /\ own_fin = FALSE
           \/ /\ s.kind = "FIN" /\ s.length = 0 /\ tx_offset = Len(tx)
              /\ own_fin = FALSE /\ own_fin' = TRUE
              /\ Used = {},
           state' \notin {"IDLE", "SYN_SENT"}
    PROVE  Late'
  <1> DEFINE lo == Rel(una)
             hi == Rel(next)
             hi2 == hi + SequenceSize(s)
             off2 == tx_offset + s.length
             len == Len(tx)
  <1>1. /\ isn \in Seqs /\ una \in Seqs /\ next \in Seqs
        /\ pending \in [Slots -> SegmentType] /\ tx_offset \in 0 .. len
        /\ len <= TCP_BUFFER
    BY DEF TypeOK
  <1>2. /\ lo \in Nat /\ hi \in Nat /\ len \in Nat /\ hi < SeqHalf - 1 /\ lo <= hi
        /\ tx_offset \in Nat /\ own_fin \in BOOLEAN
    BY LateBounds
  <1>3. s.length \in Nat /\ SequenceSize(s) \in Nat /\ SequenceSize(s) >= 1
    <2>1. s.length \in Nat
      BY DEF SegmentType
    <2> QED BY <2>1 DEF SequenceSize
  <1>4. PICK i \in Slots : FirstFree(i) /\ pending' = [pending EXCEPT ![i] = s]
    BY DEF Enqueue
  <1>5. ~ pending[i].used
    BY <1>4 DEF FirstFree, Used
  <1>6. /\ next' = SeqAdd(next, SequenceSize(s)) /\ tx_offset' = off2
        /\ una' = una /\ isn' = isn /\ tx' = tx /\ own_fin_acked' = own_fin_acked
    BY DEF Enqueue
  <1>7. Bounds(lo, hi, tx_offset, own_fin, len) /\ own_fin = FALSE
    BY DEF Late
  <1>8. hi = tx_offset + 1
    BY <1>7 DEF Bounds
  <1>9. hi2 \in Nat /\ off2 \in Nat /\ hi2 <= len + 2 /\ hi2 < SeqHalf /\ off2 <= len
    <2> DEFINE n == s.length
               k == SequenceSize(s)
    <2>1. n \in Nat /\ k \in Nat /\ n <= len - tx_offset /\ k <= len - tx_offset + 1
      BY <1>2, <1>3 DEF SequenceSize
    <2>2. SeqHalf \in Nat /\ len + 4 < SeqHalf
      BY <1>1, <1>2, ConstantsAssumption
    <2> HIDE DEF hi, len, n, k
    <2>3. /\ hi + k \in Nat /\ tx_offset + n \in Nat /\ hi + k <= len + 2 /\ hi + k < SeqHalf
          /\ tx_offset + n <= len
      BY <1>2, <1>8, <2>1, <2>2
    <2> QED BY <2>3 DEF n, k
  <1>10. Rel(una)' = lo /\ Rel(next)' = hi2
    <2>1. Rel(una)' = lo
      BY <1>6 DEF Rel
    <2>2. SeqSub(SeqAdd(next, SequenceSize(s)), isn) = SeqSub(next, isn) + SequenceSize(s)
      BY <1>1, <1>3, <1>9, RelAdd DEF Rel
    <2> QED BY <1>6, <2>1, <2>2 DEF Rel
  <1>11. own_fin' \in BOOLEAN
    BY <1>2
  <1>12. Used = {} => lo = hi
    <2> SUFFICES ASSUME Used = {}, lo # hi PROVE FALSE
      OBVIOUS
    <2>1. lo < hi
      BY <1>2
    <2>2. PICK j \in Slots : Holds(pending[j], isn, lo)
      BY <1>2, <2>1 DEF Late, Shape, NoGap
    <2> QED BY <2>2 DEF Holds, Used
  <1>13. SlotOK(s, isn, lo, hi2, off2, own_fin', len)
    <2>1. SeqSub(s.sequence, isn) = hi
      BY DEF Rel
    <2> HIDE DEF lo, hi
    <2>2. CASE s.kind = "DATA"
      BY <1>1, <1>2, <1>3, <1>8, <2>1, <2>2 DEF SlotOK
    <2>3. CASE s.kind = "FIN"
      BY <1>1, <1>2, <1>3, <1>8, <2>1, <2>3 DEF SlotOK
    <2> QED BY <2>2, <2>3
  <1>14. Bounds(lo, hi2, off2, own_fin', len)
    <2>1. CASE s.kind = "DATA"
      <3>1. hi2 = off2 + 1 /\ own_fin' = FALSE
        BY <1>2, <1>3, <1>8, <2>1 DEF SequenceSize
      <3> QED BY <1>2, <1>3, <1>7, <3>1 DEF Bounds
    <2>2. CASE s.kind = "FIN"
      <3>1. hi2 = off2 + 2 /\ off2 = len /\ lo = hi
        BY <1>2, <1>3, <1>8, <1>12, <2>2 DEF SequenceSize
      <3> QED BY <1>2, <1>3, <1>7, <1>8, <2>2, <3>1 DEF Bounds
    <2> QED BY <2>1, <2>2
  <1>15. Shape(pending', isn, lo, hi2, off2, own_fin', len)
    <2>1. /\ Shape(pending, isn, lo, hi, tx_offset, own_fin, len)
          /\ SeqSub(s.sequence, isn) = hi /\ tx_offset <= off2 /\ (own_fin => own_fin')
          /\ hi2 = hi + SequenceSize(s)
      BY <1>2, <1>3, <1>7 DEF Late, Rel
    <2>2. /\ pending'[i] = s /\ \A j \in Slots \ {i} : pending'[j] = pending[j]
          /\ pending \in [Slots -> SegmentType] /\ isn \in Seqs
      BY <1>1, <1>4
    <2>3. /\ lo \in Nat /\ hi \in Nat /\ hi2 \in Nat /\ len \in Nat
          /\ tx_offset \in Nat /\ off2 \in Nat /\ lo <= hi
      BY <1>2, <1>9
    <2>4. own_fin \in BOOLEAN /\ own_fin' \in BOOLEAN
      BY <1>2, <1>11
    <2> HIDE DEF lo, hi, hi2, off2, len
    <2>5. Appended(pending, pending', isn, i, s, lo, hi, hi2, tx_offset, off2,
                   own_fin, own_fin', len)
      BY <1>5, <1>13, <2>1, <2>2, <2>3, <2>4 DEF Appended
    <2> QED BY <2>5, QueueAppend, Zenon
  <1>16. own_fin_acked' <=> own_fin' /\ una' = next'
    <2>1. own_fin_acked = FALSE
      BY <1>7 DEF Late, TypeOK
    <2>2. una' # next'
      <3>1. lo # hi2
        BY <1>2, <1>3
      <3> QED BY <1>10, <3>1 DEF Rel
    <2> QED BY <1>6, <2>1, <2>2
  <1> QED BY <1>6, <1>10, <1>14, <1>15, <1>16 DEF Late

\* Once the handshake is over the queue tiles.
LEMMA LateWhen ==
    ASSUME SenderInv, state \in {"ESTABLISHED", "CLOSING", "DONE"}
    PROVE  Late
  BY DEF SenderInv, Early

\* Receiving never withdraws the peer's FIN and changes the state only to fail.
LEMMA ReceiveSame ==
    ASSUME NEW m, NEW e, Receive(m, e)
    PROVE  state' \in {state, "FAILED"} /\ (peer_fin => peer_fin')
  <1>1. CASE UNCHANGED <<state, receiver>>
    BY <1>1
  <1>2. CASE state' = "FAILED" /\ UNCHANGED receiver
    BY <1>2
  <1>3. CASE ~ peer_fin /\ UNCHANGED state
    BY <1>3
  <1> HIDE DEF receiver
  <1> QED BY <1>1, <1>2, <1>3 DEF Receive, Abort, InOrder

\* tcp_input.
LEMMA InputInv ==
    ASSUME TypeOK, SenderInv, NEW m, IsSegment(m), NEW e \in BOOLEAN, TcpInput(m, e)
    PROVE  SenderInv'
  <1>1. CASE InputIgnored(m)
    BY <1>1, SameInv DEF InputIgnored, core, SameSlots
  <1>2. CASE InputRefused(m)
    BY <1>2, SameInv DEF InputRefused, Abort, core, SameSlots
  <1>3. CASE InputSynAck(m)
    BY <1>3, SynAckInv
  <1>4. CASE InputReset(m)
    BY <1>4, SameInv DEF InputReset, core, SameSlots
  <1>5. CASE InputChallenged(m)
    BY <1>5, SameInv DEF InputChallenged, core, SameSlots
  <1>6. CASE InputDuplicateAck(m, e)
    <2>1. UNCHANGED core /\ UNCHANGED peer_fin
      BY <1>6 DEF InputDuplicateAck, core
    <2>2. CASE Loss(FALSE, {}, e)
      <3>1. SameSlots /\ state' \in {state, "FAILED"}
        BY <2>2, LossSame
      <3> QED BY <2>1, <3>1, SameInv
    <2>3. CASE UNCHANGED <<state, pending>>
      BY <2>1, <2>3, SameInv DEF SameSlots
    <2> QED BY <1>6, <2>2, <2>3 DEF InputDuplicateAck
  <1>7. CASE InputAccepted(m, e)
    <2>1. /\ Late /\ UNCHANGED <<isn, tx>> /\ Receive(m, e)
          /\ ~ Before(next, m.ack) /\ ~ Before(m.ack, una)
      BY <1>7, LateWhen DEF InputAccepted, Processed, Synchronized
    <2>2. state' \in {state, "FAILED"} /\ (peer_fin => peer_fin')
      BY <2>1, ReceiveSame
    <2>3. CASE m.ack = una
      <3>1. UNCHANGED core /\ UNCHANGED pending
        BY <1>7, <2>3 DEF InputAccepted, core
      <3> QED BY <2>2, <3>1, SameInv DEF SameSlots
    <2>4. CASE m.ack # una
      <3>1. Acknowledge(m.ack) /\ m.ack \in Seqs
        BY <1>7, <2>4 DEF InputAccepted, IsSegment
      <3>2. Late'
        BY <2>1, <2>2, <2>4, <3>1, AcknowledgeInv
      <3>3. own_fin_acked => own_fin_acked'
        BY <3>1 DEF Acknowledge
      <3>4. state' = "DONE" => own_fin_acked' /\ peer_fin'
        BY <2>2, <3>3 DEF SenderInv
      <3> QED BY <3>2, <3>4 DEF SenderInv
    <2> QED BY <2>3, <2>4
  <1> QED BY <1>1, <1>2, <1>3, <1>4, <1>5, <1>6, <1>7 DEF TcpInput

\* tcp_tick, the first segment: the SYN takes the first slot.
LEMMA SynInv ==
    ASSUME TypeOK, SenderInv, NEW f \in BOOLEAN, TickSyn(f)
    PROVE  SenderInv'
  <1> DEFINE s == Segment("SYN", isn, 0, 0)
  <1>1. /\ state = "SYN_SENT" /\ next = isn /\ pending' = [pending EXCEPT ![1] = s]
        /\ next' = SeqAdd(next, 1)
        /\ UNCHANGED <<state, isn, una, tx_offset, own_fin, own_fin_acked>>
    BY DEF TickSyn, SynDue
  <1>2. Early
    BY <1>1 DEF SenderInv, Late
  <1>3. pending \in [Slots -> SegmentType] /\ 1 \in Slots /\ isn \in Seqs
    BY ConstantsAssumption DEF TypeOK
  <1>4. next # SeqAdd(isn, 1)
    BY <1>1, <1>3, ConstantsAssumption DEF SeqAdd
  <1>5. \A i \in Slots : ~ pending[i].used
    BY <1>2, <1>4 DEF Early
  <1>6. pending'[1] = s /\ \A i \in Slots \ {1} : pending'[i] = pending[i]
    BY <1>1, <1>3
  <1>7. s.used /\ s.kind = "SYN" /\ s.sequence = isn /\ s.length = 0
    BY DEF Segment
  <1> HIDE DEF s
  <1>8. \A i \in Slots : pending'[i].used <=> i = 1
    BY <1>3, <1>5, <1>6, <1>7
  <1>9. Early'
    BY <1>1, <1>2, <1>6, <1>7, <1>8 DEF Early
  <1> QED BY <1>1, <1>9 DEF SenderInv

\* tcp_tick, a data segment.
LEMMA SendInv ==
    ASSUME TypeOK, SenderInv, NEW f \in BOOLEAN, TickSend(f)
    PROVE  SenderInv'
  <1> DEFINE s == Segment("DATA", next, tx_offset, SendLength)
  <1>1. /\ Enqueue(s, f) /\ UNCHANGED <<state, own_fin>> /\ SendDue
        /\ state \in {"ESTABLISHED", "CLOSING"} /\ own_fin = FALSE
    BY DEF TickSend, Running, Active, SendDue, MaySend, TypeOK
  <1>2. SendLength \in Nat /\ SendLength >= 1 /\ SendLength <= Len(tx) - tx_offset
    <2>1. SendLength \in Nat /\ SendLength <= Len(tx) - tx_offset
      BY <1>1, SendLengthType
    <2> QED BY <1>1, <2>1 DEF SendDue
  <1>3. /\ s \in SegmentType /\ s.used /\ s.sequence = next /\ s.offset = tx_offset
        /\ s.kind = "DATA" /\ s.length >= 1 /\ s.length <= Len(tx) - tx_offset
    BY <1>2, ConstantsAssumption, LenProperties DEF Segment, SegmentType, TypeOK
  <1>4. Late
    BY <1>1, LateWhen
  <1> HIDE DEF s
  <1>5. Late'
    BY <1>1, <1>3, <1>4, EnqueueInv
  <1> QED BY <1>1, <1>5 DEF SenderInv

\* tcp_tick, the FIN.
LEMMA FinInv ==
    ASSUME TypeOK, SenderInv, NEW f \in BOOLEAN, TickFin(f)
    PROVE  SenderInv'
  <1> DEFINE s == Segment("FIN", next, tx_offset, 0)
  <1>1. /\ Enqueue(s, f) /\ own_fin' = TRUE /\ state' = "CLOSING"
        /\ state \in {"ESTABLISHED", "CLOSING"} /\ own_fin = FALSE
        /\ tx_offset = Len(tx) /\ Used = {}
    BY DEF TickFin, Running, Active, FinDue, MaySend, TypeOK
  <1>2. /\ s \in SegmentType /\ s.used /\ s.sequence = next /\ s.offset = tx_offset
        /\ s.kind = "FIN" /\ s.length = 0
    BY ConstantsAssumption, LenProperties DEF Segment, SegmentType, TypeOK
  <1>3. Late
    BY <1>1, LateWhen
  <1> HIDE DEF s
  <1>4. Late'
    BY <1>1, <1>2, <1>3, EnqueueInv
  <1> QED BY <1>1, <1>4 DEF SenderInv

LEMMA TickInv ==
    ASSUME TypeOK, SenderInv, NEW f \in BOOLEAN, NEW e \in BOOLEAN, TcpTick(f, e)
    PROVE  SenderInv'
  <1>1. CASE TickExpired(e)
    BY <1>1, SameInv DEF TickExpired, Abort, core, SameSlots
  <1>2. CASE TickDone(f)
    BY <1>2, SameInv DEF TickDone, core, SameSlots
  <1>3. CASE TickRto(f, e)
    <2>1. UNCHANGED core /\ UNCHANGED peer_fin /\ Loss(TRUE, Flushed(f), e)
      BY <1>3 DEF TickRto, core
    <2>2. SameSlots /\ state' \in {state, "FAILED"}
      BY <2>1, LossSame
    <2> QED BY <2>1, <2>2, SameInv
  <1>4. CASE TickClose(f)
    <2>1. /\ state' = "DONE" /\ UNCHANGED core /\ UNCHANGED <<pending, peer_fin>>
          /\ own_fin_acked /\ peer_fin /\ state \in {"ESTABLISHED", "CLOSING"}
      BY <1>4 DEF TickClose, CloseDue, Active, core
    <2>2. Late
      BY <2>1, LateWhen
    <2>3. Late'
      BY <2>1, <2>2 DEF Late, core, Rel
    <2> QED BY <2>1, <2>3 DEF SenderInv, core
  <1>5. CASE TickSyn(f)
    BY <1>5, SynInv
  <1>6. CASE TickProbe(f)
    BY <1>6, SameInv DEF TickProbe, core, SameSlots
  <1>7. CASE TickSend(f)
    BY <1>7, SendInv
  <1>8. CASE TickFin(f)
    BY <1>8, FinInv
  <1>9. CASE TickIdle(f, e)
    BY <1>9, SameInv DEF TickIdle, core, SameSlots
  <1> QED BY <1>1, <1>2, <1>3, <1>4, <1>5, <1>6, <1>7, <1>8, <1>9 DEF TcpTick

LEMMA InitInv == ASSUME Init PROVE SenderInv
  <1>1. \A i \in Slots : ~ pending[i].used
    BY DEF Init, NoSegment
  <1> QED BY <1>1 DEF Init, SenderInv, Early

LEMMA NextInv == ASSUME TypeOK, SenderInv, [Next]_vars PROVE SenderInv'
  <1>1. CASE Start
    BY <1>1, StartInv DEF Start
  <1>2. CASE Input
    BY <1>2, InputInv, InputsAssumption DEF Input
  <1>3. CASE Tick
    BY <1>3, TickInv DEF Tick
  <1>4. CASE Cancel
    BY <1>4, SameInv DEF Cancel, TcpAbort, Abort, core, SameSlots
  <1>5. CASE Advance
    BY <1>5, SameInv DEF Advance, core, SameSlots
  <1>6. CASE UNCHANGED vars
    BY <1>6, SameInv DEF vars, core, SameSlots
  <1> QED BY <1>1, <1>2, <1>3, <1>4, <1>5, <1>6 DEF Next

\* The inductive invariant holds in every reachable state.
THEOREM SenderCorrect == Spec => []SenderInv
  <1>1. Init => SenderInv
    BY InitInv
  <1>2. TypeOK /\ SenderInv /\ [Next]_vars => SenderInv'
    BY NextInv
  <1> QED BY <1>1, <1>2, TypeCorrect, PTL DEF Spec
-----------------------------------------------------------------------------
(* What the invariant gives.                                               *)

\* In a tiled queue no position is lost and none is held twice.
LEMMA TilesFromInv == ASSUME TypeOK, SenderInv PROVE QueueTiles
  <1>0. /\ isn \in Seqs /\ una \in Seqs /\ next \in Seqs
        /\ pending \in [Slots -> SegmentType]
    BY DEF TypeOK
  <1>1. \A i \in Slots : \A p \in Nat : i \in Used /\ Covers(i, p) <=> Holds(pending[i], isn, p)
    BY DEF Used, Covers, Holds, Rel
  <1>2. CASE Early
    <2>1. Rel(una) = 0
      BY <1>0, <1>2 DEF Early, Rel, SeqSub
    <2>2. CASE next = isn /\ \A i \in Slots : ~ pending[i].used
      <3>1. Rel(next) = 0 /\ Used = {}
        BY <1>0, <2>2 DEF Rel, SeqSub, Used
      <3> QED BY <2>1, <3>1 DEF QueueTiles
    <2>3. CASE /\ next = SeqAdd(isn, 1) /\ \A i \in Slots : pending[i].used <=> i = 1
               /\ pending[1].kind = "SYN" /\ pending[1].sequence = isn
               /\ pending[1].length = 0
      <3>1. Rel(next) = 1
        BY <1>0, <2>3, ConstantsAssumption DEF Rel, SeqAdd, SeqSub
      <3>2. Used = {1} /\ Rel(pending[1].sequence) = 0 /\ SequenceSize(pending[1]) = 1
        BY <1>0, <2>3, ConstantsAssumption DEF Used, Rel, SeqSub, SequenceSize
      <3>3. \A p \in 0 .. 0 : Covers(1, p)
        BY <3>2 DEF Covers
      <3> QED BY <2>1, <3>1, <3>2, <3>3 DEF QueueTiles
    <2> QED BY <1>2, <2>2, <2>3 DEF Early
  <1>3. CASE Late
    <2>1. /\ Rel(una) \in Nat /\ Rel(next) \in Nat /\ Rel(una) <= Rel(next)
      BY <1>3, LateBounds
    <2>2. ASSUME NEW i \in Used
          PROVE  /\ Rel(una) <= Rel(pending[i].sequence)
                 /\ Rel(pending[i].sequence) + SequenceSize(pending[i]) <= Rel(next)
                 /\ SequenceSize(pending[i]) > 0
      <3>1. SlotOK(pending[i], isn, Rel(una), Rel(next), tx_offset, own_fin, Len(tx))
        BY <1>3 DEF Late, Shape, SlotsOK, Used
      <3>2. SequenceSize(pending[i]) > 0
        <4>1. pending[i].length \in Nat
          BY <1>0 DEF Used, SegmentType
        <4>2. \/ pending[i].kind = "DATA" /\ pending[i].length >= 1
              \/ pending[i].kind = "FIN" /\ pending[i].length = 0
          BY <3>1 DEF SlotOK
        <4> QED BY <4>1, <4>2 DEF SequenceSize
      <3> QED BY <3>1, <3>2 DEF SlotOK, Rel
    <2>3. \A p \in Rel(una) .. Rel(next) - 1 :
              p \in Nat /\ Rel(una) <= p /\ p < Rel(next)
      BY <2>1
    <2>4. \A p \in Rel(una) .. Rel(next) - 1 : \E i \in Used : Covers(i, p)
      BY <1>1, <1>3, <2>3 DEF Late, Shape, NoGap
    <2>5. \A i, j \in Used : \A p \in Rel(una) .. Rel(next) - 1 :
              Covers(i, p) /\ Covers(j, p) => i = j
      BY <1>1, <1>3, <2>3 DEF Late, Shape, NoOverlap, Used
    <2> QED BY <2>1, <2>2, <2>4, <2>5 DEF QueueTiles
  <1> QED BY <1>2, <1>3 DEF SenderInv

LEMMA StreamFromInv == ASSUME TypeOK, SenderInv PROVE QueueMatchesStream
  <1> SUFFICES ASSUME NEW i \in Used
               PROVE  \/ /\ pending[i].kind = "DATA"
                         /\ Rel(pending[i].sequence) = pending[i].offset + 1
                         /\ pending[i].offset + pending[i].length <= tx_offset
                      \/ /\ pending[i].kind = "FIN" /\ own_fin
                         /\ Rel(pending[i].sequence) = Len(tx) + 1 /\ pending[i].length = 0
                      \/ /\ pending[i].kind = "SYN"
                         /\ Rel(pending[i].sequence) = 0 /\ pending[i].length = 0
    BY DEF QueueMatchesStream
  <1>1. i \in Slots /\ pending[i].used /\ isn \in Seqs
    BY DEF Used, TypeOK
  <1>2. CASE Early
    <2>1. i = 1 /\ pending[i].kind = "SYN" /\ pending[i].sequence = isn /\ pending[i].length = 0
      BY <1>1, <1>2 DEF Early
    <2> QED BY <1>1, <2>1 DEF Rel, SeqSub
  <1>3. CASE Late
    <2>1. SlotOK(pending[i], isn, Rel(una), Rel(next), tx_offset, own_fin, Len(tx))
      BY <1>1, <1>3 DEF Late, Shape, SlotsOK
    <2> QED BY <2>1 DEF SlotOK, Rel
  <1> QED BY <1>2, <1>3 DEF SenderInv

LEMMA FinFromInv == ASSUME TypeOK, SenderInv PROVE FinIsLast
  BY DEF FinIsLast, SenderInv, Early, Late, Bounds

\* Every unacknowledged position is in exactly one slot of the queue.
THEOREM QueueTilesAlways == Spec => []QueueTiles
  <1>1. TypeOK /\ SenderInv => QueueTiles
    BY TilesFromInv
  <1> QED BY <1>1, TypeCorrect, SenderCorrect, PTL

\* Every slot of the queue describes the bytes of its sequence numbers.
THEOREM QueueMatchesStreamAlways == Spec => []QueueMatchesStream
  <1>1. TypeOK /\ SenderInv => QueueMatchesStream
    BY StreamFromInv
  <1> QED BY <1>1, TypeCorrect, SenderCorrect, PTL

\* The FIN follows the acknowledgement of every byte, and DONE is reached only
\* when both directions are closed.
THEOREM FinIsLastAlways == Spec => []FinIsLast
  <1>1. TypeOK /\ SenderInv => FinIsLast
    BY FinFromInv
  <1> QED BY <1>1, TypeCorrect, SenderCorrect, PTL
-----------------------------------------------------------------------------
(* una and next only move forward.                                         *)

\* What is acknowledged was sent.
LEMMA UnaBeforeNext == ASSUME TypeOK, SenderInv PROVE ~ Before(next, una)
  <1>0. isn \in Seqs /\ una \in Seqs /\ next \in Seqs
    BY DEF TypeOK
  <1>1. CASE Early
    <2>1. una = isn /\ (next = isn \/ next = SeqAdd(isn, 1))
      BY <1>1 DEF Early
    <2> QED BY <1>0, <2>1, ConstantsAssumption DEF Before, SeqAdd, SeqSub
  <1>2. CASE Late
    <2>1. /\ Rel(una) \in Nat /\ Rel(next) \in Nat
          /\ Rel(una) <= Rel(next) /\ Rel(next) < SeqHalf - 1
      BY <1>2, LateBounds
    <2>2. SeqSub(una, isn) < SeqHalf /\ SeqSub(next, isn) < SeqHalf
      BY <2>1, ConstantsAssumption DEF Rel
    <2>3. Before(next, una) <=> SeqSub(next, isn) < SeqSub(una, isn)
      BY <1>0, <2>2, RelBefore
    <2> QED BY <2>1, <2>3 DEF Rel
  <1> QED BY <1>1, <1>2 DEF SenderInv

\* A number moved forward by less than half of the space is not before itself.
LEMMA ForwardStep ==
    ASSUME NEW x \in Seqs, NEW k \in 0 .. TCP_BUFFER + 1
    PROVE  ~ Before(SeqAdd(x, k), x) /\ ~ Before(x, x)
  BY ConstantsAssumption DEF Before, SeqAdd, SeqSub

\* The positions a new segment takes.
LEMMA EnqueueForward ==
    ASSUME TypeOK, NEW f \in BOOLEAN, NEW s \in SegmentType, Enqueue(s, f),
           s.length <= Len(tx) - tx_offset
    PROVE  una' = una /\ ~ Before(next', next)
  <1>1. s.length \in Nat /\ Len(tx) \in Nat /\ Len(tx) <= TCP_BUFFER
        /\ tx_offset \in 0 .. Len(tx) /\ next \in Seqs
    BY LenProperties DEF SegmentType, TypeOK
  <1>2. SequenceSize(s) \in 0 .. TCP_BUFFER + 1
    BY <1>1, ConstantsAssumption DEF SequenceSize
  <1>3. next' = SeqAdd(next, SequenceSize(s)) /\ una' = una
    BY DEF Enqueue
  <1> QED BY <1>1, <1>2, <1>3, ForwardStep

\* A step of a running transfer moves una to an acknowledgement it checked and
\* next past what it sends.
LEMMA SenderForward ==
    ASSUME TypeOK, SenderInv, Active, [Next]_vars
    PROVE  ~ Before(una', una) /\ ~ Before(next', next) /\ ~ Before(next, una')
  <1>0. una \in Seqs /\ next \in Seqs /\ 0 \in 0 .. TCP_BUFFER + 1
    BY ConstantsAssumption DEF TypeOK
  <1>1. ~ Before(next, una) /\ ~ Before(una, una) /\ ~ Before(next, next)
    BY <1>0, UnaBeforeNext, ForwardStep
  <1>2. CASE una' = una /\ next' = next
    BY <1>1, <1>2
  <1>3. CASE Start
    BY <1>3 DEF Start, Active
  <1>4. CASE Input
    <2>1. PICK m \in Segments, e \in BOOLEAN : TcpInput(m, e)
      BY <1>4 DEF Input
    <2>2. CASE InputSynAck(m)
      <3>1. state = "SYN_SENT" /\ una' = next /\ next' = next /\ next = SeqAdd(isn, 1)
        BY <2>2 DEF InputSynAck, Establishes
      <3>2. una = isn
        BY <3>1 DEF SenderInv, Late, Early
      <3>3. 1 \in 0 .. TCP_BUFFER + 1
        BY ConstantsAssumption
      <3> QED BY <1>0, <1>1, <3>1, <3>2, <3>3, ForwardStep
    <2>3. CASE InputAccepted(m, e) /\ m.ack # una
      <3>1. una' = m.ack /\ next' = next /\ ~ Before(next, m.ack) /\ ~ Before(m.ack, una)
        BY <2>3 DEF InputAccepted, Acknowledge, Processed
      <3> QED BY <1>1, <3>1
    <2>4. CASE InputAccepted(m, e) /\ m.ack = una
      BY <1>2, <2>4 DEF InputAccepted
    <2>5. CASE InputIgnored(m) \/ InputRefused(m) \/ InputReset(m) \/ InputChallenged(m)
               \/ InputDuplicateAck(m, e)
      BY <1>2, <2>5 DEF InputIgnored, InputRefused, InputReset, InputChallenged,
                        InputDuplicateAck
    <2> QED BY <2>1, <2>2, <2>3, <2>4, <2>5 DEF TcpInput
  <1>5. CASE Tick
    <2>1. PICK f \in BOOLEAN, e \in BOOLEAN : TcpTick(f, e)
      BY <1>5 DEF Tick
    <2>2. CASE TickSyn(f)
      <3>1. next' = SeqAdd(next, 1) /\ una' = una /\ 1 \in 0 .. TCP_BUFFER + 1
        BY <2>2, ConstantsAssumption DEF TickSyn
      <3> QED BY <1>0, <1>1, <3>1, ForwardStep
    <2>3. CASE TickSend(f)
      <3> DEFINE s == Segment("DATA", next, tx_offset, SendLength)
      <3>1. s \in SegmentType /\ s.length <= Len(tx) - tx_offset
        BY <2>3, SendLengthType, ConstantsAssumption, LenProperties, SMTT(30)
           DEF TickSend, Segment, SegmentType, TypeOK
      <3>2. Enqueue(s, f)
        BY <2>3 DEF TickSend
      <3> HIDE DEF s
      <3> QED BY <1>1, <3>1, <3>2, EnqueueForward
    <2>4. CASE TickFin(f)
      <3> DEFINE s == Segment("FIN", next, tx_offset, 0)
      <3>1. s \in SegmentType /\ s.length <= Len(tx) - tx_offset
        BY ConstantsAssumption, LenProperties DEF Segment, SegmentType, TypeOK
      <3>2. Enqueue(s, f)
        BY <2>4 DEF TickFin
      <3> HIDE DEF s
      <3> QED BY <1>1, <3>1, <3>2, EnqueueForward
    <2>5. CASE TickExpired(e) \/ TickDone(f) \/ TickRto(f, e) \/ TickClose(f)
               \/ TickProbe(f) \/ TickIdle(f, e)
      BY <1>2, <2>5 DEF TickExpired, TickDone, TickRto, TickClose, TickProbe, TickIdle
    <2> QED BY <2>1, <2>2, <2>3, <2>4, <2>5 DEF TcpTick
  <1>6. CASE Cancel \/ Advance \/ UNCHANGED vars
    BY <1>2, <1>6 DEF Cancel, TcpAbort, Advance, vars
  <1> QED BY <1>3, <1>4, <1>5, <1>6 DEF Next

\* No acknowledgement, however old or repeated, moves una or next back, and una
\* never passes what was sent.
THEOREM SenderAdvancesAlways == Spec => SenderAdvances
  <1>1. TypeOK /\ SenderInv /\ [Next]_vars =>
          [Active /\ state' # "IDLE" =>
             /\ ~ Before(una', una) /\ ~ Before(next', next)
             /\ ~ Before(next, una')]_vars
    BY SenderForward
  <1> QED BY <1>1, TypeCorrect, SenderCorrect, PTL DEF Spec, SenderAdvances
-----------------------------------------------------------------------------
(* What a connection shows to its user and to its peer.                    *)

USE DEF receiver

Visible == <<Status, rx, peer_fin>>

\* What a segment brings is one of the chunks.
LEMMA FreshChunk ==
    ASSUME TypeOK, NEW m, IsSegment(m), Fits(m)
    PROVE  Fresh(m) \in Chunks /\ Len(rx) + Len(Fresh(m)) <= TCP_BUFFER
  <1>3. Fresh(m) \in Seq(Byte) /\ Len(Fresh(m)) \in Nat
    BY FreshType
  <1>4. Len(rx) \in Nat /\ Len(Fresh(m)) \in Nat
    BY <1>3, LenProperties DEF TypeOK
  <1>5. Len(Fresh(m)) \in 0 .. TCP_BUFFER /\ Len(rx) + Len(Fresh(m)) <= TCP_BUFFER
    BY <1>4, ConstantsAssumption DEF Fits
  <1>6. Fresh(m) \in [1 .. Len(Fresh(m)) -> Byte]
    BY <1>3, LenProperties
  <1> QED BY <1>5, <1>6 DEF Chunks

\* A step that fails the connection, or shows nothing.
LEMMA FailStep ==
    ASSUME state # "IDLE", state' = "FAILED", UNCHANGED receiver
    PROVE  Promise!Next
  <1>1. Status # "idle" /\ Status' = "failed"
    BY DEF Status
  <1>2. rx' = rx /\ peer_fin' = peer_fin
    OBVIOUS
  <1>3. Promise!Fail
    BY <1>1, <1>2, Zenon DEF Promise!Fail
  <1> QED BY <1>3 DEF Promise!Next

LEMMA SameStep ==
    ASSUME UNCHANGED <<state, receiver>>
    PROVE  UNCHANGED Visible
  <1>1. Status' = Status
    BY DEF Status
  <1>2. rx' = rx /\ peer_fin' = peer_fin
    OBVIOUS
  <1> QED BY <1>1, <1>2, Zenon DEF Visible

\* tcp_start opens a stream.
LEMMA StartStep == ASSUME Start PROVE Promise!Next
  <1>1. PICK data \in Files, s \in Isns, valid \in BOOLEAN : TcpStart(data, s, valid)
    BY DEF Start
  <1>2. Status # "open"
    BY DEF Start, Status
  <1>3. rx' = <<>> /\ peer_fin' = FALSE /\ state' \in {"SYN_SENT", "FAILED"}
    BY <1>1 DEF TcpStart, StartValid, StartInvalid, ClearConnection
  <1>4. Promise!Open(state' = "SYN_SENT")
    BY <1>2, <1>3 DEF Promise!Open, Status
  <1>5. (state' = "SYN_SENT") \in BOOLEAN
    OBVIOUS
  <1> QED BY <1>4, <1>5 DEF Promise!Next

\* tcp_input appends to the stream, ends it or fails it.
LEMMA ReceiveStep ==
    ASSUME TypeOK, SenderInv, NEW m, IsSegment(m), NEW e \in BOOLEAN,
           Synchronized, Receive(m, e)
    PROVE  Promise!Next \/ UNCHANGED Visible
  <1>1. CASE UNCHANGED <<state, receiver>>
    BY <1>1, SameStep
  <1>2. CASE state' = "FAILED" /\ UNCHANGED receiver
    BY <1>2, FailStep DEF Synchronized
  <1>3. CASE /\ InOrder(m) /\ Fits(m)
             /\ rx' = rx \o Fresh(m) /\ peer_fin' = ("FIN" \in m.flags)
             /\ UNCHANGED state
    <2>1. ~ peer_fin
      BY <1>3 DEF InOrder
    <2>2. Status = "open" /\ Status' = Status
      BY <1>3, <2>1 DEF Status, Synchronized, SenderInv
    <2>3. Fresh(m) \in Chunks /\ Len(rx) + Len(Fresh(m)) <= TCP_BUFFER
      BY <1>3, FreshChunk
    <2>4. Promise!Deliver(Fresh(m), "FIN" \in m.flags)
      BY <1>3, <2>1, <2>2, <2>3 DEF Promise!Deliver
    <2>5. ("FIN" \in m.flags) \in BOOLEAN
      OBVIOUS
    <2> QED BY <2>3, <2>4, <2>5 DEF Promise!Next
  <1> HIDE DEF receiver
  <1> QED BY <1>1, <1>2, <1>3 DEF Receive, Abort

LEMMA InputStep ==
    ASSUME TypeOK, SenderInv, Input PROVE Promise!Next \/ UNCHANGED Visible
  <1>1. PICK m \in Segments, e \in BOOLEAN : TcpInput(m, e)
    BY DEF Input
  <1>2. state # "IDLE"
    BY DEF Input
  <1>3. CASE InputIgnored(m) \/ InputChallenged(m)
    BY <1>3, SameStep DEF InputIgnored, InputChallenged
  <1>4. CASE InputRefused(m) \/ InputReset(m)
    BY <1>2, <1>4, FailStep DEF InputRefused, InputReset, Abort
  <1>5. CASE InputSynAck(m)
    <2>1. Status = "open" /\ Status' = "open" /\ rx' = rx /\ peer_fin' = peer_fin
      BY <1>5 DEF InputSynAck, Establishes, Status
    <2> QED BY <2>1 DEF Visible
  <1>6. CASE InputDuplicateAck(m, e)
    <2>1. UNCHANGED receiver
      BY <1>6 DEF InputDuplicateAck
    <2>2. CASE Loss(FALSE, {}, e)
      <3>1. state' \in {state, "FAILED"}
        BY <2>2, LossSame
      <3> QED BY <1>2, <2>1, <3>1, FailStep, SameStep
    <2>3. CASE UNCHANGED state
      BY <2>1, <2>3, SameStep
    <2> QED BY <1>6, <2>2, <2>3 DEF InputDuplicateAck
  <1>7. CASE InputAccepted(m, e)
    BY <1>1, <1>7, ReceiveStep, InputsAssumption DEF InputAccepted, Processed
  <1> QED BY <1>1, <1>3, <1>4, <1>5, <1>6, <1>7 DEF TcpInput

\* tcp_tick completes the stream or fails it.
LEMMA TickStep ==
    ASSUME TypeOK, Tick PROVE Promise!Next \/ UNCHANGED Visible
  <1>1. PICK f \in BOOLEAN, e \in BOOLEAN : TcpTick(f, e)
    BY DEF Tick
  <1>2. CASE TickExpired(e)
    BY <1>2, FailStep DEF TickExpired, Abort, Active
  <1>3. CASE TickDone(f) \/ TickProbe(f) \/ TickIdle(f, e) \/ TickSyn(f)
    BY <1>3, SameStep DEF TickDone, TickProbe, TickIdle, TickSyn
  <1>4. CASE TickRto(f, e)
    <2>1. UNCHANGED receiver /\ state # "IDLE" /\ Loss(TRUE, Flushed(f), e)
      BY <1>4 DEF TickRto, Active
    <2>2. state' \in {state, "FAILED"}
      BY <2>1, LossSame
    <2> QED BY <2>1, <2>2, FailStep, SameStep
  <1>5. CASE TickClose(f)
    <2>1. Status = "open" /\ Status' = "done" /\ peer_fin
      BY <1>5 DEF TickClose, Active, CloseDue, Status
    <2>2. rx' = rx /\ peer_fin' = peer_fin
      BY <1>5 DEF TickClose
    <2>3. Promise!Complete
      BY <2>1, <2>2, Zenon DEF Promise!Complete
    <2> QED BY <2>3 DEF Promise!Next
  <1>6. CASE TickSend(f) \/ TickFin(f)
    <2>1. state \in {"ESTABLISHED", "CLOSING"} /\ state' \in {"ESTABLISHED", "CLOSING"}
      BY <1>6 DEF TickSend, TickFin, Running, Active, SendDue, FinDue, MaySend
    <2>2. rx' = rx /\ peer_fin' = peer_fin
      BY <1>6 DEF TickSend, TickFin, Enqueue
    <2>3. Status' = Status
      BY <2>1 DEF Status
    <2> QED BY <2>2, <2>3, Zenon DEF Visible
  <1> QED BY <1>1, <1>2, <1>3, <1>4, <1>5, <1>6 DEF TcpTick

\* Whatever arrives and whatever fails, the user of a connection sees a stream
\* that grows, ends once and is complete when the connection is DONE.
THEOREM TcpImplementsStream == Spec => ImplementsStream
  <1>1. Init => Promise!Init
    BY DEF Init, Promise!Init, Status
  <1>2. TypeOK /\ SenderInv /\ [Next]_vars => Promise!Next \/ UNCHANGED Visible
    <2> SUFFICES ASSUME TypeOK, SenderInv, [Next]_vars
                 PROVE  Promise!Next \/ UNCHANGED Visible
      OBVIOUS
    <2>1. CASE Start
      BY <2>1, StartStep
    <2>2. CASE Input
      BY <2>2, InputStep
    <2>3. CASE Tick
      BY <2>3, TickStep
    <2>4. CASE Cancel
      BY <2>4, FailStep DEF Cancel, TcpAbort, Abort
    <2>5. CASE Advance
      BY <2>5, SameStep DEF Advance
    <2>6. CASE UNCHANGED vars
      BY <2>6, SameStep DEF vars
    <2> QED BY <2>1, <2>2, <2>3, <2>4, <2>5, <2>6 DEF Next
  <1>3. TypeOK /\ SenderInv /\ [Next]_vars => [Promise!Next]_(Promise!vars)
    BY <1>2 DEF Promise!vars, Visible
  <1> QED BY <1>1, <1>3, TypeCorrect, SenderCorrect, PTL
       DEF Spec, ImplementsStream, Promise!Spec
-----------------------------------------------------------------------------
(* The segments that are emitted.                                          *)

USE DEF Slots, Seqs, SeqSpace, ZERO

\* What EmitsStream says of one segment o, for a base b, a file t of which off
\* bytes were sent, and a FIN.
Honest(o, b, t, off, fin) ==
    \A k \in 1 .. Len(o.data) :
        LET p == SeqSub(o.seq, b) + k - 1 IN
        \/ p = 0
        \/ p <= off /\ o.data[k] = t[p]
        \/ fin /\ p = Len(t) + 1 /\ Len(o.data) = 1

LEMMA EmptyHonest ==
    ASSUME NEW q, NEW f, NEW b, NEW t, NEW off, NEW fin
    PROVE  Honest(Output(q, f, <<>>), b, t, off, fin)
  <1>1. Output(q, f, <<>>).data = <<>>
    BY DEF Output
  <1> QED BY <1>1 DEF Honest

\* A segment of the queue carries the bytes of its offset.
LEMMA SegmentHonest ==
    ASSUME NEW s, NEW b, NEW off \in Nat, NEW fin,
           tx \in Seq(Byte), off <= Len(tx), s.length \in Nat, s.offset \in Nat,
           s.length # 0 => /\ SeqSub(s.sequence, b) = s.offset + 1
                           /\ s.offset + s.length <= off
    PROVE  Honest(OutputSegment(s), b, tx, off, fin)
  <1> DEFINE d == SubSeq(tx, s.offset + 1, s.offset + s.length)
             o == OutputSegment(s)
  <1>1. o.data = d /\ o.seq = s.sequence
    BY DEF OutputSegment, Output
  <1>2. Len(tx) \in Nat
    BY LenProperties
  <1>3. CASE s.length = 0
    <2>1. d = <<>>
      BY <1>2, <1>3, SubSeqProperties
    <2> HIDE DEF d
    <2>2. Len(o.data) = 0
      BY <1>1, <2>1
    <2> HIDE DEF o
    <2> QED BY <2>2 DEF Honest, o
  <1>4. CASE s.length # 0
    <2>1. s.offset + 1 \in 1 .. Len(tx) + 1 /\ s.offset + s.length \in s.offset .. Len(tx)
      BY <1>2, <1>4
    <2>2. /\ Len(d) = s.length
          /\ \A k \in 1 .. s.length : d[k] = tx[s.offset + k]
      <3> DEFINE m == s.offset + 1
                 n == s.offset + s.length
      <3>1. m \in Int /\ n \in Int /\ m <= n /\ n - m + 1 = s.length
        BY <1>4
      <3>2. \A i \in m .. n : tx[i] \in Byte
        BY <1>2, <2>1, ElementOfSeq
      <3>3. \A k \in 1 .. s.length : m + k - 1 = s.offset + k
        OBVIOUS
      <3> HIDE DEF m, n
      <3>4. /\ Len(SubSeq(tx, m, n)) = s.length
            /\ \A k \in 1 .. s.length : SubSeq(tx, m, n)[k] = tx[m + k - 1]
        BY <3>1, <3>2, SubSeqProperties
      <3>5. d = SubSeq(tx, m, n)
        BY DEF m, n
      <3> HIDE DEF d
      <3> QED BY <3>3, <3>4, <3>5
    <2> HIDE DEF d, o
    <2>3. ASSUME NEW k \in 1 .. s.length
          PROVE  SeqSub(s.sequence, b) + k - 1 = s.offset + k /\ s.offset + k <= off
      BY <1>4
    <2> QED BY <1>1, <2>2, <2>3 DEF Honest, o
  <1> QED BY <1>3, <1>4

\* A probe repeats the byte, or the FIN, before next.
LEMMA ProbeHonest ==
    ASSUME TypeOK, Late
    PROVE  Honest(ProbeSegment, isn, tx, tx_offset, own_fin)
  <1>1. /\ isn \in Seqs /\ next \in Seqs /\ tx_offset \in Nat /\ tx_offset <= Len(tx)
        /\ Len(tx) \in Nat /\ own_fin \in BOOLEAN
    BY LenProperties DEF TypeOK
  <1>2. /\ Rel(next) \in Nat /\ 1 <= Rel(next)
        /\ own_fin => Rel(next) = Len(tx) + 2
        /\ ~ own_fin => Rel(next) = tx_offset + 1
    BY LateBounds DEF Late, Bounds
  <1>3. SeqSub(SeqSub(next, 1), isn) = Rel(next) - 1
    BY <1>1, <1>2, ConstantsAssumption DEF SeqSub, Rel
  <1>4. /\ ProbeSegment.data = <<ProbeByte>> /\ ProbeSegment.seq = SeqSub(next, 1)
        /\ Len(<<ProbeByte>>) = 1 /\ <<ProbeByte>>[1] = ProbeByte
    BY DEF ProbeSegment, Output
  <1> SUFFICES \/ Rel(next) - 1 = 0
               \/ Rel(next) - 1 <= tx_offset /\ ProbeByte = tx[Rel(next) - 1]
               \/ own_fin /\ Rel(next) - 1 = Len(tx) + 1
    BY <1>2, <1>3, <1>4 DEF Honest
  <1> QED BY <1>1, <1>2 DEF ProbeByte

AllHonest(S) == \A o \in S : Honest(o, isn, tx, tx_offset, own_fin)

LEMMA FlushedHonest ==
    ASSUME NEW f, NEW b, NEW t, NEW off, NEW fin, NEW o \in Flushed(f)
    PROVE  Honest(o, b, t, off, fin)
  BY EmptyHonest DEF Flushed

LEMMA AbortHonest ==
    ASSUME NEW r, NEW sent, NEW e, Abort(r, sent, e), AllHonest(sent)
    PROVE  AllHonest(out')
  BY EmptyHonest DEF Abort, AllHonest

LEMMA LossHonest ==
    ASSUME TypeOK, SenderInv, NEW timeout, NEW sent, NEW e, Loss(timeout, sent, e),
           AllHonest(sent)
    PROVE  AllHonest(out')
  <1>1. PICK i \in Slots : /\ IsOldest(i)
                          /\ \/ LossGivesUp(i, sent, e) \/ LossDeferred(i, sent, e)
                             \/ LossRetransmits(i, timeout, sent, e)
    BY DEF Loss
  <1>2. CASE LossGivesUp(i, sent, e)
    BY <1>2, AbortHonest DEF LossGivesUp
  <1>3. CASE LossDeferred(i, sent, e)
    BY <1>3 DEF LossDeferred
  <1>4. CASE LossRetransmits(i, timeout, sent, e)
    <2>1. out' = sent \cup {OutputSegment(pending[i])}
      BY <1>4 DEF LossRetransmits
    <2>2. i \in Used /\ QueueMatchesStream
      BY <1>1, StreamFromInv DEF IsOldest
    <2>3. pending[i].length \in Nat /\ pending[i].offset \in Nat
      BY DEF TypeOK, SegmentType
    <2>4. pending[i].length # 0 => /\ SeqSub(pending[i].sequence, isn) = pending[i].offset + 1
                                   /\ pending[i].offset + pending[i].length <= tx_offset
      BY <2>2 DEF QueueMatchesStream, Rel
    <2>5. tx \in Seq(Byte) /\ tx_offset \in Nat /\ tx_offset <= Len(tx)
      BY LenProperties DEF TypeOK
    <2>6. Honest(OutputSegment(pending[i]), isn, tx, tx_offset, own_fin)
      BY <2>3, <2>4, <2>5, SegmentHonest
    <2> QED BY <2>1, <2>6 DEF AllHonest
  <1> QED BY <1>1, <1>2, <1>3, <1>4

\* A step that does not move the sender emits honest segments of the old state.
LEMMA StillHonest ==
    ASSUME UNCHANGED <<isn, tx, tx_offset, own_fin>>, AllHonest(out')
    PROVE  EmitsStream'
  BY DEF AllHonest, Honest, EmitsStream, Rel

\* A new segment is honest in the state it leads to.
LEMMA EnqueueHonest ==
    ASSUME TypeOK, NEW f \in BOOLEAN, NEW s \in SegmentType, Enqueue(s, f),
           s.sequence = next, s.offset = tx_offset, s.length <= Len(tx) - tx_offset,
           s.length # 0 => SeqSub(next, isn) = tx_offset + 1
    PROVE  EmitsStream'
  <1>1. /\ tx \in Seq(Byte) /\ Len(tx) \in Nat /\ tx_offset \in Nat /\ tx_offset <= Len(tx)
        /\ s.length \in Nat /\ isn' = isn /\ tx' = tx /\ tx_offset' = tx_offset + s.length
        /\ out' = Flushed(f) \cup {OutputSegment(s)}
    BY LenProperties DEF TypeOK, SegmentType, Enqueue, transfer
  <1>2. tx_offset' \in Nat /\ tx_offset' <= Len(tx)
    BY <1>1
  <1>3. Honest(OutputSegment(s), isn, tx, tx_offset', own_fin')
    BY <1>1, <1>2, SegmentHonest
  <1>4. \A o \in out' : Honest(o, isn, tx, tx_offset', own_fin')
    BY <1>1, <1>3, FlushedHonest
  <1> QED BY <1>1, <1>4 DEF Honest, EmitsStream, Rel

LEMMA InputEmits ==
    ASSUME TypeOK, SenderInv, Input PROVE EmitsStream'
  <1>1. PICK m \in Segments, e \in BOOLEAN : TcpInput(m, e)
    BY DEF Input
  <1>2. AllHonest({})
    BY DEF AllHonest
  <1>3. CASE InputIgnored(m) \/ InputSynAck(m) \/ InputReset(m) \/ InputChallenged(m)
    BY <1>3 DEF InputIgnored, InputSynAck, InputReset, InputChallenged, EmitsStream
  <1>4. CASE InputRefused(m)
    BY <1>2, <1>4, AbortHonest, StillHonest DEF InputRefused, transfer, sender
  <1>5. CASE InputDuplicateAck(m, e)
    <2>1. UNCHANGED <<isn, tx, tx_offset, own_fin>>
      BY <1>5 DEF InputDuplicateAck, transfer, sender
    <2>2. CASE Loss(FALSE, {}, e)
      BY <1>2, <2>1, <2>2, LossHonest, StillHonest
    <2>3. CASE out' = {}
      BY <2>3 DEF EmitsStream
    <2> QED BY <1>5, <2>2, <2>3 DEF InputDuplicateAck
  <1>6. CASE InputAccepted(m, e)
    <2>1. UNCHANGED <<isn, tx, tx_offset, own_fin>>
      BY <1>6 DEF InputAccepted, Acknowledge, transfer, sender
    <2>2. AllHonest(out')
      BY <1>2, <1>6, AbortHonest DEF InputAccepted, Receive
    <2> QED BY <2>1, <2>2, StillHonest
  <1> QED BY <1>1, <1>3, <1>4, <1>5, <1>6 DEF TcpInput

LEMMA TickEmits ==
    ASSUME TypeOK, SenderInv, Tick PROVE EmitsStream'
  <1>1. PICK f \in BOOLEAN, e \in BOOLEAN : TcpTick(f, e)
    BY DEF Tick
  <1>2. AllHonest({}) /\ AllHonest(Flushed(f))
    BY FlushedHonest DEF AllHonest
  <1>3. CASE TickExpired(e)
    BY <1>2, <1>3, AbortHonest, StillHonest DEF TickExpired, transfer, sender
  <1>4. CASE TickDone(f) \/ TickClose(f) \/ TickIdle(f, e)
    BY <1>2, <1>4, StillHonest DEF TickDone, TickClose, TickIdle, transfer, sender
  <1>5. CASE TickRto(f, e)
    <2>1. UNCHANGED <<isn, tx, tx_offset, own_fin>> /\ Loss(TRUE, Flushed(f), e)
      BY <1>5 DEF TickRto, transfer, sender
    <2> QED BY <1>2, <2>1, LossHonest, StillHonest
  <1>6. CASE TickSyn(f)
    <2> DEFINE s == Segment("SYN", isn, 0, 0)
    <2>1. /\ UNCHANGED <<isn, tx, tx_offset, own_fin>>
          /\ out' = Flushed(f) \cup {OutputSegment(s)}
      BY <1>6 DEF TickSyn, transfer, sender
    <2>2. s.length = 0 /\ s.offset = 0
      BY DEF Segment
    <2> HIDE DEF s
    <2>3. tx \in Seq(Byte) /\ tx_offset \in Nat /\ tx_offset <= Len(tx)
      BY LenProperties DEF TypeOK
    <2>4. Honest(OutputSegment(s), isn, tx, tx_offset, own_fin)
      BY <2>2, <2>3, SegmentHonest
    <2>5. AllHonest(out')
      BY <1>2, <2>1, <2>4 DEF AllHonest
    <2> QED BY <2>1, <2>5, StillHonest
  <1>7. CASE TickProbe(f)
    <2>1. /\ UNCHANGED <<isn, tx, tx_offset, own_fin>>
          /\ out' = Flushed(f) \cup {ProbeSegment} /\ state \in {"ESTABLISHED", "CLOSING"}
      BY <1>7 DEF TickProbe, ProbeDue, Running, Active, transfer, sender
    <2>2. Honest(ProbeSegment, isn, tx, tx_offset, own_fin)
      BY <2>1, LateWhen, ProbeHonest
    <2>3. AllHonest(out')
      BY <1>2, <2>1, <2>2 DEF AllHonest
    <2> QED BY <2>1, <2>3, StillHonest
  <1>8. CASE TickSend(f)
    <2> DEFINE s == Segment("DATA", next, tx_offset, SendLength)
    <2>1. /\ Enqueue(s, f) /\ SendDue /\ own_fin = FALSE
          /\ state \in {"ESTABLISHED", "CLOSING"}
      BY <1>8 DEF TickSend, Running, Active, SendDue, MaySend, TypeOK
    <2>2. /\ s \in SegmentType /\ s.sequence = next /\ s.offset = tx_offset
          /\ s.length <= Len(tx) - tx_offset
      BY <2>1, SendLengthType, ConstantsAssumption, LenProperties, SMTT(60)
         DEF Segment, SegmentType, TypeOK
    <2>3. SeqSub(next, isn) = tx_offset + 1
      BY <2>1, LateWhen DEF Late, Bounds, Rel
    <2> HIDE DEF s
    <2> QED BY <2>1, <2>2, <2>3, EnqueueHonest
  <1>9. CASE TickFin(f)
    <2> DEFINE s == Segment("FIN", next, tx_offset, 0)
    <2>1. Enqueue(s, f)
      BY <1>9 DEF TickFin
    <2>2. /\ s \in SegmentType /\ s.sequence = next /\ s.offset = tx_offset
          /\ s.length = 0 /\ s.length <= Len(tx) - tx_offset
      BY ConstantsAssumption, LenProperties DEF Segment, SegmentType, TypeOK
    <2> HIDE DEF s
    <2> QED BY <2>1, <2>2, EnqueueHonest
  <1> QED BY <1>1, <1>3, <1>4, <1>5, <1>6, <1>7, <1>8, <1>9 DEF TcpTick

\* Every byte that tcp.c puts on the wire, in a first transmission, in a
\* retransmission of a trimmed segment or in a probe, is the file's byte of that
\* sequence number.
THEOREM EmitsStreamAlways == Spec => []EmitsStream
  <1>1. Init => EmitsStream
    BY DEF Init, EmitsStream
  <1>2. TypeOK /\ SenderInv /\ EmitsStream /\ [Next]_vars => EmitsStream'
    <2> SUFFICES ASSUME TypeOK, SenderInv, EmitsStream, [Next]_vars PROVE EmitsStream'
      OBVIOUS
    <2>1. CASE Start
      BY <2>1 DEF Start, TcpStart, StartValid, StartInvalid, EmitsStream
    <2>2. CASE Input
      BY <2>2, InputEmits
    <2>3. CASE Tick
      BY <2>3, TickEmits
    <2>4. CASE Cancel
      <3>1. AllHonest({})
        BY DEF AllHonest
      <3> QED BY <2>4, <3>1, AbortHonest, StillHonest DEF Cancel, TcpAbort, transfer, sender
    <2>5. CASE Advance
      BY <2>5 DEF Advance, EmitsStream
    <2>6. CASE UNCHANGED vars
      BY <2>6 DEF vars, transfer, sender, EmitsStream, Rel
    <2> QED BY <2>1, <2>2, <2>3, <2>4, <2>5, <2>6 DEF Next
  <1> QED BY <1>1, <1>2, TypeCorrect, SenderCorrect, PTL DEF Spec
-----------------------------------------------------------------------------
(* The windows.                                                            *)

\* A connection that was started has a segment size: no later call looks like
\* a step of the same transfer and clears it.
MssInv == state \in {"SYN_SENT", "ESTABLISHED", "CLOSING", "DONE"} => mss # 0

LEMMA MssNext == ASSUME TypeOK, MssInv, [Next]_vars PROVE MssInv'
  <1>1. CASE UNCHANGED transfer /\ state' \in {state, "FAILED"}
    BY <1>1 DEF MssInv, transfer
  <1>2. CASE Start
    <2>1. state' = "FAILED" \/ mss' = TCP_MSS
      BY <1>2 DEF Start, TcpStart, StartValid, StartInvalid
    <2> QED BY <2>1, ConstantsAssumption DEF MssInv
  <1>3. CASE Input
    <2>1. PICK m \in Segments, e \in BOOLEAN : TcpInput(m, e)
      BY <1>3 DEF Input
    <2>2. CASE InputSynAck(m)
      BY <2>1, <2>2, ConstantsAssumption, MessageType, InputsAssumption
         DEF InputSynAck, Establishes, Min2, MssInv
    <2>3. CASE InputIgnored(m) \/ InputRefused(m) \/ InputReset(m) \/ InputChallenged(m)
      BY <1>1, <2>3 DEF InputIgnored, InputRefused, InputReset, InputChallenged, Abort
    <2>4. CASE InputDuplicateAck(m, e)
      BY <1>1, <2>4, LossSame DEF InputDuplicateAck
    <2>5. CASE InputAccepted(m, e)
      BY <1>1, <2>5, ReceiveSame DEF InputAccepted
    <2> QED BY <2>1, <2>2, <2>3, <2>4, <2>5 DEF TcpInput
  <1>4. CASE Tick
    <2>1. PICK f \in BOOLEAN, e \in BOOLEAN : TcpTick(f, e)
      BY <1>4 DEF Tick
    <2>2. CASE TickExpired(e) \/ TickDone(f) \/ TickProbe(f) \/ TickIdle(f, e) \/ TickSyn(f)
      BY <1>1, <2>2 DEF TickExpired, Abort, TickDone, TickProbe, TickIdle, TickSyn
    <2>3. CASE TickRto(f, e)
      BY <1>1, <2>3, LossSame DEF TickRto
    <2>4. CASE TickClose(f) \/ TickSend(f) \/ TickFin(f)
      BY <2>4 DEF TickClose, TickSend, TickFin, Enqueue, Running, Active, MssInv, transfer
    <2> QED BY <2>1, <2>2, <2>3, <2>4 DEF TcpTick
  <1>5. CASE Cancel \/ Advance \/ UNCHANGED vars
    BY <1>1, <1>5 DEF Cancel, TcpAbort, Abort, Advance, vars
  <1> QED BY <1>2, <1>3, <1>4, <1>5 DEF Next

LEMMA MssAlways == Spec => []MssInv
  <1>1. Init => MssInv
    BY DEF Init, MssInv
  <1>2. TypeOK /\ MssInv /\ [Next]_vars => MssInv'
    BY MssNext
  <1> QED BY <1>1, <1>2, TypeCorrect, PTL DEF Spec

\* A new transfer is told from a step of the same one.
LEMMA StartsAnew ==
    ASSUME MssInv, Synchronized, SameTransfer, Start PROVE FALSE
  <1>1. mss' = 0 \/ state' = "SYN_SENT"
    BY DEF Start, TcpStart, StartValid, StartInvalid
  <1> QED BY <1>1 DEF MssInv, Synchronized, SameTransfer, transfer

\* A new segment takes one more slot.
LEMMA EnqueueCount ==
    ASSUME TypeOK, NEW f \in BOOLEAN, NEW s \in SegmentType, Enqueue(s, f), s.used
    PROVE  Cardinality(Used') = Inflight + 1
  <1>1. PICK i \in Slots : FirstFree(i) /\ pending' = [pending EXCEPT ![i] = s]
    BY DEF Enqueue
  <1>2. i \notin Used /\ Used' = Used \cup {i}
    BY <1>1 DEF FirstFree, Used, TypeOK
  <1>3. IsFiniteSet(Used)
    <2>1. IsFiniteSet(Slots)
      BY FS_Interval, ConstantsAssumption
    <2> QED BY <2>1, FS_Subset DEF Used
  <1> QED BY <1>2, <1>3, FS_AddElement DEF Inflight

LEMMA InflightType == ASSUME TypeOK PROVE Inflight \in Nat
  <1>1. IsFiniteSet(Slots)
    BY FS_Interval, ConstantsAssumption
  <1>2. IsFiniteSet(Used)
    BY <1>1, FS_Subset DEF Used
  <1> QED BY <1>2, FS_CardinalityType DEF Inflight

\* The new segment lies in the window if its positions do.
LEMMA EnqueueInWindow ==
    ASSUME TypeOK, Late, NEW f \in BOOLEAN, NEW s \in SegmentType, Enqueue(s, f), s.used,
           s.length <= Len(tx) - tx_offset,
           Outstanding + SequenceSize(s) <= peer_window, Inflight < cwnd
    PROVE  SeqSub(next', una) <= peer_window /\ Cardinality(Used') <= cwnd
  <1>1. /\ una \in Seqs /\ next \in Seqs /\ isn \in Seqs /\ Len(tx) \in Nat
        /\ Len(tx) <= TCP_BUFFER /\ tx_offset \in Nat /\ s.length \in Nat /\ cwnd \in Nat
    BY LenProperties DEF TypeOK, SegmentType
  <1>2. SequenceSize(s) \in 0 .. TCP_BUFFER + 1
    BY <1>1, ConstantsAssumption DEF SequenceSize
  <1>3. next' = SeqAdd(next, SequenceSize(s))
    BY DEF Enqueue
  <1>4. /\ Rel(una) \in Nat /\ Rel(una) <= Rel(next) /\ Rel(next) \in Nat
        /\ Rel(next) <= tx_offset + 2 /\ Rel(next) < SeqHalf
    BY LateBounds, ConstantsAssumption DEF Late, Bounds
  <1>5. SeqSub(next', una) = SeqSub(next, una) + SequenceSize(s)
    <2>1. SeqSub(next, una) = Rel(next) - Rel(una)
      BY <1>1, <1>4, RelBefore, ConstantsAssumption DEF Rel
    <2>2. SeqSub(next, una) + SequenceSize(s) < SeqHalf
      BY <1>1, <1>2, <1>4, <2>1, ConstantsAssumption, SMTT(60) DEF SequenceSize
    <2> QED BY <1>1, <1>2, <1>3, <2>2, RelAdd
  <1>6. Cardinality(Used') = Inflight + 1
    BY EnqueueCount
  <1> QED BY <1>1, <1>5, <1>6, InflightType DEF Outstanding

\* The steps that use new sequence numbers.
LEMMA SendStep ==
    ASSUME TypeOK, SenderInv, MssInv, [Next]_vars, Synchronized, SameTransfer, next' # next
    PROVE  SeqSub(next', una) <= peer_window /\ Cardinality(Used') <= cwnd
  <1>1. PICK f \in BOOLEAN : TickSend(f) \/ TickFin(f)
    <2>1. ~ Start
      BY StartsAnew
    <2>2. ~ Input
      BY DEF Input, TcpInput, InputIgnored, InputRefused, InputSynAck, InputReset,
             InputChallenged, InputDuplicateAck, InputAccepted, Acknowledge, Synchronized,
             sender
    <2>3. ~ Cancel /\ ~ Advance /\ ~ UNCHANGED vars
      BY DEF Cancel, TcpAbort, Advance, vars, sender
    <2>4. Tick
      BY <2>1, <2>2, <2>3 DEF Next
    <2> QED BY <2>4 DEF Tick, TcpTick, TickExpired, TickDone, TickRto, TickClose, TickSyn,
               SynDue, Synchronized, TickProbe, TickIdle, sender
  <1>2. /\ peer_window \in Nat /\ Len(tx) \in Nat /\ Outstanding \in Int /\ mss \in Nat
        /\ tx_offset \in Nat
    BY ConstantsAssumption, LenProperties DEF TypeOK, Outstanding, SeqSub
  <1>3. Late
    BY <1>1, LateWhen DEF Synchronized
  <1>4. CASE TickSend(f)
    <2> DEFINE s == Segment("DATA", next, tx_offset, SendLength)
    <2>1. Enqueue(s, f) /\ SendDue /\ Inflight < cwnd
      BY <1>4 DEF TickSend, SendDue, MaySend
    <2>2. SendLength \in Nat /\ SendLength <= Len(tx) - tx_offset
      BY <1>4, SendLengthType DEF TickSend
    <2>3. SendLength <= peer_window - Outstanding
      BY <1>2, <2>2 DEF SendLength, Min2
    <2>4. s \in SegmentType /\ s.used /\ s.length = SendLength /\ s.kind = "DATA"
      BY <2>2, ConstantsAssumption, LenProperties DEF Segment, SegmentType, TypeOK
    <2> HIDE DEF s
    <2>5. Outstanding + SequenceSize(s) <= peer_window
      BY <1>2, <2>2, <2>3, <2>4 DEF SequenceSize
    <2> QED BY <1>3, <2>1, <2>2, <2>4, <2>5, EnqueueInWindow
  <1>5. CASE TickFin(f)
    <2> DEFINE s == Segment("FIN", next, tx_offset, 0)
    <2>1. Enqueue(s, f) /\ Inflight < cwnd /\ Outstanding < peer_window
      BY <1>5 DEF TickFin, FinDue, MaySend
    <2>2. s \in SegmentType /\ s.used /\ s.length = 0 /\ s.kind = "FIN"
      BY ConstantsAssumption, LenProperties DEF Segment, SegmentType, TypeOK
    <2> HIDE DEF s
    <2>3. Outstanding + SequenceSize(s) <= peer_window /\ s.length <= Len(tx) - tx_offset
      BY <1>2, <2>1, <2>2 DEF SequenceSize, TypeOK
    <2> QED BY <1>3, <2>1, <2>2, <2>3, EnqueueInWindow
  <1> QED BY <1>1, <1>4, <1>5

\* tcp_tick takes new sequence numbers only inside the peer's window, and no more
\* segments are outstanding than the congestion window allows.
THEOREM SendsInWindowAlways == Spec => SendsInWindow
  <1>1. TypeOK /\ SenderInv /\ MssInv /\ [Next]_vars =>
          [Synchronized /\ SameTransfer /\ next' # next =>
             SeqSub(next', una) <= peer_window /\ Cardinality(Used') <= cwnd]_vars
    BY SendStep
  <1> QED BY <1>1, TypeCorrect, SenderCorrect, MssAlways, PTL DEF Spec, SendsInWindow

\* What ReceiverAdvances says of a step.
Receives ==
    /\ Len(rx) <= Len(rx') /\ SubSeq(rx', 1, Len(rx)) = rx
    /\ peer_fin => rx' = rx /\ receive_next' = receive_next
    /\ ~ Before(Edge', Edge)

LEMMA EdgeType ==
    ASSUME TypeOK PROVE /\ Window \in 0 .. RCV_WND /\ Edge \in Seqs
  <1>1. Len(rx) \in Nat /\ Len(rx) <= TCP_BUFFER /\ receive_next \in Seqs
    BY LenProperties DEF TypeOK
  <1>2. Window \in 0 .. RCV_WND
    BY <1>1, ConstantsAssumption DEF Window, Min2
  <1> QED BY <1>1, <1>2, ConstantsAssumption DEF Edge, SeqAdd

\* The buffer gains n bytes and the sequence number k.
LEMMA WindowLoss ==
    ASSUME NEW r \in Nat, NEW b \in Nat, NEW l \in Nat, NEW n \in Nat, NEW k \in Nat,
           n <= k, k <= n + 1, n + l <= b
    PROVE  k + Min2(r, b + 1 - (l + n)) - Min2(r, b + 1 - l) \in 0 .. b + 1
  BY DEF Min2

LEMMA AddTwice ==
    ASSUME NEW x \in Seqs, NEW k \in Nat, NEW l \in Nat, k + l < SeqHalf
    PROVE  SeqAdd(SeqAdd(x, k), l) = SeqAdd(x, k + l)
  BY ConstantsAssumption DEF SeqAdd

LEMMA WindowRoom ==
    ASSUME NEW k \in Nat, NEW w \in Nat, k <= TCP_BUFFER + 1, w <= RCV_WND
    PROVE  k + w < SeqHalf
  BY ConstantsAssumption

LEMMA NothingReceived == ASSUME TypeOK, UNCHANGED receiver PROVE Receives
  <1>1. Edge' = Edge /\ Edge \in Seqs
    BY EdgeType DEF Edge, Window
  <1>2. ~ Before(Edge, Edge)
    BY <1>1, ConstantsAssumption DEF Before, SeqSub
  <1>3. rx \in Seq(Byte) /\ Len(rx) \in Nat /\ rx' = rx /\ receive_next' = receive_next
    BY LenProperties DEF TypeOK
  <1>4. SubSeq(rx, 1, Len(rx)) = rx
    BY <1>3
  <1> QED BY <1>1, <1>2, <1>3, <1>4 DEF Receives

\* The window loses at most what the buffer gains.
LEMMA Received ==
    ASSUME TypeOK, NEW m, IsSegment(m), NEW e \in BOOLEAN, Receive(m, e)
    PROVE  Receives
  <1>1. CASE UNCHANGED receiver
    BY <1>1, NothingReceived
  <1>2. CASE /\ InOrder(m) /\ Fits(m)
             /\ rx' = rx \o Fresh(m)
             /\ receive_next' = SeqAdd(receive_next, Len(Fresh(m)) +
                                   (IF "FIN" \in m.flags THEN 1 ELSE 0))
    <2> DEFINE n == Len(Fresh(m))
               k == n + (IF "FIN" \in m.flags THEN 1 ELSE 0)
    <2>1. Fresh(m) \in Seq(Byte) /\ n \in Nat
      BY FreshType
    <2>2. /\ rx \in Seq(Byte) /\ Len(rx) \in Nat /\ n + Len(rx) <= TCP_BUFFER
          /\ receive_next \in Seqs
      BY <1>2, <2>1, LenProperties, ConstantsAssumption DEF TypeOK, Fits
    <2>3. Len(rx') = Len(rx) + n /\ SubSeq(rx', 1, Len(rx)) = rx
      BY <1>2, <2>1, <2>2
    <2>4. k \in Nat /\ n <= k /\ k <= n + 1
      BY <2>1
    <2>5. receive_next' = SeqAdd(receive_next, k)
      BY <1>2
    <2> HIDE DEF n, k
    <2>6. PICK d \in 0 .. TCP_BUFFER + 1 : k + Window' = Window + d
      <3>1. Window' = Min2(RCV_WND, TCP_BUFFER + 1 - Len(rx'))
        BY DEF Window
      <3>2. Window = Min2(RCV_WND, TCP_BUFFER + 1 - Len(rx))
        BY DEF Window
      <3>3. k + Window' - Window \in 0 .. TCP_BUFFER + 1
        BY <2>1, <2>2, <2>3, <2>4, <3>1, <3>2, WindowLoss, ConstantsAssumption
      <3>4. Window \in Int /\ Window' \in Int
        BY <2>1, <2>2, <2>3, <3>1, <3>2, ConstantsAssumption DEF Min2
      <3>5. k + Window' = Window + (k + Window' - Window)
        BY <2>4, <3>4
      <3> QED BY <3>3, <3>5
    <2>7. Window \in 0 .. RCV_WND /\ Edge \in Seqs
      BY EdgeType
    <2>8. Window' \in 0 .. RCV_WND
      BY <2>1, <2>2, <2>3, ConstantsAssumption DEF Window, Min2
    <2>9. Edge' = SeqAdd(Edge, d)
      <3>1. Edge = SeqAdd(receive_next, Window)
        BY DEF Edge
      <3>2. Edge' = SeqAdd(SeqAdd(receive_next, k), Window')
        BY <2>5 DEF Edge
      <3>3. /\ Window \in Nat /\ Window' \in Nat /\ d \in Nat
            /\ k + Window' < SeqHalf /\ Window + d < SeqHalf
        <4>1. k \in Nat /\ k <= TCP_BUFFER + 1
          BY <2>1, <2>2, <2>4, ConstantsAssumption
        <4>2. Window \in Nat /\ Window' \in Nat /\ d \in Nat /\ Window' <= RCV_WND
          BY <2>7, <2>8, ConstantsAssumption
        <4>3. k + Window' < SeqHalf
          BY <4>1, <4>2, WindowRoom
        <4> QED BY <2>6, <4>2, <4>3
      <3>4. Edge' = SeqAdd(receive_next, k + Window')
        BY <2>2, <2>4, <3>2, <3>3, AddTwice
      <3>5. SeqAdd(Edge, d) = SeqAdd(receive_next, Window + d)
        BY <2>2, <3>1, <3>3, AddTwice
      <3> QED BY <2>6, <3>4, <3>5
    <2>10. ~ Before(Edge', Edge)
      BY <2>7, <2>9, ForwardStep
    <2>11. ~ peer_fin
      BY <1>2 DEF InOrder
    <2> QED BY <2>1, <2>2, <2>3, <2>10, <2>11 DEF Receives
  <1> HIDE DEF receiver
  <1> QED BY <1>1, <1>2 DEF Receive

LEMMA ReceiverStep ==
    ASSUME TypeOK, MssInv, [Next]_vars, Synchronized, SameTransfer PROVE Receives
  <1>1. CASE UNCHANGED receiver
    BY <1>1, NothingReceived
  <1>2. CASE Start
    BY <1>2, StartsAnew
  <1>3. CASE Input
    <2>1. PICK m \in Segments, e \in BOOLEAN : TcpInput(m, e)
      BY <1>3 DEF Input
    <2>2. CASE InputAccepted(m, e)
      BY <2>1, <2>2, Received, InputsAssumption DEF InputAccepted
    <2> HIDE DEF receiver
    <2>3. CASE InputIgnored(m) \/ InputRefused(m) \/ InputReset(m) \/ InputChallenged(m)
               \/ InputDuplicateAck(m, e)
      BY <1>1, <2>3 DEF InputIgnored, InputRefused, InputReset, InputChallenged,
                        InputDuplicateAck
    <2>4. CASE InputSynAck(m)
      BY <2>4 DEF InputSynAck, Establishes, Synchronized
    <2> QED BY <2>1, <2>2, <2>3, <2>4 DEF TcpInput
  <1> HIDE DEF receiver
  <1>4. CASE Tick
    BY <1>1, <1>4, ZenonT(60) DEF Tick, TcpTick, TickExpired, TickDone, TickRto, TickClose, TickSyn,
                      TickProbe, TickSend, TickFin, Enqueue, TickIdle
  <1>5. CASE Cancel \/ Advance \/ UNCHANGED vars
    BY <1>1, <1>5 DEF Cancel, TcpAbort, Advance, vars
  <1> QED BY <1>2, <1>3, <1>4, <1>5 DEF Next

\* Bytes that tcp_input has accepted stay, nothing follows the peer's FIN, and the
\* edge of the advertised window never moves back.
THEOREM ReceiverAdvancesAlways == Spec => ReceiverAdvances
  <1>1. TypeOK /\ MssInv /\ [Next]_vars => [Synchronized /\ SameTransfer => Receives]_vars
    BY ReceiverStep
  <1> QED BY <1>1, TypeCorrect, MssAlways, PTL DEF Spec, ReceiverAdvances, Receives
-----------------------------------------------------------------------------
(* One transfer from end to end, with a conforming peer and a network that *)
(* loses, repeats and reorders: TcpConnection.  The invariant says of the  *)
(* segments in flight, wherever and however often they are, what they      *)
(* carry; both receivers stand at the position that is the length of what  *)
(* they took.  It holds in every world; where the peer's window may close  *)
(* a probe can take the place of the FIN, and the theorems about the bytes *)
(* the peer received are for worlds where it cannot.                       *)

\* The position of a sequence number in the peer's stream: its SYN has 0, byte k
\* of its file k, its FIN Len(PeerFile) + 1.
Pos(x) == SeqSub(x, PeerIsn)
One(b) == IF b THEN 1 ELSE 0

\* No position of the peer's stream is used beyond this one: the window the host
\* advertises ends there.
Limit == TCP_BUFFER + 3

\* The peer's buffer holds the host's file and FIN with room to spare: its window
\* never closes.
Ample == world.wnd > Len(world.file) + 1

\* The files fit the connection's buffers.
FilesFit == Len(world.file) <= TCP_BUFFER /\ Len(PeerFile) <= TCP_BUFFER

\* The host's segments that are in flight; fin says whether it has sent its FIN.
HostSegment(m, fin) ==
    /\ Honest(m, isn, tx, Len(tx), fin)
    /\ Ample => Honest(m, isn, tx, Len(tx), FALSE)
    /\ \/ m.flags = {"SYN"} /\ m.seq = isn /\ m.data = <<>>
       \/ /\ m.flags \in {{"ACK"}, {"RST", "ACK"}, {"ACK", "FIN"}}
          /\ Pos(m.ack) + m.wnd <= Limit
          /\ Rel(m.seq) <= Len(tx) + 2
          /\ "FIN" \in m.flags => fin /\ Rel(m.seq) = Len(tx) + 1 /\ m.data = <<>>
HostHeaders == [flags : SUBSET Flags, seq : Seqs, ack : Seqs, wnd : Nat, data : Seq(Byte)]
HostSegments == {m \in HostHeaders : HostSegment(m, own_fin)}

\* The peer's segments that are in flight.
PeerSegmentOK(m) ==
    /\ p_open /\ 1 <= Rel(m.ack) /\ Rel(m.ack) <= Rel(p_rcv)
    /\ Ample => m.wnd # 0
    /\ Pos(m.seq) + SequenceLength(m) <= Limit
    /\ \A k \in 1 .. Len(m.data) :
         LET p == Pos(m.seq) + k - 1 IN p \in DOMAIN PeerFile /\ m.data[k] = PeerFile[p]
    /\ \/ m.flags = {"SYN", "ACK"} /\ m.seq = PeerIsn
       \/ m.flags = {"ACK"}
       \/ m.flags = {"ACK", "FIN"} /\ Pos(m.seq) + Len(m.data) = LastPos
PeerSegments ==
    {m \in [flags : SUBSET Flags, seq : Seqs, ack : Seqs, wnd : Nat, data : Seq(Byte),
            mss : Nat] : PeerSegmentOK(m)}

\* The host's receiver stands at its position of the peer's stream.
DownInv ==
    /\ state \in {"IDLE", "SYN_SENT"} => rx = <<>> /\ peer_fin = FALSE /\ ack_pending = FALSE
    /\ Synchronized => Pos(receive_next) = 1 + Len(rx) + One(peer_fin)
    /\ Len(rx) <= Len(PeerFile) /\ \A k \in 1 .. Len(rx) : rx[k] = PeerFile[k]
    /\ peer_fin => Len(rx) = Len(PeerFile)

\* The peer's receiver stands at its position of the host's stream, and has
\* taken all that the host counts as acknowledged.  Without an ample window it
\* may have taken a probe's byte for the FIN.
UpInv ==
    /\ p_open = FALSE => p_rx = <<>> /\ p_fin = FALSE
    /\ p_open => Rel(p_rcv) = 1 + Len(p_rx) + One(p_fin)
    /\ Len(p_rx) <= Len(tx) + One(own_fin /\ ~ Ample)
    /\ \A k \in 1 .. Len(p_rx) : k <= Len(tx) => p_rx[k] = tx[k]
    /\ p_fin => Len(p_rx) = Len(tx)
    /\ Rel(una) # 0 => p_open /\ Rel(una) <= Rel(p_rcv)
    /\ delivered <= Len(tx) /\ (delivered # 0 => delivered < Rel(una))

\* Windows.
RoomInv ==
    /\ Ample /\ p_open => p_edge = SeqAdd(isn, 1 + world.wnd)
    /\ Ample /\ Synchronized => peer_window # 0

WorldInv ==
    /\ world \in Worlds /\ Len(tx) <= Len(world.file)
    /\ state = "IDLE" => toPeer = <<>> /\ toHost = <<>> /\ p_open = FALSE
    /\ p_open \in BOOLEAN /\ p_fin \in BOOLEAN /\ p_rcv \in Seqs /\ p_edge \in Seqs
    /\ p_rx \in Seq(Byte) /\ p_una \in Nat /\ p_nxt \in 1 .. Limit /\ p_grant \in 0 .. Limit
    /\ delivered \in Nat
    /\ toPeer \in Seq(HostSegments) /\ toHost \in Seq(PeerSegments)
    /\ FilesFit => FailsOnlyByTime

ConnInv == TypeOK /\ SenderInv /\ DownInv /\ UpInv /\ RoomInv /\ WorldInv

(* The networks.                                                           *)

\* A larger set has more sequences.
LEMMA SeqMonotone ==
    ASSUME NEW S, NEW T, S \subseteq T, NEW s \in Seq(S)
    PROVE  s \in Seq(T)
  <1>1. Len(s) \in Nat /\ s \in [1 .. Len(s) -> S]
    BY LenProperties
  <1>2. s \in [1 .. Len(s) -> T]
    BY <1>1
  <1> QED BY <1>1, <1>2, SeqDef

\* Delivery takes segments away.
LEMMA WithoutType ==
    ASSUME NEW S, NEW s \in Seq(S), NEW i \in 1 .. Len(s), NEW d \in BOOLEAN
    PROVE  Without(s, i, d) \in Seq(S) /\ RemoveAt(s, i) \in Seq(S) /\ s[i] \in S
  <1>1. Len(s) \in Nat
    BY LenProperties
  <1>2. \A j \in 1 .. Len(s) : s[j] \in S
    BY ElementOfSeq
  <1>3. SubSeq(s, 1, i - 1) \in Seq(S)
    BY <1>1, <1>2, SubSeqProperties
  <1>4. SubSeq(s, i + 1, Len(s)) \in Seq(S)
    BY <1>1, <1>2, SubSeqProperties
  <1>5. RemoveAt(s, i) \in Seq(S)
    BY <1>3, <1>4, ConcatProperties DEF RemoveAt
  <1> QED BY <1>2, <1>5 DEF Without

\* Sending adds segments.
LEMMA CarryType ==
    ASSUME NEW S, NEW s \in Seq(S), NEW t \in Seq(S), world.cap \in Nat
    PROVE  Carry(s, t) \in Seq(S)
  <1> DEFINE u == s \o t
             n == Min2(world.cap, Len(s) + Len(t))
  <1>1. u \in Seq(S) /\ Len(u) = Len(s) + Len(t) /\ Len(s) \in Nat /\ Len(t) \in Nat
    BY ConcatProperties, LenProperties
  <1>2. \A j \in 1 .. Len(u) : u[j] \in S
    BY <1>1, ElementOfSeq
  <1>3. n \in Nat /\ n <= Len(u)
    BY <1>1 DEF Min2
  <1> HIDE DEF u, n
  <1>4. SubSeq(u, 1, n) \in Seq(S)
    BY <1>1, <1>2, <1>3, SubSeqProperties
  <1> QED BY <1>4 DEF Carry, u, n

\* What a call emits joins what is in flight.
LEMMA EmittedType ==
    ASSUME NEW S, toPeer \in Seq(S), out' \subseteq S, world.cap \in Nat, Emitted
    PROVE  toPeer' \in Seq(S)
  <1>1. ASSUME NEW R, R \subseteq S PROVE OneOf(R) \in Seq(S)
    <2>1. CASE R = {}
      BY <2>1, EmptySeq DEF OneOf
    <2>2. CASE R # {}
      <3> DEFINE x == CHOOSE x \in R : TRUE
      <3>1. x \in R
        BY <2>2, Zenon
      <3>2. OneOf(R) = <<x>>
        BY <2>2 DEF OneOf
      <3> HIDE DEF x
      <3>3. x \in S
        BY <1>1, <3>1
      <3> QED BY <3>2, <3>3
    <2> QED BY <2>1, <2>2
  <1> DEFINE A == {m \in out' : PureAck(m)}
             B == {m \in out' : ~ PureAck(m)}
  <1>2. A \subseteq S /\ B \subseteq S
    OBVIOUS
  <1>3. toPeer' = Carry(toPeer, OneOf(A) \o OneOf(B))
    BY DEF Emitted
  <1> HIDE DEF A, B
  <1>4. OneOf(A) \o OneOf(B) \in Seq(S)
    BY <1>1, <1>2, ConcatProperties
  <1> QED BY <1>3, <1>4, CarryType
-----------------------------------------------------------------------------
(* What the host puts in flight.                                           *)

LEMMA HonestMore ==
    ASSUME NEW o, NEW b, NEW t, NEW off \in Int, NEW more \in Int, off <= more,
           NEW fin, NEW later, fin => later, Honest(o, b, t, off, fin),
           Len(o.data) \in Nat, SeqSub(o.seq, b) \in Int
    PROVE  Honest(o, b, t, more, later)
  <1> SUFFICES ASSUME NEW k \in 1 .. Len(o.data)
               PROVE  LET p == SeqSub(o.seq, b) + k - 1 IN
                      \/ p = 0
                      \/ p <= more /\ o.data[k] = t[p]
                      \/ later /\ p = Len(t) + 1 /\ Len(o.data) = 1
    BY DEF Honest
  <1> DEFINE p == SeqSub(o.seq, b) + k - 1
  <1>1. p \in Int
    OBVIOUS
  <1>2. \/ p = 0
        \/ p <= off /\ o.data[k] = t[p]
        \/ fin /\ p = Len(t) + 1 /\ Len(o.data) = 1
    BY DEF Honest
  <1> HIDE DEF p
  <1>3. \/ p = 0
        \/ p <= more /\ o.data[k] = t[p]
        \/ later /\ p = Len(t) + 1 /\ Len(o.data) = 1
    BY <1>1, <1>2
  <1> QED BY <1>3 DEF p

\* Segments in flight stay what they are.
LEMMA MoreHostSegments ==
    ASSUME UNCHANGED <<isn, tx, world>>, own_fin => own_fin', TypeOK
    PROVE  HostSegments \subseteq HostSegments'
  <1> SUFFICES ASSUME NEW m \in HostHeaders, HostSegment(m, own_fin)
               PROVE  HostSegment(m, own_fin)'
    BY DEF HostSegments, HostHeaders
  <1>1. Len(m.data) \in Nat /\ SeqSub(m.seq, isn) \in Int /\ Len(tx) \in Int
    BY LenProperties, ConstantsAssumption DEF HostHeaders, SeqSub, TypeOK
  <1>2. Honest(m, isn, tx, Len(tx), own_fin')
    BY <1>1, HonestMore DEF HostSegment
  <1>3. Ample' <=> Ample
    BY DEF Ample
  <1>4. Rel(m.seq)' = Rel(m.seq)
    BY DEF Rel
  <1> QED BY <1>2, <1>3, <1>4 DEF HostSegment

\* The window that is advertised ends below the limit.
LEMMA AckInLimit ==
    ASSUME TypeOK, DownInv, Synchronized
    PROVE  receive_next \in Seqs /\ Window \in Nat /\ Pos(receive_next) + Window <= Limit
  <1>1. Len(rx) \in Nat /\ Len(rx) <= TCP_BUFFER /\ receive_next \in Seqs /\ peer_fin \in BOOLEAN
    BY LenProperties DEF TypeOK
  <1>2. Window \in Nat /\ Window <= TCP_BUFFER + 1 - Len(rx)
    BY <1>1, ConstantsAssumption DEF Window, Min2
  <1>3. Pos(receive_next) = 1 + Len(rx) + One(peer_fin) /\ One(peer_fin) \in 0 .. 1
    BY <1>1 DEF DownInv, One
  <1> QED BY <1>1, <1>2, <1>3, ConstantsAssumption DEF Limit

LEMMA OutputFields ==
    ASSUME NEW q, NEW f, NEW d
    PROVE  /\ Output(q, f, d).flags = f /\ Output(q, f, d).seq = q
           /\ Output(q, f, d).data = d /\ Output(q, f, d).ack = receive_next
           /\ Output(q, f, d).wnd = Window
           /\ TypeOK /\ q \in Seqs /\ f \subseteq Flags /\ d \in Seq(Byte)
                => Output(q, f, d) \in HostHeaders
  <1>1. TypeOK => Window \in Nat /\ receive_next \in Seqs
    BY WindowType, ConstantsAssumption DEF TypeOK
  <1> QED BY <1>1 DEF Output, HostHeaders

\* Acknowledgements and resets.
LEMMA EmptyGood ==
    ASSUME TypeOK, SenderInv, DownInv, Synchronized, NEW fin \in BOOLEAN,
           NEW f \in {{"ACK"}, {"RST", "ACK"}}
    PROVE  Output(next, f, <<>>) \in HostHeaders /\ HostSegment(Output(next, f, <<>>), fin)
  <1> DEFINE o == Output(next, f, <<>>)
  <1>1. next \in Seqs /\ f \subseteq Flags /\ <<>> \in Seq(Byte) /\ "FIN" \notin f
    BY EmptySeq DEF TypeOK, Flags
  <1>2. o \in HostHeaders /\ o.flags = f /\ o.seq = next /\ o.ack = receive_next /\ o.wnd = Window
    <2> DEFINE d == <<>>
    <2>1. d \in Seq(Byte) /\ o = Output(next, f, d)
      BY <1>1
    <2> HIDE DEF d, o
    <2> QED BY <1>1, <2>1, OutputFields
  <1>3. Honest(o, isn, tx, Len(tx), fin) /\ Honest(o, isn, tx, Len(tx), FALSE)
    BY EmptyHonest
  <1>4. Late
    BY LateWhen DEF Synchronized, SenderInv, Early
  <1>5. Rel(next) <= Len(tx) + 2
    BY <1>4, LateBounds, SMTT(30) DEF Late, Bounds, TypeOK
  <1> HIDE DEF o
  <1>6. HostSegment(o, fin)
    BY <1>1, <1>2, <1>3, <1>5, AckInLimit DEF HostSegment
  <1> QED BY <1>2, <1>6 DEF o

\* Segments of the queue and new ones.
LEMMA SegmentGood ==
    ASSUME TypeOK, SenderInv, DownInv, NEW s \in SegmentType, NEW fin \in BOOLEAN,
           \/ s.kind = "SYN" /\ s.sequence = isn /\ s.length = 0
           \/ /\ Synchronized /\ s.kind = "DATA" /\ Rel(s.sequence) = s.offset + 1
              /\ s.offset + s.length <= Len(tx)
           \/ /\ Synchronized /\ s.kind = "FIN" /\ s.length = 0 /\ fin
              /\ Rel(s.sequence) = Len(tx) + 1
    PROVE  OutputSegment(s) \in HostHeaders /\ HostSegment(OutputSegment(s), fin)
  <1> DEFINE o == OutputSegment(s)
             f == CASE s.kind = "SYN" -> {"SYN"}
                    [] s.kind = "FIN" -> {"ACK", "FIN"}
                    [] OTHER -> {"ACK"}
             d == SubSeq(tx, s.offset + 1, s.offset + s.length)
  <1>1. /\ s.sequence \in Seqs /\ s.length \in Nat /\ s.offset \in Nat
        /\ tx \in Seq(Byte) /\ Len(tx) \in Nat
    BY LenProperties DEF TypeOK, SegmentType
  <1>2. o = Output(s.sequence, f, d)
    BY DEF OutputSegment
  <1>3. s.length = 0 => d = <<>>
    BY <1>1, SubSeqProperties
  <1>4. d \in Seq(Byte)
    <2>1. CASE s.length = 0
      BY <1>3, <2>1, EmptySeq
    <2>2. CASE s.length # 0
      <3>1. \A i \in s.offset + 1 .. s.offset + s.length : tx[i] \in Byte
        BY <1>1, <2>2, ElementOfSeq
      <3> QED BY <1>1, <3>1, SubSeqProperties
    <2> QED BY <2>1, <2>2
  <1>5. /\ f \subseteq Flags
        /\ s.kind = "SYN" => f = {"SYN"}
        /\ s.kind = "FIN" => f = {"ACK", "FIN"}
        /\ s.kind = "DATA" => f = {"ACK"}
    BY DEF Flags
  <1> HIDE DEF f, d
  <1>6. /\ o \in HostHeaders /\ o.flags = f /\ o.seq = s.sequence /\ o.data = d
        /\ o.ack = receive_next /\ o.wnd = Window
    BY <1>1, <1>2, <1>4, <1>5, OutputFields
  <1>7. s.length # 0 => SeqSub(s.sequence, isn) = s.offset + 1 /\ s.offset + s.length <= Len(tx)
    BY DEF Rel
  <1>8. Honest(o, isn, tx, Len(tx), fin) /\ Honest(o, isn, tx, Len(tx), FALSE)
    <2>1. ASSUME NEW g \in BOOLEAN PROVE Honest(OutputSegment(s), isn, tx, Len(tx), g)
      <3> DEFINE n == Len(tx)
      <3>1. n \in Nat /\ n <= Len(tx)
        BY <1>1
      <3>2. s.length # 0 => /\ SeqSub(s.sequence, isn) = s.offset + 1
                            /\ s.offset + s.length <= n
        BY <1>7
      <3> HIDE DEF n
      <3>3. Honest(OutputSegment(s), isn, tx, n, g)
        BY <1>1, <3>1, <3>2, SegmentHonest
      <3> QED BY <3>3 DEF n
    <2> QED BY <2>1
  <1> HIDE DEF o
  <1>9. CASE s.kind = "SYN" /\ s.sequence = isn /\ s.length = 0
    BY <1>3, <1>5, <1>6, <1>8, <1>9 DEF HostSegment, o
  <1>10. CASE /\ Synchronized /\ s.kind = "DATA" /\ Rel(s.sequence) = s.offset + 1
              /\ s.offset + s.length <= Len(tx)
    <2>1. Rel(o.seq) <= Len(tx) + 2
      BY <1>1, <1>6, <1>10
    <2>2. "FIN" \notin o.flags /\ o.flags = {"ACK"}
      BY <1>5, <1>6, <1>10
    <2> QED BY <1>6, <1>8, <1>10, <2>1, <2>2, AckInLimit DEF HostSegment, o
  <1>11. CASE /\ Synchronized /\ s.kind = "FIN" /\ s.length = 0 /\ fin
              /\ Rel(s.sequence) = Len(tx) + 1
    <2>1. Rel(o.seq) = Len(tx) + 1 /\ Rel(o.seq) <= Len(tx) + 2
      BY <1>1, <1>6, <1>11
    <2>2. o.flags = {"ACK", "FIN"} /\ o.data = <<>>
      BY <1>3, <1>5, <1>6, <1>11
    <2> QED BY <1>6, <1>8, <1>11, <2>1, <2>2, AckInLimit DEF HostSegment, o
  <1> QED BY <1>9, <1>10, <1>11

\* A probe is emitted only where the peer's window may close.
LEMMA ProbeGood ==
    ASSUME TypeOK, SenderInv, DownInv, Synchronized, ~ Ample
    PROVE  ProbeSegment \in HostHeaders /\ HostSegment(ProbeSegment, own_fin)
  <1> DEFINE o == ProbeSegment
             d == <<ProbeByte>>
  <1>1. Late
    BY LateWhen DEF Synchronized
  <1>2. /\ isn \in Seqs /\ next \in Seqs /\ tx_offset \in Nat /\ tx_offset <= Len(tx)
        /\ Len(tx) \in Nat /\ own_fin \in BOOLEAN /\ tx \in Seq(Byte)
    BY LenProperties DEF TypeOK
  <1>3. Rel(next) \in Nat /\ 1 <= Rel(next) /\ Rel(next) <= Len(tx) + 2
    BY <1>1, <1>2, LateBounds DEF Late, Bounds
  <1>4. SeqSub(next, 1) \in Seqs /\ SeqSub(SeqSub(next, 1), isn) = Rel(next) - 1
    BY <1>2, <1>3, ConstantsAssumption DEF SeqSub, Rel
  <1>5. ProbeByte \in Byte
    BY <1>2, ElementOfSeq, InputsAssumption DEF ProbeByte
  <1>6. d \in Seq(Byte) /\ Len(d) = 1
    BY <1>5
  <1>7. o = Output(SeqSub(next, 1), {"ACK"}, d) /\ {"ACK"} \subseteq Flags
    BY DEF ProbeSegment, Flags
  <1>8. Honest(o, isn, tx, tx_offset, own_fin)
    BY <1>1, ProbeHonest
  <1> HIDE DEF o, d
  <1>9. /\ o \in HostHeaders /\ o.flags = {"ACK"} /\ o.seq = SeqSub(next, 1) /\ o.data = d
        /\ o.ack = receive_next /\ o.wnd = Window
    BY <1>4, <1>6, <1>7, OutputFields
  <1>10. Honest(o, isn, tx, Len(tx), own_fin)
    <2>1. SeqSub(o.seq, isn) \in Int /\ Len(o.data) \in Nat
      BY <1>3, <1>4, <1>6, <1>9
    <2> QED BY <1>2, <1>8, <2>1, HonestMore
  <1>11. Rel(o.seq) <= Len(tx) + 2
    BY <1>2, <1>3, <1>4, <1>9 DEF Rel
  <1> QED BY <1>9, <1>10, <1>11, AckInLimit DEF HostSegment, o

AllGood(S, fin) == \A o \in S : o \in HostHeaders /\ HostSegment(o, fin)

LEMMA FlushedGood ==
    ASSUME TypeOK, SenderInv, DownInv, Active, NEW f, NEW fin \in BOOLEAN
    PROVE  AllGood(Flushed(f), fin)
  <1>1. CASE state = "SYN_SENT"
    BY <1>1 DEF DownInv, Flushed, AllGood
  <1>2. CASE Synchronized
    <2>1. /\ Output(next, {"ACK"}, <<>>) \in HostHeaders
          /\ HostSegment(Output(next, {"ACK"}, <<>>), fin)
      BY <1>2, EmptyGood
    <2> QED BY <2>1 DEF Flushed, AllGood
  <1> QED BY <1>1, <1>2 DEF Active, Synchronized

LEMMA AbortGood ==
    ASSUME TypeOK, SenderInv, DownInv, NEW r, NEW sent, NEW e, NEW fin \in BOOLEAN,
           Abort(r, sent, e), AllGood(sent, fin)
    PROVE  AllGood(out', fin)
  <1>1. CASE Synchronized
    <2>1. /\ Output(next, {"RST", "ACK"}, <<>>) \in HostHeaders
          /\ HostSegment(Output(next, {"RST", "ACK"}, <<>>), fin)
      BY <1>1, EmptyGood
    <2> QED BY <2>1 DEF Abort, AllGood
  <1>2. CASE ~ Synchronized
    BY <1>2 DEF Abort, AllGood, Synchronized
  <1> QED BY <1>1, <1>2

LEMMA LossGood ==
    ASSUME TypeOK, SenderInv, DownInv, Active, NEW timeout, NEW sent, NEW e,
           Loss(timeout, sent, e), AllGood(sent, own_fin)
    PROVE  AllGood(out', own_fin)
  <1>0. own_fin \in BOOLEAN
    BY DEF TypeOK
  <1>1. PICK i \in Slots : /\ IsOldest(i)
                          /\ \/ LossGivesUp(i, sent, e) \/ LossDeferred(i, sent, e)
                             \/ LossRetransmits(i, timeout, sent, e)
    BY DEF Loss
  <1>2. CASE LossGivesUp(i, sent, e)
    BY <1>0, <1>2, AbortGood DEF LossGivesUp
  <1>3. CASE LossDeferred(i, sent, e)
    BY <1>3 DEF LossDeferred
  <1>4. CASE LossRetransmits(i, timeout, sent, e)
    <2> DEFINE s == pending[i]
    <2>1. out' = sent \cup {OutputSegment(s)}
      BY <1>4 DEF LossRetransmits
    <2>2. s.used /\ s \in SegmentType
      BY <1>1 DEF IsOldest, Used, TypeOK
    <2>3. CASE Early
      <3>1. s.kind = "SYN" /\ s.sequence = isn /\ s.length = 0
        BY <2>2, <2>3 DEF Early
      <3> HIDE DEF s
      <3> QED BY <1>0, <2>1, <2>2, <3>1, SegmentGood DEF AllGood
    <2>4. CASE Late
      <3>1. Synchronized
        BY <2>4 DEF Late, Active, Synchronized
      <3>2. SlotOK(s, isn, Rel(una), Rel(next), tx_offset, own_fin, Len(tx))
        BY <2>2, <2>4 DEF Late, Shape, SlotsOK
      <3>3. tx_offset \in Nat /\ tx_offset <= Len(tx) /\ Len(tx) \in Nat
        BY LenProperties DEF TypeOK
      <3>4. s.offset \in Nat /\ s.length \in Nat
        BY <2>2 DEF SegmentType
      <3> HIDE DEF s
      <3>5. \/ /\ s.kind = "DATA" /\ Rel(s.sequence) = s.offset + 1
               /\ s.offset + s.length <= Len(tx)
            \/ s.kind = "FIN" /\ s.length = 0 /\ own_fin /\ Rel(s.sequence) = Len(tx) + 1
        BY <3>2, <3>3, <3>4 DEF SlotOK, Rel
      <3> QED BY <1>0, <2>1, <2>2, <3>1, <3>5, SegmentGood DEF AllGood
    <2> QED BY <2>3, <2>4 DEF SenderInv
  <1> QED BY <1>1, <1>2, <1>3, <1>4

\* What was built from the state before the step is in flight after it.
LEMMA GoodSent ==
    ASSUME UNCHANGED <<isn, tx, world>>, AllGood(out', own_fin')
    PROVE  out' \subseteq HostSegments'
  <1> SUFFICES ASSUME NEW o \in out' PROVE HostSegment(o, own_fin)' /\ o \in HostHeaders
    BY DEF HostSegments, HostHeaders
  <1>1. HostSegment(o, own_fin') /\ o \in HostHeaders
    BY DEF AllGood
  <1>2. (Ample' <=> Ample) /\ Rel(o.seq)' = Rel(o.seq)
    BY DEF Ample, Rel
  <1> QED BY <1>1, <1>2 DEF HostSegment

\* tcp_tick.
LEMMA TickSends ==
    ASSUME TypeOK, SenderInv, DownInv, RoomInv, Going, UNCHANGED world,
           NEW f \in BOOLEAN, NEW e \in BOOLEAN, TcpTick(f, e)
    PROVE  out' \subseteq HostSegments'
  <1>0. own_fin \in BOOLEAN
    BY DEF TypeOK
  <1>1. AllGood({}, own_fin)
    BY DEF AllGood
  <1>2. Active => AllGood(Flushed(f), own_fin) /\ AllGood(Flushed(f), TRUE)
    BY <1>0, FlushedGood
  <1>3. CASE TickExpired(e)
    <2>1. AllGood(out', own_fin)
      BY <1>0, <1>1, <1>3, AbortGood DEF TickExpired
    <2> QED BY <1>3, <2>1, GoodSent DEF TickExpired, transfer, sender
  <1>4. CASE TickDone(f)
    BY <1>4 DEF TickDone, Going
  <1>5. CASE TickClose(f) \/ TickIdle(f, e)
    <2>1. AllGood(out', own_fin)
      BY <1>2, <1>5 DEF TickClose, TickIdle, Running
    <2> QED BY <1>5, <2>1, GoodSent DEF TickClose, TickIdle, transfer, sender
  <1>6. CASE TickRto(f, e)
    <2>1. Active /\ Loss(TRUE, Flushed(f), e) /\ UNCHANGED <<isn, tx, own_fin>>
      BY <1>6 DEF TickRto, transfer, sender
    <2>2. AllGood(out', own_fin)
      BY <1>2, <2>1, LossGood
    <2> QED BY <2>1, <2>2, GoodSent
  <1>7. CASE TickSyn(f)
    <2> DEFINE s == Segment("SYN", isn, 0, 0)
    <2>1. /\ Active /\ UNCHANGED <<isn, tx, own_fin>>
          /\ out' = Flushed(f) \cup {OutputSegment(s)}
      BY <1>7 DEF TickSyn, Running, transfer, sender
    <2>2. s \in SegmentType /\ s.kind = "SYN" /\ s.sequence = isn /\ s.length = 0
      BY ConstantsAssumption DEF Segment, SegmentType, TypeOK
    <2> HIDE DEF s
    <2>3. AllGood(out', own_fin)
      BY <1>0, <1>2, <2>1, <2>2, SegmentGood DEF AllGood
    <2> QED BY <2>1, <2>3, GoodSent
  <1>8. CASE TickProbe(f)
    <2>1. /\ Active /\ state # "SYN_SENT" /\ peer_window = 0 /\ UNCHANGED <<isn, tx, own_fin>>
          /\ out' = Flushed(f) \cup {ProbeSegment}
      BY <1>8 DEF TickProbe, ProbeDue, Running, transfer, sender
    <2>2. Synchronized /\ ~ Ample
      BY <2>1 DEF Active, Synchronized, RoomInv
    <2>3. AllGood(out', own_fin)
      BY <1>2, <2>1, <2>2, ProbeGood DEF AllGood
    <2> QED BY <2>1, <2>3, GoodSent
  <1>9. CASE TickSend(f)
    <2> DEFINE s == Segment("DATA", next, tx_offset, SendLength)
    <2>1. /\ Enqueue(s, f) /\ SendDue /\ own_fin = FALSE /\ own_fin' = own_fin
          /\ Active /\ state \in {"ESTABLISHED", "CLOSING"}
      BY <1>9 DEF TickSend, Running, Active, SendDue, MaySend, TypeOK
    <2>2. SendLength \in Nat /\ SendLength <= Len(tx) - tx_offset
      BY <2>1, SendLengthType
    <2>3. /\ tx_offset \in Nat /\ Len(tx) \in Nat /\ next \in Seqs
      BY LenProperties DEF TypeOK
    <2>4. /\ s \in SegmentType /\ s.sequence = next /\ s.offset = tx_offset
          /\ s.length = SendLength /\ s.kind = "DATA"
      BY <2>2, <2>3, ConstantsAssumption DEF Segment, SegmentType
    <2>5. Rel(next) = tx_offset + 1
      BY <2>1, LateWhen DEF Late, Bounds
    <2>6. /\ out' = Flushed(f) \cup {OutputSegment(s)} /\ UNCHANGED <<isn, tx>>
      BY <2>1 DEF Enqueue, transfer
    <2> HIDE DEF s
    <2>7. Synchronized /\ s.offset + s.length <= Len(tx) /\ Rel(s.sequence) = s.offset + 1
      BY <2>1, <2>2, <2>3, <2>4, <2>5 DEF Synchronized
    <2>8. AllGood(out', own_fin)
      BY <1>0, <1>2, <2>1, <2>4, <2>6, <2>7, SegmentGood DEF AllGood
    <2> QED BY <2>1, <2>6, <2>8, GoodSent
  <1>10. CASE TickFin(f)
    <2> DEFINE s == Segment("FIN", next, tx_offset, 0)
    <2>1. /\ Enqueue(s, f) /\ own_fin = FALSE /\ own_fin' = TRUE /\ tx_offset = Len(tx)
          /\ Active /\ state \in {"ESTABLISHED", "CLOSING"}
      BY <1>10 DEF TickFin, FinDue, Running, Active, MaySend, TypeOK
    <2>2. s \in SegmentType /\ s.sequence = next /\ s.length = 0 /\ s.kind = "FIN"
      BY ConstantsAssumption, LenProperties DEF Segment, SegmentType, TypeOK
    <2>3. Rel(next) = Len(tx) + 1
      BY <2>1, LateWhen DEF Late, Bounds
    <2>4. /\ out' = Flushed(f) \cup {OutputSegment(s)} /\ UNCHANGED <<isn, tx>>
      BY <2>1 DEF Enqueue, transfer
    <2> HIDE DEF s
    <2>5. Synchronized /\ Rel(s.sequence) = Len(tx) + 1
      BY <2>1, <2>2, <2>3 DEF Synchronized
    <2>6. AllGood(out', TRUE)
      BY <1>2, <2>1, <2>2, <2>4, <2>5, SegmentGood DEF AllGood
    <2> QED BY <2>1, <2>4, <2>6, GoodSent
  <1> QED BY <1>3, <1>4, <1>5, <1>6, <1>7, <1>8, <1>9, <1>10 DEF TcpTick

\* tcp_input.
LEMMA InputSends ==
    ASSUME TypeOK, SenderInv, DownInv, Going, UNCHANGED world,
           NEW m, NEW e \in BOOLEAN, TcpInput(m, e)
    PROVE  out' \subseteq HostSegments'
  <1>0. own_fin \in BOOLEAN
    BY DEF TypeOK
  <1>1. AllGood({}, own_fin)
    BY DEF AllGood
  <1>2. CASE InputIgnored(m) \/ InputSynAck(m) \/ InputReset(m) \/ InputChallenged(m)
    BY <1>2 DEF InputIgnored, InputSynAck, InputReset, InputChallenged
  <1>3. CASE InputRefused(m)
    BY <1>3 DEF InputRefused, Abort
  <1>4. CASE InputDuplicateAck(m, e)
    <2>1. UNCHANGED <<isn, tx, own_fin>> /\ Active
      BY <1>4 DEF InputDuplicateAck, Processed, Synchronized, Active, Going, transfer, sender
    <2>2. CASE Loss(FALSE, {}, e)
      <3>1. AllGood(out', own_fin)
        BY <1>1, <2>1, <2>2, LossGood
      <3> QED BY <2>1, <3>1, GoodSent
    <2>3. CASE out' = {}
      BY <2>3
    <2> QED BY <1>4, <2>2, <2>3 DEF InputDuplicateAck
  <1>5. CASE InputAccepted(m, e)
    <2>1. UNCHANGED <<isn, tx, own_fin>>
      BY <1>5 DEF InputAccepted, Acknowledge, transfer, sender
    <2>2. AllGood(out', own_fin)
      BY <1>0, <1>1, <1>5, AbortGood DEF InputAccepted, Receive
    <2> QED BY <2>1, <2>2, GoodSent
  <1> QED BY <1>2, <1>3, <1>4, <1>5 DEF TcpInput

-----------------------------------------------------------------------------
(* Taking bytes, on either side.                                           *)

LEMMA Slice ==
    ASSUME NEW S, NEW d \in Seq(S), NEW a \in Nat, NEW n \in Nat, a <= n, n <= Len(d)
    PROVE  /\ SubSeq(d, a + 1, n) \in Seq(S) /\ Len(SubSeq(d, a + 1, n)) = n - a
           /\ \A j \in 1 .. n - a : SubSeq(d, a + 1, n)[j] = d[a + j]
  <1>1. Len(d) \in Nat
    BY LenProperties
  <1>2. \A i \in a + 1 .. n : d[i] \in S
    BY <1>1, ElementOfSeq
  <1> DEFINE b == a + 1
  <1>3. b \in Int /\ n \in Int /\ n - b + 1 = n - a /\ \A j \in 1 .. n - a : b + j - 1 = a + j
    OBVIOUS
  <1>4. CASE a = n
    <2>1. SubSeq(d, a + 1, n) = <<>>
      BY <1>4, SubSeqProperties
    <2> QED BY <1>4, <2>1, EmptySeq
  <1>5. CASE a < n
    <2>1. b <= n
      BY <1>5
    <2>2. \A i \in b .. n : d[i] \in S
      BY <1>2
    <2> HIDE DEF b
    <2>3. /\ SubSeq(d, b, n) \in Seq(S) /\ Len(SubSeq(d, b, n)) = n - b + 1
          /\ \A j \in 1 .. n - b + 1 : SubSeq(d, b, n)[j] = d[b + j - 1]
      BY <1>3, <2>1, <2>2, SubSeqProperties
    <2>4. /\ SubSeq(d, b, n) \in Seq(S) /\ Len(SubSeq(d, b, n)) = n - a
          /\ \A j \in 1 .. n - a : SubSeq(d, b, n)[j] = d[a + j]
      BY <1>3, <2>3
    <2> QED BY <2>4 DEF b
  <1> QED BY <1>4, <1>5

\* Up to position n, the bytes x are those of file behind position o.
Agrees(x, o, file, n) == \A k \in 1 .. Len(x) : o + k <= n => x[k] = file[o + k]

\* A receiver that appends the bytes of the positions behind its own keeps a
\* prefix of the sender's file.
LEMMA StreamAppend ==
    ASSUME NEW S, NEW x \in Seq(S), NEW t \in Seq(S), NEW file, NEW n \in Int,
           Agrees(x, 0, file, n), Agrees(t, Len(x), file, n)
    PROVE  Agrees(x \o t, 0, file, n)
  <1>1. /\ Len(x \o t) = Len(x) + Len(t) /\ Len(x) \in Nat /\ Len(t) \in Nat
    BY ConcatProperties, LenProperties
  <1>2. \A k \in 1 .. Len(x) + Len(t) :
            (x \o t)[k] = IF k <= Len(x) THEN x[k] ELSE t[k - Len(x)]
    BY ConcatProperties
  <1>3. ASSUME NEW k \in 1 .. Len(x) + Len(t), k <= n
        PROVE  (x \o t)[k] = file[k]
    <2>1. CASE k <= Len(x)
      <3>1. k \in 1 .. Len(x) /\ 0 + k = k
        BY <1>1, <2>1
      <3>2. x[k] = file[k]
        BY <1>3, <3>1 DEF Agrees
      <3> QED BY <1>2, <2>1, <3>2
    <2>2. CASE ~ (k <= Len(x))
      <3>1. k - Len(x) \in 1 .. Len(t) /\ Len(x) + (k - Len(x)) = k
        BY <1>1, <2>2
      <3>2. t[k - Len(x)] = file[k]
        BY <1>3, <3>1 DEF Agrees
      <3> QED BY <1>2, <2>2, <3>2
    <2> QED BY <2>1, <2>2
  <1>4. ASSUME NEW k \in 1 .. Len(x \o t), 0 + k <= n
        PROVE  (x \o t)[k] = file[0 + k]
    <2>1. k \in 1 .. Len(x) + Len(t) /\ 0 + k = k
      BY <1>1
    <2> QED BY <1>3, <1>4, <2>1
  <1> QED BY <1>4 DEF Agrees

LEMMA SubType ==
    ASSUME NEW a \in Seqs, NEW b \in Seqs
    PROVE  SeqSub(a, b) \in Nat
  BY ConstantsAssumption DEF SeqSub

\* The segments of the peer as tcp_input needs them.
LEMMA PeerHeader ==
    ASSUME TypeOK, NEW m \in PeerSegments
    PROVE  /\ IsSegment(m) /\ PeerSegmentOK(m) /\ Len(m.data) \in Nat /\ "RST" \notin m.flags
           /\ Pos(m.seq) \in Nat /\ Rel(m.ack) \in Nat /\ SequenceLength(m) \in Nat
           /\ SequenceLength(m) = Len(m.data) + One("FIN" \in m.flags)
           /\ Pos(m.seq) + SequenceLength(m) < SeqHalf
  <1>1. /\ PeerSegmentOK(m) /\ m.flags \subseteq Flags /\ m.seq \in Seqs /\ m.ack \in Seqs
        /\ m.wnd \in Nat /\ m.mss \in Nat /\ m.data \in Seq(Byte)
    BY DEF PeerSegments
  <1>2. Len(m.data) \in Nat
    BY <1>1, LenProperties
  <1>3. Pos(m.seq) \in Nat /\ Rel(m.ack) \in Nat
    <2>1. isn \in Seqs /\ PeerIsn \in Seqs
      BY PeerAssumption DEF TypeOK
    <2> QED BY <1>1, <2>1, SubType DEF Pos, Rel
  <1>4. SequenceLength(m) \in Nat /\ SequenceLength(m) = Len(m.data) + One("FIN" \in m.flags)
    <2>1. CASE "FIN" \in m.flags
      BY <1>2, <2>1 DEF SequenceLength, One
    <2>2. CASE "FIN" \notin m.flags
      BY <1>2, <2>2 DEF SequenceLength, One
    <2> QED BY <2>1, <2>2
  <1>5. "RST" \notin m.flags
    BY <1>1 DEF PeerSegmentOK
  <1>6. Pos(m.seq) + SequenceLength(m) < SeqHalf
    BY <1>1, <1>3, <1>4, ConstantsAssumption DEF PeerSegmentOK, Limit
  <1> QED BY <1>1, <1>2, <1>3, <1>4, <1>5, <1>6 DEF IsSegment

\* The trimmed payload starts at the receiver's position.
LEMMA FreshFromPeer ==
    ASSUME TypeOK, DownInv, Synchronized, NEW m \in PeerSegments, InOrder(m)
    PROVE  /\ Fresh(m) \in Seq(Byte) /\ Len(Fresh(m)) \in Nat
           /\ 1 + Len(rx) + Len(Fresh(m)) = Pos(m.seq) + Len(m.data)
           /\ \A j \in 1 .. Len(Fresh(m)) :
                /\ Len(rx) + j \in DOMAIN PeerFile
                /\ Fresh(m)[j] = PeerFile[Len(rx) + j]
  <1> DEFINE k == Pos(m.seq)
             r == Pos(receive_next)
             n == Len(m.data)
             c == Trim(m)
  <1>1. /\ IsSegment(m) /\ PeerSegmentOK(m) /\ n \in Nat /\ k \in Nat
        /\ SequenceLength(m) \in Nat /\ n <= SequenceLength(m)
        /\ k + SequenceLength(m) < SeqHalf
    <2>1. One("FIN" \in m.flags) \in 0 .. 1
      BY DEF One
    <2>2. SequenceLength(m) = n + One("FIN" \in m.flags)
      BY PeerHeader
    <2>3. n \in Nat
      BY PeerHeader
    <2>4. n <= SequenceLength(m)
      BY <2>1, <2>2, <2>3
    <2> QED BY <2>4, PeerHeader
  <1>2. m.seq \in Seqs /\ m.data \in Seq(Byte) /\ receive_next \in Seqs /\ PeerIsn \in Seqs
    BY <1>1, PeerAssumption DEF IsSegment, TypeOK
  <1>3. Len(rx) \in Nat /\ Len(rx) <= TCP_BUFFER /\ r = 1 + Len(rx)
    BY LenProperties DEF DownInv, InOrder, One, TypeOK
  <1>4. r \in Nat /\ r < SeqHalf
    BY <1>3, ConstantsAssumption
  <1>5. c \in Nat /\ c <= n
    <2>1. SeqSub(receive_next, m.seq) \in Nat
      BY <1>2, ConstantsAssumption DEF SeqSub
    <2> QED BY <1>1, <2>1 DEF Trim, Min2
  <1>6. k + c = r
    <2>1. k + c < SeqHalf
      BY <1>1, <1>5, ConstantsAssumption
    <2>2. SeqSub(SeqAdd(m.seq, c), PeerIsn) = k + c
      BY <1>2, <1>5, <2>1, RelAdd DEF Pos
    <2>3. SeqAdd(m.seq, c) = receive_next
      BY DEF InOrder
    <2> QED BY <2>2, <2>3 DEF Pos
  <1>7. Fresh(m) = SubSeq(m.data, c + 1, n)
    BY DEF Fresh
  <1> HIDE DEF c, n, k, r
  <1>8. /\ Fresh(m) \in Seq(Byte) /\ Len(Fresh(m)) = n - c
        /\ \A j \in 1 .. n - c : Fresh(m)[j] = m.data[c + j]
    <2> DEFINE d == m.data
    <2>1. d \in Seq(Byte) /\ n \in Nat /\ c \in Nat /\ c <= n /\ n <= Len(d)
      BY <1>1, <1>2, <1>5 DEF n
    <2> HIDE DEF d
    <2>2. /\ SubSeq(d, c + 1, n) \in Seq(Byte) /\ Len(SubSeq(d, c + 1, n)) = n - c
          /\ \A j \in 1 .. n - c : SubSeq(d, c + 1, n)[j] = d[c + j]
      BY <2>1, Slice
    <2> QED BY <1>7, <2>2 DEF d
  <1>9. ASSUME NEW j \in 1 .. n - c
        PROVE  Len(rx) + j \in DOMAIN PeerFile /\ Fresh(m)[j] = PeerFile[Len(rx) + j]
    <2>1. c + j \in 1 .. n /\ k + (c + j) - 1 = Len(rx) + j
      BY <1>1, <1>3, <1>4, <1>5, <1>6
    <2>2. /\ k + (c + j) - 1 \in DOMAIN PeerFile
          /\ m.data[c + j] = PeerFile[k + (c + j) - 1]
      BY <1>1, <2>1 DEF PeerSegmentOK, n, k
    <2> QED BY <1>8, <2>1, <2>2
  <1>10. 1 + Len(rx) + (n - c) = k + n /\ n - c \in Nat
    BY <1>1, <1>3, <1>5, <1>6
  <1> QED BY <1>8, <1>9, <1>10 DEF n, k

\* The peer's file.
LEMMA PeerFileType ==
    ASSUME WorldInv
    PROVE  /\ PeerFile \in Seq(Byte) /\ Len(PeerFile) \in Nat
           /\ DOMAIN PeerFile = 1 .. Len(PeerFile)
           /\ world.cap \in Nat /\ world.wnd \in Nat /\ world.wnd < SeqHalf
           /\ world.file \in Files /\ world.file \in Seq(Byte) /\ Len(world.file) \in Nat
  <1>1. world \in WorldType /\ world.wnd < SeqHalf
    BY PeerAssumption DEF WorldInv
  <1>2. /\ PeerFile \in Seq(Byte) /\ world.cap \in Nat /\ world.wnd \in Nat
        /\ world.file \in Files
    BY <1>1 DEF WorldType, PeerFile
  <1>3. world.file \in Seq(Byte)
    BY <1>2, InputsAssumption
  <1> QED BY <1>1, <1>2, <1>3, LenProperties

\* A step that receives nothing.
LEMMA DownSame ==
    ASSUME DownInv, UNCHANGED <<receiver, world>>, state' \in {state, "FAILED"},
           state \in {"IDLE", "SYN_SENT"} => ack_pending' = ack_pending
    PROVE  DownInv'
  <1>1. PeerFile' = PeerFile
    BY DEF PeerFile
  <1> QED BY <1>1 DEF DownInv, receiver, Synchronized

\* tcp_input's last part: what is taken continues the prefix.
LEMMA ReceiveDown ==
    ASSUME TypeOK, DownInv, WorldInv, Synchronized, NEW m \in PeerSegments,
           NEW e \in BOOLEAN, Receive(m, e), UNCHANGED world
    PROVE  DownInv' /\ (FilesFit => error' = error)
  <1>1. CASE ~ InOrder(m)
    <2>1. UNCHANGED <<state, error, receiver>>
      BY <1>1 DEF Receive
    <2>2. DownInv'
      BY <2>1, DownSame DEF Synchronized
    <2> QED BY <2>1, <2>2
  <1>2. CASE InOrder(m)
    <2> DEFINE t == Fresh(m)
               z == One("FIN" \in m.flags)
    <2>1. /\ t \in Seq(Byte) /\ Len(t) \in Nat
          /\ 1 + Len(rx) + Len(t) = Pos(m.seq) + Len(m.data)
          /\ \A j \in 1 .. Len(t) :
               Len(rx) + j \in DOMAIN PeerFile /\ t[j] = PeerFile[Len(rx) + j]
      BY <1>2, FreshFromPeer
    <2>2. /\ PeerSegmentOK(m) /\ Len(m.data) \in Nat /\ Pos(m.seq) \in Nat
          /\ SequenceLength(m) = Len(m.data) + z /\ Pos(m.seq) + SequenceLength(m) < SeqHalf
      BY PeerHeader
    <2>3. rx \in Seq(Byte) /\ Len(rx) \in Nat /\ Len(rx) <= TCP_BUFFER /\ receive_next \in Seqs
      BY LenProperties DEF TypeOK
    <2>4. Len(PeerFile) \in Nat /\ DOMAIN PeerFile = 1 .. Len(PeerFile)
      BY PeerFileType
    <2>5. Len(rx) + Len(t) <= Len(PeerFile)
      <3>1. CASE Len(t) = 0
        BY <2>3, <2>4, <3>1 DEF DownInv
      <3>2. CASE Len(t) # 0
        <4>1. Len(t) \in 1 .. Len(t)
          BY <2>1, <3>2
        <4> QED BY <2>1, <2>4, <4>1, SMTT(30)
      <3> QED BY <3>1, <3>2
    <2>6. peer_fin = FALSE /\ Pos(receive_next) = 1 + Len(rx)
      BY <1>2, <2>3 DEF DownInv, InOrder, One, TypeOK
    <2>9. z \in {0, 1}
      BY DEF One
    <2>10. /\ Len(t) \in Nat /\ 1 + Len(rx) + Len(t) = Pos(m.seq) + Len(m.data)
           /\ Pos(m.seq) + Len(m.data) + z < SeqHalf
      BY <2>1, <2>2, <2>9
    <2> HIDE DEF t
    <2>7. CASE ~ Fits(m)
      <3>1. Len(rx) + Len(t) > TCP_BUFFER
        BY <2>1, <2>3, <2>7, ConstantsAssumption DEF Fits, t
      <3>2. ~ FilesFit
        BY <2>1, <2>3, <2>4, <2>5, <3>1, ConstantsAssumption DEF FilesFit
      <3>3. state' = "FAILED" /\ UNCHANGED receiver
        BY <1>2, <2>7 DEF Receive, Abort
      <3>4. DownInv'
        BY <3>3, DownSame DEF Synchronized
      <3> QED BY <3>2, <3>4
    <2>8. CASE Fits(m)
      <3>1. /\ rx' = rx \o t /\ peer_fin' = ("FIN" \in m.flags)
            /\ receive_next' = SeqAdd(receive_next, Len(t) +
                                   (IF "FIN" \in m.flags THEN 1 ELSE 0))
            /\ UNCHANGED <<state, error>>
        BY <1>2, <2>8 DEF Receive, t
      <3>2. z \in {0, 1} /\ receive_next' = SeqAdd(receive_next, Len(t) + z) /\ One(peer_fin') = z
        BY <2>9, <3>1 DEF One
      <3> HIDE DEF z
      <3>3. Pos(receive_next') = 1 + Len(rx) + Len(t) + z
        <4>1. Len(t) + z \in Nat /\ Pos(receive_next) + (Len(t) + z) < SeqHalf
          BY <2>3, <2>6, <2>9, <2>10
        <4>2. SeqSub(SeqAdd(receive_next, Len(t) + z), PeerIsn) = Pos(receive_next) + (Len(t) + z)
          BY <2>3, <4>1, RelAdd, PeerAssumption DEF Pos
        <4>3. Pos(receive_next') = 1 + Len(rx) + (Len(t) + z)
          BY <2>6, <3>2, <4>2 DEF Pos
        <4> QED BY <2>3, <2>9, <2>10, <4>3
      <3>4. /\ Len(rx') = Len(rx) + Len(t)
            /\ \A k \in 1 .. Len(rx) + Len(t) : k <= Len(PeerFile) => rx'[k] = PeerFile[k]
        <4>1. /\ \A k \in 1 .. Len(rx) : k <= Len(PeerFile) => rx[k] = PeerFile[k]
              /\ \A j \in 1 .. Len(t) : Len(rx) + j <= Len(PeerFile) =>
                     t[j] = PeerFile[Len(rx) + j]
          BY <2>1 DEF DownInv
        <4>2. Agrees(rx, 0, PeerFile, Len(PeerFile))
          <5>1. \A k \in 1 .. Len(rx) : 0 + k = k
            BY <2>3
          <5> QED BY <4>1, <5>1 DEF Agrees
        <4>3. Agrees(t, Len(rx), PeerFile, Len(PeerFile))
          BY <4>1 DEF Agrees
        <4>4. Len(PeerFile) \in Int
          BY <2>4
        <4>5. Agrees(rx \o t, 0, PeerFile, Len(PeerFile))
          BY <2>1, <2>3, <4>2, <4>3, <4>4, StreamAppend
        <4>6. Len(rx') = Len(rx) + Len(t)
          BY <2>1, <2>3, <3>1, ConcatProperties
        <4>7. \A k \in 1 .. Len(rx') : 0 + k = k
          BY <2>1, <2>3, <4>6
        <4> QED BY <3>1, <4>5, <4>6, <4>7 DEF Agrees
      <3>5. \A k \in 1 .. Len(rx') : rx'[k] = PeerFile[k]
        BY <2>1, <2>3, <2>4, <2>5, <3>4
      <3>6. peer_fin' => Len(rx') = Len(PeerFile)
        <4> SUFFICES ASSUME "FIN" \in m.flags PROVE Len(rx') = Len(PeerFile)
          BY <3>1
        <4>1. Pos(m.seq) + Len(m.data) = Len(PeerFile) + 1
          BY <2>2 DEF PeerSegmentOK, LastPos
        <4>2. 1 + Len(rx) + Len(t) = Len(PeerFile) + 1
          BY <2>10, <4>1
        <4>3. Len(rx) + Len(t) = Len(PeerFile)
          <5>1. Len(rx) \in Nat /\ Len(t) \in Nat /\ Len(PeerFile) \in Nat
            BY <2>3, <2>4, <2>10
          <5> QED BY <4>2, <5>1
        <4> QED BY <3>4, <4>3
      <3>7. Len(rx') <= Len(PeerFile)
        BY <2>5, <3>4
      <3>8. Pos(receive_next') = 1 + Len(rx') + One(peer_fin')
        BY <2>1, <2>3, <3>2, <3>3, <3>4
      <3>9. PeerFile' = PeerFile /\ state' \notin {"IDLE", "SYN_SENT"}
        BY <3>1 DEF PeerFile, Synchronized
      <3>10. DownInv'
        BY <3>5, <3>6, <3>7, <3>8, <3>9 DEF DownInv, Pos
      <3> QED BY <3>1, <3>10
    <2> QED BY <2>7, <2>8
  <1> QED BY <1>1, <1>2

-----------------------------------------------------------------------------
(* The bytes that one acknowledgement delivers: the sum over the slots is  *)
(* the number of positions they give up.                                   *)

Cover(P, s) == UNION {P[i] : i \in s}
Disjoint(P, U, D) == /\ P \in [U -> SUBSET D]
                     /\ \A i, j \in U : i # j => P[i] \cap P[j] = {}
SomeOrder(f, A, U) == \A s \in SUBSET U : s # {} => \E e \in s : f[s] = A[e] + f[s \ {e}]
AnyOrder(f, A, U) == \A s \in SUBSET U : \A e \in s : f[s] = A[e] + f[s \ {e}]

\* Disjoint sets of positions count one by one.
LEMMA CountUnion ==
    ASSUME NEW U, NEW D, IsFiniteSet(D), NEW P, Disjoint(P, U, D),
           NEW s \in SUBSET U, NEW e \in s
    PROVE  Cardinality(Cover(P, s)) = Cardinality(P[e]) + Cardinality(Cover(P, s \ {e}))
  <1> DEFINE X == P[e]
             Y == Cover(P, s \ {e})
             Z == Cover(P, s)
  <1>1. X \subseteq D /\ Y \subseteq D
    BY DEF Cover, Disjoint
  <1>2. X \cap Y = {}
    BY DEF Cover, Disjoint
  <1>3. Z = X \cup Y
    BY DEF Cover
  <1> HIDE DEF X, Y, Z
  <1>4. IsFiniteSet(X) /\ IsFiniteSet(Y)
    BY <1>1, FS_Subset
  <1>5. Cardinality(Z) = Cardinality(X) + Cardinality(Y) - Cardinality({})
    BY <1>2, <1>3, <1>4, FS_Union
  <1>6. Cardinality(X) \in Nat /\ Cardinality(Y) \in Nat /\ Cardinality({}) = 0
    BY <1>4, FS_CardinalityType, FS_EmptySet
  <1>7. Cardinality(Z) = Cardinality(X) + Cardinality(Y)
    BY <1>5, <1>6
  <1> QED BY <1>7 DEF X, Y, Z

\* Two functions with the same recursion over a finite set are equal.
LEMMA SameRecursion ==
    ASSUME NEW U, IsFiniteSet(U), NEW f, NEW g, NEW A, f[{}] = g[{}],
           SomeOrder(f, A, U), AnyOrder(g, A, U)
    PROVE  f[U] = g[U]
  <1> DEFINE T == {n \in Nat : \A s \in SUBSET U : Cardinality(s) = n => f[s] = g[s]}
  <1>1. \A s \in SUBSET U : IsFiniteSet(s)
    BY FS_Subset
  <1>2. 0 \in T
    BY <1>1, FS_EmptySet
  <1>3. ASSUME NEW n \in T PROVE n + 1 \in T
    <2> SUFFICES ASSUME NEW s \in SUBSET U, Cardinality(s) = n + 1 PROVE f[s] = g[s]
      OBVIOUS
    <2>1. n \in Nat /\ n + 1 # 0
      OBVIOUS
    <2>2. s # {}
      BY <2>1, FS_EmptySet
    <2>3. PICK e \in s : f[s] = A[e] + f[s \ {e}]
      BY <2>2 DEF SomeOrder
    <2>4. Cardinality(s \ {e}) = (n + 1) - 1
      BY <1>1, FS_RemoveElement
    <2>5. Cardinality(s \ {e}) = n /\ s \ {e} \in SUBSET U
      BY <2>1, <2>4
    <2>6. f[s \ {e}] = g[s \ {e}]
      BY <2>5
    <2> QED BY <2>3, <2>6 DEF AnyOrder
  <1>4. \A n \in Nat : n \in T
    <2>1. T \subseteq Nat
      OBVIOUS
    <2> HIDE DEF T
    <2> QED BY <1>2, <1>3, <2>1, SetInduction
  <1>5. Cardinality(U) \in T
    BY <1>4, FS_CardinalityType
  <1> QED BY <1>5

\* The sum that ack adds to delivered is the size of a set of positions, when
\* every slot gives up a set of its own.
LEMMA SumCounts ==
    ASSUME NEW a, NEW D, IsFiniteSet(D), NEW P, Disjoint(P, Slots, D),
           \A i \in Slots : AckedBytes(pending[i], a) = Cardinality(P[i])
    PROVE  TotalAcked(a) \in Nat /\ TotalAcked(a) <= Cardinality(D)
  <1> DEFINE A == [i \in Slots |-> AckedBytes(pending[i], a)]
             Is(g) == g = [s \in SUBSET Slots |->
                        IF s = {} THEN 0
                        ELSE AckedBytes(pending[CHOOSE e \in s : TRUE], a)
                               + g[s \ {CHOOSE e \in s : TRUE}]]
             G == [s \in SUBSET Slots |-> Cardinality(Cover(P, s))]
             f == CHOOSE g : Is(g)
  <1>1. TotalAcked(a) = f[Slots]
    BY DEF TotalAcked, MapThenSumSet, MapThenFoldSet
  <1>2. IsFiniteSet(Slots)
    BY FS_Interval, ConstantsAssumption
  <1> HIDE DEF Slots
  <1>3. ASSUME NEW s \in SUBSET Slots, NEW e \in s PROVE G[s] = A[e] + G[s \ {e}]
    <2>1. Cardinality(Cover(P, s)) = Cardinality(P[e]) + Cardinality(Cover(P, s \ {e}))
      BY CountUnion
    <2>2. A[e] = Cardinality(P[e]) /\ s \ {e} \in SUBSET Slots
      OBVIOUS
    <2> HIDE DEF A
    <2> QED BY <2>1, <2>2
  <1>4. G[{}] = 0
    <2>1. Cover(P, {}) = {}
      BY DEF Cover
    <2> QED BY <2>1, FS_EmptySet
  <1>5. Is(G)
    <2> DEFINE F == [s \in SUBSET Slots |->
                        IF s = {} THEN 0
                        ELSE AckedBytes(pending[CHOOSE e \in s : TRUE], a)
                               + G[s \ {CHOOSE e \in s : TRUE}]]
    <2>1. ASSUME NEW s \in SUBSET Slots PROVE F[s] = G[s]
      <3>1. CASE s = {}
        BY <1>4, <3>1
      <3>2. CASE s # {}
        <4> DEFINE e == CHOOSE e \in s : TRUE
        <4>1. e \in s
          BY <3>2, Zenon
        <4>2. F[s] = AckedBytes(pending[e], a) + G[s \ {e}]
          BY <3>2
        <4> HIDE DEF e, F, G
        <4>3. A[e] = AckedBytes(pending[e], a)
          BY <4>1
        <4>4. G[s] = A[e] + G[s \ {e}]
          BY <1>3, <4>1
        <4> QED BY <4>2, <4>3, <4>4
      <3> QED BY <3>1, <3>2
    <2>2. F = [s \in SUBSET Slots |-> F[s]] /\ G = [s \in SUBSET Slots |-> G[s]]
      OBVIOUS
    <2>3. F = G
      <3> HIDE DEF F, G
      <3> QED BY <2>1, <2>2
    <2> QED BY <2>3
  <1>6. Is(f)
    <2> HIDE DEF Is, G
    <2> QED BY <1>5, Zenon
  <1> HIDE DEF f, G
  <1>7. f[{}] = G[{}]
    <2>1. f[{}] = 0
      BY <1>6
    <2> QED BY <1>4, <2>1
  <1>8. ASSUME NEW s \in SUBSET Slots, s # {}
        PROVE  \E e \in s : f[s] = A[e] + f[s \ {e}]
    <2> DEFINE e == CHOOSE e \in s : TRUE
    <2>1. e \in s
      BY <1>8, Zenon
    <2>2. f[s] = AckedBytes(pending[e], a) + f[s \ {e}]
      BY <1>6, <1>8
    <2> HIDE DEF e
    <2>3. A[e] = AckedBytes(pending[e], a)
      BY <2>1
    <2> HIDE DEF A
    <2> QED BY <2>1, <2>2, <2>3
  <1>9. f[Slots] = G[Slots]
    <2> DEFINE U == Slots
    <2>1. IsFiniteSet(U)
      BY <1>2
    <2>2. SomeOrder(f, A, U)
      BY <1>8 DEF SomeOrder
    <2>3. AnyOrder(G, A, U)
      BY <1>3 DEF AnyOrder
    <2> HIDE DEF U, A
    <2>4. f[U] = G[U]
      BY <1>7, <2>1, <2>2, <2>3, SameRecursion
    <2> QED BY <2>4 DEF U
  <1>10. G[Slots] \in Nat /\ G[Slots] <= Cardinality(D)
    <2>1. G[Slots] = Cardinality(Cover(P, Slots))
      BY DEF G
    <2>2. Cover(P, Slots) \subseteq D
      BY DEF Cover, Disjoint
    <2> QED BY <2>1, <2>2, FS_Subset, FS_CardinalityType
  <1> QED BY <1>1, <1>9, <1>10

\* An acknowledgement delivers at most the bytes of the file between una and
\* itself.
LEMMA AckedBound ==
    ASSUME TypeOK, Late, NEW a \in Seqs, ~ Before(next, a), ~ Before(a, una)
    PROVE  /\ TotalAcked(a) \in Nat
           /\ \/ TotalAcked(a) = 0
              \/ /\ Rel(una) + TotalAcked(a) <= SeqSub(a, isn)
                 /\ Rel(una) + TotalAcked(a) <= Len(tx) + 1
  <1> DEFINE lo == Rel(una)
             hi == Rel(next)
             x == SeqSub(a, isn)
             top == Min2(x - 1, Len(tx))
             D == lo .. top
             r(i) == SeqSub(pending[i].sequence, isn)
             n(i) == AckedBytes(pending[i], a)
             P == [i \in Slots |-> r(i) .. r(i) + n(i) - 1]
  <1>1. /\ isn \in Seqs /\ una \in Seqs /\ next \in Seqs
        /\ pending \in [Slots -> SegmentType] /\ Len(tx) \in Nat /\ tx_offset \in Nat
        /\ tx_offset <= Len(tx)
    BY LenProperties DEF TypeOK
  <1>2. lo \in Nat /\ hi \in Nat /\ lo <= hi /\ hi < SeqHalf
    BY LateBounds, ConstantsAssumption
  <1>3. lo <= x /\ x <= hi /\ x \in Nat
    BY <1>1, <1>2, AckRange, SubType DEF Rel
  <1>4. top \in Int /\ top <= x - 1 /\ top <= Len(tx)
        /\ \A p \in Int : p <= x - 1 /\ p <= Len(tx) => p <= top
    BY <1>1, <1>3 DEF Min2
  <1>5. ASSUME NEW i \in Slots
        PROVE  /\ r(i) \in Nat /\ n(i) \in Nat
               /\ n(i) # 0 => /\ lo <= r(i) /\ r(i) + n(i) - 1 <= top /\ pending[i].used
                              /\ n(i) <= pending[i].length
    <2> DEFINE s == pending[i]
    <2>1. s \in SegmentType
      BY <1>1
    <2>2. s.sequence \in Seqs /\ s.length \in Nat /\ s.offset \in Nat
      BY <2>1 DEF SegmentType
    <2>3. r(i) \in Nat
      BY <1>1, <2>2, SubType
    <2>4. CASE ~ s.used \/ ~ Before(s.sequence, a)
      BY <2>3, <2>4 DEF AckedBytes
    <2>5. CASE s.used /\ Before(s.sequence, a)
      <3>1. SlotOK(s, isn, lo, hi, tx_offset, own_fin, Len(tx))
        BY <2>5 DEF Late, Shape, SlotsOK
      <3>2. n(i) = Min2(s.length, SeqSub(a, s.sequence))
        BY <2>5 DEF AckedBytes
      <3>3. SequenceSize(s) \in Nat
        BY <2>2 DEF SequenceSize
      <3> HIDE DEF s, lo, hi, x, n, r
      <3>4. lo <= r(i) /\ r(i) + SequenceSize(s) <= hi
        BY <3>1 DEF SlotOK, r, s
      <3>5. r(i) < SeqHalf /\ x < SeqHalf
        BY <1>2, <1>3, <2>3, <3>3, <3>4, ConstantsAssumption
      <3>6. r(i) < x /\ SeqSub(a, s.sequence) = x - r(i)
        <4>1. (Before(s.sequence, a) <=> r(i) < x) /\ (r(i) <= x => SeqSub(a, s.sequence) = x - r(i))
          BY <1>1, <2>2, <3>5, RelBefore DEF r, x, s
        <4> QED BY <1>3, <2>3, <2>5, <4>1
      <3>7. n(i) = Min2(s.length, x - r(i))
        BY <3>2, <3>6
      <3>8. n(i) \in Nat /\ n(i) <= s.length /\ n(i) <= x - r(i)
        BY <1>3, <2>2, <2>3, <3>6, <3>7 DEF Min2
      <3>9. CASE s.kind = "DATA"
        <4>1. r(i) = s.offset + 1 /\ s.offset + s.length <= tx_offset
          BY <3>1, <3>9 DEF SlotOK, r, s
        <4>2. r(i) + n(i) - 1 <= x - 1 /\ r(i) + n(i) - 1 <= Len(tx)
          <5>1. /\ tx_offset \in Nat /\ Len(tx) \in Nat /\ tx_offset <= Len(tx)
                /\ s.offset \in Nat /\ s.length \in Nat
            BY <1>1, <2>2
          <5>2. r(i) + n(i) - 1 <= x - 1
            BY <1>3, <2>3, <3>8
          <5>3. r(i) + n(i) - 1 <= Len(tx)
            BY <3>8, <4>1, <5>1
          <5> QED BY <5>2, <5>3
        <4>3. r(i) + n(i) - 1 <= top
          BY <1>4, <2>3, <3>8, <4>2
        <4> QED BY <2>3, <2>5, <3>4, <3>8, <4>3 DEF s
      <3>10. CASE s.kind # "DATA"
        <4>1. s.length = 0
          BY <3>1, <3>10 DEF SlotOK
        <4>2. n(i) = 0
          BY <3>8, <4>1
        <4> QED BY <2>3, <4>2
      <3> QED BY <3>9, <3>10
    <2> QED BY <2>4, <2>5
  <1> HIDE DEF lo, hi, x, top, r, n
  <1>6. \A i \in Slots : P[i] = r(i) .. r(i) + n(i) - 1
    OBVIOUS
  <1>7. ASSUME NEW i \in Slots PROVE P[i] \subseteq D /\ n(i) = Cardinality(P[i])
    <2>1. CASE n(i) = 0
      <3>1. P[i] = {}
        BY <1>5, <1>6, <2>1
      <3> QED BY <2>1, <3>1, FS_EmptySet
    <2>2. CASE n(i) # 0
      <3>1. r(i) \in Int /\ r(i) + n(i) - 1 \in Int /\ ~ (r(i) > r(i) + n(i) - 1)
            /\ (r(i) + n(i) - 1) - r(i) + 1 = n(i)
        BY <1>5, <2>2
      <3>2. Cardinality(r(i) .. r(i) + n(i) - 1) = n(i)
        BY <3>1, FS_Interval
      <3>3. r(i) .. r(i) + n(i) - 1 \subseteq lo .. top
        BY <1>2, <1>4, <1>5, <2>2
      <3> QED BY <1>6, <3>2, <3>3
    <2> QED BY <2>1, <2>2
  <1>8. ASSUME NEW i \in Slots, NEW j \in Slots, i # j PROVE P[i] \cap P[j] = {}
    <2> SUFFICES ASSUME NEW p \in P[i], p \in P[j] PROVE FALSE
      OBVIOUS
    <2>1. ASSUME NEW k \in Slots, p \in P[k] PROVE Holds(pending[k], isn, p) /\ p \in Nat
      <3>1. p \in Int /\ r(k) <= p /\ p <= r(k) + n(k) - 1
        BY <1>6, <2>1, <1>5
      <3>2. n(k) # 0
        BY <1>5, <3>1
      <3>0. pending[k].length \in Nat
        <4>1. pending[k] \in SegmentType
          BY <1>1
        <4> QED BY <4>1 DEF SegmentType
      <3>3. pending[k].used /\ p < r(k) + pending[k].length /\ p \in Nat
        BY <1>5, <3>0, <3>1, <3>2
      <3>4. pending[k].length <= SequenceSize(pending[k]) /\ SequenceSize(pending[k]) \in Nat
            /\ pending[k].length \in Nat
        BY <3>0 DEF SequenceSize
      <3>5. p < r(k) + SequenceSize(pending[k])
        BY <1>5, <3>3, <3>4
      <3> QED BY <3>1, <3>3, <3>5 DEF Holds, r
    <2>2. /\ Holds(pending[i], isn, p) /\ Holds(pending[j], isn, p) /\ p \in Nat
      BY <2>1
    <2> QED BY <1>8, <2>2 DEF Late, Shape, NoOverlap
  <1>9. P \in [Slots -> SUBSET D]
    BY <1>7
  <1>10. IsFiniteSet(D) /\ Cardinality(D) = IF lo > top THEN 0 ELSE top - lo + 1
    <2>1. lo \in Int /\ top \in Int
      BY <1>2, <1>4
    <2> QED BY <2>1, FS_Interval
  <1>11. TotalAcked(a) \in Nat /\ TotalAcked(a) <= Cardinality(D)
    <2>1. Disjoint(P, Slots, D)
      BY <1>8, <1>9 DEF Disjoint
    <2>2. \A i \in Slots : AckedBytes(pending[i], a) = Cardinality(P[i])
      BY <1>7 DEF n
    <2> HIDE DEF P, D
    <2> QED BY <1>10, <2>1, <2>2, SumCounts
  <1>12. TotalAcked(a) = 0 \/ (lo + TotalAcked(a) <= x /\ lo + TotalAcked(a) <= Len(tx) + 1)
    BY <1>1, <1>2, <1>3, <1>4, <1>10, <1>11, SMTT(30)
  <1> QED BY <1>11, <1>12 DEF lo, x

\* What is delivered was acknowledged, and is a part of the file.
LEMMA DeliveredStep ==
    ASSUME TypeOK, Late, UpInv, delivered \in Nat, NEW a \in Seqs, Acknowledge(a),
           ~ Before(next, a), ~ Before(a, una)
    PROVE  /\ delivered' \in Nat /\ delivered' <= Len(tx)
           /\ delivered' # 0 => delivered' < SeqSub(a, isn)
  <1>1. delivered' = delivered + TotalAcked(a)
    BY DEF Acknowledge
  <1>2. /\ Rel(una) \in Nat /\ Rel(next) \in Nat /\ Len(tx) \in Nat /\ 1 <= Rel(una)
        /\ Rel(next) < SeqHalf /\ Rel(una) <= Rel(next)
    BY LateBounds, ConstantsAssumption DEF Late, Bounds
  <1>3. delivered <= Len(tx) /\ delivered < Rel(una)
    BY <1>2 DEF UpInv
  <1>4. Rel(una) <= SeqSub(a, isn) /\ SeqSub(a, isn) \in Nat
    <2>1. isn \in Seqs /\ una \in Seqs /\ next \in Seqs
      BY DEF TypeOK
    <2> QED BY <1>2, <2>1, AckRange, SubType DEF Rel
  <1>5. /\ TotalAcked(a) \in Nat
        /\ \/ TotalAcked(a) = 0
           \/ /\ Rel(una) + TotalAcked(a) <= SeqSub(a, isn)
              /\ Rel(una) + TotalAcked(a) <= Len(tx) + 1
    BY AckedBound
  <1> QED BY <1>1, <1>2, <1>3, <1>4, <1>5

-----------------------------------------------------------------------------
(* The host's steps.                                                       *)

LEMMA MorePeerSegments ==
    ASSUME UNCHANGED <<isn, world>>, isn \in Seqs, p_rcv \in Seqs, p_rcv' \in Seqs,
           p_open => p_open' /\ SeqSub(p_rcv, isn) <= SeqSub(p_rcv', isn)
    PROVE  PeerSegments \subseteq PeerSegments'
  <1> SUFFICES ASSUME NEW m \in PeerSegments PROVE m \in PeerSegments'
    OBVIOUS
  <1>1. /\ PeerSegmentOK(m) /\ m.ack \in Seqs
        /\ m \in [flags : SUBSET Flags, seq : Seqs, ack : Seqs, wnd : Nat, data : Seq(Byte),
                  mss : Nat]
    BY DEF PeerSegments
  <1>2. SeqSub(m.ack, isn) \in Nat /\ SeqSub(p_rcv, isn) \in Nat /\ SeqSub(p_rcv', isn) \in Nat
    BY <1>1, SubType
  <1>3. (Ample' <=> Ample) /\ PeerFile' = PeerFile /\ Rel(m.ack)' = Rel(m.ack)
    BY DEF Ample, PeerFile, Rel
  <1>4. Rel(p_rcv)' = SeqSub(p_rcv', isn) /\ Rel(p_rcv) = SeqSub(p_rcv, isn)
        /\ Rel(m.ack) = SeqSub(m.ack, isn)
    BY DEF Rel
  <1>5. p_open' /\ 1 <= Rel(m.ack) /\ Rel(m.ack) <= Rel(p_rcv)'
    BY <1>1, <1>2, <1>4 DEF PeerSegmentOK
  <1>6. LastPos' = LastPos
    BY <1>3 DEF LastPos
  <1>7. PeerSegmentOK(m)'
    BY <1>1, <1>3, <1>5, <1>6 DEF PeerSegmentOK, Pos, SequenceLength
  <1> QED BY <1>1, <1>7 DEF PeerSegments

\* A step that acknowledges nothing and brings the peer nothing.
LEMMA UpSame ==
    ASSUME TypeOK, UpInv, UNCHANGED <<isn, tx, una, delivered, p_open, p_rx, p_fin, p_rcv, world>>,
           own_fin' \in BOOLEAN, own_fin => own_fin'
    PROVE  UpInv'
  <1>1. Rel(una)' = Rel(una) /\ Rel(p_rcv)' = Rel(p_rcv) /\ (Ample' <=> Ample)
    BY DEF Rel, Ample
  <1>2. own_fin \in BOOLEAN /\ Len(tx) \in Nat
    BY LenProperties DEF TypeOK
  <1>3. Len(p_rx) <= Len(tx) + One(own_fin' /\ ~ Ample)
    <2>1. CASE own_fin' = own_fin
      BY <2>1 DEF UpInv
    <2>2. CASE own_fin = FALSE /\ own_fin' = TRUE
      <3>1. Len(p_rx) <= Len(tx) + 0
        BY <2>2 DEF UpInv, One
      <3> QED BY <1>2, <2>2, <3>1 DEF One
    <2> QED BY <1>2, <2>1, <2>2
  <1>4. One(own_fin /\ ~ Ample)' = One(own_fin' /\ ~ Ample)
    BY <1>1 DEF One
  <1> QED BY <1>1, <1>3, <1>4 DEF UpInv

LEMMA InputUp ==
    ASSUME TypeOK, SenderInv, UpInv, delivered \in Nat, NEW m \in PeerSegments,
           NEW e \in BOOLEAN, TcpInput(m, e), UNCHANGED <<peer, world>>
    PROVE  UpInv' /\ delivered' \in Nat /\ UNCHANGED <<isn, tx, own_fin>>
  <1>0. own_fin \in BOOLEAN /\ isn \in Seqs
    BY DEF TypeOK
  <1>1. UNCHANGED <<isn, tx, own_fin>>
    <2>1. CASE InputAccepted(m, e)
      BY <2>1 DEF InputAccepted, Acknowledge, transfer, sender
    <2>2. CASE ~ InputAccepted(m, e)
      BY <2>2 DEF TcpInput, InputIgnored, InputRefused, InputSynAck, InputReset,
             InputChallenged, InputDuplicateAck, transfer, sender
    <2> QED BY <2>1, <2>2
  <1>2. CASE UNCHANGED <<una, delivered>>
    BY <1>0, <1>1, <1>2, UpSame DEF peer
  <1>3. CASE /\ una' = m.ack
             /\ delivered' \in Nat /\ delivered' <= Len(tx)
             /\ delivered' # 0 => delivered' < SeqSub(m.ack, isn)
    <2>1. PeerSegmentOK(m)
      BY PeerHeader
    <2>2. p_open /\ Rel(m.ack) <= Rel(p_rcv)
      BY <2>1 DEF PeerSegmentOK
    <2>3. Rel(una)' = Rel(m.ack) /\ Rel(m.ack) = SeqSub(m.ack, isn)
      BY <1>1, <1>3 DEF Rel
    <2>4. Rel(p_rcv)' = Rel(p_rcv) /\ (Ample' <=> Ample)
          /\ One(own_fin /\ ~ Ample)' = One(own_fin /\ ~ Ample)
      BY <1>1 DEF Rel, peer, Ample, One
    <2>5. UpInv'
      BY <1>1, <1>3, <2>2, <2>3, <2>4 DEF UpInv, peer
    <2> QED BY <1>1, <1>3, <2>5
  <1>4. CASE InputSynAck(m)
    <2>1. una' = m.ack /\ delivered' = delivered /\ state = "SYN_SENT"
      BY <1>4 DEF InputSynAck, Establishes
    <2>2. una = isn
      BY <2>1 DEF SenderInv, Early, Late
    <2>3. Rel(una) = 0
      BY <1>0, <2>2 DEF Rel, SeqSub
    <2>4. delivered = 0 /\ delivered <= Len(tx)
      BY <2>3 DEF UpInv
    <2> QED BY <1>3, <2>1, <2>4
  <1>5. CASE InputAccepted(m, e) /\ m.ack # una
    <2>1. /\ Acknowledge(m.ack) /\ ~ Before(next, m.ack) /\ ~ Before(m.ack, una)
          /\ Synchronized
      BY <1>5 DEF InputAccepted, Processed
    <2>2. Late /\ m.ack \in Seqs
      BY <2>1, LateWhen, PeerHeader DEF Synchronized, IsSegment
    <2>3. una' = m.ack
      BY <2>1 DEF Acknowledge
    <2> QED BY <1>3, <2>1, <2>2, <2>3, DeliveredStep
  <1>6. CASE InputAccepted(m, e) /\ m.ack = una
    BY <1>2, <1>6 DEF InputAccepted, sender
  <1>7. CASE ~ InputAccepted(m, e) /\ ~ InputSynAck(m)
    BY <1>2, <1>7 DEF TcpInput, InputIgnored, InputRefused, InputReset,
             InputChallenged, InputDuplicateAck, sender
  <1> QED BY <1>4, <1>5, <1>6, <1>7

LEMMA InputDown ==
    ASSUME TypeOK, SenderInv, DownInv, WorldInv, NEW m \in PeerSegments,
           NEW e \in BOOLEAN, TcpInput(m, e), UNCHANGED world
    PROVE  /\ DownInv'
           /\ FilesFit => error' \in {error, "retransmission limit"}
           /\ state' # "IDLE" \/ state = "IDLE"
  <1>0. "RST" \notin m.flags /\ PeerSegmentOK(m) /\ m.seq \in Seqs
    BY PeerHeader DEF IsSegment
  <1>1. CASE InputIgnored(m)
    BY <1>1, DownSame DEF InputIgnored
  <1>2. ~ InputRefused(m) /\ ~ InputReset(m)
    BY <1>0 DEF InputRefused, Refuses, InputReset, Resets
  <1>3. CASE InputSynAck(m)
    <2>1. /\ state = "SYN_SENT" /\ state' = "ESTABLISHED" /\ m.flags = {"SYN", "ACK"}
          /\ receive_next' = SeqAdd(m.seq, 1) /\ UNCHANGED <<rx, peer_fin, error>>
      BY <1>3 DEF InputSynAck, Establishes
    <2>2. m.seq = PeerIsn
      <3>1. "SYN" \in m.flags /\ "SYN" \notin {"ACK"} /\ "SYN" \notin {"ACK", "FIN"}
        BY <2>1
      <3>2. m.flags # {"ACK"} /\ m.flags # {"ACK", "FIN"}
        BY <3>1, Zenon
      <3> QED BY <1>0, <3>2 DEF PeerSegmentOK
    <2>3. Pos(receive_next') = 1
      BY <1>0, <2>1, <2>2, ConstantsAssumption DEF Pos, SeqAdd, SeqSub
    <2>4. rx = <<>> /\ peer_fin = FALSE
      BY <2>1 DEF DownInv
    <2>5. PeerFile' = PeerFile /\ Pos(receive_next)' = Pos(receive_next')
      BY DEF PeerFile, Pos
    <2>6. DownInv'
      BY <2>1, <2>3, <2>4, <2>5 DEF DownInv, One, Synchronized
    <2> QED BY <2>1, <2>6
  <1>4. CASE InputChallenged(m)
    BY <1>4, DownSame DEF InputChallenged, Challenged, Synchronized
  <1>5. CASE InputDuplicateAck(m, e)
    <2>1. Synchronized /\ UNCHANGED receiver /\ ack_pending' = ack_pending
      BY <1>5 DEF InputDuplicateAck, Processed
    <2>2. state' \in {state, "FAILED"} /\ error' \in {error, "retransmission limit"}
      BY <1>5 DEF InputDuplicateAck, Loss, LossGivesUp, LossDeferred, LossRetransmits, Abort
    <2>3. DownInv'
      BY <2>1, <2>2, DownSame
    <2> QED BY <2>2, <2>3
  <1>6. CASE InputAccepted(m, e)
    <2>1. Synchronized /\ Receive(m, e)
      BY <1>6 DEF InputAccepted, Processed
    <2>2. DownInv' /\ (FilesFit => error' = error)
      BY <2>1, ReceiveDown
    <2>3. state' \in {state, "FAILED"}
      BY <2>1, ReceiveSame
    <2> QED BY <2>1, <2>2, <2>3 DEF Synchronized
  <1> QED BY <1>1, <1>2, <1>3, <1>4, <1>5, <1>6 DEF TcpInput

LEMMA InputRoom ==
    ASSUME TypeOK, RoomInv, NEW m \in PeerSegments, NEW e \in BOOLEAN, TcpInput(m, e),
           UNCHANGED <<peer, world, isn>>
    PROVE  RoomInv'
  <1>1. Ample => m.wnd # 0
    BY PeerHeader DEF PeerSegmentOK
  <1>2. Synchronized' => Synchronized \/ peer_window' = m.wnd
    <2>1. CASE InputSynAck(m)
      BY <2>1 DEF InputSynAck, SetWindow
    <2>2. CASE InputDuplicateAck(m, e) \/ InputAccepted(m, e)
      BY <2>2 DEF InputDuplicateAck, InputAccepted, Processed
    <2>3. CASE InputRefused(m) \/ InputReset(m)
      BY <2>3 DEF InputRefused, InputReset, Abort, Synchronized
    <2>4. CASE InputIgnored(m) \/ InputChallenged(m)
      BY <2>4 DEF InputIgnored, InputChallenged, Synchronized
    <2> QED BY <2>1, <2>2, <2>3, <2>4 DEF TcpInput
  <1>3. peer_window' \in {peer_window, m.wnd}
    <2>1. CASE InputSynAck(m)
      BY <2>1 DEF InputSynAck, SetWindow
    <2>2. CASE InputDuplicateAck(m, e) \/ InputAccepted(m, e)
      BY <2>2 DEF InputDuplicateAck, InputAccepted, UpdateWindow, SetWindow, window
    <2>3. CASE InputRefused(m) \/ InputReset(m) \/ InputIgnored(m) \/ InputChallenged(m)
      BY <2>3 DEF InputRefused, InputReset, InputIgnored, InputChallenged, window
    <2> QED BY <2>1, <2>2, <2>3 DEF TcpInput
  <1>4. Ample' <=> Ample
    BY DEF Ample
  <1>5. Ample /\ Synchronized' => peer_window' # 0
    BY <1>1, <1>2, <1>3 DEF RoomInv
  <1> QED BY <1>4, <1>5 DEF RoomInv, peer

\* Why a transfer with a conforming peer may fail.
Timeouts == {"120-second transfer deadline", "retransmission limit"}

\* A step of the host that leaves the transfer's data alone.
LEMMA HostWorld ==
    ASSUME TypeOK, WorldInv, UNCHANGED <<peer, world, isn, tx>>, own_fin => own_fin',
           out' \subseteq HostSegments', Emitted, delivered' \in Nat,
           toHost' \in Seq(PeerSegments), state' # "IDLE",
           FilesFit => error' = error \/ error' \in Timeouts
    PROVE  WorldInv'
  <1>1. toPeer \in Seq(HostSegments')
    <2>1. HostSegments \subseteq HostSegments'
      BY MoreHostSegments
    <2>2. toPeer \in Seq(HostSegments)
      BY DEF WorldInv
    <2> DEFINE T == HostSegments'
    <2>3. HostSegments \subseteq T
      BY <2>1
    <2> HIDE DEF T
    <2>4. toPeer \in Seq(T)
      BY <2>2, <2>3, SeqMonotone
    <2> QED BY <2>4 DEF T
  <1>2. toPeer' \in Seq(HostSegments')
    <2> DEFINE T == HostSegments'
    <2>1. toPeer \in Seq(T) /\ out' \subseteq T /\ world.cap \in Nat
      BY <1>1, PeerFileType
    <2> HIDE DEF T
    <2>2. toPeer' \in Seq(T)
      BY <2>1, EmittedType
    <2> QED BY <2>2 DEF T
  <1>3. toHost' \in Seq(PeerSegments')
    <2>1. /\ UNCHANGED <<isn, world>> /\ isn \in Seqs /\ p_rcv \in Seqs /\ p_rcv' = p_rcv
          /\ p_open' = p_open /\ SeqSub(p_rcv, isn) \in Nat
      BY SubType DEF WorldInv, peer, TypeOK
    <2>11. p_rcv' \in Seqs /\ (p_open => p_open') /\ SeqSub(p_rcv, isn) <= SeqSub(p_rcv', isn)
      <3>1. SeqSub(p_rcv', isn) = SeqSub(p_rcv, isn)
        BY <2>1
      <3>2. SeqSub(p_rcv, isn) <= SeqSub(p_rcv', isn)
        BY <2>1, <3>1
      <3> QED BY <2>1, <3>2, Zenon
    <2>2. PeerSegments \subseteq PeerSegments'
      BY <2>1, <2>11, MorePeerSegments
    <2> DEFINE T == PeerSegments'
    <2>3. PeerSegments \subseteq T
      BY <2>2
    <2> HIDE DEF T
    <2>4. toHost' \in Seq(T)
      BY <2>3, SeqMonotone
    <2> QED BY <2>4 DEF T
  <1>4. FilesFit' => FailsOnlyByTime'
    <2>1. FilesFit' <=> FilesFit
      BY DEF FilesFit, PeerFile
    <2> QED BY <2>1, Zenon DEF WorldInv, FailsOnlyByTime, Timeouts
  <1> QED BY <1>2, <1>3, <1>4 DEF WorldInv, peer, Limit

LEMMA HostInputInv ==
    ASSUME ConnInv, Going, NEW i \in Deliverable(toHost), NEW d \in BOOLEAN, NEW e \in BOOLEAN,
           HostInput(i, d, e)
    PROVE  ConnInv'
  <1> DEFINE m == toHost[i]
  <1>1. /\ TypeOK /\ SenderInv /\ DownInv /\ UpInv /\ RoomInv /\ WorldInv
        /\ TcpInput(m, e) /\ Emitted /\ toHost' = Without(toHost, i, d)
        /\ UNCHANGED <<peer, world>>
    BY DEF ConnInv, HostInput
  <1>2. toHost \in Seq(PeerSegments) /\ i \in 1 .. Len(toHost)
    BY <1>1 DEF Deliverable, WorldInv
  <1>3. m \in PeerSegments /\ Without(toHost, i, d) \in Seq(PeerSegments)
    BY <1>2, WithoutType
  <1>4. state # "IDLE"
    <2>1. state = "IDLE" => Len(toHost) = 0
      BY <1>1 DEF WorldInv
    <2> QED BY <1>2, <2>1
  <1> HIDE DEF m
  <1>5. IsSegment(m)
    BY <1>1, <1>3, PeerHeader
  <1>6. TypeOK' /\ SenderInv'
    BY <1>1, <1>5, InputType, InputInv
  <1>7. UpInv' /\ delivered' \in Nat /\ UNCHANGED <<isn, tx, own_fin>>
    BY <1>1, <1>3, InputUp DEF WorldInv
  <1>8. /\ DownInv' /\ (FilesFit => error' = error \/ error' \in Timeouts)
        /\ state' # "IDLE"
    BY <1>1, <1>3, <1>4, InputDown DEF Timeouts
  <1>9. RoomInv'
    BY <1>1, <1>3, <1>7, InputRoom
  <1>10. out' \subseteq HostSegments'
    BY <1>1, InputSends
  <1>11. WorldInv'
    BY <1>1, <1>3, <1>7, <1>8, <1>10, HostWorld
  <1> QED BY <1>6, <1>7, <1>8, <1>9, <1>11 DEF ConnInv

LEMMA HostTickInv ==
    ASSUME ConnInv, Going, NEW f \in BOOLEAN, NEW e \in BOOLEAN, HostTick(f, e)
    PROVE  ConnInv'
  <1>1. /\ TypeOK /\ SenderInv /\ DownInv /\ UpInv /\ RoomInv /\ WorldInv
        /\ TcpTick(f, e) /\ Emitted /\ UNCHANGED <<peer, toHost, world>>
    BY DEF ConnInv, HostTick
  <1>2. TypeOK' /\ SenderInv'
    BY <1>1, TickType, TickInv
  <1>3. out' \subseteq HostSegments'
    BY <1>1, TickSends
  <1>4. Active /\ UNCHANGED <<isn, tx, una, delivered, receiver, peer_window>>
    <2>1. CASE TickExpired(e) \/ TickDone(f) \/ TickRto(f, e) \/ TickClose(f)
      BY <2>1 DEF TickExpired, TickDone, TickRto, TickClose, Going, transfer, sender, window
    <2>2. CASE TickSyn(f) \/ TickProbe(f) \/ TickIdle(f, e)
      BY <2>2 DEF TickSyn, TickProbe, TickIdle, Running, transfer, sender, window
    <2>3. CASE TickSend(f) \/ TickFin(f)
      BY <2>3 DEF TickSend, TickFin, Enqueue, Running, transfer, window
    <2> QED BY <1>1, <2>1, <2>2, <2>3 DEF TcpTick
  <1>11. ack_pending' => ack_pending
    BY <1>1, Zenon DEF TcpTick, TickExpired, TickDone, TickRto, TickClose, TickSyn, TickProbe,
           TickIdle, TickSend, TickFin, Enqueue, Owed
  <1>12. own_fin => own_fin'
    BY <1>1, Zenon DEF TcpTick, TickExpired, TickDone, TickRto, TickClose, TickSyn, TickProbe,
           TickIdle, TickSend, TickFin, sender
  <1>5. /\ error' = error \/ error' \in Timeouts
        /\ state' # "IDLE" /\ (state' = "SYN_SENT" => state = "SYN_SENT")
        /\ Synchronized' => Synchronized
    <2>1. CASE TickExpired(e) \/ TickDone(f) \/ TickClose(f)
      BY <2>1 DEF TickExpired, TickDone, TickClose, Going, Abort,
             CloseDue, Synchronized, Active, Timeouts
    <2>2. CASE TickRto(f, e)
      <3>1. Active /\ Loss(TRUE, Flushed(f), e)
        BY <2>2 DEF TickRto
      <3>2. error' \in {error, "retransmission limit"} /\ state' \in {state, "FAILED"}
        BY <3>1 DEF Loss, LossGivesUp, LossDeferred, LossRetransmits, Abort
      <3> QED BY <3>1, <3>2 DEF Active, Synchronized, Timeouts
    <2>3. CASE TickSyn(f) \/ TickProbe(f) \/ TickIdle(f, e)
      BY <2>3 DEF TickSyn, TickProbe, TickIdle, Running, Active, Synchronized
    <2>4. CASE TickSend(f) \/ TickFin(f)
      BY <2>4 DEF TickSend, TickFin, Enqueue, Running, Active, Synchronized,
             SendDue, FinDue, MaySend
    <2> QED BY <1>1, <2>1, <2>2, <2>3, <2>4 DEF TcpTick
  <1>6. UpInv'
    BY <1>1, <1>2, <1>4, <1>12, UpSame DEF TypeOK, peer
  <1>7. DownInv'
    <2>1. PeerFile' = PeerFile
      BY <1>1 DEF PeerFile
    <2>2. ack_pending \in BOOLEAN /\ ack_pending' \in BOOLEAN
      BY <1>1, <1>2 DEF TypeOK
    <2>3. receive_next' = receive_next /\ rx' = rx /\ peer_fin' = peer_fin
      BY <1>4 DEF receiver
    <2> QED BY <1>1, <1>5, <1>11, <2>1, <2>2, <2>3 DEF DownInv, Pos
  <1>8. RoomInv'
    BY <1>1, <1>4, <1>5 DEF RoomInv, Ample, peer
  <1>9. delivered' \in Nat /\ toHost' \in Seq(PeerSegments)
    BY <1>1, <1>4 DEF WorldInv
  <1>10. WorldInv'
    BY <1>1, <1>3, <1>4, <1>5, <1>9, <1>12, HostWorld
  <1> QED BY <1>2, <1>6, <1>7, <1>8, <1>10 DEF ConnInv

LEMMA SubZero == \A a, b \in Seqs : a # b => SeqSub(a, b) # 0
  BY ConstantsAssumption DEF SeqSub
LEMMA AddType == \A a \in Seqs, n \in Nat : n <= SeqHalf => SeqAdd(a, n) \in Seqs
  BY ConstantsAssumption DEF SeqAdd
LEMMA SelfSub == \A a \in Seqs : SeqSub(a, a) = 0
  BY ConstantsAssumption DEF SeqSub

\* tcp_start.
LEMMA HostStartInv ==
    ASSUME ConnInv, HostStart
    PROVE  ConnInv'
  <1>1. /\ TypeOK /\ SenderInv /\ DownInv /\ UpInv /\ RoomInv /\ WorldInv
        /\ state = "IDLE" /\ UNCHANGED <<peer, net, world>>
    BY DEF ConnInv, HostStart
  <1>2. PICK s \in Isns : TcpStart(world.file, s, TRUE)
    BY DEF HostStart
  <1>3. world.file \in Files /\ Len(world.file) \in Nat /\ Len(PeerFile) \in Nat
    BY <1>1, PeerFileType
  <1>4. Start
    BY <1>1, <1>2, <1>3 DEF Start
  <1>5. TypeOK' /\ SenderInv'
    BY <1>1, <1>2, <1>4, StartType, StartInv
  <1>6. /\ rx' = <<>> /\ peer_fin' = FALSE /\ ack_pending' = FALSE /\ own_fin' = FALSE
        /\ delivered' = 0 /\ una' = isn' /\ state' \in {"SYN_SENT", "FAILED"}
        /\ tx' \in {<<>>, world.file}
        /\ FilesFit => error' = "none"
    <2>1. ClearConnection
      BY <1>2 DEF TcpStart, StartValid, StartInvalid
    <2>2. /\ rx' = <<>> /\ peer_fin' = FALSE /\ ack_pending' = FALSE /\ own_fin' = FALSE
          /\ delivered' = 0
      BY <2>1 DEF ClearConnection
    <2>3. CASE StartValid(world.file, s, TRUE)
      BY <2>2, <2>3 DEF StartValid
    <2>4. CASE StartInvalid(world.file, TRUE)
      <3>1. Len(world.file) > TCP_BUFFER
        BY <2>4 DEF StartInvalid
      <3>2. ~ FilesFit
        BY <1>3, <3>1, ConstantsAssumption DEF FilesFit
      <3> QED BY <2>2, <2>4, <3>2 DEF StartInvalid
    <2> QED BY <1>2, <2>3, <2>4 DEF TcpStart
  <1>7. /\ toPeer = <<>> /\ toHost = <<>> /\ p_open = FALSE /\ p_rx = <<>> /\ p_fin = FALSE
    BY <1>1 DEF WorldInv, UpInv
  <1>8. PeerFile' = PeerFile
    BY <1>1 DEF PeerFile
  <1>9. DownInv'
    BY <1>3, <1>6, <1>8 DEF DownInv, Synchronized
  <1>10. RoomInv'
    BY <1>1, <1>6, <1>7 DEF RoomInv, Synchronized, peer
  <1>11. UpInv'
    <2>1. p_open' = FALSE /\ p_rx' = <<>> /\ p_fin' = FALSE
      BY <1>1, <1>7 DEF peer
    <2>2. isn' \in Seqs /\ Len(tx') \in Nat
      BY <1>5, LenProperties DEF TypeOK
    <2>3. Rel(una)' = 0
      <3>1. Rel(una)' = SeqSub(isn', isn')
        BY <1>6 DEF Rel
      <3> QED BY <2>2, <3>1, SelfSub
    <2>4. One(own_fin /\ ~ Ample)' = 0
      BY <1>6 DEF One
    <2> QED BY <1>6, <2>1, <2>2, <2>3, <2>4 DEF UpInv
  <1>12. WorldInv'
    <2>1. toPeer' = <<>> /\ toHost' = <<>>
      BY <1>1, <1>7 DEF net
    <2>2. Len(tx') <= Len(world.file)
      BY <1>3, <1>6
    <2>3. FilesFit' => FailsOnlyByTime'
      <3>1. FilesFit' <=> FilesFit
        BY <1>1, <1>8 DEF FilesFit
      <3> QED BY <1>6, <3>1, Zenon DEF FailsOnlyByTime
    <2>4. toPeer' \in Seq(HostSegments') /\ toHost' \in Seq(PeerSegments')
      BY <2>1, EmptySeq
    <2> QED BY <1>1, <1>6, <2>1, <2>2, <2>3, <2>4 DEF WorldInv, peer, Limit
  <1> QED BY <1>5, <1>9, <1>10, <1>11, <1>12 DEF ConnInv

-----------------------------------------------------------------------------
(* The peer's steps, the network and the clock.                            *)

\* The host is left alone.
LEMMA HostStill ==
    ASSUME TypeOK, SenderInv, DownInv, now' \in Nat,
           UNCHANGED <<state, error, transfer, sender, pending, receiver, ack_pending,
                       window, congestion, dupacks, timers, world>>
    PROVE  /\ TypeOK' /\ SenderInv' /\ DownInv'
           /\ UNCHANGED <<isn, tx, una, own_fin, delivered, state, error, peer_window, world>>
  <1>1. TypeOK'
    BY DEF TypeOK, transfer, sender, receiver, window, congestion, timers
  <1>2. SenderInv'
    BY SameInv DEF core, SameSlots, transfer, sender, receiver
  <1>3. DownInv'
    BY DownSame
  <1> QED BY <1>1, <1>2, <1>3 DEF transfer, sender, window

\* What was in flight towards the host is in flight.
LEMMA OldToHost ==
    ASSUME TypeOK, UNCHANGED <<isn, world>>, p_rcv \in Seqs, p_rcv' \in Seqs,
           p_open => p_open' /\ SeqSub(p_rcv, isn) <= SeqSub(p_rcv', isn),
           NEW s \in Seq(PeerSegments)
    PROVE  s \in Seq(PeerSegments')
  <1>1. PeerSegments \subseteq PeerSegments'
    BY MorePeerSegments DEF TypeOK
  <1> DEFINE T == PeerSegments'
  <1>2. PeerSegments \subseteq T
    BY <1>1
  <1> HIDE DEF T
  <1>3. s \in Seq(T)
    BY <1>2, SeqMonotone
  <1> QED BY <1>3 DEF T

\* A step of the peer or the network.
LEMMA PeerWorld ==
    ASSUME TypeOK, WorldInv,
           UNCHANGED <<isn, tx, own_fin, delivered, state, error, world>>,
           state # "IDLE",
           p_open' \in BOOLEAN, p_fin' \in BOOLEAN, p_rcv' \in Seqs, p_edge' \in Seqs,
           p_rx' \in Seq(Byte), p_una' \in Nat, p_nxt' \in 1 .. Limit, p_grant' \in 0 .. Limit,
           toPeer' \in Seq(HostSegments), toHost' \in Seq(PeerSegments')
    PROVE  WorldInv'
  <1>1. toPeer' \in Seq(HostSegments')
    <2>1. HostSegments \subseteq HostSegments'
      BY MoreHostSegments
    <2> DEFINE T == HostSegments'
    <2>2. HostSegments \subseteq T
      BY <2>1
    <2> HIDE DEF T
    <2>3. toPeer' \in Seq(T)
      BY <2>2, SeqMonotone
    <2> QED BY <2>3 DEF T
  <1>2. FilesFit' => FailsOnlyByTime'
    <2>1. FilesFit' <=> FilesFit
      BY DEF FilesFit, PeerFile
    <2> QED BY <2>1, Zenon DEF WorldInv, FailsOnlyByTime
  <1> QED BY <1>1, <1>2 DEF WorldInv, Limit

LEMMA PassesInv ==
    ASSUME ConnInv, Passes
    PROVE  ConnInv'
  <1>1. /\ TypeOK /\ SenderInv /\ DownInv /\ UpInv /\ RoomInv /\ WorldInv
        /\ Active /\ Advance /\ UNCHANGED <<peer, net, world>>
    BY DEF ConnInv, Passes
  <1>2. /\ TypeOK' /\ SenderInv' /\ DownInv'
        /\ UNCHANGED <<isn, tx, una, own_fin, delivered, state, error, peer_window, world>>
    BY <1>1, HostStill DEF Advance, TypeOK
  <1>3. UpInv'
    BY <1>1, <1>2, UpSame DEF peer, TypeOK
  <1>4. RoomInv'
    BY <1>1, <1>2 DEF RoomInv, Ample, Synchronized, peer
  <1>5. toHost' \in Seq(PeerSegments')
    <2>1. toHost' \in Seq(PeerSegments) /\ p_rcv' \in Seqs /\ p_rcv \in Seqs /\ p_open' = p_open
      BY <1>1 DEF net, WorldInv, peer
    <2>2. SeqSub(p_rcv', isn) = SeqSub(p_rcv, isn) /\ SeqSub(p_rcv, isn) \in Nat
      BY <1>1, <2>1, SubType DEF peer, TypeOK
    <2>3. SeqSub(p_rcv, isn) <= SeqSub(p_rcv', isn)
      BY <2>2
    <2> QED BY <1>1, <1>2, <2>1, <2>3, OldToHost
  <1>6. WorldInv'
    <2>1. state # "IDLE" /\ toPeer' \in Seq(HostSegments)
      BY <1>1 DEF Active, WorldInv, net
    <2>2. /\ p_open' \in BOOLEAN /\ p_fin' \in BOOLEAN /\ p_rcv' \in Seqs /\ p_edge' \in Seqs
          /\ p_rx' \in Seq(Byte) /\ p_una' \in Nat /\ p_nxt' \in 1 .. Limit
          /\ p_grant' \in 0 .. Limit
      BY <1>1, Zenon DEF WorldInv, peer
    <2> QED BY <1>1, <1>2, <1>5, <2>1, <2>2, PeerWorld, Zenon
  <1> QED BY <1>2, <1>3, <1>4, <1>6 DEF ConnInv

LEMMA LoseInv ==
    ASSUME ConnInv, Lose
    PROVE  ConnInv'
  <1>1. /\ TypeOK /\ SenderInv /\ DownInv /\ UpInv /\ RoomInv /\ WorldInv
        /\ HostUnchanged /\ UNCHANGED <<peer, world>>
    BY DEF ConnInv, Lose, HostUnchanged
  <1>2. /\ TypeOK' /\ SenderInv' /\ DownInv'
        /\ UNCHANGED <<isn, tx, una, own_fin, delivered, state, error, peer_window, world>>
    BY <1>1, HostStill DEF HostUnchanged, TypeOK
  <1>3. UpInv'
    BY <1>1, <1>2, UpSame DEF peer, TypeOK
  <1>4. RoomInv'
    BY <1>1, <1>2 DEF RoomInv, Ample, Synchronized, peer
  <1>5. /\ toPeer' \in Seq(HostSegments) /\ toHost' \in Seq(PeerSegments) /\ state # "IDLE"
    <2>0. toPeer \in Seq(HostSegments) /\ toHost \in Seq(PeerSegments)
      BY <1>1 DEF WorldInv
    <2>1. ASSUME NEW i \in 1 .. Len(toPeer), toPeer' = RemoveAt(toPeer, i), UNCHANGED toHost
          PROVE  toPeer' \in Seq(HostSegments) /\ toHost' \in Seq(PeerSegments) /\ state # "IDLE"
      <3>1. RemoveAt(toPeer, i) \in Seq(HostSegments)
        BY <2>0, WithoutType
      <3>2. Len(toPeer) # 0
        BY <2>0
      <3> QED BY <1>1, <2>0, <2>1, <3>1, <3>2 DEF WorldInv
    <2>2. ASSUME NEW i \in 1 .. Len(toHost), toHost' = RemoveAt(toHost, i), UNCHANGED toPeer
          PROVE  toPeer' \in Seq(HostSegments) /\ toHost' \in Seq(PeerSegments) /\ state # "IDLE"
      <3>1. RemoveAt(toHost, i) \in Seq(PeerSegments)
        BY <2>0, WithoutType
      <3>2. Len(toHost) # 0
        BY <2>0
      <3> QED BY <1>1, <2>0, <2>2, <3>1, <3>2 DEF WorldInv
    <2> QED BY <2>1, <2>2 DEF Lose
  <1>6. toHost' \in Seq(PeerSegments')
    <2>1. p_rcv' \in Seqs /\ p_rcv \in Seqs /\ p_open' = p_open
      BY <1>1 DEF WorldInv, peer
    <2>2. SeqSub(p_rcv', isn) = SeqSub(p_rcv, isn) /\ SeqSub(p_rcv, isn) \in Nat
      BY <1>1, <2>1, SubType DEF peer, TypeOK
    <2>3. SeqSub(p_rcv, isn) <= SeqSub(p_rcv', isn)
      BY <2>2
    <2> QED BY <1>1, <1>2, <1>5, <2>1, <2>3, OldToHost
  <1>7. WorldInv'
    <2>2. /\ p_open' \in BOOLEAN /\ p_fin' \in BOOLEAN /\ p_rcv' \in Seqs /\ p_edge' \in Seqs
          /\ p_rx' \in Seq(Byte) /\ p_una' \in Nat /\ p_nxt' \in 1 .. Limit
          /\ p_grant' \in 0 .. Limit
      BY <1>1, Zenon DEF WorldInv, peer
    <2> QED BY <1>1, <1>2, <1>5, <1>6, <2>2, PeerWorld, Zenon
  <1> QED BY <1>2, <1>3, <1>4, <1>7 DEF ConnInv

\* The peer stands at most behind the host's FIN.
LEMMA RcvBound ==
    ASSUME TypeOK, UpInv, WorldInv, p_open
    PROVE  /\ Rel(p_rcv) \in Nat /\ 1 <= Rel(p_rcv) /\ Rel(p_rcv) <= Len(tx) + 2
           /\ Len(p_rx) \in Nat /\ Len(tx) \in Nat /\ Len(tx) + 2 < SeqHalf
           /\ ~ p_fin => Rel(p_rcv) = 1 + Len(p_rx)
  <1>1. /\ Len(p_rx) \in Nat /\ Len(tx) \in Nat /\ p_fin \in BOOLEAN /\ Len(tx) <= TCP_BUFFER
    BY LenProperties DEF TypeOK, WorldInv
  <1>2. Rel(p_rcv) = 1 + Len(p_rx) + One(p_fin)
    BY DEF UpInv
  <1>3. Len(tx) + 2 < SeqHalf
    BY <1>1, ConstantsAssumption
  <1>4. CASE p_fin
    <2>1. Len(p_rx) = Len(tx) /\ One(p_fin) = 1
      BY <1>4 DEF UpInv, One
    <2>2. Rel(p_rcv) = 1 + Len(p_rx) + 1
      BY <1>2, <2>1
    <2>3. Rel(p_rcv) \in Nat /\ 1 <= Rel(p_rcv) /\ Rel(p_rcv) <= Len(tx) + 2
      BY <1>1, <2>1, <2>2
    <2> QED BY <1>1, <1>3, <1>4, <2>3
  <1>5. CASE ~ p_fin
    <2>1. One(p_fin) = 0
      BY <1>5 DEF One
    <2>2. Len(p_rx) <= Len(tx) + One(own_fin /\ ~ Ample) /\ One(own_fin /\ ~ Ample) \in 0 .. 1
      BY DEF UpInv, One
    <2> QED BY <1>1, <1>2, <1>3, <1>5, <2>1, <2>2
  <1> QED BY <1>4, <1>5

\* An ample window ends behind everything the host sends.
LEMMA AmpleEdge ==
    ASSUME TypeOK, WorldInv, Ample, NEW r \in Seqs, SeqSub(r, isn) <= Len(tx) + 2
    PROVE  SeqAdd(isn, 1 + world.wnd) # r
  <1>1. /\ world.wnd \in Nat /\ world.wnd < SeqHalf /\ Len(world.file) \in Nat
        /\ Len(tx) \in Nat /\ Len(tx) <= Len(world.file) /\ isn \in Seqs
        /\ SeqSub(r, isn) \in Nat
    BY PeerFileType, LenProperties, SubType DEF WorldInv, TypeOK
  <1> DEFINE w == 1 + world.wnd
  <1>2. w \in Nat /\ w <= SeqHalf /\ w > Len(tx) + 2
    <2>1. world.wnd > Len(world.file) + 1
      BY DEF Ample
    <2> QED BY <1>1, <2>1, ConstantsAssumption
  <1> HIDE DEF w
  <1>3. SeqSub(SeqAdd(isn, w), isn) = w
    BY <1>1, <1>2, ConstantsAssumption DEF SeqAdd, SeqSub
  <1>4. SeqAdd(isn, w) # r
    BY <1>1, <1>2, <1>3
  <1> QED BY <1>4 DEF w

\* What the peer puts in flight.
LEMMA NewPeerSegment ==
    ASSUME TypeOK, WorldInv, UNCHANGED <<isn, world>>, p_open', p_rcv' \in Seqs, p_edge' \in Seqs,
           1 <= SeqSub(p_rcv', isn), Ample => p_edge' # p_rcv',
           NEW f \in SUBSET Flags, NEW pos \in Nat, NEW d \in Seq(Byte),
           pos + Len(d) + One("FIN" \in f) <= Limit,
           \A k \in 1 .. Len(d) : /\ pos + k - 1 \in DOMAIN PeerFile
                                  /\ d[k] = PeerFile[pos + k - 1],
           \/ f = {"SYN", "ACK"} /\ pos = 0
           \/ f = {"ACK"}
           \/ f = {"ACK", "FIN"} /\ pos + Len(d) = LastPos,
           NEW m, m = PeerSegment(f, pos, d)
    PROVE  m \in PeerSegments'
  <1>1. /\ m.flags = f /\ m.seq = SeqAdd(PeerIsn, pos) /\ m.ack = p_rcv' /\ m.data = d
        /\ m.wnd = SeqSub(p_edge', p_rcv') /\ m.mss = PeerMss
        /\ m = [flags |-> f, seq |-> SeqAdd(PeerIsn, pos), ack |-> p_rcv',
                wnd |-> SeqSub(p_edge', p_rcv'), data |-> d, mss |-> PeerMss]
    BY DEF PeerSegment
  <1>2. PeerIsn \in Seqs /\ PeerMss \in Nat /\ SeqSub(PeerIsn, PeerIsn) = 0 /\ Len(d) \in Nat
    BY PeerAssumption, SelfSub, LenProperties
  <1>3. pos < SeqHalf
    <2>1. One("FIN" \in f) \in 0 .. 1
      BY DEF One
    <2> QED BY <1>2, <2>1, ConstantsAssumption DEF Limit
  <1>4. SeqAdd(PeerIsn, pos) \in Seqs /\ SeqSub(SeqAdd(PeerIsn, pos), PeerIsn) = pos
    BY <1>2, <1>3, RelAdd
  <1>5. SeqSub(p_edge', p_rcv') \in Nat
    BY SubType
  <1>6. m \in [flags : SUBSET Flags, seq : Seqs, ack : Seqs, wnd : Nat, data : Seq(Byte),
               mss : Nat]
    BY <1>1, <1>2, <1>4, <1>5
  <1>7. Pos(m.seq) = pos
    BY <1>1, <1>4 DEF Pos
  <1>8. SequenceLength(m) = Len(d) + One("FIN" \in f)
    BY <1>1 DEF SequenceLength, One
  <1>9. Ample => m.wnd # 0
    <2>1. p_edge' # p_rcv' => SeqSub(p_edge', p_rcv') # 0
      BY SubZero
    <2> QED BY <1>1, <2>1
  <1>10. Rel(m.ack)' = SeqSub(p_rcv', isn) /\ Rel(p_rcv)' = SeqSub(p_rcv', isn)
    BY <1>1 DEF Rel
  <1>11. SeqSub(p_rcv', isn) \in Nat
    BY SubType DEF TypeOK
  <1>12. /\ p_open' /\ 1 <= Rel(m.ack)' /\ Rel(m.ack)' <= Rel(p_rcv)'
    BY <1>10, <1>11
  <1>13. (Ample' <=> Ample) /\ PeerFile' = PeerFile /\ LastPos' = LastPos /\ Limit' = Limit
         /\ Pos(m.seq)' = Pos(m.seq) /\ SequenceLength(m)' = SequenceLength(m)
    BY DEF Ample, PeerFile, LastPos, Pos, SequenceLength, Limit
  <1>14. Pos(m.seq) + SequenceLength(m) <= Limit
    <2>1. pos + (Len(d) + One("FIN" \in f)) = pos + Len(d) + One("FIN" \in f)
      BY <1>2 DEF One
    <2> QED BY <1>7, <1>8, <2>1
  <1>15. \A k \in 1 .. Len(m.data) :
           /\ Pos(m.seq) + k - 1 \in DOMAIN PeerFile
           /\ m.data[k] = PeerFile[Pos(m.seq) + k - 1]
    BY <1>1, <1>7
  <1>16. \/ m.flags = {"SYN", "ACK"} /\ m.seq = PeerIsn
         \/ m.flags = {"ACK"}
         \/ m.flags = {"ACK", "FIN"} /\ Pos(m.seq) + Len(m.data) = LastPos
    <2>1. SeqAdd(PeerIsn, 0) = PeerIsn
      BY <1>2, ConstantsAssumption DEF SeqAdd
    <2> QED BY <1>1, <1>7, <2>1
  <1>17. PeerSegmentOK(m)'
    BY <1>9, <1>12, <1>13, <1>14, <1>15, <1>16 DEF PeerSegmentOK
  <1> QED BY <1>6, <1>17 DEF PeerSegments

\* The peer sends a segment.
LEMMA PeerSendsType ==
    ASSUME WorldInv, toHost \in Seq(PeerSegments'), NEW m \in PeerSegments', PeerSends(m)
    PROVE  toHost' \in Seq(PeerSegments')
  <1> DEFINE T == PeerSegments'
  <1>1. toHost \in Seq(T) /\ m \in T /\ world.cap \in Nat
    BY PeerFileType
  <1>2. toHost' = Carry(toHost, <<m>>)
    BY DEF PeerSends
  <1> HIDE DEF T
  <1>3. <<m>> \in Seq(T)
    BY <1>1
  <1>4. toHost' \in Seq(T)
    BY <1>1, <1>2, <1>3, CarryType
  <1> QED BY <1>4 DEF T

\* The host's segments as the peer sees them.
LEMMA HostHeader ==
    ASSUME TypeOK, WorldInv, NEW m \in HostSegments
    PROVE  /\ m.seq \in Seqs /\ m.ack \in Seqs /\ m.wnd \in Nat /\ m.data \in Seq(Byte)
           /\ Len(m.data) \in Nat /\ Rel(m.seq) \in Nat /\ Pos(m.ack) \in Nat
           /\ HostSegment(m, own_fin)
           /\ m.flags = {"SYN"} => m.seq = isn
           /\ "ACK" \in m.flags =>
                /\ Pos(m.ack) + m.wnd <= Limit /\ Rel(m.seq) <= Len(tx) + 2
                /\ "FIN" \in m.flags => own_fin /\ Rel(m.seq) = Len(tx) + 1 /\ m.data = <<>>
  <1>1. /\ m.seq \in Seqs /\ m.ack \in Seqs /\ m.wnd \in Nat /\ m.data \in Seq(Byte)
        /\ HostSegment(m, own_fin)
    BY DEF HostSegments, HostHeaders
  <1>2. Len(m.data) \in Nat /\ Rel(m.seq) \in Nat /\ Pos(m.ack) \in Nat
    BY <1>1, LenProperties, SubType, PeerAssumption DEF Rel, Pos, TypeOK
  <1>3. ASSUME m.flags = {"SYN"} PROVE m.seq = isn
    <2>1. "ACK" \notin m.flags
      BY <1>3
    <2>2. m.flags \notin {{"ACK"}, {"RST", "ACK"}, {"ACK", "FIN"}}
      BY <2>1
    <2> QED BY <1>1, <2>2 DEF HostSegment
  <1>4. ASSUME "ACK" \in m.flags
        PROVE  /\ Pos(m.ack) + m.wnd <= Limit /\ Rel(m.seq) <= Len(tx) + 2
               /\ "FIN" \in m.flags => own_fin /\ Rel(m.seq) = Len(tx) + 1 /\ m.data = <<>>
    <2>1. m.flags # {"SYN"}
      BY <1>4
    <2> QED BY <1>1, <2>1 DEF HostSegment
  <1> QED BY <1>1, <1>2, <1>3, <1>4

\* The bytes the peer takes are the next ones of the host's file.
LEMMA Taken ==
    ASSUME TypeOK, UpInv, WorldInv, p_open, NEW m \in HostSegments, "ACK" \in m.flags,
           NEW t, t = PeerTakes(m)
    PROVE  /\ t \in Seq(Byte) /\ Len(t) \in Nat
           /\ t # <<>> => ~ p_fin
           /\ "FIN" \in m.flags => t = <<>>
           /\ Len(p_rx) + Len(t) <= Len(tx) + One(own_fin /\ ~ Ample)
           /\ \A j \in 1 .. Len(t) : Len(p_rx) + j <= Len(tx) => t[j] = tx[Len(p_rx) + j]
  <1> DEFINE old == SeqSub(p_rcv, m.seq)
             room == SeqSub(p_edge, p_rcv)
             n == Len(m.data)
             end == Min2(n, old + room)
             x == Rel(m.seq)
             y == Len(p_rx)
             lim == Len(tx) + One(own_fin /\ ~ Ample)
  <1>1. /\ m.seq \in Seqs /\ m.data \in Seq(Byte) /\ n \in Nat /\ x \in Nat
        /\ x <= Len(tx) + 2 /\ HostSegment(m, own_fin)
        /\ "FIN" \in m.flags => m.data = <<>>
    BY HostHeader
  <1>2. /\ Rel(p_rcv) \in Nat /\ Rel(p_rcv) <= Len(tx) + 2 /\ y \in Nat /\ Len(tx) \in Nat
        /\ Len(tx) + 2 < SeqHalf /\ (~ p_fin => Rel(p_rcv) = 1 + y)
    BY RcvBound
  <1>3. isn \in Seqs /\ p_rcv \in Seqs /\ p_edge \in Seqs
    BY DEF TypeOK, WorldInv
  <1>4. old \in Nat /\ room \in Nat
    BY <1>1, <1>3, SubType
  <1>5. y <= lim
    BY DEF UpInv
  <1>6. lim \in {Len(tx), Len(tx) + 1} /\ (lim = Len(tx) + 1 => own_fin /\ ~ Ample)
        /\ (own_fin /\ ~ Ample => lim = Len(tx) + 1)
    BY <1>2 DEF One
  <1>7. CASE Before(p_rcv, m.seq) \/ old >= n \/ p_fin
    <2>1. t = <<>>
      BY <1>7 DEF PeerTakes
    <2>2. y + 0 <= lim
      BY <1>2, <1>5, <1>6
    <2> QED BY <2>1, <2>2, EmptySeq
  <1>8. CASE ~ (Before(p_rcv, m.seq) \/ old >= n \/ p_fin)
    <2>1. t = SubSeq(m.data, old + 1, end)
      BY <1>8 DEF PeerTakes
    <2>2. old < n /\ ~ p_fin /\ x + old = 1 + y
      <3>1. x <= Rel(p_rcv) /\ old = Rel(p_rcv) - x
        <4>1. SeqSub(m.seq, isn) < SeqHalf /\ SeqSub(p_rcv, isn) < SeqHalf
          BY <1>1, <1>2, ConstantsAssumption DEF Rel
        <4>2. /\ Before(p_rcv, m.seq) <=> SeqSub(p_rcv, isn) < SeqSub(m.seq, isn)
              /\ SeqSub(m.seq, isn) <= SeqSub(p_rcv, isn) =>
                    SeqSub(p_rcv, m.seq) = SeqSub(p_rcv, isn) - SeqSub(m.seq, isn)
          BY <1>1, <1>3, <4>1, RelBefore
        <4> QED BY <1>1, <1>2, <1>8, <4>2 DEF Rel
      <3>2. Rel(p_rcv) = 1 + y
        BY <1>2, <1>8
      <3>3. old < n
        BY <1>1, <1>4, <1>8
      <3> HIDE DEF old, x, y, n
      <3>4. x + old = 1 + y
        BY <1>1, <1>2, <3>1, <3>2
      <3> QED BY <1>8, <3>3, <3>4
    <2>3. end \in Nat /\ old <= end /\ end <= n
      <3> HIDE DEF old, room, n
      <3> QED BY <1>1, <1>4, <2>2 DEF Min2
    <2> HIDE DEF old, room, end, x, y, lim
    <2>4. /\ t \in Seq(Byte) /\ Len(t) = end - old
          /\ \A j \in 1 .. end - old : t[j] = m.data[old + j]
      BY <1>1, <1>4, <2>1, <2>3, Slice
    <2>5. ASSUME NEW j \in 1 .. end - old
          PROVE  y + j <= lim /\ (y + j <= Len(tx) => t[j] = tx[y + j])
      <3>1. old + j \in 1 .. Len(m.data) /\ x + (old + j) - 1 = y + j /\ y + j # 0
            /\ y + j \in Nat
        BY <1>1, <1>2, <1>4, <2>2, <2>3
      <3>2. /\ Honest(m, isn, tx, Len(tx), own_fin)
            /\ Ample => Honest(m, isn, tx, Len(tx), FALSE)
        BY <1>1 DEF HostSegment
      <3>3. \/ y + j <= Len(tx) /\ m.data[old + j] = tx[y + j]
            \/ own_fin /\ y + j = Len(tx) + 1
        <4>1. LET p == SeqSub(m.seq, isn) + (old + j) - 1 IN
              \/ p = 0
              \/ p <= Len(tx) /\ m.data[old + j] = tx[p]
              \/ own_fin /\ p = Len(tx) + 1 /\ Len(m.data) = 1
          BY <3>1, <3>2 DEF Honest
        <4>2. SeqSub(m.seq, isn) + (old + j) - 1 = y + j
          BY <3>1 DEF x, Rel
        <4> QED BY <3>1, <4>1, <4>2
      <3>4. Ample => y + j <= Len(tx)
        <4>1. ASSUME Ample PROVE y + j <= Len(tx)
          <5>1. LET p == SeqSub(m.seq, isn) + (old + j) - 1 IN
                \/ p = 0
                \/ p <= Len(tx) /\ m.data[old + j] = tx[p]
            BY <3>1, <3>2, <4>1 DEF Honest
          <5>2. SeqSub(m.seq, isn) + (old + j) - 1 = y + j
            BY <3>1 DEF x, Rel
          <5> QED BY <3>1, <5>1, <5>2
        <4> QED BY <4>1
      <3>5. y + j <= lim
        <4>1. CASE y + j <= Len(tx)
          BY <1>2, <1>6, <3>1, <4>1
        <4>2. CASE ~ (y + j <= Len(tx))
          <5>1. own_fin /\ ~ Ample /\ y + j = Len(tx) + 1
            BY <3>3, <3>4, <4>2
          <5> QED BY <1>2, <1>6, <3>1, <5>1
        <4> QED BY <4>1, <4>2
      <3>6. t[j] = m.data[old + j]
        BY <2>4
      <3>7. y + j <= Len(tx) => m.data[old + j] = tx[y + j]
        BY <1>2, <3>1, <3>3
      <3> QED BY <3>5, <3>6, <3>7
    <2>6. y + (end - old) <= lim
      <3>1. CASE end = old
        BY <1>2, <1>4, <1>5, <1>6, <2>3, <3>1
      <3>2. CASE end # old
        <4>1. end - old \in 1 .. end - old
          BY <1>4, <2>3, <3>2
        <4> QED BY <2>5, <4>1
      <3> QED BY <3>1, <3>2
    <2>7. "FIN" \in m.flags => FALSE
      <3>1. "FIN" \in m.flags => n = 0
        BY <1>1
      <3> QED BY <1>1, <1>4, <2>2, <3>1
    <2>8. Len(t) \in Nat /\ ~ p_fin
      BY <2>4, <2>2, LenProperties
    <2>9. \A j \in 1 .. Len(t) : y + j <= Len(tx) => t[j] = tx[y + j]
      BY <2>4, <2>5
    <2>10. y + Len(t) <= lim
      BY <2>4, <2>6
    <2> QED BY <2>4, <2>7, <2>8, <2>9, <2>10 DEF y, lim
  <1> QED BY <1>7, <1>8

\* PeerAck with what it takes, t, and whether it takes the FIN, named.
LEMMA PeerAckUp ==
    ASSUME TypeOK, UpInv, WorldInv, p_open, NEW m \in HostSegments, "ACK" \in m.flags,
           NEW t, t = PeerTakes(m), NEW fin \in BOOLEAN, NEW b, b = SeqAdd(p_rcv, Len(t)),
           fin => "FIN" \in m.flags /\ ~ p_fin /\ SeqAdd(m.seq, Len(m.data)) = b,
           p_rx' = p_rx \o t, p_fin' = (p_fin \/ fin),
           p_rcv' = IF fin THEN SeqAdd(b, 1) ELSE b,
           UNCHANGED <<p_open, isn, tx, una, own_fin, delivered, world>>
    PROVE  /\ UpInv' /\ p_rcv' \in Seqs /\ p_rx' \in Seq(Byte)
           /\ SeqSub(p_rcv, isn) <= SeqSub(p_rcv', isn)
           /\ 1 <= SeqSub(p_rcv', isn) /\ SeqSub(p_rcv', isn) <= Len(tx) + 2
  <1>1. /\ t \in Seq(Byte) /\ Len(t) \in Nat /\ (t # <<>> => ~ p_fin)
        /\ "FIN" \in m.flags => t = <<>>
        /\ Len(p_rx) + Len(t) <= Len(tx) + One(own_fin /\ ~ Ample)
        /\ \A j \in 1 .. Len(t) : Len(p_rx) + j <= Len(tx) => t[j] = tx[Len(p_rx) + j]
    BY Taken
  <1>2. /\ Rel(p_rcv) \in Nat /\ 1 <= Rel(p_rcv) /\ Rel(p_rcv) <= Len(tx) + 2
        /\ Len(p_rx) \in Nat /\ Len(tx) \in Nat /\ Len(tx) + 2 < SeqHalf
        /\ ~ p_fin => Rel(p_rcv) = 1 + Len(p_rx)
    BY RcvBound
  <1>3. /\ isn \in Seqs /\ p_rcv \in Seqs /\ p_fin \in BOOLEAN /\ p_rx \in Seq(Byte)
        /\ SeqHalf \in Nat
    BY ConstantsAssumption DEF TypeOK, WorldInv
  <1>4. /\ p_rx' \in Seq(Byte) /\ Len(p_rx') = Len(p_rx) + Len(t)
        /\ \A k \in 1 .. Len(p_rx) + Len(t) : k <= Len(tx) => p_rx'[k] = tx[k]
    <2>1. Agrees(p_rx, 0, tx, Len(tx))
      <3>1. \A k \in 1 .. Len(p_rx) : 0 + k = k
        BY <1>2
      <3> QED BY <3>1 DEF UpInv, Agrees
    <2>2. Agrees(t, Len(p_rx), tx, Len(tx))
      BY <1>1 DEF Agrees
    <2>3. Len(tx) \in Int
      BY <1>2
    <2>4. Agrees(p_rx \o t, 0, tx, Len(tx))
      BY <1>1, <1>3, <2>1, <2>2, <2>3, StreamAppend
    <2>5. p_rx' \in Seq(Byte) /\ Len(p_rx') = Len(p_rx) + Len(t)
      BY <1>1, <1>3, ConcatProperties
    <2>6. \A k \in 1 .. Len(p_rx') : 0 + k = k
      BY <1>1, <1>2, <2>5
    <2> QED BY <1>1, <2>4, <2>5, <2>6 DEF Agrees
  <1>5. One(own_fin /\ ~ Ample) \in 0 .. 1
    BY DEF One
  <1>6. /\ Rel(p_rcv) + Len(t) <= Len(tx) + 2
        /\ ~ p_fin => Rel(p_rcv) + Len(t) = 1 + Len(p_rx) + Len(t)
        /\ p_fin => Len(t) = 0
    <2>1. CASE t = <<>>
      <3>1. Len(t) = 0
        BY <2>1
      <3> QED BY <1>2, <3>1
    <2>2. CASE t # <<>>
      <3>1. Rel(p_rcv) = 1 + Len(p_rx) /\ ~ p_fin
        BY <1>1, <1>2, <2>2
      <3>2. Rel(p_rcv) + Len(t) <= Len(tx) + 2
        BY <1>1, <1>2, <1>5, <3>1
      <3> QED BY <3>1, <3>2
    <2> QED BY <2>1, <2>2
  <1>7. b \in Seqs /\ SeqSub(b, isn) = Rel(p_rcv) + Len(t)
    <2>1. SeqSub(p_rcv, isn) + Len(t) < SeqHalf
      BY <1>1, <1>2, <1>3, <1>6 DEF Rel
    <2> QED BY <1>1, <1>3, <2>1, RelAdd DEF Rel
  <1>8. Rel(p_rcv)' = SeqSub(p_rcv', isn) /\ Rel(una)' = Rel(una) /\ (Ample' <=> Ample)
        /\ One(own_fin /\ ~ Ample)' = One(own_fin /\ ~ Ample)
    BY DEF Rel, Ample, One
  <1>9. Len(p_rx') <= Len(tx) + One(own_fin /\ ~ Ample)
    BY <1>1, <1>4
  <1>10. CASE fin
    <2>1. t = <<>> /\ ~ p_fin /\ Rel(m.seq) = Len(tx) + 1 /\ m.data = <<>> /\ m.seq \in Seqs
          /\ Rel(m.seq) \in Nat
      BY <1>1, <1>10, HostHeader
    <2>2. Len(t) = 0 /\ Len(m.data) = 0
      BY <2>1
    <2>3. SeqAdd(m.seq, 0) = m.seq
      BY <2>1, ConstantsAssumption DEF SeqAdd
    <2>4. b = m.seq
      BY <1>10, <2>2, <2>3
    <2>5. Rel(p_rcv) = Len(tx) + 1 /\ SeqSub(b, isn) = Len(tx) + 1
      <3>1. SeqSub(b, isn) = Len(tx) + 1
        BY <2>1, <2>4 DEF Rel
      <3>2. Rel(p_rcv) + 0 = Len(tx) + 1
        BY <1>7, <2>2, <3>1
      <3> QED BY <1>2, <3>1, <3>2
    <2>6. Len(p_rx) = Len(tx) /\ Len(p_rx') = Len(tx)
      <3>1. Rel(p_rcv) = 1 + Len(p_rx)
        BY <1>2, <2>1
      <3> QED BY <1>2, <1>4, <2>2, <2>5, <3>1
    <2>7. p_rcv' \in Seqs /\ SeqSub(p_rcv', isn) = Len(tx) + 2
      <3>1. SeqSub(b, isn) + 1 < SeqHalf
        BY <1>2, <1>3, <2>5
      <3>2. SeqAdd(b, 1) \in Seqs /\ SeqSub(SeqAdd(b, 1), isn) = SeqSub(b, isn) + 1
        BY <1>3, <1>7, <3>1, RelAdd
      <3>3. p_rcv' = SeqAdd(b, 1)
        BY <1>10
      <3> QED BY <1>2, <2>5, <3>2, <3>3
    <2>8. p_fin' = TRUE
      BY <1>10
    <2>9. SeqSub(p_rcv', isn) = 1 + Len(p_rx') + One(p_fin')
      BY <1>2, <2>6, <2>7, <2>8 DEF One
    <2>10. SeqSub(p_rcv, isn) <= SeqSub(p_rcv', isn) /\ Rel(p_rcv) = SeqSub(p_rcv, isn)
      BY <1>2, <2>7 DEF Rel
    <2>11. Rel(una) # 0 => p_open /\ Rel(una) <= SeqSub(p_rcv', isn)
      <3>1. Rel(una) # 0 => Rel(una) <= Rel(p_rcv)
        BY DEF UpInv
      <3>2. Rel(una) \in Nat
        BY SubType DEF Rel, TypeOK
      <3> QED BY <1>2, <2>7, <2>10, <3>1, <3>2
    <2>12. One(p_fin)' = One(p_fin')
      BY DEF One
    <2>13. UpInv'
      BY <1>4, <1>8, <1>9, <2>6, <2>9, <2>11, <2>12 DEF UpInv
    <2>14. 1 <= SeqSub(p_rcv', isn) /\ SeqSub(p_rcv', isn) <= Len(tx) + 2
      BY <1>2, <2>7
    <2> QED BY <1>4, <2>7, <2>10, <2>13, <2>14
  <1>11. CASE ~ fin
    <2>1. p_rcv' = b /\ p_fin' = p_fin
      BY <1>3, <1>11
    <2>2. p_rcv' \in Seqs /\ SeqSub(p_rcv', isn) = Rel(p_rcv) + Len(t)
      BY <1>7, <2>1
    <2>3. /\ SeqSub(p_rcv', isn) = 1 + Len(p_rx') + One(p_fin')
          /\ p_fin' => Len(p_rx') = Len(tx)
      <3>1. CASE p_fin
        <4>1. Len(t) = 0 /\ Len(p_rx) = Len(tx) /\ Rel(p_rcv) = 1 + Len(p_rx) + One(p_fin)
              /\ One(p_fin) = 1
          BY <1>6, <3>1 DEF UpInv, One
        <4>2. Len(p_rx') = Len(p_rx) /\ SeqSub(p_rcv', isn) = Rel(p_rcv)
          BY <1>2, <1>4, <2>2, <4>1
        <4> QED BY <2>1, <4>1, <4>2
      <3>2. CASE ~ p_fin
        <4>1. One(p_fin') = 0
          BY <2>1, <3>2 DEF One
        <4>2. SeqSub(p_rcv', isn) = 1 + Len(p_rx) + Len(t)
          BY <1>6, <2>2, <3>2
        <4>3. SeqSub(p_rcv', isn) = 1 + Len(p_rx') + One(p_fin')
          BY <1>1, <1>2, <1>4, <4>1, <4>2
        <4> QED BY <2>1, <3>2, <4>3
      <3> QED BY <3>1, <3>2
    <2>4. SeqSub(p_rcv, isn) <= SeqSub(p_rcv', isn) /\ Rel(p_rcv) = SeqSub(p_rcv, isn)
          /\ 1 <= SeqSub(p_rcv', isn) /\ SeqSub(p_rcv', isn) <= Len(tx) + 2
      BY <1>1, <1>2, <1>6, <2>2 DEF Rel
    <2>5. Rel(una) # 0 => p_open /\ Rel(una) <= SeqSub(p_rcv', isn)
      <3>1. Rel(una) # 0 => Rel(una) <= Rel(p_rcv)
        BY DEF UpInv
      <3>2. Rel(una) \in Nat
        BY SubType DEF Rel, TypeOK
      <3> QED BY <1>1, <1>2, <2>2, <3>1, <3>2
    <2>6. One(p_fin)' = One(p_fin')
      BY DEF One
    <2>7. UpInv'
      BY <1>4, <1>8, <1>9, <2>3, <2>5, <2>6 DEF UpInv
    <2> QED BY <1>4, <2>2, <2>4, <2>7
  <1> QED BY <1>10, <1>11

\* What every step of the peer starts from.
LEMMA PeerStart ==
    ASSUME ConnInv, HostUnchanged
    PROVE  /\ TypeOK /\ SenderInv /\ DownInv /\ UpInv /\ RoomInv /\ WorldInv
           /\ TypeOK' /\ SenderInv' /\ DownInv'
           /\ UNCHANGED <<isn, tx, una, own_fin, delivered, state, error, peer_window, world>>
           /\ p_open \in BOOLEAN /\ p_fin \in BOOLEAN /\ p_rcv \in Seqs /\ p_edge \in Seqs
           /\ p_rx \in Seq(Byte) /\ p_una \in Nat /\ p_nxt \in 1 .. Limit
           /\ p_grant \in 0 .. Limit
           /\ isn \in Seqs /\ SeqSub(p_rcv, isn) \in Nat
           /\ p_open => state # "IDLE"
  <1>1. TypeOK /\ SenderInv /\ DownInv /\ UpInv /\ RoomInv /\ WorldInv
    BY DEF ConnInv
  <1>2. /\ TypeOK' /\ SenderInv' /\ DownInv'
        /\ UNCHANGED <<isn, tx, una, own_fin, delivered, state, error, peer_window, world>>
    BY <1>1, HostStill DEF HostUnchanged, TypeOK
  <1>3. /\ p_open \in BOOLEAN /\ p_fin \in BOOLEAN /\ p_rcv \in Seqs /\ p_edge \in Seqs
        /\ p_rx \in Seq(Byte) /\ p_una \in Nat /\ p_nxt \in 1 .. Limit
        /\ p_grant \in 0 .. Limit /\ (p_open => state # "IDLE")
    BY <1>1, Zenon DEF WorldInv
  <1>4. isn \in Seqs /\ SeqSub(p_rcv, isn) \in Nat
    BY <1>1, <1>3, SubType DEF TypeOK
  <1> QED BY <1>1, <1>2, <1>3, <1>4

\* An acknowledgement without data may always be sent.
LEMMA PeerAcks ==
    ASSUME TypeOK, WorldInv, UNCHANGED <<isn, world>>, p_open', p_rcv' \in Seqs, p_edge' \in Seqs,
           1 <= SeqSub(p_rcv', isn), Ample => p_edge' # p_rcv', p_nxt \in 1 .. Limit,
           toHost \in Seq(PeerSegments'),
           \/ PeerSends(PeerSegment({"ACK"}, p_nxt, <<>>))
           \/ PeerSends(PeerSegment({"SYN", "ACK"}, 0, <<>>))
    PROVE  toHost' \in Seq(PeerSegments')
  <1>1. /\ Limit \in Nat /\ p_nxt \in Nat /\ p_nxt <= Limit
    BY ConstantsAssumption DEF Limit
  <1>2. /\ {"ACK"} \in SUBSET Flags /\ {"SYN", "ACK"} \in SUBSET Flags
        /\ One("FIN" \in {"ACK"}) = 0 /\ One("FIN" \in {"SYN", "ACK"}) = 0
    BY DEF Flags, One
  <1> DEFINE d == <<>>
  <1>3. d \in Seq(Byte) /\ Len(d) = 0 /\ d = <<>>
    BY EmptySeq
  <1> HIDE DEF d
  <1>4. /\ p_nxt + Len(d) + One("FIN" \in {"ACK"}) <= Limit
        /\ 0 + Len(d) + One("FIN" \in {"SYN", "ACK"}) <= Limit
    BY <1>1, <1>2, <1>3
  <1>5. /\ \A k \in 1 .. Len(d) : p_nxt + k - 1 \in DOMAIN PeerFile /\ d[k] = PeerFile[p_nxt + k - 1]
        /\ \A k \in 1 .. Len(d) : 0 + k - 1 \in DOMAIN PeerFile /\ d[k] = PeerFile[0 + k - 1]
    BY <1>3
  <1>6. CASE PeerSends(PeerSegment({"ACK"}, p_nxt, <<>>))
    <2>1. PICK m : m = PeerSegment({"ACK"}, p_nxt, d)
      OBVIOUS
    <2>2. m \in PeerSegments'
      BY <1>1, <1>2, <1>3, <1>4, <1>5, <2>1, NewPeerSegment
    <2>3. PeerSends(m)
      BY <1>3, <1>6, <2>1
    <2> QED BY <2>2, <2>3, PeerSendsType
  <1>7. CASE PeerSends(PeerSegment({"SYN", "ACK"}, 0, <<>>))
    <2>1. PICK m : m = PeerSegment({"SYN", "ACK"}, 0, d)
      OBVIOUS
    <2>2. m \in PeerSegments'
      BY <1>1, <1>2, <1>3, <1>4, <1>5, <2>1, NewPeerSegment
    <2>3. PeerSends(m)
      BY <1>3, <1>7, <2>1
    <2> QED BY <2>2, <2>3, PeerSendsType
  <1> QED BY <1>6, <1>7

LEMMA PeerSynInv ==
    ASSUME ConnInv, HostUnchanged, NEW m \in HostSegments, PeerSyn(m), state # "IDLE",
           toPeer' \in Seq(HostSegments)
    PROVE  ConnInv'
  <1>1. /\ TypeOK /\ SenderInv /\ DownInv /\ UpInv /\ RoomInv /\ WorldInv
        /\ TypeOK' /\ SenderInv' /\ DownInv'
        /\ UNCHANGED <<isn, tx, una, own_fin, delivered, state, error, peer_window, world>>
        /\ p_open \in BOOLEAN /\ p_fin \in BOOLEAN /\ p_rcv \in Seqs /\ p_edge \in Seqs
        /\ p_rx \in Seq(Byte) /\ p_una \in Nat /\ p_nxt \in 1 .. Limit
        /\ p_grant \in 0 .. Limit
        /\ isn \in Seqs /\ SeqSub(p_rcv, isn) \in Nat
    BY PeerStart
  <1>2. UNCHANGED <<p_rx, p_fin, p_una, p_nxt, p_grant>>
    BY DEF PeerSyn
  <1>3. m.seq = isn
    BY <1>1, HostHeader DEF PeerSyn
  <1>4. Len(tx) \in Nat /\ world.wnd \in Nat /\ world.wnd < SeqHalf /\ SeqHalf \in Nat
    BY <1>1, PeerFileType, LenProperties, ConstantsAssumption DEF TypeOK
  <1>5. /\ p_open' = TRUE /\ p_rcv' \in Seqs /\ p_edge' \in Seqs
        /\ 1 <= SeqSub(p_rcv', isn) /\ SeqSub(p_rcv', isn) <= Len(tx) + 2
        /\ p_open => SeqSub(p_rcv, isn) <= SeqSub(p_rcv', isn)
        /\ Ample => p_edge' = SeqAdd(isn, 1 + world.wnd)
        /\ UpInv'
    <2>1. CASE p_open
      <3>1. UNCHANGED <<p_open, p_rcv, p_edge>>
        BY <2>1 DEF PeerSyn
      <3>2. UpInv'
        <4>1. own_fin' \in BOOLEAN /\ (own_fin => own_fin')
          BY <1>1, Zenon DEF TypeOK
        <4> QED BY <1>1, <1>2, <3>1, <4>1, UpSame
      <3>3. Rel(p_rcv) = SeqSub(p_rcv', isn) /\ SeqSub(p_rcv, isn) = SeqSub(p_rcv', isn)
        BY <3>1 DEF Rel
      <3>4. 1 <= Rel(p_rcv) /\ Rel(p_rcv) <= Len(tx) + 2
        BY <1>1, <2>1, RcvBound
      <3>5. SeqSub(p_rcv, isn) <= SeqSub(p_rcv', isn)
        BY <1>1, <3>3
      <3>6. Ample => p_edge' = SeqAdd(isn, 1 + world.wnd)
        BY <1>1, <2>1, <3>1 DEF RoomInv
      <3> QED BY <1>1, <2>1, <3>1, <3>2, <3>3, <3>4, <3>5, <3>6
    <2>2. CASE ~ p_open
      <3>1. p_open' = TRUE /\ p_rcv' = SeqAdd(isn, 1) /\ p_edge' = SeqAdd(isn, 1 + world.wnd)
        BY <1>3, <2>2 DEF PeerSyn
      <3>2. SeqSub(isn, isn) = 0
        BY <1>1, SelfSub
      <3>3. SeqAdd(isn, 1) \in Seqs /\ SeqSub(SeqAdd(isn, 1), isn) = 1
        <4>1. SeqSub(isn, isn) + 1 < SeqHalf
          BY <3>2, ConstantsAssumption
        <4>2. SeqSub(isn, isn) + 1 = 1
          BY <3>2
        <4> QED BY <1>1, <4>1, <4>2, RelAdd
      <3>4. SeqAdd(isn, 1 + world.wnd) \in Seqs
        <4>1. 1 + world.wnd \in Nat /\ 1 + world.wnd <= SeqHalf
          BY <1>4
        <4> QED BY <1>1, <4>1, AddType
      <3>5. p_rx = <<>> /\ p_fin = FALSE /\ Rel(una) = 0 /\ p_open = FALSE
        BY <1>1, <2>2 DEF UpInv
      <3>6. UpInv'
        <4>1. Rel(una)' = 0 /\ Rel(p_rcv)' = 1 /\ p_rx' = <<>> /\ p_fin' = FALSE
          BY <1>1, <1>2, <3>1, <3>3, <3>5 DEF Rel
        <4>2. One(own_fin /\ ~ Ample)' \in 0 .. 1 /\ One(p_fin)' = 0 /\ Len(p_rx') = 0
          BY <4>1 DEF One
        <4>3. Rel(p_rcv)' = 1 + Len(p_rx') + One(p_fin)'
          BY <4>1, <4>2
        <4>4. delivered' <= Len(tx') /\ delivered' = 0
          <5>1. /\ delivered \in Nat /\ delivered <= Len(tx)
                /\ delivered # 0 => delivered < Rel(una)
            BY <1>1 DEF UpInv, WorldInv
          <5>2. delivered = 0
            BY <3>5, <5>1
          <5> QED BY <1>1, <5>1, <5>2
        <4>5. Len(p_rx') <= Len(tx') + One(own_fin /\ ~ Ample)'
          BY <1>1, <1>4, <4>2
        <4> QED BY <3>1, <4>1, <4>2, <4>3, <4>4, <4>5 DEF UpInv
      <3>7. 1 <= SeqSub(p_rcv', isn) /\ SeqSub(p_rcv', isn) <= Len(tx) + 2
        BY <1>4, <3>1, <3>3
      <3> QED BY <2>2, <3>1, <3>3, <3>4, <3>6, <3>7
    <2> QED BY <2>1, <2>2
  <1>6. RoomInv'
    BY <1>1, <1>5 DEF RoomInv, Ample, Synchronized
  <1>7. toHost' \in Seq(PeerSegments')
    <2>1. toHost \in Seq(PeerSegments')
      <3>1. toHost \in Seq(PeerSegments)
        BY <1>1 DEF WorldInv
      <3> QED BY <1>1, <1>5, <3>1, OldToHost
    <2>2. Ample => p_edge' # p_rcv'
      BY <1>1, <1>5, AmpleEdge
    <2>3. \/ PeerSends(PeerSegment({"ACK"}, p_nxt, <<>>))
          \/ PeerSends(PeerSegment({"SYN", "ACK"}, 0, <<>>))
      BY DEF PeerSyn
    <2> QED BY <1>1, <1>5, <2>1, <2>2, <2>3, PeerAcks
  <1>8. WorldInv'
    <2>1. /\ p_open' \in BOOLEAN /\ p_fin' \in BOOLEAN /\ p_rx' \in Seq(Byte) /\ p_una' \in Nat
          /\ p_nxt' \in 1 .. Limit /\ p_grant' \in 0 .. Limit
      BY <1>1, <1>2, <1>5, Zenon
    <2> QED BY <1>1, <1>5, <1>7, <2>1, PeerWorld, Zenon
  <1> QED BY <1>1, <1>5, <1>6, <1>8 DEF ConnInv

LEMMA PeerAckInv ==
    ASSUME ConnInv, HostUnchanged, NEW m \in HostSegments, PeerAck(m),
           toPeer' \in Seq(HostSegments)
    PROVE  ConnInv'
  <1>1. /\ TypeOK /\ SenderInv /\ DownInv /\ UpInv /\ RoomInv /\ WorldInv
        /\ TypeOK' /\ SenderInv' /\ DownInv'
        /\ UNCHANGED <<isn, tx, una, own_fin, delivered, state, error, peer_window, world>>
        /\ p_open \in BOOLEAN /\ p_fin \in BOOLEAN /\ p_rcv \in Seqs /\ p_edge \in Seqs
        /\ p_rx \in Seq(Byte) /\ p_una \in Nat /\ p_nxt \in 1 .. Limit
        /\ p_grant \in 0 .. Limit
        /\ isn \in Seqs /\ SeqSub(p_rcv, isn) \in Nat
        /\ p_open => state # "IDLE"
    BY PeerStart
  <1>2. p_open /\ "ACK" \in m.flags /\ UNCHANGED <<p_open, p_edge, p_nxt>>
    <2>1. "ACK" \in m.flags \cap {"SYN", "ACK"}
      BY DEF PeerAck
    <2> QED BY <2>1 DEF PeerAck
  <1> DEFINE t == PeerTakes(m)
             b == SeqAdd(p_rcv, Len(t))
             fin == /\ "FIN" \in m.flags /\ ~ p_fin
                    /\ SeqAdd(m.seq, Len(m.data)) = b /\ b # p_edge
             pos == SeqSub(m.ack, PeerIsn)
  <1>3. /\ p_rx' = p_rx \o t /\ p_fin' = (p_fin \/ fin)
        /\ p_rcv' = (IF fin THEN SeqAdd(b, 1) ELSE b)
        /\ p_una' = (IF pos > p_una THEN pos ELSE p_una)
        /\ p_grant' = (IF pos + m.wnd > p_grant THEN pos + m.wnd ELSE p_grant)
    BY DEF PeerAck
  <1>4. fin \in BOOLEAN /\ (fin => "FIN" \in m.flags /\ ~ p_fin /\ SeqAdd(m.seq, Len(m.data)) = b)
    OBVIOUS
  <1>5. pos \in Nat /\ m.wnd \in Nat /\ pos + m.wnd <= Limit
    BY <1>1, <1>2, HostHeader DEF Pos
  <1> HIDE DEF pos, fin
  <1>6. p_fin' \in BOOLEAN
    BY <1>3
  <1>7. p_una' \in Nat /\ p_grant' \in 0 .. Limit
    BY <1>1, <1>3, <1>5, ConstantsAssumption, SMTT(30) DEF Limit
  <1>8. \E u, c, g : u = t /\ c = b /\ g = fin
    OBVIOUS
  <1> PICK u, c, g : u = t /\ c = b /\ g = fin
    BY <1>8
  <1>9. /\ UpInv' /\ p_rcv' \in Seqs /\ p_rx' \in Seq(Byte)
        /\ SeqSub(p_rcv, isn) <= SeqSub(p_rcv', isn)
        /\ 1 <= SeqSub(p_rcv', isn) /\ SeqSub(p_rcv', isn) <= Len(tx) + 2
    <2>1. /\ c = SeqAdd(p_rcv, Len(u)) /\ u = PeerTakes(m)
          /\ g => "FIN" \in m.flags /\ ~ p_fin /\ SeqAdd(m.seq, Len(m.data)) = c
          /\ g \in BOOLEAN
          /\ p_rx' = p_rx \o u /\ p_fin' = (p_fin \/ g)
          /\ p_rcv' = IF g THEN SeqAdd(c, 1) ELSE c
      BY <1>3, <1>4
    <2> HIDE DEF t, b
    <2> QED BY <1>1, <1>2, <2>1, PeerAckUp
  <1> HIDE DEF t, b
  <1>10. RoomInv'
    BY <1>1, <1>2 DEF RoomInv, Ample, Synchronized
  <1>11. toHost' \in Seq(PeerSegments')
    <2>1. toHost \in Seq(PeerSegments')
      <3>1. toHost \in Seq(PeerSegments)
        BY <1>1 DEF WorldInv
      <3> QED BY <1>1, <1>2, <1>9, <3>1, OldToHost
    <2>2. Ample => p_edge' # p_rcv'
      <3>1. Ample => p_edge' = SeqAdd(isn, 1 + world.wnd)
        BY <1>1, <1>2 DEF RoomInv
      <3> QED BY <1>1, <1>9, <3>1, AmpleEdge
    <2>3. UNCHANGED toHost \/ PeerSends(PeerSegment({"ACK"}, p_nxt, <<>>))
      BY DEF PeerAck
    <2>4. p_open' /\ p_edge' \in Seqs
      BY <1>1, <1>2
    <2> QED BY <1>1, <1>9, <2>1, <2>2, <2>3, <2>4, PeerAcks
  <1>12. WorldInv'
    <2>1. p_open' \in BOOLEAN /\ p_edge' \in Seqs /\ p_nxt' \in 1 .. Limit /\ state # "IDLE"
      BY <1>1, <1>2, Zenon
    <2> QED BY <1>1, <1>6, <1>7, <1>9, <1>11, <2>1, PeerWorld, Zenon
  <1> QED BY <1>1, <1>9, <1>10, <1>12 DEF ConnInv

LEMMA PeerInputInv ==
    ASSUME ConnInv, NEW i \in Deliverable(toPeer), NEW d \in BOOLEAN, PeerInput(i, d)
    PROVE  ConnInv'
  <1> DEFINE m == toPeer[i]
  <1>1. /\ HostUnchanged /\ toPeer' = Without(toPeer, i, d)
        /\ PeerSyn(m) \/ PeerAck(m) \/ PeerIgnores(m)
    BY DEF PeerInput
  <1>2. /\ TypeOK /\ SenderInv /\ DownInv /\ UpInv /\ RoomInv /\ WorldInv
        /\ TypeOK' /\ SenderInv' /\ DownInv'
        /\ UNCHANGED <<isn, tx, una, own_fin, delivered, state, error, peer_window, world>>
        /\ p_open \in BOOLEAN /\ p_fin \in BOOLEAN /\ p_rcv \in Seqs /\ p_edge \in Seqs
        /\ p_rx \in Seq(Byte) /\ p_una \in Nat /\ p_nxt \in 1 .. Limit
        /\ p_grant \in 0 .. Limit
        /\ isn \in Seqs /\ SeqSub(p_rcv, isn) \in Nat
    BY <1>1, PeerStart
  <1>3. toPeer \in Seq(HostSegments) /\ i \in 1 .. Len(toPeer)
    BY <1>2 DEF Deliverable, WorldInv
  <1>4. m \in HostSegments /\ toPeer' \in Seq(HostSegments)
    BY <1>1, <1>3, WithoutType
  <1>5. state # "IDLE"
    <2>1. state = "IDLE" => Len(toPeer) = 0
      BY <1>2 DEF WorldInv
    <2> QED BY <1>3, <2>1
  <1> HIDE DEF m
  <1>6. CASE PeerSyn(m)
    BY <1>1, <1>4, <1>5, <1>6, PeerSynInv
  <1>7. CASE PeerAck(m)
    BY <1>1, <1>4, <1>7, PeerAckInv
  <1>8. CASE PeerIgnores(m)
    <2>1. UNCHANGED <<peer, toHost>>
      BY <1>8 DEF PeerIgnores
    <2>2. own_fin' \in BOOLEAN /\ (own_fin => own_fin')
      BY <1>2, Zenon DEF TypeOK
    <2>3. UpInv'
      BY <1>2, <2>1, <2>2, UpSame DEF peer
    <2>4. RoomInv'
      BY <1>2, <2>1 DEF RoomInv, Ample, Synchronized, peer
    <2>5. toHost' \in Seq(PeerSegments')
      <3>1. toHost' \in Seq(PeerSegments) /\ p_open' = p_open /\ p_rcv' = p_rcv
        BY <1>2, <2>1 DEF WorldInv, peer
      <3>2. SeqSub(p_rcv, isn) <= SeqSub(p_rcv', isn)
        BY <1>2, <3>1
      <3> QED BY <1>2, <3>1, <3>2, OldToHost
    <2>6. /\ p_open' \in BOOLEAN /\ p_fin' \in BOOLEAN /\ p_rcv' \in Seqs /\ p_edge' \in Seqs
          /\ p_rx' \in Seq(Byte) /\ p_una' \in Nat /\ p_nxt' \in 1 .. Limit
          /\ p_grant' \in 0 .. Limit
      BY <1>2, <2>1, Zenon DEF peer
    <2>7. WorldInv'
      BY <1>2, <1>4, <1>5, <2>5, <2>6, PeerWorld, Zenon
    <2> QED BY <1>2, <2>3, <2>4, <2>7 DEF ConnInv
  <1> QED BY <1>1, <1>6, <1>7, <1>8

\* Bytes k to l of a stream of c bytes and a FIN.
LEMMA PieceBounds ==
    ASSUME NEW c \in Nat, NEW k \in Nat, NEW l \in Nat, 1 <= k, k <= l, l <= c + 1
    PROVE  /\ k - 1 \in Nat /\ (k - 1) + 1 = k /\ Min2(l, c) \in Nat
           /\ k - 1 <= Min2(l, c) /\ Min2(l, c) <= c
           /\ l = c + 1 => Min2(l, c) = c
           /\ l # c + 1 => Min2(l, c) = l
  BY DEF Min2
LEMMA PieceFlags ==
    /\ {"ACK", "FIN"} \in SUBSET Flags /\ {"ACK"} \in SUBSET Flags
    /\ One("FIN" \in {"ACK", "FIN"}) = 1 /\ One("FIN" \in {"ACK"}) = 0
  BY DEF Flags, One

LEMMA PeerSendInv ==
    ASSUME ConnInv, NEW k \in 1 .. LastPos, NEW l \in 1 .. LastPos, PeerSend(k, l)
    PROVE  ConnInv'
  <1>1. HostUnchanged
    BY DEF PeerSend
  <1>2. /\ TypeOK /\ SenderInv /\ DownInv /\ UpInv /\ RoomInv /\ WorldInv
        /\ TypeOK' /\ SenderInv' /\ DownInv'
        /\ UNCHANGED <<isn, tx, una, own_fin, delivered, state, error, peer_window, world>>
        /\ p_open \in BOOLEAN /\ p_fin \in BOOLEAN /\ p_rcv \in Seqs /\ p_edge \in Seqs
        /\ p_rx \in Seq(Byte) /\ p_una \in Nat /\ p_nxt \in 1 .. Limit
        /\ p_grant \in 0 .. Limit
        /\ isn \in Seqs /\ SeqSub(p_rcv, isn) \in Nat
        /\ p_open => state # "IDLE"
    BY <1>1, PeerStart
  <1>3. /\ UNCHANGED <<p_open, p_rcv, p_rx, p_fin, p_edge, p_una, p_grant, toPeer>>
        /\ p_open /\ k <= l /\ l < p_grant
        /\ p_nxt' = IF l >= p_nxt THEN l + 1 ELSE p_nxt
    BY DEF PeerSend, PeerHasData
  <1>4. PeerFile \in Seq(Byte) /\ Len(PeerFile) \in Nat /\ DOMAIN PeerFile = 1 .. Len(PeerFile)
    BY <1>2, PeerFileType
  <1>5. Limit \in Nat /\ LastPos = Len(PeerFile) + 1
    BY ConstantsAssumption DEF Limit, LastPos
  <1>6. k \in Nat /\ l \in Nat /\ 1 <= k /\ l <= Len(PeerFile) + 1 /\ l + 1 <= Limit
    BY <1>2, <1>3, <1>4, <1>5
  <1>7. p_nxt' \in 1 .. Limit
    BY <1>2, <1>3, <1>5, <1>6
  <1>8. UpInv'
    <2>1. own_fin' \in BOOLEAN /\ (own_fin => own_fin')
      BY <1>2, Zenon DEF TypeOK
    <2> QED BY <1>2, <1>3, <2>1, UpSame
  <1>9. RoomInv'
    BY <1>2, <1>3 DEF RoomInv, Ample, Synchronized
  <1>10. /\ p_rcv' \in Seqs /\ p_edge' \in Seqs /\ p_open'
         /\ SeqSub(p_rcv, isn) <= SeqSub(p_rcv', isn)
         /\ 1 <= SeqSub(p_rcv', isn) /\ (Ample => p_edge' # p_rcv')
    <2>1. Rel(p_rcv) = SeqSub(p_rcv, isn) /\ SeqSub(p_rcv', isn) = SeqSub(p_rcv, isn)
      BY <1>3 DEF Rel
    <2>2. 1 <= Rel(p_rcv) /\ Rel(p_rcv) <= Len(tx) + 2
      BY <1>2, <1>3, RcvBound
    <2>3. Ample => p_edge = SeqAdd(isn, 1 + world.wnd)
      BY <1>2, <1>3 DEF RoomInv
    <2>4. Ample => p_edge # p_rcv
      BY <1>2, <2>1, <2>2, <2>3, AmpleEdge
    <2>5. SeqSub(p_rcv, isn) <= SeqSub(p_rcv', isn)
      BY <1>2, <2>1
    <2> QED BY <1>2, <1>3, <2>1, <2>2, <2>4, <2>5
  <1> DEFINE n == Min2(l, Len(PeerFile))
             a == k - 1
             q == SubSeq(PeerFile, k, n)
             f == IF l = LastPos THEN {"ACK", "FIN"} ELSE {"ACK"}
  <1>11. n \in Nat /\ a \in Nat /\ a <= n /\ n <= Len(PeerFile) /\ a + 1 = k
         /\ (l = LastPos => n = Len(PeerFile)) /\ (l # LastPos => n = l)
    <2> DEFINE c == Len(PeerFile)
    <2>1. c \in Nat /\ k \in Nat /\ l \in Nat /\ 1 <= k /\ k <= l /\ l <= c + 1 /\ LastPos = c + 1
      BY <1>3, <1>4, <1>5, <1>6
    <2> HIDE DEF c
    <2>2. /\ k - 1 \in Nat /\ (k - 1) + 1 = k /\ Min2(l, c) \in Nat
          /\ k - 1 <= Min2(l, c) /\ Min2(l, c) <= c
          /\ l = c + 1 => Min2(l, c) = c
          /\ l # c + 1 => Min2(l, c) = l
      BY <2>1, PieceBounds
    <2> QED BY <2>1, <2>2 DEF c
  <1> HIDE DEF n, a
  <1>12. /\ q \in Seq(Byte) /\ Len(q) = n - a
         /\ \A j \in 1 .. n - a : q[j] = PeerFile[a + j]
    BY <1>4, <1>11, Slice
  <1>13. f \in SUBSET Flags /\ (l = LastPos => One("FIN" \in f) = 1)
         /\ (l # LastPos => One("FIN" \in f) = 0)
         /\ (f = {"ACK"} \/ (f = {"ACK", "FIN"} /\ l = LastPos))
    <2>0. (l = LastPos => f = {"ACK", "FIN"}) /\ (l # LastPos => f = {"ACK"})
      OBVIOUS
    <2> HIDE DEF f
    <2>1. CASE l = LastPos
      BY <2>0, <2>1, PieceFlags
    <2>2. CASE l # LastPos
      <3>1. f = {"ACK"} /\ ~ (l = LastPos)
        BY <2>0, <2>2, Zenon
      <3>2. f \in SUBSET Flags
        BY <3>1, PieceFlags, Zenon
      <3>3. One("FIN" \in f) = 0
        BY <3>1, PieceFlags, Zenon
      <3> QED BY <3>1, <3>2, <3>3, Zenon
    <2> QED BY <2>1, <2>2
  <1>14. PeerSends(PeerSegment(f, k, q))
    BY DEF PeerSend, n
  <1> HIDE DEF q, f
  <1>15. k + Len(q) + One("FIN" \in f) <= Limit
    <2>1. /\ n \in Nat /\ a \in Nat /\ k = a + 1 /\ Len(q) = n - a
          /\ l \in Nat /\ l + 1 <= Limit /\ Limit \in Nat
      BY <1>5, <1>6, <1>11, <1>12
    <2>2. CASE l = LastPos
      <3>1. One("FIN" \in f) = 1 /\ n + 1 = l
        BY <1>4, <1>5, <1>11, <1>13, <2>2
      <3> QED BY <2>1, <3>1
    <2>3. CASE l # LastPos
      <3>1. One("FIN" \in f) = 0 /\ n = l
        BY <1>11, <1>13, <2>3
      <3> QED BY <2>1, <3>1
    <2> QED BY <2>2, <2>3
  <1>16. \A j \in 1 .. Len(q) : /\ k + j - 1 \in DOMAIN PeerFile
                                /\ q[j] = PeerFile[k + j - 1]
    <2> SUFFICES ASSUME NEW j \in 1 .. n - a
                 PROVE  k + j - 1 \in DOMAIN PeerFile /\ q[j] = PeerFile[k + j - 1]
      BY <1>12
    <2>1. k + j - 1 = a + j /\ a + j \in 1 .. Len(PeerFile)
      <3>1. n \in Nat /\ a \in Nat /\ n <= Len(PeerFile) /\ k = a + 1
        BY <1>11
      <3> QED BY <1>4, <3>1
    <2> QED BY <1>4, <1>12, <2>1
  <1>17. f = {"ACK"} \/ (f = {"ACK", "FIN"} /\ k + Len(q) = LastPos)
    <2>1. l = LastPos => k + Len(q) = LastPos
      <3>1. n \in Nat /\ a \in Nat /\ k = a + 1 /\ (l = LastPos => n = Len(PeerFile))
        BY <1>11
      <3> QED BY <1>4, <1>5, <1>12, <3>1
    <2> QED BY <1>13, <2>1
  <1>18. toHost' \in Seq(PeerSegments')
    <2>1. toHost \in Seq(PeerSegments')
      <3>1. toHost \in Seq(PeerSegments)
        BY <1>2 DEF WorldInv
      <3> QED BY <1>2, <1>3, <1>10, <3>1, OldToHost
    <2>2. PICK m : m = PeerSegment(f, k, q)
      OBVIOUS
    <2>3. m \in PeerSegments'
      BY <1>2, <1>6, <1>10, <1>12, <1>13, <1>15, <1>16, <1>17, <2>2, NewPeerSegment
    <2>4. PeerSends(m)
      BY <1>14, <2>2
    <2> QED BY <1>2, <2>1, <2>3, <2>4, PeerSendsType
  <1>19. WorldInv'
    <2>1. /\ p_open' \in BOOLEAN /\ p_fin' \in BOOLEAN /\ p_rx' \in Seq(Byte) /\ p_una' \in Nat
          /\ p_grant' \in 0 .. Limit /\ state # "IDLE" /\ toPeer' \in Seq(HostSegments)
      BY <1>2, <1>3, Zenon DEF WorldInv
    <2> QED BY <1>2, <1>7, <1>10, <1>18, <2>1, PeerWorld, Zenon
  <1> QED BY <1>2, <1>8, <1>9, <1>19 DEF ConnInv

LEMMA PeerReadsInv ==
    ASSUME ConnInv, PeerReads
    PROVE  ConnInv'
  <1>1. HostUnchanged
    BY DEF PeerReads
  <1>2. /\ TypeOK /\ SenderInv /\ DownInv /\ UpInv /\ RoomInv /\ WorldInv
        /\ TypeOK' /\ SenderInv' /\ DownInv'
        /\ UNCHANGED <<isn, tx, una, own_fin, delivered, state, error, peer_window, world>>
        /\ p_open \in BOOLEAN /\ p_fin \in BOOLEAN /\ p_rcv \in Seqs /\ p_edge \in Seqs
        /\ p_rx \in Seq(Byte) /\ p_una \in Nat /\ p_nxt \in 1 .. Limit
        /\ p_grant \in 0 .. Limit
        /\ isn \in Seqs /\ SeqSub(p_rcv, isn) \in Nat
        /\ p_open => state # "IDLE"
    BY <1>1, PeerStart
  <1>3. /\ UNCHANGED <<p_open, p_rcv, p_rx, p_fin, p_una, p_nxt, p_grant, toPeer>>
        /\ p_open /\ p_edge = p_rcv /\ p_edge' = SeqAdd(p_rcv, world.wnd)
        /\ PeerSends(PeerSegment({"ACK"}, p_nxt, <<>>))
    BY DEF PeerReads
  <1>4. Rel(p_rcv) = SeqSub(p_rcv, isn) /\ SeqSub(p_rcv', isn) = SeqSub(p_rcv, isn)
    BY <1>3 DEF Rel
  <1>5. 1 <= Rel(p_rcv) /\ Rel(p_rcv) <= Len(tx) + 2
    BY <1>2, <1>3, RcvBound
  <1>6. ~ Ample
    <2>1. Ample => p_edge = SeqAdd(isn, 1 + world.wnd)
      BY <1>2, <1>3 DEF RoomInv
    <2> QED BY <1>2, <1>3, <1>4, <1>5, <2>1, AmpleEdge
  <1>7. p_edge' \in Seqs
    <2>1. world.wnd \in Nat /\ world.wnd <= SeqHalf
      BY <1>2, PeerFileType, ConstantsAssumption
    <2> QED BY <1>2, <1>3, <2>1, AddType
  <1>8. UpInv'
    <2>1. own_fin' \in BOOLEAN /\ (own_fin => own_fin')
      BY <1>2, Zenon DEF TypeOK
    <2> QED BY <1>2, <1>3, <2>1, UpSame
  <1>9. RoomInv'
    <2>1. ~ Ample'
      BY <1>2, <1>6 DEF Ample
    <2> QED BY <2>1 DEF RoomInv
  <1>10. SeqSub(p_rcv, isn) <= SeqSub(p_rcv', isn) /\ p_rcv' \in Seqs /\ p_open'
    BY <1>2, <1>3, <1>4
  <1>11. toHost' \in Seq(PeerSegments')
    <2>1. toHost \in Seq(PeerSegments')
      <3>1. toHost \in Seq(PeerSegments)
        BY <1>2 DEF WorldInv
      <3> QED BY <1>2, <1>10, <3>1, OldToHost
    <2> QED BY <1>2, <1>3, <1>4, <1>5, <1>6, <1>7, <1>10, <2>1, PeerAcks
  <1>12. WorldInv'
    <2>1. /\ p_open' \in BOOLEAN /\ p_fin' \in BOOLEAN /\ p_rx' \in Seq(Byte) /\ p_una' \in Nat
          /\ p_nxt' \in 1 .. Limit /\ p_grant' \in 0 .. Limit /\ state # "IDLE"
          /\ toPeer' \in Seq(HostSegments)
      BY <1>2, <1>3, Zenon DEF WorldInv
    <2> QED BY <1>2, <1>7, <1>10, <1>11, <2>1, PeerWorld, Zenon
  <1> QED BY <1>2, <1>8, <1>9, <1>12 DEF ConnInv

LEMMA ConnInit == ASSUME CInit PROVE ConnInv
  <1>1. Init /\ world \in Worlds /\ toPeer = <<>> /\ toHost = <<>>
        /\ p_open = FALSE /\ p_rcv = 0 /\ p_rx = <<>> /\ p_fin = FALSE
        /\ p_edge = 0 /\ p_una = 0 /\ p_nxt = 1 /\ p_grant = 0
    BY DEF CInit
  <1>2. TypeOK /\ SenderInv
    BY <1>1, InitType, InitInv
  <1>3. /\ state = "IDLE" /\ error = "none" /\ rx = <<>> /\ peer_fin = FALSE
        /\ ack_pending = FALSE /\ tx = <<>> /\ una = 0 /\ isn = 0 /\ delivered = 0
        /\ own_fin = FALSE
    BY <1>1 DEF Init
  <1>4. world \in WorldType /\ 0 \in Seqs /\ 1 \in 1 .. Limit /\ 0 \in 0 .. Limit
    BY <1>1, PeerAssumption, ConstantsAssumption DEF Limit
  <1>5. Len(PeerFile) \in Nat /\ Len(world.file) \in Nat
    <2>1. PeerFile \in Seq(Byte) /\ world.file \in Seq(Byte)
      BY <1>4, InputsAssumption DEF WorldType, PeerFile
    <2> QED BY <2>1, LenProperties
  <1>6. DownInv
    BY <1>3, <1>5 DEF DownInv, Synchronized
  <1>7. UpInv
    <2>1. Rel(una) = 0
      BY <1>3, <1>4, SelfSub DEF Rel
    <2>2. One(own_fin /\ ~ Ample) = 0
      BY <1>3 DEF One
    <2> QED BY <1>1, <1>3, <2>1, <2>2 DEF UpInv
  <1>8. RoomInv
    BY <1>1, <1>3 DEF RoomInv, Synchronized
  <1>9. WorldInv
    <2>1. toPeer \in Seq(HostSegments) /\ toHost \in Seq(PeerSegments) /\ p_rx \in Seq(Byte)
      BY <1>1, EmptySeq
    <2>2. FailsOnlyByTime
      BY <1>3, Zenon DEF FailsOnlyByTime
    <2>3. Len(tx) = 0
      BY <1>3
    <2>4. Len(tx) <= Len(world.file) /\ delivered \in Nat
      BY <1>3, <1>5, <2>3
    <2>5. /\ p_open \in BOOLEAN /\ p_fin \in BOOLEAN /\ p_rcv \in Seqs /\ p_edge \in Seqs
          /\ p_una \in Nat /\ p_nxt \in 1 .. Limit /\ p_grant \in 0 .. Limit
      BY <1>1, <1>4
    <2> QED BY <1>1, <2>1, <2>2, <2>4, <2>5, Zenon DEF WorldInv
  <1> QED BY <1>2, <1>6, <1>7, <1>8, <1>9 DEF ConnInv

LEMMA ConnStutter == ASSUME ConnInv, UNCHANGED cvars PROVE ConnInv'
  <1>1. /\ TypeOK /\ SenderInv /\ DownInv /\ UpInv /\ RoomInv /\ WorldInv
        /\ UNCHANGED <<peer, net, world>> /\ UNCHANGED vars
    BY DEF ConnInv, cvars
  <1>2. /\ TypeOK' /\ SenderInv' /\ DownInv'
        /\ UNCHANGED <<isn, tx, una, own_fin, delivered, state, error, peer_window, world>>
    BY <1>1, HostStill DEF vars, TypeOK
  <1>3. UpInv'
    <2>1. own_fin' \in BOOLEAN /\ (own_fin => own_fin')
      BY <1>1, <1>2, Zenon DEF TypeOK
    <2> QED BY <1>1, <1>2, <2>1, UpSame DEF peer
  <1>4. RoomInv'
    BY <1>1, <1>2 DEF RoomInv, Ample, Synchronized, peer
  <1>5. WorldInv'
    <2>1. HostSegments' = HostSegments /\ PeerSegments' = PeerSegments
      BY <1>1, <1>2 DEF HostSegments, HostHeaders, HostSegment, PeerSegments, PeerSegmentOK,
             Ample, Rel, Pos, PeerFile, LastPos, SequenceLength, peer
    <2>2. FilesFit' => FailsOnlyByTime'
      BY <1>1, <1>2, Zenon DEF FilesFit, FailsOnlyByTime, PeerFile, WorldInv
    <2> QED BY <1>1, <1>2, <2>1, <2>2 DEF WorldInv, peer, net
  <1> QED BY <1>2, <1>3, <1>4, <1>5 DEF ConnInv

LEMMA ConnNext == ASSUME ConnInv, [CNext]_cvars PROVE ConnInv'
  <1>1. CASE UNCHANGED cvars
    BY <1>1, ConnStutter
  <1>2. CASE CNext
    <2>1. Going
      BY <1>2 DEF CNext
    <2>2. CASE HostStart
      BY <2>2, HostStartInv
    <2>3. CASE \E f, e \in BOOLEAN : HostTick(f, e)
      BY <2>1, <2>3, HostTickInv
    <2>4. CASE \E i \in Deliverable(toHost), d, e \in BOOLEAN : HostInput(i, d, e)
      BY <2>1, <2>4, HostInputInv
    <2>5. CASE \E i \in Deliverable(toPeer), d \in BOOLEAN : PeerInput(i, d)
      BY <2>5, PeerInputInv
    <2>6. CASE \E k, l \in 1 .. LastPos : PeerSend(k, l)
      BY <2>6, PeerSendInv
    <2>7. CASE PeerReads
      BY <2>7, PeerReadsInv
    <2>8. CASE Lose
      BY <2>8, LoseInv
    <2>9. CASE Passes
      BY <2>9, PassesInv
    <2> QED BY <1>2, <2>2, <2>3, <2>4, <2>5, <2>6, <2>7, <2>8, <2>9 DEF CNext
  <1> QED BY <1>1, <1>2

\* The inductive invariant of a transfer holds in every reachable state of every
\* world: the segments in flight carry what their positions stand for, and both
\* receivers stand behind what they took.
THEOREM ConnCorrect == CSpec => []ConnInv
  <1>1. CInit => ConnInv
    BY ConnInit
  <1>2. ConnInv /\ [CNext]_cvars => ConnInv'
    BY ConnNext
  <1> QED BY <1>1, <1>2, PTL DEF CSpec

\* A prefix by its elements is a prefix.
LEMMA PrefixByElements ==
    ASSUME NEW S, NEW s \in Seq(S), NEW t \in Seq(S), Len(s) <= Len(t),
           \A k \in 1 .. Len(s) : s[k] = t[k]
    PROVE  IsPrefixOf(s, t) /\ (Len(s) = Len(t) => s = t)
  <1>1. Len(s) \in Nat /\ Len(t) \in Nat
    BY LenProperties
  <1> DEFINE a == 0
             n == Len(s)
             u == SubSeq(t, 1, n)
  <1>2. a \in Nat /\ n \in Nat /\ a <= n /\ n <= Len(t) /\ a + 1 = 1 /\ n - a = n
        /\ \A j \in 1 .. n : a + j = j
    BY <1>1
  <1>3. /\ SubSeq(t, a + 1, n) \in Seq(S) /\ Len(SubSeq(t, a + 1, n)) = n - a
        /\ \A j \in 1 .. n - a : SubSeq(t, a + 1, n)[j] = t[a + j]
    <2> HIDE DEF a, n
    <2> QED BY <1>2, Slice
  <1>4. u \in Seq(S) /\ Len(u) = Len(s) /\ \A j \in 1 .. Len(s) : u[j] = t[j]
    <2> HIDE DEF a
    <2> QED BY <1>2, <1>3
  <1> HIDE DEF u
  <1>5. u = s
    BY <1>4, SeqEqual
  <1>6. Len(s) = Len(t) => s = t
    BY SeqEqual
  <1> QED BY <1>5, <1>6 DEF IsPrefixOf, u

\* What holds in every world, however small the peer's window is.
Download == IsPrefixOf(rx, PeerFile) /\ (peer_fin => rx = PeerFile)
Upload ==
    /\ delivered <= Len(p_rx)
    /\ p_fin => p_rx = tx
    /\ Len(p_rx) <= Len(tx) => IsPrefixOf(p_rx, tx)
    /\ Len(p_rx) <= Len(tx) + 1 /\ (Len(p_rx) = Len(tx) + 1 => own_fin)

LEMMA DownloadFromInv == ASSUME ConnInv PROVE Download
  <1>1. rx \in Seq(Byte) /\ PeerFile \in Seq(Byte)
    BY PeerFileType DEF ConnInv, TypeOK
  <1>2. /\ Len(rx) <= Len(PeerFile) /\ \A k \in 1 .. Len(rx) : rx[k] = PeerFile[k]
        /\ peer_fin => Len(rx) = Len(PeerFile)
    BY DEF ConnInv, DownInv
  <1> QED BY <1>1, <1>2, PrefixByElements DEF Download

LEMMA UploadFromInv == ASSUME ConnInv PROVE Upload
  <1>1. /\ p_rx \in Seq(Byte) /\ tx \in Seq(Byte) /\ Len(p_rx) \in Nat /\ Len(tx) \in Nat
        /\ delivered \in Nat /\ p_open \in BOOLEAN /\ p_fin \in BOOLEAN /\ own_fin \in BOOLEAN
    BY LenProperties DEF ConnInv, TypeOK, WorldInv
  <1>2. /\ p_open = FALSE => p_rx = <<>> /\ p_fin = FALSE
        /\ p_open => Rel(p_rcv) = 1 + Len(p_rx) + One(p_fin)
        /\ Len(p_rx) <= Len(tx) + One(own_fin /\ ~ Ample)
        /\ \A k \in 1 .. Len(p_rx) : k <= Len(tx) => p_rx[k] = tx[k]
        /\ p_fin => Len(p_rx) = Len(tx)
        /\ Rel(una) # 0 => p_open /\ Rel(una) <= Rel(p_rcv)
        /\ delivered <= Len(tx) /\ (delivered # 0 => delivered < Rel(una))
    BY DEF ConnInv, UpInv
  <1>3. ASSUME Len(p_rx) <= Len(tx)
        PROVE  IsPrefixOf(p_rx, tx) /\ (Len(p_rx) = Len(tx) => p_rx = tx)
    <2>1. \A k \in 1 .. Len(p_rx) : p_rx[k] = tx[k]
      BY <1>1, <1>2, <1>3
    <2> QED BY <1>1, <1>3, <2>1, PrefixByElements
  <1>4. Len(p_rx) <= Len(tx) + 1 /\ (Len(p_rx) = Len(tx) + 1 => own_fin)
    <2>1. CASE own_fin
      <3>1. One(own_fin /\ ~ Ample) \in 0 .. 1
        BY DEF One
      <3>2. Len(p_rx) <= Len(tx) + 1
        BY <1>1, <1>2, <3>1
      <3> QED BY <2>1, <3>2
    <2>2. CASE ~ own_fin
      <3>1. One(own_fin /\ ~ Ample) = 0
        BY <2>2 DEF One
      <3>2. Len(p_rx) <= Len(tx)
        BY <1>1, <1>2, <3>1
      <3>3. Len(p_rx) <= Len(tx) + 1 /\ Len(p_rx) # Len(tx) + 1
        BY <1>1, <3>2
      <3> QED BY <3>3
    <2> QED BY <2>1, <2>2
  <1>5. p_fin => p_rx = tx
    <2>1. p_fin => Len(p_rx) = Len(tx)
      BY <1>2
    <2>2. Len(p_rx) = Len(tx) => Len(p_rx) <= Len(tx)
      BY <1>1
    <2> QED BY <1>3, <2>1, <2>2
  <1>6. delivered <= Len(p_rx)
    <2>1. CASE p_fin
      <3>1. Len(p_rx) = Len(tx) /\ delivered <= Len(tx)
        BY <1>2, <2>1
      <3> QED BY <3>1
    <2>2. CASE delivered = 0
      BY <1>1, <2>2
    <2>3. CASE ~ p_fin /\ delivered # 0
      <3>1. Rel(una) \in Nat /\ delivered < Rel(una)
        BY <1>2, <2>3, SubType DEF Rel, ConnInv, TypeOK
      <3>2. Rel(una) # 0
        BY <1>1, <3>1
      <3>3. One(p_fin) = 0
        BY <2>3 DEF One
      <3>4. Rel(una) <= Rel(p_rcv) /\ Rel(p_rcv) = 1 + Len(p_rx) + 0
        BY <1>2, <3>2, <3>3
      <3> QED BY <1>1, <3>1, <3>4
    <2> QED BY <2>1, <2>2, <2>3
  <1> QED BY <1>3, <1>4, <1>5, <1>6 DEF Upload

LEMMA AmpleUpload ==
    ASSUME ConnInv, Ample
    PROVE  /\ IsPrefixOf(p_rx, tx)
           /\ own_fin_acked => p_fin
  <1>1. /\ Len(p_rx) \in Nat /\ Len(tx) \in Nat /\ p_fin \in BOOLEAN
        /\ TypeOK /\ SenderInv /\ UpInv /\ WorldInv
    BY LenProperties DEF ConnInv, TypeOK, WorldInv
  <1>2. Len(p_rx) <= Len(tx)
    <2>1. One(own_fin /\ ~ Ample) = 0
      BY DEF One
    <2>2. Len(p_rx) <= Len(tx) + 0
      BY <1>1, <2>1 DEF UpInv
    <2> QED BY <1>1, <2>2
  <1>3. IsPrefixOf(p_rx, tx)
    BY <1>2, UploadFromInv DEF Upload
  <1>4. ASSUME own_fin_acked PROVE p_fin
    <2>1. own_fin /\ una = next /\ Bounds(Rel(una), Rel(next), tx_offset, own_fin, Len(tx))
      <3>1. ~ Early
        BY <1>4 DEF Early
      <3> QED BY <1>1, <1>4, <3>1 DEF SenderInv, Late
    <2>2. Rel(una) = Len(tx) + 2
      BY <1>1, <2>1 DEF Bounds
    <2>3. Rel(una) # 0
      BY <1>1, <2>2
    <2>4. p_open /\ Rel(una) <= Rel(p_rcv)
      BY <1>1, <2>3 DEF UpInv
    <2>5. Rel(p_rcv) \in Nat /\ (~ p_fin => Rel(p_rcv) = 1 + Len(p_rx))
      BY <1>1, <2>4, RcvBound
    <2> QED BY <1>1, <1>2, <2>2, <2>4, <2>5
  <1> QED BY <1>3, <1>4

LEMMA AmpleFromInv == ASSUME ConnInv, Ample PROVE StreamsIntact /\ CompletionIsReal
  <1>1. Download /\ Upload /\ IsPrefixOf(p_rx, tx) /\ (own_fin_acked => p_fin)
    BY DownloadFromInv, UploadFromInv, AmpleUpload
  <1>2. state = "DONE" => own_fin_acked /\ peer_fin
    BY DEF ConnInv, SenderInv
  <1> QED BY <1>1, <1>2 DEF Download, Upload, StreamsIntact, CompletionIsReal
-----------------------------------------------------------------------------
\* In every world, whatever the network and the host's own emissions lose: what
\* tcp_input stores is a prefix of the peer's file, and all of it once the peer's
\* FIN was taken.
THEOREM DownloadAlways == CSpec => []Download
  <1>1. ConnInv => Download
    BY DownloadFromInv
  <1> QED BY <1>1, ConnCorrect, PTL

\* In every world: no byte that tcp_input counts as delivered is missing at the
\* peer, a FIN the peer took ends exactly the file, and the peer holds at most
\* one byte that is not of the file, a probe that repeats the FIN's position.
THEOREM UploadAlways == CSpec => []Upload
  <1>1. ConnInv => Upload
    BY UploadFromInv
  <1> QED BY <1>1, ConnCorrect, PTL

\* Where the peer's buffer holds the host's file and FIN, so that no probe is
\* ever due, neither side ever holds a byte the other did not send at that place,
\* and each holds the whole file once it took the other's FIN.
THEOREM StreamsIntactAlways == CSpec => [](Ample => StreamsIntact)
  <1>1. ConnInv => (Ample => StreamsIntact)
    BY AmpleFromInv
  <1> QED BY <1>1, ConnCorrect, PTL

\* In the same worlds, a transfer that tcp_tick reports as done is complete on
\* both sides, and own_fin_acked is never believed before the peer took the FIN.
THEOREM CompletionIsRealAlways == CSpec => [](Ample => CompletionIsReal)
  <1>1. ConnInv => (Ample => CompletionIsReal)
    BY AmpleFromInv
  <1> QED BY <1>1, ConnCorrect, PTL

\* As long as the files fit the buffers, nothing a conforming peer sends, late,
\* twice or out of order, makes tcp_input fail the transfer.
THEOREM FailsOnlyByTimeAlways == CSpec => [](FilesFit => FailsOnlyByTime)
  <1>1. ConnInv => (FilesFit => FailsOnlyByTime)
    BY DEF ConnInv, WorldInv
  <1> QED BY <1>1, ConnCorrect, PTL
=============================================================================
