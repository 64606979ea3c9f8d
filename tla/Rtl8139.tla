------------------------------- MODULE Rtl8139 --------------------------------
(***************************************************************************)
(* The polled driver net/rtl8139.c and the card it shares its rings with.  *)
(*                                                                         *)
(* The card (external; the driver names QEMU's model of it) writes each    *)
(* frame into the receive ring behind a header of two 16-bit words, its    *)
(* status and its size with the checksum, at addresses that are multiples  *)
(* of four, and wraps at the ring's end.  It never writes at or beyond     *)
(* the driver's read pointer; a frame that does not fit sets the overflow  *)
(* bit.  While it is still writing, the size reads as 0xfff0.  It sends    *)
(* the transmit slots in turn and gives each back when it has sent it.     *)
(* Card and driver interleave: a poll is one step per frame it takes.      *)
(*                                                                         *)
(* The four variables of Link are history: no step depends on them.  Left  *)
(* out: the statistics counters, and the discovery of the card on the PCI  *)
(* bus, of which only the failure of rtl_up remains.                       *)
(*                                                                         *)
(* D_bug is definition D with a slip in it; see README.md.                 *)
(***************************************************************************)
EXTENDS Integers, Sequences, FiniteSets

CONSTANTS
    RX_SIZE,         \* bytes of the receive ring (8192)
    TX_SLOTS,        \* transmit buffers (4)
    NET_FRAME_MAX,   \* the longest frame the kernel handles (1514)
    MIN_FRAME,       \* the shortest packet rtl_send takes (14)
    MIN_WIRE,        \* the shortest frame on the wire (60)
    BUDGET,          \* frames taken by one poll (8)
    Byte,            \* values of a byte
    Frames,          \* frames that reach the card: [data, ok]
    Packets          \* what the protocol code sends

ASSUME RingAssumption ==
    /\ RX_SIZE \in Nat \ {0} /\ RX_SIZE % 4 = 0 /\ 65536 % RX_SIZE = 0
    /\ TX_SLOTS \in Nat \ {0} /\ BUDGET \in Nat \ {0}
    /\ NET_FRAME_MAX \in Nat /\ MIN_FRAME \in Nat /\ MIN_WIRE \in Nat \ {0}
    /\ MIN_WIRE <= NET_FRAME_MAX
    /\ 0 .. 255 = Byte
    /\ Frames \subseteq [data : Seq(Byte), ok : BOOLEAN]
    /\ \A f \in Frames : f.data # <<>> /\ Len(f.data) + 12 < RX_SIZE
    /\ Packets \subseteq Seq(Byte)

VARIABLES
    up, rx_offset, tx_slot,    \* the driver
    rx_ring, tx_buffers,       \* shared with the card
    left,                      \* frames the poll may still take, or Idle
    card,                      \* the card's receiver
    tx_size, turn,             \* its transmitter: sizes (0: slot given back)
    arriving, taken, leaving, wire

driver == <<up, rx_offset, tx_slot, left>>
receiver == <<rx_ring, card>>
transmitter == <<tx_buffers, tx_size, turn>>
link == <<arriving, taken, leaving, wire>>
vars == <<driver, receiver, transmitter, link>>

Cells == 0 .. RX_SIZE - 1
TxSlots == 0 .. TX_SLOTS - 1
Idle == -1

L == INSTANCE Link

\* The card after a reset: nothing in the ring, no overflow, no transfer.
FreshCard == [on |-> TRUE, ptr |-> 0, addr |-> 0, over |-> FALSE, dma |-> L!NoFrame]

Init ==
    /\ up = FALSE /\ rx_offset = 0 /\ tx_slot = 0 /\ left = Idle
    /\ rx_ring = [k \in Cells |-> 0]
    /\ tx_buffers = [s \in TxSlots |-> [k \in 1 .. NET_FRAME_MAX |-> 0]]
    /\ card = [FreshCard EXCEPT !.on = FALSE]
    /\ tx_size = [s \in TxSlots |-> 0] /\ turn = 0
    /\ L!Init
-----------------------------------------------------------------------------
(* The card.                                                               *)

Align(n) == ((n + 3) \div 4) * 4
Bytes(n) == <<n % 256, n \div 256>>
DMA == 65520          \* 0xfff0: the frame is still being written

\* The ring with some bytes written from an address on, past the end as well.
Place(at, bytes) ==
    [k \in Cells |-> LET i == (k - at) % RX_SIZE
                     IN IF i < Len(bytes) THEN bytes[i + 1] ELSE rx_ring[k]]

RoomFor(f) ==
    LET avail == (card.ptr - card.addr) % RX_SIZE
    IN avail = 0 \/ Align(Len(f.data) + 8) < avail
Empty == card.addr = card.ptr /\ card.dma = L!NoFrame

CardMisses(f) ==
    /\ card.on /\ card.dma = L!NoFrame /\ ~ RoomFor(f)
    /\ card' = [card EXCEPT !.over = TRUE]
    /\ L!Rest /\ UNCHANGED <<driver, rx_ring, transmitter>>
CardBegins(f) ==
    /\ card.on /\ card.dma = L!NoFrame /\ RoomFor(f)
    /\ card' = [card EXCEPT !.dma = f]
    /\ rx_ring' = Place(card.addr, <<0, 0>> \o Bytes(DMA))
    /\ L!Rest /\ UNCHANGED <<driver, transmitter>>

Header(f) == Bytes(IF f.ok THEN 1 ELSE 2) \o Bytes(Len(f.data) + 4)
CardReceives ==
    /\ card.on /\ card.dma # L!NoFrame
    /\ rx_ring' = Place(card.addr, Header(card.dma) \o card.dma.data \o <<9, 9, 9, 9>>)
    /\ card' = [card EXCEPT !.addr = (@ + Align(Len(card.dma.data) + 8)) % RX_SIZE,
                            !.dma = L!NoFrame]
    /\ L!Arrive(card.dma) /\ UNCHANGED <<driver, transmitter>>

CardSends ==
    /\ card.on /\ tx_size[turn] # 0
    /\ wire' = SubSeq(tx_buffers[turn], 1, tx_size[turn])
    /\ tx_size' = [tx_size EXCEPT ![turn] = 0]
    /\ turn' = (turn + 1) % TX_SLOTS
    /\ leaving' = Tail(leaving) /\ taken' = L!NoFrame
    /\ UNCHANGED <<driver, receiver, tx_buffers, arriving>>
-----------------------------------------------------------------------------
(* The driver.                                                             *)

\* rtl_up, from the reset of the card on.
Reset == up' = TRUE /\ tx_slot' = 0 /\ rx_offset' = 0

Started ==
    /\ Reset /\ left' = Idle
    /\ card' = FreshCard
    /\ tx_size' = [s \in TxSlots |-> 0] /\ turn' = 0
    /\ L!Restart /\ UNCHANGED <<rx_ring, tx_buffers>>

\* rtl_down: a transfer of the card that is under way ends.
Stopped ==
    /\ up' = FALSE /\ left' = Idle
    /\ card' = [card EXCEPT !.on = FALSE, !.dma = L!NoFrame]
    /\ L!Restart /\ UNCHANGED <<rx_offset, tx_slot, rx_ring, transmitter>>

\* The commands net up, which may find no card, and net down.
NetUp == ~ up /\ Started
NetDown == up /\ left = Idle /\ Stopped

\* rtl_down and rtl_up out of a poll; the card may not come back.
Restarts == Started \/ Stopped

\* rtl_send.
SendRefused(p) ==
    /\ ~ up \/ Len(p) < MIN_FRAME \/ Len(p) > NET_FRAME_MAX \/ tx_size[tx_slot] # 0
    /\ L!Rest /\ UNCHANGED <<driver, receiver, transmitter>>
Filled(old, p) ==
    [k \in 1 .. NET_FRAME_MAX |->
        IF k <= Len(p) THEN p[k] ELSE IF k <= MIN_WIRE THEN 0 ELSE old[k]]
Send(p) ==
    /\ up /\ MIN_FRAME <= Len(p) /\ Len(p) <= NET_FRAME_MAX /\ tx_size[tx_slot] = 0
    /\ tx_buffers' = [tx_buffers EXCEPT ![tx_slot] = Filled(@, p)]
    /\ tx_size' = [tx_size EXCEPT ![tx_slot] = IF Len(p) < MIN_WIRE THEN MIN_WIRE ELSE Len(p)]
    /\ tx_slot' = (tx_slot + 1) % TX_SLOTS
    /\ L!Accept(p) /\ UNCHANGED <<up, rx_offset, left, receiver, turn>>

\* rtl_poll: the overflow bit, then the frames, then the end.
PollStarts ==
    /\ up /\ left = Idle
    /\ \/ card.over /\ Restarts
       \/ /\ ~ card.over /\ left' = BUDGET
          /\ L!Rest /\ UNCHANGED <<up, rx_offset, tx_slot, receiver, transmitter>>

Word(o) == rx_ring[o % RX_SIZE] + 256 * rx_ring[(o + 1) % RX_SIZE]
Status == Word(rx_offset)
Size == Word(rx_offset + 2)
BadSize == Size < 4 \/ Size > NET_FRAME_MAX + 4
Looping == left > 0 /\ ~ Empty

\* The frame behind the header.
FrameRead_Linear ==
    [i \in 1 .. Size - 4 |-> rx_ring[IF rx_offset + 3 + i < RX_SIZE THEN rx_offset + 3 + i
                                     ELSE RX_SIZE - 1]]
FrameRead == [i \in 1 .. Size - 4 |-> rx_ring[(rx_offset + 3 + i) % RX_SIZE]]

NextOffset_Unaligned == (rx_offset + Size + 4) % RX_SIZE
NextOffset == Align(rx_offset + Size + 4) % RX_SIZE

\* The register CAPR holds 16 bits, and the card adds 16 to it.
Capr(o) == (o - 16) % 65536

PollResets_Breaks ==
    /\ Looping /\ Size # DMA /\ BadSize /\ left' = Idle
    /\ L!Rest /\ UNCHANGED <<up, rx_offset, tx_slot, receiver, transmitter>>
PollResets == Looping /\ Size # DMA /\ BadSize /\ Restarts
PollTakes ==
    /\ Looping /\ Size # DMA /\ ~ BadSize
    /\ taken' = IF Status % 64 = 1 THEN [data |-> FrameRead, ok |-> TRUE] ELSE L!Damaged
    /\ rx_offset' = NextOffset
    /\ card' = [card EXCEPT !.ptr = (Capr(NextOffset) + 16) % RX_SIZE]
    /\ left' = left - 1
    /\ arriving' = (IF arriving = <<>> THEN <<>> ELSE Tail(arriving)) /\ wire' = <<>>
    /\ UNCHANGED <<up, tx_slot, rx_ring, transmitter, leaving>>
PollEnds ==
    /\ left # Idle
    /\ ~ Looping \/ Size = DMA
    /\ left' = Idle
    /\ L!Rest /\ UNCHANGED <<up, rx_offset, tx_slot, receiver, transmitter>>

Poll == PollStarts \/ PollResets \/ PollTakes \/ PollEnds

Next ==
    \/ \E f \in Frames : CardMisses(f) \/ CardBegins(f)
    \/ CardReceives \/ CardSends
    \/ NetUp \/ NetDown
    \/ \E p \in Packets : SendRefused(p) \/ Send(p)
    \/ Poll

Spec == Init /\ [][Next]_vars

\* Every loop of the kernel that waits calls rtl_poll, and the card finishes a
\* transfer it has begun.
FairSpec == Spec /\ WF_vars(Poll) /\ WF_vars(CardReceives)
-----------------------------------------------------------------------------
(* Properties.                                                             *)

\* The rings implement the link: whatever the lengths, the wraps and the moments
\* of a restart, net_receive gets the frames that arrived, whole, in order and
\* once each, none from before a restart and none the card is still writing, and
\* the wire gets what rtl_send accepted with no byte of an earlier packet.
ImplementsLink == L!Spec

\* The driver reads where the card believes it does, and the headers from there
\* on are those of the frames that arrived: an offset that was once advanced
\* wrongly would make it read data as headers for ever.
InStep ==
    up => LET at[i \in 0 .. Len(arriving)] ==
                IF i = 0 THEN rx_offset
                ELSE (at[i - 1] + Align(Len(arriving[i].data) + 8)) % RX_SIZE
          IN /\ rx_offset = card.ptr /\ rx_offset % 4 = 0
             /\ at[Len(arriving)] = card.addr
             /\ \A i \in 1 .. Len(arriving) :
                  Word(at[i - 1] + 2) = Len(arriving[i].data) + 4

\* No frame is left in the ring: each one is taken, or a restart discards it.
FramesTaken == (arriving # <<>>) ~> (taken # L!NoFrame \/ arriving = <<>>)
=============================================================================
