---------------------------- MODULE Rtl8139Proofs -----------------------------
(***************************************************************************)
(* Rtl8139, for every size of the receive ring, number of transmit slots,  *)
(* frame and packet: driver and card agree on the ring (InStep), and       *)
(* together they implement Link.                                           *)
(*                                                                         *)
(* The invariant says where the frames that have arrived lie.  The i-th    *)
(* one begins d[i-1] bytes behind the driver's offset, a frame and its     *)
(* header take Width bytes, and all of them together are smaller than the  *)
(* ring; so what the card writes behind them never reaches them            *)
(* (PlaceKeeps), whatever wraps.  The transmit slots from turn on hold     *)
(* what was accepted, in order, and the other slots are free.              *)
(***************************************************************************)
EXTENDS Rtl8139, SequenceTheorems, NumberLemmas, TLAPS

Width(f) == Align(Len(f.data) + 8)
Text(f) == Header(f) \o f.data

\* The frames q follow each other: where each one begins and ends.
Offsets(d, q) ==
    /\ d \in [0 .. Len(q) -> Nat] /\ d[0] = 0
    /\ \A i \in 1 .. Len(q) : d[i] = d[i - 1] + Width(q[i])
    /\ \A i, j \in 0 .. Len(q) : i <= j => d[i] <= d[j]

\* A frame lies in a ring, x bytes behind offset o.
Stored(ring, o, x, f) ==
    \A j \in 0 .. Len(f.data) + 3 : ring[(o + x + j) % RX_SIZE] = Text(f)[j + 1]

Busy(ring, o, x, f) ==
    /\ x + Width(f) < RX_SIZE
    /\ ring[(o + x + 2) % RX_SIZE] = 240 /\ ring[(o + x + 3) % RX_SIZE] = 255

Layout(d, q, ring, o, addr, dma) ==
    /\ Offsets(d, q)
    /\ d[Len(q)] < RX_SIZE /\ addr = (o + d[Len(q)]) % RX_SIZE
    /\ \A i \in 1 .. Len(q) : Stored(ring, o, d[i - 1], q[i])
    /\ dma # L!NoFrame => Busy(ring, o, d[Len(q)], dma)

RingInv ==
    up => /\ rx_offset = card.ptr /\ rx_offset % 4 = 0
          /\ \E d : Layout(d, arriving, rx_ring, rx_offset, card.addr, card.dma)

\* The i-th slot from slot t on, and a slot that holds what is to leave.
Turn(t, i) == (t + i) % TX_SLOTS
Holds(size, buffer, p) ==
    size = Len(L!Padded(p)) /\ \A k \in 1 .. size : buffer[k] = L!Padded(p)[k]

Queued(q, t, sizes, buffers, free) ==
    /\ Len(q) <= TX_SLOTS /\ free = Turn(t, Len(q))
    /\ \A i \in 1 .. Len(q) : Holds(sizes[Turn(t, i - 1)], buffers[Turn(t, i - 1)], q[i])
    /\ \A i \in Len(q) .. TX_SLOTS - 1 : sizes[Turn(t, i)] = 0

SlotsInv == up => Queued(leaving, turn, tx_size, tx_buffers, tx_slot)

CardType == [on : BOOLEAN, ptr : Cells, addr : Cells, over : BOOLEAN,
             dma : Frames \cup {L!NoFrame}]
Types ==
    /\ up \in BOOLEAN /\ rx_offset \in Cells /\ left \in Int
    /\ rx_ring \in [Cells -> Byte]
    /\ card \in CardType
    /\ tx_slot \in TxSlots /\ turn \in TxSlots
    /\ tx_size \in [TxSlots -> 0 .. NET_FRAME_MAX]
    /\ tx_buffers \in [TxSlots -> [1 .. NET_FRAME_MAX -> Byte]]
    /\ arriving \in Seq(Frames) /\ leaving \in Seq(Packets)
    /\ card.on <=> up
    /\ left # Idle => up

Inv == Types /\ RingInv /\ SlotsInv
-----------------------------------------------------------------------------
(* Alignment to multiples of four.                                         *)

LEMMA AlignBounds ==
    ASSUME NEW n \in Nat
    PROVE  Align(n) \in Nat /\ n <= Align(n) /\ Align(n) <= n + 3 /\ Align(n) % 4 = 0
  BY DEF Align

LEMMA AlignPlus ==
    ASSUME NEW o \in Nat, NEW n \in Nat, o % 4 = 0
    PROVE  Align(o + n) = o + Align(n)
  BY DEF Align

\* A ring of whole words keeps offsets aligned.
LEMMA AlignedMod ==
    ASSUME NEW R \in Nat \ {0}, NEW a \in Int, R % 4 = 0, a % 4 = 0
    PROVE  (a % R) % 4 = 0
  <1>1. PICK q \in Int : a = R * q + (a % R)
    BY ModParts
  <1>2. PICK p \in Int : R = 4 * p
    OBVIOUS
  <1>3. PICK t \in Int : a = 4 * t
    OBVIOUS
  <1> DEFINE r == a % R
  <1>4. r \in Int /\ a = R * q + r
    BY <1>1, ModRange
  <1> HIDE DEF r
  <1>5. r = 4 * (t - p * q) /\ t - p * q \in Int
    BY <1>2, <1>3, <1>4
  <1>6. r % 4 = 0
    BY <1>5
  <1> QED BY <1>6 DEF r

\* What the driver writes into CAPR is the offset the card reads.
LEMMA CaprExact ==
    ASSUME NEW o \in Cells
    PROVE  (Capr(o) + 16) % RX_SIZE = o
  BY RingAssumption DEF Cells, Capr
-----------------------------------------------------------------------------
(* The ring.                                                               *)

LEMMA Ring == RX_SIZE \in Nat \ {0} /\ RX_SIZE <= 65536
  BY RingAssumption

\* Frames, their headers and what they take.
LEMMA FrameFacts ==
    ASSUME NEW f \in Frames
    PROVE  /\ f.data \in Seq(Byte) /\ f.ok \in BOOLEAN
           /\ Len(f.data) \in Nat \ {0} /\ Len(f.data) + 12 < RX_SIZE
           /\ f = [data |-> f.data, ok |-> f.ok]
           /\ f # L!NoFrame
  <1>1. f \in [data : Seq(Byte), ok : BOOLEAN] /\ f.data # <<>> /\ Len(f.data) + 12 < RX_SIZE
    BY RingAssumption
  <1>2. f.data \in Seq(Byte) /\ f.ok \in BOOLEAN /\ f = [data |-> f.data, ok |-> f.ok]
    BY <1>1
  <1>3. Len(f.data) \in Nat \ {0}
    BY <1>1, <1>2, EmptySeq, LenProperties
  <1>4. f # L!NoFrame
    BY <1>1 DEF L!NoFrame
  <1> QED BY <1>1, <1>2, <1>3, <1>4

LEMMA WidthFacts ==
    ASSUME NEW f \in Frames
    PROVE  /\ Width(f) \in Nat /\ Len(f.data) + 8 <= Width(f) /\ Width(f) < RX_SIZE
           /\ Width(f) % 4 = 0
  <1>1. Len(f.data) + 8 \in Nat /\ Len(f.data) \in Nat /\ Len(f.data) + 12 < RX_SIZE
    BY FrameFacts
  <1> DEFINE n == Len(f.data) + 8
  <1>2. n \in Nat /\ n + 4 < RX_SIZE
    BY <1>1
  <1> HIDE DEF n
  <1>3. Align(n) \in Nat /\ n <= Align(n) /\ Align(n) <= n + 3 /\ Align(n) % 4 = 0
    BY <1>2, AlignBounds
  <1>4. Align(n) < RX_SIZE
    BY <1>2, <1>3, Ring
  <1> QED BY <1>3, <1>4 DEF n, Width

LEMMA ByteRange ==
    ASSUME NEW n \in Nat, n < 256
    PROVE  n \in Byte
  <1>1. 256 = 255 + 1
    OBVIOUS
  <1> DEFINE B == 255
  <1>2. B \in Int /\ n <= B /\ Byte = 0 .. B
    BY <1>1, RingAssumption
  <1> HIDE DEF B
  <1> QED BY <1>2

\* The two bytes of a 16-bit word.
LEMMA TwoBytes ==
    ASSUME NEW n \in Nat, n < 65536
    PROVE  /\ Bytes(n) \in Seq(Byte) /\ Len(Bytes(n)) = 2
           /\ Bytes(n)[1] + 256 * Bytes(n)[2] = n
           /\ n < 256 => Bytes(n)[1] = n /\ Bytes(n)[2] = 0
  <1> DEFINE a == n % 256
             b == n \div 256
  <1>1. a \in Nat /\ b \in Nat /\ a < 256 /\ b < 256
    OBVIOUS
  <1>3. a + 256 * b = n
    OBVIOUS
  <1> HIDE DEF a, b
  <1>2. a \in Byte /\ b \in Byte
    BY <1>1, ByteRange
  <1>6. n < 256 => a = n /\ b = 0
    BY <1>1, <1>3
  <1>4. <<a, b>> \in Seq(Byte) /\ Len(<<a, b>>) = 2 /\ <<a, b>>[1] = a /\ <<a, b>>[2] = b
    BY <1>2
  <1>5. Bytes(n) = <<a, b>>
    BY DEF Bytes, a, b
  <1> QED BY <1>3, <1>4, <1>5, <1>6

\* A sequence of two parts.
Joins(u, s, t) ==
    /\ u \in Seq(Byte) /\ Len(u) = Len(s) + Len(t)
    /\ Len(s) \in Nat /\ Len(t) \in Nat
    /\ \A i \in 1 .. Len(s) : u[i] = s[i]
    /\ \A i \in 1 .. Len(t) : u[Len(s) + i] = t[i]
LEMMA Parts ==
    \A s, t \in Seq(Byte) : Joins(s \o t, s, t)
  BY DEF Joins

LEMMA TextFacts ==
    ASSUME NEW f \in Frames
    PROVE  /\ Header(f) \in Seq(Byte) /\ Len(Header(f)) = 4
           /\ Text(f) \in Seq(Byte) /\ Len(Text(f)) = Len(f.data) + 4
           /\ Text(f)[1] = (IF f.ok THEN 1 ELSE 2) /\ Text(f)[2] = 0
           /\ Text(f)[3] + 256 * Text(f)[4] = Len(f.data) + 4
           /\ \A i \in 1 .. Len(f.data) : Text(f)[4 + i] = f.data[i]
  <1> DEFINE m == IF f.ok THEN 1 ELSE 2
             n == Len(f.data) + 4
             s == Bytes(m)
             t == Bytes(n)
             h == s \o t
             d == f.data
  <1>1. d \in Seq(Byte) /\ n = Len(d) + 4 /\ n \in Nat /\ n < 65536 /\ Len(d) \in Nat
    BY FrameFacts, Ring
  <1>2. m \in Nat /\ m < 256 /\ m < 65536
    OBVIOUS
  <1>3. Header(f) = h /\ Text(f) = h \o d
    BY DEF Header, Text
  <1> HIDE DEF m, n
  <1>4. s \in Seq(Byte) /\ Len(s) = 2 /\ s[1] = m /\ s[2] = 0
    BY <1>2, TwoBytes
  <1>5. t \in Seq(Byte) /\ Len(t) = 2 /\ t[1] + 256 * t[2] = n
    BY <1>1, TwoBytes
  <1> DEFINE u == h \o d
  <1>6. h = s \o t /\ u = h \o d
    OBVIOUS
  <1> HIDE DEF s, t, d, h, u
  <1>16. Joins(h, s, t)
    BY <1>4, <1>5, <1>6, Parts, Zenon
  <1>7. h \in Seq(Byte) /\ Len(h) = 4
    BY <1>4, <1>5, <1>16 DEF Joins
  <1>8. h[1] = s[1] /\ h[2] = s[2]
    BY <1>4, <1>16 DEF Joins
  <1>9. h[3] = t[1] /\ h[4] = t[2]
    <2>1. h[Len(s) + 1] = t[1] /\ h[Len(s) + 2] = t[2]
      BY <1>5, <1>16 DEF Joins
    <2> QED BY <1>4, <2>1
  <1>10. Joins(u, h, d)
    <2>1. h \in Seq(Byte) /\ d \in Seq(Byte) /\ u = h \o d
      BY <1>1, <1>6, <1>7
    <2> QED BY <2>1, Parts, Zenon
  <1>11. u[1] = h[1] /\ u[2] = h[2] /\ u[3] = h[3] /\ u[4] = h[4]
    BY <1>7, <1>10 DEF Joins
  <1>12. u[1] = m /\ u[2] = 0 /\ u[3] + 256 * u[4] = n
    BY <1>4, <1>5, <1>8, <1>9, <1>11
  <1>13. Len(u) = Len(d) + 4 /\ \A i \in 1 .. Len(d) : u[4 + i] = d[i]
    BY <1>1, <1>7, <1>10 DEF Joins
  <1>14. Header(f) = h /\ Text(f) = u
    BY <1>3 DEF u
  <1>15. /\ Text(f)[1] = m /\ Text(f)[2] = 0 /\ Text(f)[3] + 256 * Text(f)[4] = Len(f.data) + 4
    BY <1>1, <1>12, <1>14 DEF d
  <1> QED BY <1>7, <1>10, <1>13, <1>14, <1>15 DEF m, d, Joins

\* Bytes the card writes lie where it puts them, and change nothing in front of
\* them as long as they end within the ring.
LEMMA PlacePuts ==
    \A o \in Cells, x \in 0 .. RX_SIZE - 1, bytes \in Seq(Byte) :
        \A j \in 0 .. Len(bytes) - 1 : Len(bytes) <= RX_SIZE =>
            Place((o + x) % RX_SIZE, bytes)[(o + x + j) % RX_SIZE] = bytes[j + 1]
  <1> SUFFICES
        ASSUME NEW o \in Cells, NEW x \in 0 .. RX_SIZE - 1, NEW bytes \in Seq(Byte),
               Len(bytes) <= RX_SIZE, NEW j \in 0 .. Len(bytes) - 1
        PROVE  Place((o + x) % RX_SIZE, bytes)[(o + x + j) % RX_SIZE] = bytes[j + 1]
    OBVIOUS
  <1> DEFINE X == o + x + j
             Y == o + x
             k == X % RX_SIZE
             at == Y % RX_SIZE
  <1>1. X \in Int /\ Y \in Int /\ X - Y = j /\ j \in 0 .. RX_SIZE - 1
    BY Ring, LenProperties DEF Cells
  <1>2. j < Len(bytes) /\ j \in Int
    BY LenProperties
  <1> HIDE DEF X, Y
  <1>0. RX_SIZE \in Nat \ {0}
    BY Ring
  <1>3. k \in Cells
    <2>1. k \in 0 .. RX_SIZE - 1
      BY <1>0, <1>1, ModRange
    <2> QED BY <2>1 DEF Cells
  <1>4. (k - at) % RX_SIZE = (X - Y) % RX_SIZE
    BY <1>0, <1>1, ModMinus
  <1>5. j % RX_SIZE = j
    BY <1>0, <1>1, <1>2, ModSmall
  <1>6. (k - at) % RX_SIZE = j
    BY <1>1, <1>4, <1>5
  <1> HIDE DEF k, at
  <1>7. Place(at, bytes)[k] = bytes[j + 1]
    BY <1>2, <1>3, <1>6 DEF Place
  <1> QED BY <1>7 DEF k, at, X, Y

LEMMA PlaceKeeps ==
    ASSUME NEW o \in Cells, NEW x \in 0 .. RX_SIZE - 1, NEW bytes \in Seq(Byte),
           x + Len(bytes) <= RX_SIZE, NEW y \in 0 .. x - 1
    PROVE  Place((o + x) % RX_SIZE, bytes)[(o + y) % RX_SIZE] = rx_ring[(o + y) % RX_SIZE]
  <1> DEFINE X == o + y
             Y == o + x
             z == y - x
             k == X % RX_SIZE
             at == Y % RX_SIZE
  <1>1. /\ X \in Int /\ Y \in Int /\ X - Y = z /\ z \in -RX_SIZE .. -1 /\ z \in Int
        /\ Len(bytes) \in Nat /\ z + RX_SIZE >= Len(bytes)
    BY Ring, LenProperties DEF Cells
  <1> HIDE DEF X, Y, z
  <1>0. RX_SIZE \in Nat \ {0}
    BY Ring
  <1>2. k \in Cells
    <2>1. k \in 0 .. RX_SIZE - 1
      BY <1>0, <1>1, ModRange
    <2> QED BY <2>1 DEF Cells
  <1>3. (k - at) % RX_SIZE = (X - Y) % RX_SIZE
    BY <1>0, <1>1, ModMinus
  <1>4. z % RX_SIZE = z + RX_SIZE
    BY <1>0, <1>1, ModSmall
  <1>5. (k - at) % RX_SIZE = z + RX_SIZE
    BY <1>1, <1>3, <1>4
  <1> HIDE DEF k, at
  <1>6. ~ ((k - at) % RX_SIZE < Len(bytes))
    BY <1>1, <1>5, Ring
  <1>7. Place(at, bytes)[k] = rx_ring[k]
    BY <1>2, <1>6 DEF Place
  <1> QED BY <1>7 DEF k, at, X, Y

LEMMA PlaceType ==
    ASSUME rx_ring \in [Cells -> Byte], NEW at \in Cells, NEW bytes \in Seq(Byte)
    PROVE  Place(at, bytes) \in [Cells -> Byte]
  <1>1. ASSUME NEW k \in Cells, (k - at) % RX_SIZE < Len(bytes)
        PROVE  bytes[((k - at) % RX_SIZE) + 1] \in Byte
    <2>1. (k - at) \in Int
      BY Ring DEF Cells
    <2>2. (k - at) % RX_SIZE \in Nat
      BY <2>1, Ring, ModRange
    <2>3. ((k - at) % RX_SIZE) + 1 \in 1 .. Len(bytes)
      BY <1>1, <2>2, LenProperties
    <2> QED BY <2>3, ElementOfSeq
  <1> QED BY <1>1 DEF Place

\* A frame stays where it is when the card writes behind it.
LEMMA StoredKept ==
    \A o \in Cells, x \in Nat, f \in Frames, y \in 0 .. RX_SIZE - 1, bytes \in Seq(Byte) :
        x + Width(f) <= y /\ y + Len(bytes) <= RX_SIZE /\ Stored(rx_ring, o, x, f) =>
            Stored(Place((o + y) % RX_SIZE, bytes), o, x, f)
  <1> SUFFICES
        ASSUME NEW o \in Cells, NEW x \in Nat, NEW f \in Frames, NEW y \in 0 .. RX_SIZE - 1,
               NEW bytes \in Seq(Byte), x + Width(f) <= y, y + Len(bytes) <= RX_SIZE,
               Stored(rx_ring, o, x, f)
        PROVE  Stored(Place((o + y) % RX_SIZE, bytes), o, x, f)
    OBVIOUS
  <1> SUFFICES ASSUME NEW j \in 0 .. Len(f.data) + 3
               PROVE  Place((o + y) % RX_SIZE, bytes)[(o + x + j) % RX_SIZE] = Text(f)[j + 1]
    BY DEF Stored
  <1>1. Len(f.data) \in Nat /\ Width(f) \in Nat /\ Len(f.data) + 8 <= Width(f)
    BY FrameFacts, WidthFacts
  <1> DEFINE z == x + j
  <1>2. z \in 0 .. y - 1 /\ o + x + j = o + z
    BY <1>1, Ring DEF Cells
  <1> HIDE DEF z
  <1>3. Place((o + y) % RX_SIZE, bytes)[(o + z) % RX_SIZE] = rx_ring[(o + z) % RX_SIZE]
    BY <1>2, PlaceKeeps
  <1>4. rx_ring[(o + x + j) % RX_SIZE] = Text(f)[j + 1]
    BY DEF Stored
  <1> QED BY <1>2, <1>3, <1>4

\* Where frame i of those in the ring begins and ends.
LEMMA OffsetFacts ==
    ASSUME NEW q \in Seq(Frames), NEW d, Offsets(d, q)
    PROVE  /\ Len(q) \in Nat /\ d[Len(q)] \in Nat
           /\ \A i \in 1 .. Len(q) :
                /\ q[i] \in Frames /\ d[i - 1] \in Nat /\ d[i] \in Nat
                /\ d[i] = d[i - 1] + Width(q[i]) /\ d[i] <= d[Len(q)]
  <1>1. Len(q) \in Nat
    BY LenProperties
  <1>2. \A i \in 0 .. Len(q) : d[i] \in Nat /\ d[i] <= d[Len(q)]
    BY <1>1 DEF Offsets
  <1>3. ASSUME NEW i \in 1 .. Len(q)
        PROVE  q[i] \in Frames /\ i - 1 \in 0 .. Len(q) /\ i \in 0 .. Len(q)
    BY <1>1, ElementOfSeq
  <1> QED BY <1>1, <1>2, <1>3 DEF Offsets

LEMMA AllKept ==
    ASSUME NEW q \in Seq(Frames), NEW d, NEW o \in Cells, Offsets(d, q),
           \A i \in 1 .. Len(q) : Stored(rx_ring, o, d[i - 1], q[i]),
           NEW x \in 0 .. RX_SIZE - 1, x = d[Len(q)],
           NEW bytes \in Seq(Byte), x + Len(bytes) <= RX_SIZE
    PROVE  \A i \in 1 .. Len(q) : Stored(Place((o + x) % RX_SIZE, bytes), o, d[i - 1], q[i])
  <1> TAKE i \in 1 .. Len(q)
  <1>1. q[i] \in Frames /\ d[i - 1] \in Nat /\ d[i - 1] + Width(q[i]) <= x
    BY OffsetFacts
  <1>2. Stored(rx_ring, o, d[i - 1], q[i])
    OBVIOUS
  <1> QED BY <1>1, <1>2, StoredKept

\* The header of a frame that is still being written.
Mark == <<0, 0>> \o Bytes(DMA)
LEMMA MarkFacts == Mark \in Seq(Byte) /\ Len(Mark) = 4 /\ Mark[3] = 240 /\ Mark[4] = 255
  <1> DEFINE s == <<0, 0>>
             t == Bytes(DMA)
  <1>1. t \in Seq(Byte) /\ Len(t) = 2
    BY TwoBytes DEF DMA
  <1>2. t[1] = 240 /\ t[2] = 255
    BY DEF Bytes, DMA
  <1>3. s \in Seq(Byte) /\ Len(s) = 2
    <2>1. 0 \in Byte
      BY ByteRange
    <2> QED BY <2>1
  <1>4. Mark = s \o t
    BY DEF Mark
  <1> HIDE DEF s, t
  <1>5. Joins(Mark, s, t)
    BY <1>1, <1>3, <1>4, Parts
  <1>6. Mark \in Seq(Byte) /\ Len(Mark) = 4 /\ Mark[2 + 1] = t[1] /\ Mark[2 + 2] = t[2]
    BY <1>1, <1>3, <1>5 DEF Joins
  <1> QED BY <1>2, <1>6

\* The card begins to write a frame.
LEMMA LayoutBegins ==
    ASSUME NEW q \in Seq(Frames), NEW d, NEW o \in Cells, NEW addr, NEW f \in Frames,
           Layout(d, q, rx_ring, o, addr, L!NoFrame),
           NEW x \in 0 .. RX_SIZE - 1, x = d[Len(q)], x + Width(f) < RX_SIZE
    PROVE  Layout(d, q, Place(addr, Mark), o, addr, f)
  <1>1. /\ Offsets(d, q) /\ addr = (o + x) % RX_SIZE
        /\ \A i \in 1 .. Len(q) : Stored(rx_ring, o, d[i - 1], q[i])
    BY DEF Layout
  <1>2. Mark \in Seq(Byte) /\ Len(Mark) = 4
    BY MarkFacts
  <1>3. Width(f) \in Nat /\ Width(f) >= 8
    BY WidthFacts, FrameFacts
  <1>4. x + Len(Mark) <= RX_SIZE /\ Len(Mark) <= RX_SIZE
    BY <1>2, <1>3, Ring
  <1> DEFINE ring == Place((o + x) % RX_SIZE, Mark)
  <1>5. \A i \in 1 .. Len(q) : Stored(ring, o, d[i - 1], q[i])
    BY <1>1, <1>2, <1>4, AllKept
  <1>6. ring[(o + x + 2) % RX_SIZE] = 240 /\ ring[(o + x + 3) % RX_SIZE] = 255
    <2>1. 2 \in 0 .. Len(Mark) - 1 /\ 3 \in 0 .. Len(Mark) - 1
      BY <1>2
    <2>2. ring[(o + x + 2) % RX_SIZE] = Mark[2 + 1]
      BY <1>2, <1>4, <2>1, PlacePuts
    <2>3. ring[(o + x + 3) % RX_SIZE] = Mark[3 + 1]
      BY <1>2, <1>4, <2>1, PlacePuts
    <2> QED BY <2>2, <2>3, MarkFacts
  <1>7. Place(addr, Mark) = ring
    BY <1>1
  <1> HIDE DEF ring
  <1>8. Busy(ring, o, x, f)
    BY <1>6 DEF Busy
  <1>9. Layout(d, q, ring, o, addr, f)
    BY <1>1, <1>5, <1>8, Ring DEF Layout
  <1> QED BY <1>7, <1>9

\* A frame as the card writes it, with four bytes for the checksum.
Whole(f) == Header(f) \o f.data \o <<9, 9, 9, 9>>
LEMMA WholeFacts ==
    ASSUME NEW f \in Frames
    PROVE  /\ Whole(f) \in Seq(Byte) /\ Len(Whole(f)) = Len(f.data) + 8
           /\ \A j \in 0 .. Len(f.data) + 3 : Whole(f)[j + 1] = Text(f)[j + 1]
  <1> DEFINE s == Text(f)
             t == <<9, 9, 9, 9>>
  <1>1. s \in Seq(Byte) /\ Len(s) = Len(f.data) + 4 /\ Len(f.data) \in Nat
    BY TextFacts, FrameFacts
  <1>2. t \in Seq(Byte) /\ Len(t) = 4
    <2>1. 9 \in Byte
      BY ByteRange
    <2> QED BY <2>1
  <1>3. Whole(f) = s \o t
    BY DEF Whole, Text
  <1> HIDE DEF s, t
  <1>4. Joins(Whole(f), s, t)
    BY <1>1, <1>2, <1>3, Parts
  <1>5. /\ Whole(f) \in Seq(Byte) /\ Len(Whole(f)) = Len(f.data) + 8
        /\ \A j \in 0 .. Len(f.data) + 3 : Whole(f)[j + 1] = s[j + 1]
    BY <1>1, <1>2, <1>4, SMTT(60) DEF Joins
  <1> QED BY <1>5 DEF s

\* The card has written a frame.
LEMMA LayoutReceives ==
    ASSUME NEW q \in Seq(Frames), NEW d, NEW o \in Cells, NEW addr, NEW f \in Frames,
           Layout(d, q, rx_ring, o, addr, f)
    PROVE  \E e : Layout(e, Append(q, f), Place(addr, Whole(f)), o,
                        (addr + Width(f)) % RX_SIZE, L!NoFrame)
  <1>1. /\ Offsets(d, q) /\ d[Len(q)] < RX_SIZE /\ addr = (o + d[Len(q)]) % RX_SIZE
        /\ \A i \in 1 .. Len(q) : Stored(rx_ring, o, d[i - 1], q[i])
        /\ Busy(rx_ring, o, d[Len(q)], f)
    BY FrameFacts DEF Layout
  <1>2. Len(q) \in Nat /\ d[Len(q)] \in Nat
    BY <1>1, OffsetFacts
  <1>3. Width(f) \in Nat /\ Len(f.data) \in Nat /\ Len(f.data) + 8 <= Width(f)
    BY WidthFacts, FrameFacts
  <1>4. PICK x \in 0 .. RX_SIZE - 1 : x = d[Len(q)]
    BY <1>1, <1>2, Ring
  <1>5. x \in Nat /\ x + Width(f) < RX_SIZE /\ addr = (o + x) % RX_SIZE
    BY <1>1, <1>2, <1>4 DEF Busy
  <1>6. Whole(f) \in Seq(Byte) /\ Len(Whole(f)) = Len(f.data) + 8
    BY WholeFacts
  <1>7. x + Len(Whole(f)) <= RX_SIZE /\ Len(Whole(f)) <= RX_SIZE
    BY <1>3, <1>5, <1>6, Ring
  <1> DEFINE p == Append(q, f)
             n == Len(q)
             e == [i \in 0 .. n + 1 |-> IF i = n + 1 THEN x + Width(f) ELSE d[i]]
             ring == Place((o + x) % RX_SIZE, Whole(f))
  <1>8. \A i \in 1 .. n : Stored(ring, o, d[i - 1], q[i])
    BY <1>1, <1>4, <1>6, <1>7, AllKept
  <1>9. Stored(ring, o, x, f)
    <2> SUFFICES ASSUME NEW j \in 0 .. Len(f.data) + 3
                 PROVE  ring[(o + x + j) % RX_SIZE] = Text(f)[j + 1]
      BY DEF Stored
    <2>1. j \in 0 .. Len(Whole(f)) - 1
      BY <1>3, <1>6
    <2>2. ring[(o + x + j) % RX_SIZE] = Whole(f)[j + 1]
      BY <1>6, <1>7, <2>1, PlacePuts
    <2>3. Whole(f)[j + 1] = Text(f)[j + 1]
      BY WholeFacts
    <2> QED BY <2>2, <2>3
  <1>10. /\ p \in Seq(Frames) /\ Len(p) = n + 1 /\ p[n + 1] = f
         /\ \A i \in 1 .. n : p[i] = q[i]
    BY <1>2, AppendProperties
  <1>11. Place(addr, Whole(f)) = ring
    BY <1>5
  <1> HIDE DEF p, ring
  <1>12. /\ e[n] = x /\ e[n + 1] = x + Width(f) /\ \A i \in 0 .. n : e[i] = d[i]
    BY <1>2, <1>4
  <1>13. Offsets(e, p)
    <2>1. d \in [0 .. n -> Nat] /\ d[0] = 0
      BY <1>1 DEF Offsets
    <2>2. e \in [0 .. n + 1 -> Nat] /\ e[0] = 0
      BY <1>2, <1>3, <1>5, <2>1
    <2> HIDE DEF e
    <2>3. ASSUME NEW i \in 1 .. n + 1 PROVE e[i] = e[i - 1] + Width(p[i])
      <3>1. CASE i = n + 1
        BY <1>2, <1>10, <1>12, <3>1
      <3>2. CASE i \in 1 .. n
        <4>1. d[i] = d[i - 1] + Width(q[i])
          BY <1>1, <3>2 DEF Offsets
        <4>2. e[i] = d[i] /\ e[i - 1] = d[i - 1] /\ p[i] = q[i]
          BY <1>2, <1>10, <1>12, <3>2
        <4> QED BY <4>1, <4>2
      <3> QED BY <1>2, <3>1, <3>2
    <2>4. ASSUME NEW i \in 0 .. n + 1, NEW j \in 0 .. n + 1, i <= j PROVE e[i] <= e[j]
      <3>1. \A k \in 0 .. n : e[k] = d[k] /\ d[k] \in Nat /\ d[k] <= x
        BY <1>1, <1>2, <1>4, <1>12, OffsetFacts DEF Offsets
      <3>2. CASE j = n + 1
        <4>1. CASE i = n + 1
          BY <1>3, <1>5, <1>12, <3>2, <4>1
        <4>2. CASE i \in 0 .. n
          BY <1>3, <1>5, <1>12, <3>1, <3>2, <4>2
        <4> QED BY <1>2, <4>1, <4>2
      <3>3. CASE j \in 0 .. n
        <4>1. i \in 0 .. n /\ d[i] <= d[j]
          BY <1>1, <1>2, <2>4, <3>3 DEF Offsets
        <4> QED BY <3>1, <3>3, <4>1
      <3> QED BY <1>2, <3>2, <3>3
    <2> QED BY <1>10, <2>2, <2>3, <2>4 DEF Offsets
  <1> HIDE DEF e
  <1>14. ASSUME NEW i \in 1 .. n + 1 PROVE Stored(ring, o, e[i - 1], p[i])
    <2>1. CASE i = n + 1
      <3>1. e[i - 1] = x /\ p[i] = f
        BY <1>2, <1>10, <1>12, <2>1
      <3> QED BY <1>9, <3>1
    <2>2. CASE i \in 1 .. n
      <3>1. e[i - 1] = d[i - 1] /\ p[i] = q[i]
        BY <1>2, <1>10, <1>12, <2>2
      <3> QED BY <1>8, <2>2, <3>1
    <2> QED BY <1>2, <2>1, <2>2
  <1>15. (addr + Width(f)) % RX_SIZE = (o + e[n + 1]) % RX_SIZE /\ e[n + 1] < RX_SIZE
    <2>1. o \in Int /\ x \in Int /\ RX_SIZE \in Nat \ {0}
      BY Ring DEF Cells
    <2>2. PICK a \in Int : a = o + x
      BY <2>1
    <2>3. PICK w \in Int : w = Width(f)
      BY <1>3
    <2>4. a + w = o + e[n + 1]
      BY <1>12, <2>1, <2>2, <2>3
    <2>5. ((a % RX_SIZE) + w) % RX_SIZE = (a + w) % RX_SIZE
      BY <2>1, ModPlus
    <2>6. addr = a % RX_SIZE
      BY <1>5, <2>2
    <2> QED BY <1>5, <1>12, <2>3, <2>4, <2>5, <2>6
  <1>16. Layout(e, p, ring, o, (addr + Width(f)) % RX_SIZE, L!NoFrame)
    BY <1>10, <1>13, <1>14, <1>15 DEF Layout
  <1> QED BY <1>11, <1>16 DEF p

\* Byte k of a frame that begins at cell a.
LEMMA CellPlus ==
    ASSUME NEW o \in Cells, NEW x \in Nat, NEW a, a = (o + x) % RX_SIZE, NEW k \in Nat
    PROVE  a \in Cells /\ (a + k) % RX_SIZE = (o + x + k) % RX_SIZE
  <1>1. o \in Int /\ RX_SIZE \in Nat \ {0}
    BY Ring DEF Cells
  <1>2. PICK b \in Int : b = o + x
    BY <1>1
  <1>3. b % RX_SIZE \in 0 .. RX_SIZE - 1
    BY <1>1, ModRange
  <1>4. ((b % RX_SIZE) + k) % RX_SIZE = (b + k) % RX_SIZE
    <2>1. PICK m \in Int : m = k
      OBVIOUS
    <2>2. ((b % RX_SIZE) + m) % RX_SIZE = (b + m) % RX_SIZE
      BY <1>1, ModPlus
    <2> QED BY <2>1, <2>2
  <1>5. a = b % RX_SIZE
    BY <1>2
  <1>6. b + k = o + x + k
    BY <1>1, <1>2
  <1>7. a \in Cells
    BY <1>3, <1>5 DEF Cells
  <1> QED BY <1>4, <1>5, <1>6, <1>7

\* What the driver finds where a frame lies: its header and its bytes.
LEMMA StoredRead ==
    ASSUME NEW o \in Cells, NEW x \in Nat, NEW f \in Frames, Stored(rx_ring, o, x, f),
           NEW a, a = (o + x) % RX_SIZE
    PROVE  /\ Word(a) = (IF f.ok THEN 1 ELSE 2)
           /\ Word(a + 2) = Len(f.data) + 4
           /\ \A i \in 1 .. Len(f.data) : rx_ring[(a + 3 + i) % RX_SIZE] = f.data[i]
  <1>1. Len(f.data) \in Nat \ {0}
    BY FrameFacts
  <1>2. ASSUME NEW k \in 0 .. Len(f.data) + 3
        PROVE  rx_ring[(a + k) % RX_SIZE] = Text(f)[k + 1]
    <2>1. k \in Nat
      OBVIOUS
    <2>2. (a + k) % RX_SIZE = (o + x + k) % RX_SIZE
      BY <2>1, CellPlus
    <2>3. rx_ring[(o + x + k) % RX_SIZE] = Text(f)[k + 1]
      BY DEF Stored
    <2> QED BY <2>2, <2>3
  <1>3. a \in Int
    <2>1. a \in Cells
      BY CellPlus
    <2> QED BY <2>1, Ring DEF Cells
  <1>4. /\ rx_ring[(a + 0) % RX_SIZE] = Text(f)[0 + 1] /\ rx_ring[(a + 1) % RX_SIZE] = Text(f)[1 + 1]
        /\ rx_ring[(a + 2) % RX_SIZE] = Text(f)[2 + 1] /\ rx_ring[(a + 3) % RX_SIZE] = Text(f)[3 + 1]
    <2>1. /\ 0 \in 0 .. Len(f.data) + 3 /\ 1 \in 0 .. Len(f.data) + 3
          /\ 2 \in 0 .. Len(f.data) + 3 /\ 3 \in 0 .. Len(f.data) + 3
      BY <1>1
    <2> QED BY <1>2, <2>1
  <1>5. a + 0 = a /\ a + 2 + 1 = a + 3
    BY <1>3
  <1>6. Word(a) = Text(f)[1] + 256 * Text(f)[2] /\ Word(a + 2) = Text(f)[3] + 256 * Text(f)[4]
    BY <1>4, <1>5 DEF Word
  <1>7. Word(a) = (IF f.ok THEN 1 ELSE 2) /\ Word(a + 2) = Len(f.data) + 4
    BY <1>6, TextFacts
  <1>8. ASSUME NEW i \in 1 .. Len(f.data) PROVE rx_ring[(a + 3 + i) % RX_SIZE] = f.data[i]
    <2>1. PICK k \in 0 .. Len(f.data) + 3 : k = 3 + i
      BY <1>1
    <2>2. a + 3 + i = a + k /\ k + 1 = 4 + i
      BY <1>3, <2>1
    <2>3. Text(f)[4 + i] = f.data[i]
      BY TextFacts
    <2> QED BY <1>2, <2>2, <2>3
  <1> QED BY <1>7, <1>8

\* The driver takes the first frame: the others keep their places.
LEMMA LayoutTakes ==
    ASSUME NEW q \in Seq(Frames), q # <<>>, NEW d, NEW o \in Cells, NEW addr, NEW dma,
           NEW ring, Layout(d, q, ring, o, addr, dma), dma \in Frames \cup {L!NoFrame},
           NEW o2, o2 = (o + Width(q[1])) % RX_SIZE
    PROVE  \E e : Layout(e, Tail(q), ring, o2, addr, dma)
  <1>1. /\ Offsets(d, q) /\ d[Len(q)] < RX_SIZE /\ addr = (o + d[Len(q)]) % RX_SIZE
        /\ \A i \in 1 .. Len(q) : Stored(ring, o, d[i - 1], q[i])
        /\ dma # L!NoFrame => Busy(ring, o, d[Len(q)], dma)
    BY DEF Layout
  <1>2. PICK n \in Nat : Len(q) = n + 1
    BY EmptySeq, LenProperties
  <1> DEFINE p == Tail(q)
             e == [i \in 0 .. n |-> d[i + 1] - d[1]]
  <1>3. p \in Seq(Frames) /\ Len(p) = n /\ \A i \in 1 .. n : p[i] = q[i + 1]
    BY <1>2, HeadTailProperties
  <1>4. PICK w \in Nat : w = Width(q[1]) /\ w = d[1]
    <2>1. 1 \in 1 .. Len(q)
      BY <1>2
    <2>2. q[1] \in Frames /\ d[1] = d[1 - 1] + Width(q[1])
      BY <1>1, <2>1, OffsetFacts
    <2>3. Width(q[1]) \in Nat
      BY <2>2, WidthFacts
    <2>4. d[0] = 0
      BY <1>1 DEF Offsets
    <2> QED BY <2>2, <2>3, <2>4
  <1>5. ASSUME NEW i \in 0 .. n
        PROVE  d[i + 1] \in Nat /\ w <= d[i + 1] /\ e[i] \in Nat /\ d[i + 1] = w + e[i]
    <2>1. i + 1 \in 0 .. Len(q) /\ 1 \in 0 .. Len(q) /\ 1 <= i + 1
      BY <1>2
    <2>2. d[i + 1] \in Nat /\ w <= d[i + 1]
      BY <1>1, <1>4, <2>1 DEF Offsets
    <2>3. e[i] = d[i + 1] - w
      BY <1>4
    <2> QED BY <2>2, <2>3
  <1>6. e \in [0 .. n -> Nat]
    BY <1>5
  <1> HIDE DEF e, p
  <1>7. Offsets(e, p)
    <2>1. e[0] = 0
      BY <1>4, <1>5
    <2>2. ASSUME NEW i \in 1 .. n PROVE e[i] = e[i - 1] + Width(p[i])
      <3>1. i + 1 \in 1 .. Len(q) /\ i \in 0 .. n /\ i - 1 \in 0 .. n
        BY <1>2
      <3>2. d[i + 1] = d[(i + 1) - 1] + Width(q[i + 1]) /\ q[i + 1] \in Frames
        BY <1>1, <3>1, OffsetFacts
      <3>3. Width(q[i + 1]) \in Nat
        BY <3>2, WidthFacts
      <3>4. d[i + 1] = w + e[i] /\ e[i] \in Nat
        BY <1>5, <3>1
      <3>5. d[(i - 1) + 1] = w + e[i - 1] /\ e[i - 1] \in Nat
        BY <1>5, <3>1
      <3>6. (i - 1) + 1 = (i + 1) - 1 /\ p[i] = q[i + 1]
        BY <1>3
      <3>7. PICK x \in Nat, y \in Nat, v \in Nat : x = e[i] /\ y = e[i - 1] /\ v = Width(q[i + 1])
        BY <3>3, <3>4, <3>5
      <3>8. w + x = (w + y) + v
        BY <3>2, <3>4, <3>5, <3>6, <3>7
      <3>9. x = y + v
        BY <3>8
      <3> QED BY <3>6, <3>7, <3>9
    <2>3. ASSUME NEW i \in 0 .. n, NEW j \in 0 .. n, i <= j PROVE e[i] <= e[j]
      <3>1. i + 1 \in 0 .. Len(q) /\ j + 1 \in 0 .. Len(q) /\ i + 1 <= j + 1
        BY <1>2, <2>3
      <3>2. d[i + 1] <= d[j + 1]
        BY <1>1, <3>1 DEF Offsets
      <3> QED BY <1>5, <3>2
    <2> QED BY <1>3, <1>6, <2>1, <2>2, <2>3 DEF Offsets
  <1>8. ASSUME NEW y \in Nat, NEW z \in Nat, z = w + y
        PROVE  (o2 + y) % RX_SIZE = (o + z) % RX_SIZE
    <2>1. (o2 + y) % RX_SIZE = (o + w + y) % RX_SIZE
      BY <1>4, CellPlus
    <2>2. o + w + y = o + z
      BY <1>8, Ring DEF Cells
    <2> QED BY <2>1, <2>2
  <1>9. d[Len(q)] = w + e[n] /\ e[n] \in Nat /\ d[Len(q)] \in Nat
    BY <1>2, <1>5
  <1>10. addr = (o2 + e[n]) % RX_SIZE /\ e[n] < RX_SIZE
    <2>1. PICK y \in Nat, z \in Nat : y = e[n] /\ z = d[Len(q)] /\ z = w + y
      BY <1>9
    <2>2. (o2 + y) % RX_SIZE = (o + z) % RX_SIZE
      BY <1>8, <2>1
    <2>3. z < RX_SIZE
      BY <1>1, <2>1
    <2>4. y < RX_SIZE
      BY <2>1, <2>3, Ring
    <2> QED BY <1>1, <2>1, <2>2, <2>4
  <1>11. ASSUME NEW i \in 1 .. n PROVE Stored(ring, o2, e[i - 1], p[i])
    <2>1. i + 1 \in 1 .. Len(q) /\ i - 1 \in 0 .. n /\ (i - 1) + 1 = i /\ (i + 1) - 1 = i
      BY <1>2
    <2>2. Stored(ring, o, d[i], q[i + 1]) /\ q[i + 1] \in Frames /\ p[i] = q[i + 1]
      BY <1>1, <1>3, <2>1, OffsetFacts
    <2>3. d[i] = w + e[i - 1] /\ e[i - 1] \in Nat /\ d[i] \in Nat
      BY <1>5, <2>1
    <2>4. PICK y \in Nat, z \in Nat : y = e[i - 1] /\ z = d[i] /\ z = w + y
      BY <2>3
    <2>5. PICK f \in Frames : f = q[i + 1]
      BY <2>2
    <2>6. ASSUME NEW j \in 0 .. Len(f.data) + 3
          PROVE  ring[(o2 + y + j) % RX_SIZE] = Text(f)[j + 1]
      <3>1. ring[(o + z + j) % RX_SIZE] = Text(f)[j + 1]
        BY <2>2, <2>4, <2>5 DEF Stored
      <3>2. PICK yj \in Nat, zj \in Nat : yj = y + j /\ zj = z + j /\ zj = w + yj
        <4>1. j \in Nat
          BY FrameFacts
        <4>2. y + j \in Nat /\ z + j \in Nat /\ z + j = w + (y + j)
          <5>1. z = w + y
            BY <2>4
          <5>2. PICK k \in Nat : k = j
            BY <4>1
          <5>3. y + k \in Nat /\ z + k \in Nat /\ z + k = w + (y + k)
            BY <5>1
          <5> QED BY <5>2, <5>3
        <4> QED BY <4>2
      <3>3. (o2 + yj) % RX_SIZE = (o + zj) % RX_SIZE
        BY <1>8, <3>2
      <3>4. o2 + y + j = o2 + yj /\ o + z + j = o + zj
        <4>1. o \in Int /\ o2 \in Cells
          BY <1>4, CellPlus, Ring DEF Cells
        <4>2. o2 \in Int
          BY <4>1, Ring DEF Cells
        <4> QED BY <3>2, <4>1, <4>2
      <3> QED BY <3>1, <3>3, <3>4
    <2> QED BY <2>2, <2>4, <2>5, <2>6 DEF Stored
  <1>12. dma # L!NoFrame => Busy(ring, o2, e[n], dma)
    <2> SUFFICES ASSUME dma # L!NoFrame PROVE Busy(ring, o2, e[n], dma)
      OBVIOUS
    <2>1. PICK y \in Nat, z \in Nat : y = e[n] /\ z = d[Len(q)] /\ z = w + y
      BY <1>9
    <2>2. Busy(ring, o, z, dma) /\ Width(dma) \in Nat
      BY <1>1, <2>1, WidthFacts
    <2>3. z + Width(dma) < RX_SIZE
      BY <2>2 DEF Busy
    <2>4. y + Width(dma) < RX_SIZE
      BY <2>1, <2>2, <2>3, Ring, SMTT(60)
    <2>5. ASSUME NEW k \in Nat PROVE (o2 + y + k) % RX_SIZE = (o + z + k) % RX_SIZE
      <3>1. PICK yk \in Nat, zk \in Nat : yk = y + k /\ zk = z + k /\ zk = w + yk
        <4>1. z = w + y
          BY <2>1
        <4>2. y + k \in Nat /\ z + k \in Nat
          OBVIOUS
        <4>3. z + k = w + (y + k)
          BY <4>1
        <4> QED BY <4>2, <4>3
      <3>2. (o2 + yk) % RX_SIZE = (o + zk) % RX_SIZE
        BY <1>8, <3>1
      <3>3. o2 + y + k = o2 + yk /\ o + z + k = o + zk
        <4>1. o \in Int /\ o2 \in Cells
          BY <1>4, CellPlus, Ring DEF Cells
        <4>2. o2 \in Int
          BY <4>1, Ring DEF Cells
        <4> QED BY <3>1, <4>1, <4>2
      <3> QED BY <3>2, <3>3
    <2>6. (o2 + y + 2) % RX_SIZE = (o + z + 2) % RX_SIZE /\ (o2 + y + 3) % RX_SIZE = (o + z + 3) % RX_SIZE
      BY <2>5
    <2>7. ring[(o + z + 2) % RX_SIZE] = 240 /\ ring[(o + z + 3) % RX_SIZE] = 255
      BY <2>2 DEF Busy
    <2>8. ring[(o2 + y + 2) % RX_SIZE] = 240 /\ ring[(o2 + y + 3) % RX_SIZE] = 255
      BY <2>6, <2>7
    <2>9. Busy(ring, o2, y, dma)
      BY <2>4, <2>8 DEF Busy
    <2> QED BY <2>1, <2>9
  <1>13. Layout(e, p, ring, o2, addr, dma)
    BY <1>3, <1>7, <1>10, <1>11, <1>12 DEF Layout
  <1> QED BY <1>13 DEF p
-----------------------------------------------------------------------------
(* The transmit slots.                                                     *)

LEMMA Slots == TX_SLOTS \in Nat \ {0}
  BY RingAssumption

\* Going round the slots.
LEMMA TurnFacts ==
    ASSUME NEW t \in TxSlots
    PROVE  /\ \A i \in Nat : Turn(t, i) \in TxSlots
           /\ Turn(t, 0) = t /\ Turn(t, TX_SLOTS) = t
           /\ \A i \in Nat : Turn(Turn(t, i), 1) = Turn(t, i + 1)
           /\ \A i \in Nat : Turn(Turn(t, 1), i) = Turn(t, i + 1)
           /\ \A i, j \in 0 .. TX_SLOTS - 1 : Turn(t, i) = Turn(t, j) => i = j
  <1>1. t \in 0 .. TX_SLOTS - 1 /\ t \in Int /\ TX_SLOTS \in Nat \ {0}
    BY Slots DEF TxSlots
  <1>2. ASSUME NEW i \in Nat PROVE Turn(t, i) \in TxSlots
    <2>1. t + i \in Int
      BY <1>1
    <2> QED BY <1>1, <2>1, ModRange DEF Turn, TxSlots
  <1>3. Turn(t, 0) = t
    <2>1. t + 0 = t /\ t % TX_SLOTS = t
      BY <1>1, ModSmall
    <2> QED BY <2>1 DEF Turn
  <1>4. Turn(t, TX_SLOTS) = t
    <2>1. PICK a \in Int : a = t + TX_SLOTS
      BY <1>1
    <2>2. a = TX_SLOTS * 1 + t
      BY <1>1, <2>1
    <2>3. a % TX_SLOTS = t
      BY <1>1, <2>2, ModUnique
    <2> QED BY <2>1, <2>3 DEF Turn
  <1>5. ASSUME NEW a \in Nat, NEW b \in Nat PROVE Turn(Turn(t, a), b) = Turn(t, a + b)
    <2>1. PICK x \in Int : x = t + a
      BY <1>1
    <2>2. PICK y \in Int : y = b
      OBVIOUS
    <2>3. ((x % TX_SLOTS) + y) % TX_SLOTS = (x + y) % TX_SLOTS
      BY <1>1, ModPlus
    <2>4. x + y = t + (a + b)
      BY <1>1, <2>1, <2>2
    <2> QED BY <2>1, <2>2, <2>3, <2>4 DEF Turn
  <1>6. ASSUME NEW i \in Nat PROVE Turn(Turn(t, i), 1) = Turn(t, i + 1)
    BY <1>5
  <1>7. ASSUME NEW i \in Nat PROVE Turn(Turn(t, 1), i) = Turn(t, i + 1)
    <2>1. Turn(Turn(t, 1), i) = Turn(t, 1 + i) /\ 1 + i = i + 1
      BY <1>5
    <2> QED BY <2>1
  <1>8. ASSUME NEW i \in 0 .. TX_SLOTS - 1, NEW j \in 0 .. TX_SLOTS - 1, Turn(t, i) = Turn(t, j)
        PROVE  i = j
    <2>1. PICK x \in Int, y \in Int : x = t + i /\ y = t + j
      BY <1>1
    <2>2. x % TX_SLOTS = y % TX_SLOTS
      BY <1>8, <2>1 DEF Turn
    <2>3. PICK p \in Int : x = TX_SLOTS * p + (x % TX_SLOTS)
      BY <1>1, ModParts
    <2>4. PICK q \in Int : y = TX_SLOTS * q + (y % TX_SLOTS)
      BY <1>1, ModParts
    <2>5. PICK r \in Int : r = x % TX_SLOTS
      BY <1>1, ModRange
    <2>6. x = TX_SLOTS * p + r /\ y = TX_SLOTS * q + r
      BY <2>2, <2>3, <2>4, <2>5
    <2>7. x - y = TX_SLOTS * (p - q) /\ x - y < TX_SLOTS /\ x - y > -TX_SLOTS
      BY <1>1, <2>1, <2>6
    <2>8. p - q = 0
      <3>1. CASE p - q >= 1
        <4>1. TX_SLOTS * (p - q) >= TX_SLOTS
          BY <1>1, <3>1
        <4> QED BY <1>1, <2>7, <4>1
      <3>2. CASE p - q <= -1
        <4>1. TX_SLOTS * (p - q) <= -TX_SLOTS
          BY <1>1, <3>2
        <4> QED BY <1>1, <2>7, <4>1
      <3> QED BY <3>1, <3>2
    <2>9. x = y
      BY <2>6, <2>8
    <2> QED BY <1>1, <2>1, <2>9
  <1> QED BY <1>2, <1>3, <1>4, <1>6, <1>7, <1>8

\* A packet as it leaves.
LEMMA PaddedFacts ==
    ASSUME NEW p \in Packets
    PROVE  /\ L!Padded(p) \in Seq(Byte) /\ p \in Seq(Byte) /\ Len(p) \in Nat
           /\ Len(L!Padded(p)) = (IF Len(p) < MIN_WIRE THEN MIN_WIRE ELSE Len(p))
           /\ Len(L!Padded(p)) \in Nat \ {0}
           /\ \A k \in 1 .. Len(L!Padded(p)) :
                L!Padded(p)[k] = IF k <= Len(p) THEN p[k] ELSE 0
  <1>1. p \in Seq(Byte) /\ Len(p) \in Nat /\ MIN_WIRE \in Nat \ {0}
    BY RingAssumption, LenProperties
  <1>2. PICK m \in Nat : m = IF Len(p) < MIN_WIRE THEN MIN_WIRE - Len(p) ELSE 0
    <2>1. (IF Len(p) < MIN_WIRE THEN MIN_WIRE - Len(p) ELSE 0) \in Nat
      BY <1>1
    <2> QED BY <2>1
  <1> DEFINE z == [k \in 1 .. m |-> 0]
  <1>3. L!Padded(p) = p \o z
    BY <1>2 DEF L!Padded
  <1>4. z \in Seq(Byte) /\ Len(z) = m /\ \A k \in 1 .. m : z[k] = 0
    <2>1. 0 \in Byte
      BY ByteRange
    <2> QED BY <2>1
  <1> HIDE DEF z
  <1>5. Joins(L!Padded(p), p, z)
    BY <1>1, <1>3, <1>4, Parts
  <1>6. Len(L!Padded(p)) = Len(p) + m /\ L!Padded(p) \in Seq(Byte)
    BY <1>4, <1>5 DEF Joins
  <1>7. ASSUME NEW k \in 1 .. Len(L!Padded(p))
        PROVE  L!Padded(p)[k] = IF k <= Len(p) THEN p[k] ELSE 0
    <2>1. CASE k <= Len(p)
      <3>1. k \in 1 .. Len(p)
        BY <1>1, <1>6, <2>1
      <3> QED BY <1>5, <2>1, <3>1 DEF Joins
    <2>2. CASE ~ (k <= Len(p))
      <3>1. PICK i \in 1 .. m : k = Len(p) + i
        BY <1>1, <1>6, <2>2
      <3>2. L!Padded(p)[Len(p) + i] = z[i]
        BY <1>4, <1>5 DEF Joins
      <3> QED BY <1>4, <2>2, <3>1, <3>2
    <2> QED BY <2>1, <2>2
  <1> QED BY <1>1, <1>2, <1>6, <1>7

\* A packet is put into the free slot, which is the one behind the last.
LEMMA QueuedSend ==
    ASSUME NEW q \in Seq(Packets), NEW t \in TxSlots, NEW free \in TxSlots,
           NEW sizes \in [TxSlots -> 0 .. NET_FRAME_MAX],
           NEW buffers \in [TxSlots -> [1 .. NET_FRAME_MAX -> Byte]],
           Queued(q, t, sizes, buffers, free), sizes[free] = 0,
           NEW p \in Packets, Len(p) <= NET_FRAME_MAX,
           NEW sizes2, sizes2 = [sizes EXCEPT ![free] = IF Len(p) < MIN_WIRE THEN MIN_WIRE ELSE Len(p)],
           NEW buffers2, buffers2 = [buffers EXCEPT ![free] = Filled(buffers[free], p)]
    PROVE  Queued(Append(q, p), t, sizes2, buffers2, Turn(free, 1))
  <1>1. /\ Len(q) <= TX_SLOTS /\ free = Turn(t, Len(q))
        /\ \A i \in 1 .. Len(q) : Holds(sizes[Turn(t, i - 1)], buffers[Turn(t, i - 1)], q[i])
        /\ \A i \in Len(q) .. TX_SLOTS - 1 : sizes[Turn(t, i)] = 0
    BY DEF Queued
  <1>2. PICK n \in Nat : n = Len(q)
    BY LenProperties
  <1>3. n < TX_SLOTS
    <2> SUFFICES ASSUME n = TX_SLOTS PROVE FALSE
      BY <1>1, <1>2, Slots
    <2>1. free = t /\ 1 \in 1 .. Len(q)
      BY <1>1, <1>2, Slots, TurnFacts
    <2>2. q[1] \in Packets
      BY <2>1, ElementOfSeq
    <2>3. Turn(t, 1 - 1) = t
      BY TurnFacts
    <2>4. Holds(sizes[t], buffers[t], q[1])
      BY <1>1, <2>1, <2>3
    <2>5. sizes[t] = Len(L!Padded(q[1]))
      BY <2>4 DEF Holds
    <2> QED BY <2>1, <2>2, <2>5, PaddedFacts
  <1>4. ASSUME NEW i \in 0 .. TX_SLOTS - 1, i # n
        PROVE  /\ Turn(t, i) \in TxSlots /\ sizes2[Turn(t, i)] = sizes[Turn(t, i)]
               /\ buffers2[Turn(t, i)] = buffers[Turn(t, i)]
    <2>1. n \in 0 .. TX_SLOTS - 1 /\ i \in Nat
      BY <1>3, Slots
    <2>2. Turn(t, i) # free /\ Turn(t, i) \in TxSlots
      BY <1>1, <1>2, <1>4, <2>1, TurnFacts
    <2> QED BY <2>2
  <1>5. Holds(sizes2[free], buffers2[free], p)
    <2>1. sizes2[free] = Len(L!Padded(p)) /\ buffers2[free] = Filled(buffers[free], p)
      BY PaddedFacts
    <2>2. /\ Len(p) \in Nat /\ NET_FRAME_MAX \in Nat /\ MIN_WIRE \in Nat
          /\ MIN_WIRE <= NET_FRAME_MAX
      BY PaddedFacts, RingAssumption
    <2>3. ASSUME NEW k \in 1 .. Len(L!Padded(p))
          PROVE  Filled(buffers[free], p)[k] = L!Padded(p)[k]
      <3>1. Len(L!Padded(p)) = (IF Len(p) < MIN_WIRE THEN MIN_WIRE ELSE Len(p))
        BY PaddedFacts
      <3>2. k \in 1 .. NET_FRAME_MAX /\ (k <= Len(p) \/ k <= MIN_WIRE)
        BY <2>2, <3>1
      <3>3. Filled(buffers[free], p)[k] = IF k <= Len(p) THEN p[k] ELSE 0
        BY <3>2 DEF Filled
      <3> QED BY <3>3, PaddedFacts
    <2> QED BY <2>1, <2>3 DEF Holds
  <1> DEFINE a == Append(q, p)
  <1>6. /\ Len(a) = n + 1 /\ a[n + 1] = p
        /\ \A i \in 1 .. n : a[i] = q[i]
    BY <1>2, AppendProperties
  <1> HIDE DEF a
  <1>7. Len(a) <= TX_SLOTS /\ Turn(free, 1) = Turn(t, Len(a))
    <2>1. Len(a) <= TX_SLOTS
      BY <1>3, <1>6, Slots
    <2>2. Turn(Turn(t, n), 1) = Turn(t, n + 1)
      BY TurnFacts
    <2> QED BY <1>1, <1>2, <1>6, <2>1, <2>2
  <1>8. ASSUME NEW i \in 1 .. Len(a)
        PROVE  Holds(sizes2[Turn(t, i - 1)], buffers2[Turn(t, i - 1)], a[i])
    <2>1. CASE i = n + 1
      <3>1. Turn(t, i - 1) = free /\ a[i] = p
        BY <1>1, <1>2, <1>6, <2>1
      <3> QED BY <1>5, <3>1
    <2>2. CASE i \in 1 .. n
      <3>1. i - 1 \in 0 .. TX_SLOTS - 1 /\ i - 1 # n
        BY <1>3, <2>2, Slots
      <3>2. PICK j \in 0 .. TX_SLOTS - 1 : j = i - 1 /\ j # n
        BY <3>1
      <3>3. sizes2[Turn(t, j)] = sizes[Turn(t, j)] /\ buffers2[Turn(t, j)] = buffers[Turn(t, j)]
        BY <1>4, <3>2
      <3>4. Holds(sizes[Turn(t, j)], buffers[Turn(t, j)], a[i])
        BY <1>1, <1>2, <1>6, <2>2, <3>2
      <3> QED BY <3>2, <3>3, <3>4
    <2> QED BY <1>6, <2>1, <2>2
  <1>9. ASSUME NEW i \in Len(a) .. TX_SLOTS - 1 PROVE sizes2[Turn(t, i)] = 0
    <2>1. i \in 0 .. TX_SLOTS - 1 /\ i # n /\ i \in Len(q) .. TX_SLOTS - 1
      BY <1>2, <1>6, Slots
    <2> QED BY <1>1, <1>4, <2>1
  <1>10. Queued(a, t, sizes2, buffers2, Turn(free, 1))
    BY <1>7, <1>8, <1>9 DEF Queued
  <1> QED BY <1>10 DEF a

\* The first packet leaves.
LEMMA QueuedLeave ==
    ASSUME NEW q \in Seq(Packets), NEW t \in TxSlots, NEW free \in TxSlots,
           NEW sizes \in [TxSlots -> 0 .. NET_FRAME_MAX], NEW buffers,
           Queued(q, t, sizes, buffers, free), sizes[t] # 0,
           NEW sizes2, sizes2 = [sizes EXCEPT ![t] = 0]
    PROVE  /\ q # <<>> /\ Holds(sizes[t], buffers[t], Head(q))
           /\ Queued(Tail(q), Turn(t, 1), sizes2, buffers, free)
  <1>1. /\ Len(q) <= TX_SLOTS /\ free = Turn(t, Len(q))
        /\ \A i \in 1 .. Len(q) : Holds(sizes[Turn(t, i - 1)], buffers[Turn(t, i - 1)], q[i])
        /\ \A i \in Len(q) .. TX_SLOTS - 1 : sizes[Turn(t, i)] = 0
    BY DEF Queued
  <1>2. q # <<>>
    <2> SUFFICES ASSUME q = <<>> PROVE FALSE
      OBVIOUS
    <2>1. 0 \in Len(q) .. TX_SLOTS - 1
      BY Slots
    <2>2. sizes[Turn(t, 0)] = 0 /\ Turn(t, 0) = t
      BY <1>1, <2>1, TurnFacts
    <2> QED BY <2>2
  <1>3. PICK m \in Nat : Len(q) = m + 1
    BY <1>2, EmptySeq, LenProperties
  <1>4. Holds(sizes[t], buffers[t], Head(q))
    <2>1. 1 \in 1 .. Len(q) /\ Turn(t, 1 - 1) = t
      BY <1>3, TurnFacts
    <2>2. Holds(sizes[t], buffers[t], q[1])
      BY <1>1, <2>1
    <2> QED BY <1>2, <2>2, HeadTailProperties
  <1> DEFINE a == Tail(q)
             u == Turn(t, 1)
  <1>5. Len(a) = m /\ \A i \in 1 .. m : a[i] = q[i + 1]
    BY <1>2, <1>3, HeadTailProperties
  <1>6. \A i \in Nat : Turn(u, i) = Turn(t, i + 1)
    BY TurnFacts
  <1> HIDE DEF a, u
  <1>7. ASSUME NEW i \in 1 .. TX_SLOTS - 1
        PROVE  Turn(t, i) \in TxSlots /\ sizes2[Turn(t, i)] = sizes[Turn(t, i)]
    <2>1. i \in 0 .. TX_SLOTS - 1 /\ 0 \in 0 .. TX_SLOTS - 1 /\ i # 0 /\ i \in Nat
      BY Slots
    <2>2. Turn(t, 0) = t /\ Turn(t, i) # Turn(t, 0) /\ Turn(t, i) \in TxSlots
      BY <2>1, TurnFacts
    <2> QED BY <2>2
  <1>8. Len(a) <= TX_SLOTS /\ free = Turn(u, Len(a))
    BY <1>1, <1>3, <1>5, <1>6, Slots
  <1>9. ASSUME NEW i \in 1 .. Len(a)
        PROVE  Holds(sizes2[Turn(u, i - 1)], buffers[Turn(u, i - 1)], a[i])
    <2>1. i + 1 \in 1 .. Len(q) /\ i \in 1 .. TX_SLOTS - 1 /\ i - 1 \in Nat /\ i \in 1 .. m
      BY <1>1, <1>3, <1>5, Slots
    <2>2. Turn(u, i - 1) = Turn(t, i)
      <3>1. Turn(u, i - 1) = Turn(t, (i - 1) + 1) /\ (i - 1) + 1 = i
        BY <1>6, <2>1
      <3> QED BY <3>1
    <2>3. Holds(sizes[Turn(t, i)], buffers[Turn(t, i)], q[i + 1])
      <3>1. Holds(sizes[Turn(t, (i + 1) - 1)], buffers[Turn(t, (i + 1) - 1)], q[i + 1])
        BY <1>1, <2>1
      <3>2. (i + 1) - 1 = i
        OBVIOUS
      <3> QED BY <3>1, <3>2
    <2> QED BY <1>5, <1>7, <2>1, <2>2, <2>3
  <1>10. ASSUME NEW i \in Len(a) .. TX_SLOTS - 1 PROVE sizes2[Turn(u, i)] = 0
    <2>1. i \in Nat /\ Turn(u, i) = Turn(t, i + 1)
      BY <1>5, <1>6
    <2>2. CASE i = TX_SLOTS - 1
      <3>1. Turn(u, i) = t
        BY <2>1, <2>2, Slots, TurnFacts
      <3> QED BY <3>1
    <2>3. CASE i < TX_SLOTS - 1
      <3>1. i + 1 \in Len(q) .. TX_SLOTS - 1 /\ i + 1 \in 1 .. TX_SLOTS - 1
        BY <1>3, <1>5, <2>1, <2>3, Slots
      <3> QED BY <1>1, <1>7, <2>1, <3>1
    <2> QED BY <2>1, <2>2, <2>3, Slots
  <1>11. Queued(a, u, sizes2, buffers, free)
    BY <1>8, <1>9, <1>10 DEF Queued
  <1> QED BY <1>2, <1>4, <1>11 DEF a, u
-----------------------------------------------------------------------------
(* The steps of card and driver.                                           *)

LEMMA CardFields ==
    ASSUME Types
    PROVE  /\ card.on \in BOOLEAN /\ card.ptr \in Cells /\ card.addr \in Cells
           /\ card.over \in BOOLEAN /\ card.dma \in Frames \cup {L!NoFrame}
           /\ card.on <=> up
  BY DEF Types, CardType

\* Nothing of the ring or of the slots changes.
LEMMA RingSame ==
    ASSUME RingInv, UNCHANGED <<up, rx_offset, rx_ring, arriving>>,
           card'.ptr = card.ptr, card'.addr = card.addr, card'.dma = card.dma
    PROVE  RingInv'
  BY DEF RingInv

LEMMA SlotsSame ==
    ASSUME SlotsInv, UNCHANGED <<up, tx_slot, transmitter, leaving>>
    PROVE  SlotsInv'
  BY DEF SlotsInv, transmitter

LEMMA InitInv == Init => Inv
  <1> SUFFICES ASSUME Init PROVE Inv
    OBVIOUS
  <1>1. 0 \in Cells /\ 0 \in Byte /\ 0 \in TxSlots /\ 0 \in 0 .. NET_FRAME_MAX
    BY Ring, Slots, ByteRange, RingAssumption DEF Cells, TxSlots
  <1>2. card = [on |-> FALSE, ptr |-> 0, addr |-> 0, over |-> FALSE, dma |-> L!NoFrame]
    BY DEF Init, FreshCard
  <1>3. Types
    <2>1. card \in CardType /\ card.on = FALSE
      BY <1>1, <1>2 DEF CardType
    <2>2. rx_ring \in [Cells -> Byte] /\ tx_size \in [TxSlots -> 0 .. NET_FRAME_MAX]
      BY <1>1 DEF Init
    <2>3. tx_buffers \in [TxSlots -> [1 .. NET_FRAME_MAX -> Byte]]
      BY <1>1 DEF Init
    <2>4. up \in BOOLEAN /\ rx_offset \in Cells /\ tx_slot \in TxSlots /\ turn \in TxSlots
      BY <1>1 DEF Init
    <2>5. left \in Int /\ left = Idle /\ ~ up
      BY DEF Init, Idle
    <2>6. arriving \in Seq(Frames) /\ leaving \in Seq(Packets)
      BY DEF Init, L!Init
    <2> QED BY <2>1, <2>2, <2>3, <2>4, <2>5, <2>6 DEF Types
  <1> QED BY <1>3 DEF Inv, RingInv, SlotsInv, Init

\* The interface starts, or stops.
LEMMA StartedInv ==
    ASSUME Types, Started PROVE Inv'
  <1>1. 0 \in Cells /\ 0 \in TxSlots /\ 0 \in 0 .. NET_FRAME_MAX /\ 0 \in Nat
    BY Ring, Slots, RingAssumption DEF Cells, TxSlots
  <1>2. card' = [on |-> TRUE, ptr |-> 0, addr |-> 0, over |-> FALSE, dma |-> L!NoFrame]
    BY DEF Started, FreshCard
  <1>3. /\ up' = TRUE /\ tx_slot' = 0 /\ rx_offset' = 0 /\ left' = Idle /\ turn' = 0
        /\ tx_size' = [s \in TxSlots |-> 0] /\ arriving' = <<>> /\ leaving' = <<>>
        /\ rx_ring' = rx_ring /\ tx_buffers' = tx_buffers
    BY DEF Started, Reset, L!Restart
  <1>4. Types'
    <2>1. card' \in CardType /\ card'.on = TRUE
      BY <1>1, <1>2 DEF CardType
    <2> QED BY <1>1, <1>3, <2>1 DEF Types, Idle
  <1>5. RingInv'
    <2> DEFINE d == [i \in 0 .. 0 |-> 0]
    <2>1. Offsets(d, <<>>)
      BY DEF Offsets
    <2>2. d[Len(<<>>)] < RX_SIZE /\ 0 = (0 + d[Len(<<>>)]) % RX_SIZE
      BY Ring, ModSmall
    <2>3. Layout(d, <<>>, rx_ring, 0, 0, L!NoFrame)
      BY <2>1, <2>2 DEF Layout
    <2> HIDE DEF d
    <2>4. 0 % 4 = 0
      OBVIOUS
    <2> QED BY <1>2, <1>3, <2>3, <2>4 DEF RingInv
  <1>6. SlotsInv'
    <2>1. 0 <= TX_SLOTS /\ 0 = Turn(0, 0)
      BY <1>1, Slots, TurnFacts
    <2>2. \A i \in 0 .. TX_SLOTS - 1 : tx_size'[Turn(0, i)] = 0
      BY <1>1, <1>3, Slots, TurnFacts
    <2>3. Queued(<<>>, 0, tx_size', tx_buffers', 0)
      BY <2>1, <2>2 DEF Queued
    <2> QED BY <1>3, <2>3 DEF SlotsInv
  <1> QED BY <1>4, <1>5, <1>6 DEF Inv

LEMMA StoppedInv ==
    ASSUME Types, Stopped PROVE Inv'
  <1>1. /\ up' = FALSE /\ left' = Idle /\ arriving' = <<>> /\ leaving' = <<>>
        /\ UNCHANGED <<rx_offset, tx_slot, rx_ring, transmitter>>
    BY DEF Stopped, L!Restart
  <1>2. card' = [on |-> FALSE, ptr |-> card.ptr, addr |-> card.addr, over |-> card.over,
                 dma |-> L!NoFrame]
    BY DEF Stopped, Types, CardType
  <1>3. Types'
    <2>1. card' \in CardType /\ card'.on = FALSE
      BY <1>2, CardFields DEF CardType
    <2>2. left' \in Int /\ left' = Idle
      BY <1>1 DEF Idle
    <2>4. ~ up' /\ up' \in BOOLEAN
      BY <1>1
    <2>3. arriving' \in Seq(Frames) /\ leaving' \in Seq(Packets)
      BY <1>1
    <2> QED BY <1>1, <2>1, <2>2, <2>3, <2>4 DEF Types, transmitter
  <1> QED BY <1>1, <1>3 DEF Inv, RingInv, SlotsInv

\* A frame that does not fit.
LEMMA MissesInv ==
    ASSUME Inv, NEW f \in Frames, CardMisses(f) PROVE Inv'
  <1>1. /\ UNCHANGED <<driver, rx_ring, transmitter, arriving, leaving>>
        /\ card' = [on |-> card.on, ptr |-> card.ptr, addr |-> card.addr, over |-> TRUE,
                    dma |-> card.dma]
    BY DEF CardMisses, L!Rest, Inv, Types, CardType
  <1>2. Types'
    <2>1. card' \in CardType /\ card'.on = card.on
      BY <1>1, CardFields DEF CardType, Inv
    <2> QED BY <1>1, <2>1 DEF Inv, Types, driver, transmitter
  <1>3. RingInv' /\ SlotsInv'
    BY <1>1, RingSame, SlotsSame DEF Inv, driver
  <1> QED BY <1>2, <1>3 DEF Inv

\* There is room for a frame exactly when it ends within the ring.
LEMMA Room ==
    ASSUME NEW f \in Frames, NEW o \in Cells, NEW x \in 0 .. RX_SIZE - 1,
           card.ptr = o, card.addr = (o + x) % RX_SIZE, RoomFor(f)
    PROVE  x + Width(f) < RX_SIZE
  <1>1. o \in 0 .. RX_SIZE - 1 /\ o \in Int /\ x \in Int /\ RX_SIZE \in Nat \ {0}
    BY Ring DEF Cells
  <1>2. PICK b \in Int : b = o + x
    BY <1>1
  <1>3. PICK z \in Int : z = o - b /\ z = -x
    BY <1>1, <1>2
  <1>4. o % RX_SIZE = o
    BY <1>1, ModSmall
  <1>5. ((o % RX_SIZE) - (b % RX_SIZE)) % RX_SIZE = (o - b) % RX_SIZE
    BY <1>1, ModMinus
  <1>6. (card.ptr - card.addr) % RX_SIZE = z % RX_SIZE
    BY <1>2, <1>3, <1>4, <1>5
  <1>7. Width(f) \in Nat /\ Width(f) < RX_SIZE
    BY WidthFacts
  <1>8. CASE x = 0
    BY <1>7, <1>8
  <1>9. CASE x # 0
    <2>1. z \in -RX_SIZE .. -1
      BY <1>1, <1>3, <1>9
    <2>2. z % RX_SIZE = z + RX_SIZE
      BY <1>1, <2>1, ModSmall
    <2>3. z + RX_SIZE # 0
      BY <1>1, <1>3
    <2>4. Width(f) < z + RX_SIZE
      BY <1>6, <2>2, <2>3 DEF RoomFor, Width
    <2> QED BY <1>1, <1>3, <1>7, <2>4
  <1> QED BY <1>8, <1>9

\* The offset behind the last frame.
LEMMA LastOffset ==
    ASSUME NEW q \in Seq(Frames), NEW d, NEW o, NEW addr, NEW dma, NEW ring,
           Layout(d, q, ring, o, addr, dma)
    PROVE  d[Len(q)] \in 0 .. RX_SIZE - 1 /\ addr = (o + d[Len(q)]) % RX_SIZE
  <1>1. Offsets(d, q) /\ d[Len(q)] < RX_SIZE /\ addr = (o + d[Len(q)]) % RX_SIZE
    BY DEF Layout
  <1>2. d[Len(q)] \in Nat
    BY <1>1, OffsetFacts
  <1> QED BY <1>1, <1>2, Ring

LEMMA BeginsInv ==
    ASSUME Inv, NEW f \in Frames, CardBegins(f) PROVE Inv'
  <1>1. /\ card.dma = L!NoFrame /\ RoomFor(f) /\ card.on /\ up
        /\ UNCHANGED <<driver, transmitter, arriving, leaving>>
        /\ card' = [on |-> card.on, ptr |-> card.ptr, addr |-> card.addr, over |-> card.over,
                    dma |-> f]
        /\ rx_ring' = Place(card.addr, Mark)
    BY DEF CardBegins, L!Rest, Inv, Types, CardType, Mark
  <1>2. Types'
    <2>1. card' \in CardType /\ card'.on = card.on
      BY <1>1, CardFields DEF CardType, Inv
    <2>2. rx_ring' \in [Cells -> Byte]
      BY <1>1, CardFields, MarkFacts, PlaceType DEF Inv, Types
    <2> QED BY <1>1, <2>1, <2>2 DEF Inv, Types, driver, transmitter
  <1>3. SlotsInv'
    BY <1>1, SlotsSame DEF Inv, driver
  <1>4. RingInv'
    <2>1. /\ rx_offset = card.ptr /\ rx_offset % 4 = 0
          /\ rx_offset \in Cells /\ arriving \in Seq(Frames)
      BY <1>1 DEF Inv, RingInv, Types
    <2>2. PICK d : Layout(d, arriving, rx_ring, rx_offset, card.addr, L!NoFrame)
      BY <1>1 DEF Inv, RingInv
    <2>3. PICK x \in 0 .. RX_SIZE - 1 : x = d[Len(arriving)] /\ card.addr = (rx_offset + x) % RX_SIZE
      BY <2>1, <2>2, LastOffset
    <2>4. x + Width(f) < RX_SIZE
      BY <1>1, <2>1, <2>3, Room
    <2>5. Layout(d, arriving, Place(card.addr, Mark), rx_offset, card.addr, f)
      BY <2>1, <2>2, <2>3, <2>4, LayoutBegins
    <2> QED BY <1>1, <2>1, <2>5 DEF RingInv, driver
  <1> QED BY <1>2, <1>3, <1>4 DEF Inv

LEMMA ReceivesInv ==
    ASSUME Inv, CardReceives PROVE Inv' /\ card.dma \in Frames
  <1>1. PICK f \in Frames : card.dma = f
    BY CardFields DEF CardReceives, Inv
  <1>2. /\ card.on /\ up /\ UNCHANGED <<driver, transmitter, leaving>>
        /\ arriving' = Append(arriving, f)
        /\ card' = [on |-> card.on, ptr |-> card.ptr, addr |-> (card.addr + Width(f)) % RX_SIZE,
                    over |-> card.over, dma |-> L!NoFrame]
        /\ rx_ring' = Place(card.addr, Whole(f))
    BY <1>1 DEF CardReceives, L!Arrive, Inv, Types, CardType, Whole, Width
  <1>3. /\ rx_offset \in Cells /\ arriving \in Seq(Frames) /\ card.addr \in Cells
        /\ rx_offset = card.ptr /\ rx_offset % 4 = 0
    BY <1>2, CardFields DEF Inv, RingInv, Types
  <1>4. Types'
    <2>1. (card.addr + Width(f)) % RX_SIZE \in Cells
      BY <1>3, WidthFacts, CellPlus
    <2>2. card' \in CardType /\ card'.on = card.on
      BY <1>2, <2>1, CardFields DEF CardType, Inv
    <2>3. rx_ring' \in [Cells -> Byte]
      BY <1>2, <1>3, WholeFacts, PlaceType DEF Inv, Types
    <2>4. arriving' \in Seq(Frames)
      BY <1>2, <1>3, AppendProperties
    <2> QED BY <1>2, <2>2, <2>3, <2>4 DEF Inv, Types, driver, transmitter
  <1>5. SlotsInv'
    BY <1>2, SlotsSame DEF Inv, driver
  <1>6. RingInv'
    <2>1. PICK d : Layout(d, arriving, rx_ring, rx_offset, card.addr, f)
      BY <1>1, <1>2 DEF Inv, RingInv
    <2>2. \E e : Layout(e, Append(arriving, f), Place(card.addr, Whole(f)), rx_offset,
                       (card.addr + Width(f)) % RX_SIZE, L!NoFrame)
      BY <1>3, <2>1, LayoutReceives
    <2> QED BY <1>2, <1>3, <2>2 DEF RingInv, driver
  <1> QED BY <1>1, <1>4, <1>5, <1>6 DEF Inv

\* A packet is put on the wire: the one that was accepted first, padded.
LEMMA SendsInv ==
    ASSUME Inv, CardSends
    PROVE  Inv' /\ leaving # <<>> /\ wire' = L!Padded(Head(leaving))
  <1>1. /\ up /\ tx_size[turn] # 0
        /\ wire' = SubSeq(tx_buffers[turn], 1, tx_size[turn])
        /\ tx_size' = [tx_size EXCEPT ![turn] = 0] /\ turn' = Turn(turn, 1)
        /\ leaving' = Tail(leaving)
        /\ UNCHANGED <<driver, receiver, tx_buffers, arriving>>
    BY CardFields DEF CardSends, Inv, Turn
  <1>2. /\ leaving \in Seq(Packets) /\ turn \in TxSlots /\ tx_slot \in TxSlots
        /\ tx_size \in [TxSlots -> 0 .. NET_FRAME_MAX]
        /\ tx_buffers \in [TxSlots -> [1 .. NET_FRAME_MAX -> Byte]]
    BY DEF Inv, Types
  <1>3. Queued(leaving, turn, tx_size, tx_buffers, tx_slot)
    BY <1>1 DEF Inv, SlotsInv
  <1>4. /\ leaving # <<>> /\ Holds(tx_size[turn], tx_buffers[turn], Head(leaving))
        /\ Queued(Tail(leaving), Turn(turn, 1), tx_size', tx_buffers, tx_slot)
    BY <1>1, <1>2, <1>3, QueuedLeave
  <1>5. wire' = L!Padded(Head(leaving))
    <2>1. PICK p \in Packets : p = Head(leaving)
      BY <1>2, <1>4, HeadTailProperties
    <2>2. PICK z \in Seq(Byte) : z = L!Padded(p)
      BY PaddedFacts
    <2>3. tx_size[turn] = Len(z) /\ \A k \in 1 .. Len(z) : tx_buffers[turn][k] = z[k]
      BY <1>4, <2>1, <2>2 DEF Holds
    <2>4. SubSeq(tx_buffers[turn], 1, Len(z)) = z
      <3>1. Len(z) \in Nat
        BY LenProperties
      <3>2. SubSeq(tx_buffers[turn], 1, Len(z)) = [k \in 1 .. Len(z) |-> tx_buffers[turn][k]]
        BY <3>1
      <3>3. z = [k \in 1 .. Len(z) |-> z[k]]
        BY LenProperties
      <3> QED BY <2>3, <3>2, <3>3
    <2> QED BY <1>1, <2>1, <2>2, <2>3, <2>4
  <1>6. Types'
    <2>1. tx_size' \in [TxSlots -> 0 .. NET_FRAME_MAX]
      BY <1>1, <1>2, RingAssumption
    <2>2. turn' \in TxSlots
      BY <1>1, <1>2, TurnFacts
    <2>3. leaving' \in Seq(Packets)
      BY <1>1, <1>2, <1>4, HeadTailProperties
    <2> QED BY <1>1, <2>1, <2>2, <2>3 DEF Inv, Types, driver, receiver
  <1>7. RingInv'
    BY <1>1, RingSame DEF Inv, driver, receiver
  <1>8. SlotsInv'
    BY <1>1, <1>4 DEF SlotsInv, driver
  <1> QED BY <1>4, <1>5, <1>6, <1>7, <1>8 DEF Inv

\* rtl_send accepts a packet.
LEMMA SendInv ==
    ASSUME Inv, NEW p \in Packets, Send(p) PROVE Inv'
  <1>1. /\ up /\ Len(p) <= NET_FRAME_MAX /\ tx_size[tx_slot] = 0
        /\ tx_buffers' = [tx_buffers EXCEPT ![tx_slot] = Filled(tx_buffers[tx_slot], p)]
        /\ tx_size' = [tx_size EXCEPT ![tx_slot] = IF Len(p) < MIN_WIRE THEN MIN_WIRE ELSE Len(p)]
        /\ tx_slot' = Turn(tx_slot, 1) /\ leaving' = Append(leaving, p)
        /\ UNCHANGED <<up, rx_offset, left, receiver, turn, arriving>>
    BY DEF Send, L!Accept, Turn
  <1>2. /\ leaving \in Seq(Packets) /\ turn \in TxSlots /\ tx_slot \in TxSlots
        /\ tx_size \in [TxSlots -> 0 .. NET_FRAME_MAX]
        /\ tx_buffers \in [TxSlots -> [1 .. NET_FRAME_MAX -> Byte]]
    BY DEF Inv, Types
  <1>3. Queued(leaving, turn, tx_size, tx_buffers, tx_slot)
    BY <1>1 DEF Inv, SlotsInv
  <1>4. Queued(Append(leaving, p), turn, tx_size', tx_buffers', Turn(tx_slot, 1))
    BY <1>1, <1>2, <1>3, QueuedSend
  <1>5. Types'
    <2>1. tx_size' \in [TxSlots -> 0 .. NET_FRAME_MAX]
      <3>1. (IF Len(p) < MIN_WIRE THEN MIN_WIRE ELSE Len(p)) \in 0 .. NET_FRAME_MAX
        BY <1>1, PaddedFacts, RingAssumption
      <3> QED BY <1>1, <1>2, <3>1
    <2>2. tx_slot' \in TxSlots
      BY <1>1, <1>2, TurnFacts
    <2>3. leaving' \in Seq(Packets)
      BY <1>1, <1>2, AppendProperties
    <2>4. tx_buffers' \in [TxSlots -> [1 .. NET_FRAME_MAX -> Byte]]
      <3>1. Filled(tx_buffers[tx_slot], p) \in [1 .. NET_FRAME_MAX -> Byte]
        <4>1. 0 \in Byte /\ tx_buffers[tx_slot] \in [1 .. NET_FRAME_MAX -> Byte]
          BY <1>2, ByteRange
        <4>2. ASSUME NEW k \in 1 .. NET_FRAME_MAX, k <= Len(p) PROVE p[k] \in Byte
          BY <4>2, PaddedFacts, ElementOfSeq
        <4> QED BY <4>1, <4>2 DEF Filled
      <3> QED BY <1>1, <1>2, <3>1
    <2> QED BY <1>1, <2>1, <2>2, <2>3, <2>4 DEF Inv, Types, receiver
  <1>6. RingInv'
    BY <1>1, RingSame DEF Inv, receiver
  <1>7. SlotsInv'
    BY <1>1, <1>4 DEF SlotsInv
  <1> QED BY <1>5, <1>6, <1>7 DEF Inv

\* A step that leaves card, ring and slots as they are.
LEMMA QuietInv ==
    ASSUME Inv, left' \in Int, left' # Idle => up,
           UNCHANGED <<up, rx_offset, tx_slot, receiver, transmitter, arriving, leaving>>
    PROVE  Inv'
  <1>1. Types'
    BY DEF Inv, Types, receiver, transmitter
  <1>2. RingInv'
    BY RingSame DEF Inv, receiver
  <1>3. SlotsInv'
    BY SlotsSame DEF Inv
  <1> QED BY <1>1, <1>2, <1>3 DEF Inv

\* What a poll finds when it is about to take a frame: the first of those that
\* have arrived, with its header where the driver reads it.
LEMMA FirstFound ==
    ASSUME Inv, Looping, Size # DMA
    PROVE  /\ up /\ arriving # <<>> /\ Head(arriving) = arriving[1] /\ arriving[1] \in Frames
           /\ Status = (IF arriving[1].ok THEN 1 ELSE 2)
           /\ Size = Len(arriving[1].data) + 4
           /\ \A i \in 1 .. Len(arriving[1].data) :
                rx_ring[(rx_offset + 3 + i) % RX_SIZE] = arriving[1].data[i]
  <1>1. up
    BY DEF Inv, Types, Looping, Idle
  <1>2. rx_offset \in Cells /\ arriving \in Seq(Frames) /\ rx_offset = card.ptr
    BY <1>1 DEF Inv, Types, RingInv
  <1>3. PICK d : Layout(d, arriving, rx_ring, rx_offset, card.addr, card.dma)
    BY <1>1 DEF Inv, RingInv
  <1>4. rx_offset + 0 = rx_offset /\ rx_offset % RX_SIZE = rx_offset /\ rx_offset \in Int
    <2>1. rx_offset \in 0 .. RX_SIZE - 1 /\ rx_offset \in Int
      BY <1>2, Ring DEF Cells
    <2> QED BY <2>1, Ring, ModSmall
  <1>5. d[0] = 0
    BY <1>3 DEF Layout, Offsets
  <1>6. arriving # <<>>
    <2> SUFFICES ASSUME arriving = <<>> PROVE FALSE
      OBVIOUS
    <2>1. Len(arriving) = 0
      OBVIOUS
    <2>2. card.addr = (rx_offset + 0) % RX_SIZE
      BY <1>3, <1>5, <2>1 DEF Layout
    <2>3. card.dma # L!NoFrame
      BY <1>2, <1>4, <2>2 DEF Looping, Empty
    <2>4. Busy(rx_ring, rx_offset, 0, card.dma)
      BY <1>3, <1>5, <2>1, <2>3 DEF Layout
    <2>5. /\ rx_ring[(rx_offset + 0 + 2) % RX_SIZE] = 240
          /\ rx_ring[(rx_offset + 0 + 3) % RX_SIZE] = 255
      BY <2>4 DEF Busy
    <2>6. rx_offset + 0 + 2 = rx_offset + 2 /\ rx_offset + 0 + 3 = rx_offset + 2 + 1
      BY <1>4
    <2>7. Size = 240 + 256 * 255
      BY <2>5, <2>6 DEF Size, Word
    <2> QED BY <2>7 DEF DMA
  <1>7. 1 \in 1 .. Len(arriving) /\ Head(arriving) = arriving[1] /\ arriving[1] \in Frames
    BY <1>2, <1>6, EmptySeq, LenProperties, HeadTailProperties, ElementOfSeq
  <1>8. Stored(rx_ring, rx_offset, 0, arriving[1])
    <2>1. Stored(rx_ring, rx_offset, d[1 - 1], arriving[1])
      BY <1>3, <1>7 DEF Layout
    <2>2. 1 - 1 = 0
      OBVIOUS
    <2> QED BY <1>5, <2>1, <2>2
  <1>9. rx_offset = (rx_offset + 0) % RX_SIZE
    BY <1>4
  <1>10. /\ Word(rx_offset) = (IF arriving[1].ok THEN 1 ELSE 2)
         /\ Word(rx_offset + 2) = Len(arriving[1].data) + 4
         /\ \A i \in 1 .. Len(arriving[1].data) :
              rx_ring[(rx_offset + 3 + i) % RX_SIZE] = arriving[1].data[i]
    <2>1. PICK f \in Frames : f = arriving[1]
      BY <1>7
    <2>2. Stored(rx_ring, rx_offset, 0, f)
      BY <1>8, <2>1
    <2>3. 0 \in Nat
      OBVIOUS
    <2>4. /\ Word(rx_offset) = (IF f.ok THEN 1 ELSE 2)
          /\ Word(rx_offset + 2) = Len(f.data) + 4
          /\ \A i \in 1 .. Len(f.data) : rx_ring[(rx_offset + 3 + i) % RX_SIZE] = f.data[i]
      BY <1>2, <1>9, <2>2, <2>3, StoredRead
    <2> QED BY <2>1, <2>4
  <1> QED BY <1>1, <1>6, <1>7, <1>10 DEF Status, Size

\* So it takes that frame, whole, and steps to where the next one begins.
LEMMA TakesInv ==
    ASSUME Inv, PollTakes
    PROVE  /\ Inv' /\ arriving # <<>> /\ arriving' = Tail(arriving)
           /\ taken' = IF Head(arriving).ok THEN Head(arriving) ELSE L!Damaged
  <1>1. Looping /\ Size # DMA
    BY DEF PollTakes
  <1>2. PICK f \in Frames : f = arriving[1]
    BY <1>1, FirstFound
  <1>3. /\ up /\ arriving # <<>> /\ Head(arriving) = f
        /\ Status = (IF f.ok THEN 1 ELSE 2) /\ Size = Len(f.data) + 4
        /\ \A i \in 1 .. Len(f.data) : rx_ring[(rx_offset + 3 + i) % RX_SIZE] = f.data[i]
    BY <1>1, <1>2, FirstFound
  <1>4. /\ rx_offset \in Cells /\ arriving \in Seq(Frames) /\ rx_offset % 4 = 0 /\ left \in Int
    BY <1>3 DEF Inv, Types, RingInv
  <1>5. taken' = IF f.ok THEN f ELSE L!Damaged
    <2>1. f.data \in Seq(Byte) /\ f.ok \in BOOLEAN /\ Len(f.data) \in Nat
          /\ f = [data |-> f.data, ok |-> f.ok]
      BY FrameFacts
    <2>2. Size - 4 = Len(f.data)
      BY <1>3, <2>1
    <2>3. FrameRead = f.data
      <3>1. FrameRead = [i \in 1 .. Len(f.data) |-> f.data[i]]
        BY <1>3, <2>2 DEF FrameRead
      <3>2. f.data = [i \in 1 .. Len(f.data) |-> f.data[i]]
        BY <2>1, LenProperties
      <3> QED BY <3>1, <3>2
    <2>4. Status % 64 = 1 <=> f.ok
      <3>1. CASE f.ok
        <4>1. Status = 1
          BY <1>3, <3>1
        <4>2. Status % 64 = 1
          BY <4>1
        <4> QED BY <3>1, <4>2
      <3>2. CASE ~ f.ok
        <4>1. Status = 2
          BY <1>3, <3>2
        <4>2. Status % 64 # 1
          BY <4>1
        <4> QED BY <3>2, <4>2
      <3> QED BY <3>1, <3>2
    <2>5. taken' = IF Status % 64 = 1 THEN [data |-> FrameRead, ok |-> TRUE] ELSE L!Damaged
      BY DEF PollTakes
    <2>6. f.ok => f = [data |-> f.data, ok |-> TRUE]
      BY <2>1
    <2> QED BY <2>3, <2>4, <2>5, <2>6
  <1>6. /\ NextOffset = (rx_offset + Width(f)) % RX_SIZE /\ NextOffset \in Cells
        /\ NextOffset % 4 = 0
    <2>1. PICK n \in Nat : n = Len(f.data) + 8
      BY FrameFacts
    <2>2. rx_offset \in Nat /\ rx_offset + Size + 4 = rx_offset + n
      BY <1>3, <1>4, <2>1, FrameFacts, Ring DEF Cells
    <2>3. Align(rx_offset + n) = rx_offset + Align(n)
      BY <1>4, <2>2, AlignPlus
    <2>4. Width(f) = Align(n) /\ Width(f) \in Nat /\ Width(f) % 4 = 0
      BY <2>1, WidthFacts DEF Width
    <2>5. PICK a \in Int : a = rx_offset + Width(f) /\ a % 4 = 0
      <3>1. PICK w \in Nat : w = Width(f) /\ w % 4 = 0
        BY <2>4
      <3>2. rx_offset + w \in Int /\ (rx_offset + w) % 4 = 0
        BY <1>4, <2>2, <3>1
      <3> QED BY <3>1, <3>2
    <2>6. NextOffset = a % RX_SIZE
      BY <2>2, <2>3, <2>4, <2>5 DEF NextOffset
    <2>7. a % RX_SIZE \in Cells
      BY Ring, ModRange DEF Cells
    <2>8. (a % RX_SIZE) % 4 = 0
      BY <2>5, AlignedMod, RingAssumption
    <2> QED BY <2>5, <2>6, <2>7, <2>8
  <1>7. PICK o \in Cells : o = NextOffset
    BY <1>6
  <1>8. (Capr(o) + 16) % RX_SIZE = o
    BY CaprExact
  <1>9. /\ rx_offset' = o /\ left' = left - 1 /\ arriving' = Tail(arriving)
        /\ card' = [on |-> card.on, ptr |-> o, addr |-> card.addr, over |-> card.over,
                    dma |-> card.dma]
        /\ UNCHANGED <<up, tx_slot, rx_ring, transmitter, leaving>>
    BY <1>3, <1>7, <1>8 DEF PollTakes, Inv, Types, CardType
  <1>10. Types'
    <2>1. card' \in CardType /\ card'.on = card.on
      BY <1>9, CardFields DEF CardType, Inv
    <2>2. arriving' \in Seq(Frames)
      BY <1>3, <1>4, <1>9, HeadTailProperties
    <2>3. left' \in Int
      BY <1>4, <1>9
    <2> QED BY <1>3, <1>9, <2>1, <2>2, <2>3 DEF Inv, Types, transmitter
  <1>11. RingInv'
    <2>1. PICK d : Layout(d, arriving, rx_ring, rx_offset, card.addr, card.dma)
      BY <1>3 DEF Inv, RingInv
    <2>2. card.dma \in Frames \cup {L!NoFrame}
      BY CardFields DEF Inv
    <2>3. o = (rx_offset + Width(arriving[1])) % RX_SIZE
      BY <1>2, <1>6, <1>7
    <2>4. \E e : Layout(e, Tail(arriving), rx_ring, o, card.addr, card.dma)
      BY <1>3, <1>4, <2>1, <2>2, <2>3, LayoutTakes
    <2>5. o % 4 = 0
      BY <1>6, <1>7
    <2> QED BY <1>9, <2>4, <2>5 DEF RingInv
  <1>12. SlotsInv'
    BY <1>9, SlotsSame DEF Inv
  <1> QED BY <1>3, <1>5, <1>9, <1>10, <1>11, <1>12 DEF Inv
-----------------------------------------------------------------------------
(* The theorems.                                                           *)

\* Each step keeps the invariant and is a step of the link.
LEMMA StepInv == Inv /\ [Next]_vars => Inv' /\ [L!Next]_link
  <1> SUFFICES ASSUME Inv, [Next]_vars PROVE Inv' /\ [L!Next]_link
    OBVIOUS
  <1>1. ASSUME NEW f \in Frames, CardMisses(f) PROVE Inv' /\ L!Rest
    BY <1>1, MissesInv DEF CardMisses
  <1>2. ASSUME NEW f \in Frames, CardBegins(f) PROVE Inv' /\ L!Rest
    BY <1>2, BeginsInv DEF CardBegins
  <1>3. CASE CardReceives
    <2>1. Inv' /\ card.dma \in Frames
      BY <1>3, ReceivesInv
    <2>2. L!Arrive(card.dma)
      BY <1>3 DEF CardReceives
    <2> QED BY <2>1, <2>2 DEF L!Next
  <1>4. CASE CardSends
    <2>1. Inv' /\ leaving # <<>> /\ wire' = L!Padded(Head(leaving))
      BY <1>4, SendsInv
    <2>2. L!Leave
      BY <1>4, <2>1 DEF CardSends, L!Leave
    <2> QED BY <2>1, <2>2 DEF L!Next
  <1>5. ASSUME Started PROVE Inv' /\ L!Restart
    BY <1>5, StartedInv DEF Started, Inv
  <1>6. ASSUME Stopped PROVE Inv' /\ L!Restart
    BY <1>6, StoppedInv DEF Stopped, Inv
  <1>7. CASE NetUp \/ NetDown
    BY <1>5, <1>6, <1>7 DEF NetUp, NetDown, L!Next
  <1>8. ASSUME NEW p \in Packets, SendRefused(p) PROVE Inv' /\ L!Rest
    <2>1. /\ L!Rest
          /\ UNCHANGED <<up, rx_offset, tx_slot, left, receiver, transmitter, arriving, leaving>>
      BY <1>8 DEF SendRefused, L!Rest, driver
    <2>2. left' \in Int /\ (left' # Idle => up)
      BY <2>1 DEF Inv, Types
    <2> QED BY <2>1, <2>2, QuietInv
  <1>9. ASSUME NEW p \in Packets, Send(p) PROVE Inv' /\ L!Accept(p)
    BY <1>9, SendInv DEF Send
  <1>10. CASE PollStarts
    <2>1. CASE card.over /\ Restarts
      BY <1>5, <1>6, <2>1 DEF Restarts, L!Next
    <2>2. CASE ~ card.over /\ left' = BUDGET /\ L!Rest
               /\ UNCHANGED <<up, rx_offset, tx_slot, receiver, transmitter>>
      <3>1. left' \in Int /\ up
        BY <1>10, <2>2, RingAssumption DEF PollStarts
      <3>2. UNCHANGED <<arriving, leaving>>
        BY <2>2 DEF L!Rest
      <3>3. Inv'
        BY <2>2, <3>1, <3>2, QuietInv
      <3> QED BY <2>2, <3>3 DEF L!Next
    <2> QED BY <1>10, <2>1, <2>2 DEF PollStarts
  <1>11. CASE PollResets
    BY <1>5, <1>6, <1>11 DEF PollResets, Restarts, L!Next
  <1>12. CASE PollTakes
    <2>1. /\ Inv' /\ arriving # <<>> /\ arriving' = Tail(arriving)
          /\ taken' = IF Head(arriving).ok THEN Head(arriving) ELSE L!Damaged
      BY <1>12, TakesInv
    <2>2. L!Take
      BY <1>12, <2>1 DEF PollTakes, L!Take
    <2> QED BY <2>1, <2>2 DEF L!Next
  <1>13. CASE PollEnds
    <2>1. /\ left' = Idle /\ L!Rest /\ UNCHANGED <<arriving, leaving>>
          /\ UNCHANGED <<up, rx_offset, tx_slot, receiver, transmitter>>
      BY <1>13 DEF PollEnds, L!Rest
    <2>2. left' \in Int /\ (left' # Idle => up)
      BY <2>1 DEF Idle
    <2>3. Inv'
      BY <2>1, <2>2, QuietInv
    <2> QED BY <2>1, <2>3 DEF L!Next
  <1>14. CASE UNCHANGED vars
    <2>1. /\ UNCHANGED <<up, rx_offset, tx_slot, left, receiver, transmitter, arriving, leaving>>
          /\ UNCHANGED link
      BY <1>14 DEF vars, driver, link
    <2>2. left' \in Int /\ (left' # Idle => up)
      BY <2>1 DEF Inv, Types
    <2>3. Inv'
      BY <2>1, <2>2, QuietInv
    <2> QED BY <2>1, <2>3
  <1> QED
    BY <1>1, <1>2, <1>3, <1>4, <1>7, <1>8, <1>9, <1>10, <1>11, <1>12, <1>13, <1>14
    DEF Next, Poll, L!Next

\* The frames that have arrived lie behind each other in the ring, untouched by
\* what the card writes, and the slots hold what was accepted.
THEOREM RingInvariant == Spec => []Inv
  BY InitInv, StepInv, PTL DEF Spec

\* Driver and card implement the link, for every size of the ring and of the
\* frames: what net_receive gets and what the wire gets are what arrived and what
\* rtl_send accepted, whole, in order and once each.
THEOREM DriverImplementsLink == Spec => ImplementsLink
  <1>1. Init => L!Init
    BY DEF Init
  <1>2. Inv /\ [Next]_vars => [L!Next]_(L!link)
    BY StepInv DEF link, L!link
  <1> QED BY RingInvariant, <1>1, <1>2, PTL DEF Spec, ImplementsLink, L!Spec

\* Cell i of InStep is where the i-th offset of the layout lies.
LEMMA InvInStep ==
    ASSUME Inv PROVE InStep
  <1> DEFINE n == Len(arriving)
             At(f) == f = [i \in 0 .. n |->
                             IF i = 0 THEN rx_offset
                             ELSE (f[i - 1] + Align(Len(arriving[i].data) + 8)) % RX_SIZE]
             at == CHOOSE f : At(f)
             Agree == /\ rx_offset = card.ptr /\ rx_offset % 4 = 0
                      /\ at[n] = card.addr
                      /\ \A i \in 1 .. n : Word(at[i - 1] + 2) = Len(arriving[i].data) + 4
  <1> SUFFICES ASSUME up PROVE Agree
    BY Zenon DEF InStep
  <1>1. /\ rx_offset \in Cells /\ arriving \in Seq(Frames)
        /\ rx_offset = card.ptr /\ rx_offset % 4 = 0
    BY DEF Inv, Types, RingInv
  <1>2. PICK d : Layout(d, arriving, rx_ring, rx_offset, card.addr, card.dma)
    BY DEF Inv, RingInv
  <1>3. /\ Offsets(d, arriving) /\ card.addr = (rx_offset + d[n]) % RX_SIZE
        /\ \A i \in 1 .. n : Stored(rx_ring, rx_offset, d[i - 1], arriving[i])
    BY <1>2 DEF Layout
  <1>4. n \in Nat
    BY <1>1, LenProperties
  <1>5. ASSUME NEW i \in 1 .. n
        PROVE  /\ arriving[i] \in Frames /\ d[i - 1] \in Nat /\ Width(arriving[i]) \in Nat
               /\ d[i] = d[i - 1] + Width(arriving[i])
    BY <1>1, <1>3, OffsetFacts, WidthFacts
  <1>6. d[0] = 0
    BY <1>3 DEF Offsets
  <1> HIDE DEF n
  <1> DEFINE cell == [i \in 0 .. n |-> (rx_offset + d[i]) % RX_SIZE]
  <1>7. cell[0] = rx_offset
    <2>1. rx_offset \in 0 .. RX_SIZE - 1 /\ rx_offset \in Int
      BY <1>1, Ring DEF Cells
    <2>2. rx_offset + 0 = rx_offset /\ rx_offset % RX_SIZE = rx_offset
      BY <2>1, Ring, ModSmall
    <2>3. cell[0] = (rx_offset + d[0]) % RX_SIZE
      BY <1>4
    <2> QED BY <1>6, <2>2, <2>3
  <1>8. ASSUME NEW i \in 1 .. n
        PROVE  cell[i] = (cell[i - 1] + Align(Len(arriving[i].data) + 8)) % RX_SIZE
    <2>1. PICK x \in Nat, w \in Nat : x = d[i - 1] /\ w = Width(arriving[i]) /\ d[i] = x + w
      BY <1>5
    <2>2. PICK a : a = (rx_offset + x) % RX_SIZE
      OBVIOUS
    <2>3. (a + w) % RX_SIZE = (rx_offset + x + w) % RX_SIZE
      BY <1>1, <2>2, CellPlus
    <2>4. rx_offset + x + w = rx_offset + (x + w)
      BY <1>1, Ring DEF Cells
    <2>5. cell[i - 1] = a /\ cell[i] = (rx_offset + (x + w)) % RX_SIZE
      BY <1>4, <2>1, <2>2
    <2> QED BY <2>1, <2>3, <2>4, <2>5 DEF Width
  <1>9. At(cell)
    <2> DEFINE g == [i \in 0 .. n |->
                       IF i = 0 THEN rx_offset
                       ELSE (cell[i - 1] + Align(Len(arriving[i].data) + 8)) % RX_SIZE]
    <2>1. cell = [i \in 0 .. n |-> cell[i]]
      OBVIOUS
    <2> HIDE DEF cell
    <2>2. ASSUME NEW i \in 0 .. n PROVE cell[i] = g[i]
      <3>1. CASE i = 0
        BY <1>7, <3>1
      <3>2. CASE i # 0
        <4>1. i \in 1 .. n
          BY <1>4, <3>2
        <4> QED BY <1>8, <3>2, <4>1
      <3> QED BY <3>1, <3>2
    <2>3. cell = g
      BY <2>1, <2>2
    <2> QED BY <2>3
  <1>10. At(at)
    <2>1. \E f : At(f)
      <3> HIDE DEF At, cell
      <3> QED BY <1>9
    <2> HIDE DEF At
    <2> QED BY <2>1, Zenon
  <1> HIDE DEF at
  <1>11. ASSUME NEW i \in 0 .. n
         PROVE  at[i] = IF i = 0 THEN rx_offset
                        ELSE (at[i - 1] + Align(Len(arriving[i].data) + 8)) % RX_SIZE
    <2> DEFINE g == [j \in 0 .. n |->
                       IF j = 0 THEN rx_offset
                       ELSE (at[j - 1] + Align(Len(arriving[j].data) + 8)) % RX_SIZE]
    <2>1. at = g
      BY <1>10
    <2>2. g[i] = IF i = 0 THEN rx_offset
                 ELSE (at[i - 1] + Align(Len(arriving[i].data) + 8)) % RX_SIZE
      OBVIOUS
    <2> HIDE DEF g
    <2> QED BY <2>1, <2>2
  <1> HIDE DEF At, cell
  <1>12. \A i \in 0 .. n : at[i] = cell[i]
    <2> DEFINE S == {i \in 0 .. n : at[i] = cell[i]}
    <2>1. 0 \in S
      BY <1>4, <1>7, <1>11
    <2>2. ASSUME NEW i \in 1 .. n, i - 1 \in S PROVE i \in S
      <3>1. i \in 0 .. n /\ i # 0 /\ at[i - 1] = cell[i - 1]
        BY <1>4, <2>2
      <3>2. at[i] = (at[i - 1] + Align(Len(arriving[i].data) + 8)) % RX_SIZE
        BY <1>11, <3>1
      <3> QED BY <1>8, <3>1, <3>2
    <2>3. \A i \in 0 .. n : i \in S
      <3> HIDE DEF S
      <3> QED BY <1>4, <2>1, <2>2, BoundedInduction
    <2> QED BY <2>3
  <1>13. at[n] = card.addr
    <2>1. n \in 0 .. n
      BY <1>4
    <2>2. cell[n] = (rx_offset + d[n]) % RX_SIZE
      BY <2>1 DEF cell
    <2> QED BY <1>3, <1>12, <2>1, <2>2
  <1>14. ASSUME NEW i \in 1 .. n PROVE Word(at[i - 1] + 2) = Len(arriving[i].data) + 4
    <2>1. PICK x \in Nat, f \in Frames : x = d[i - 1] /\ f = arriving[i]
      BY <1>5
    <2>2. i - 1 \in 0 .. n
      BY <1>4
    <2>3. cell[i - 1] = (rx_offset + x) % RX_SIZE
      BY <2>1, <2>2 DEF cell
    <2>4. at[i - 1] = (rx_offset + x) % RX_SIZE
      BY <1>12, <2>2, <2>3
    <2>5. Stored(rx_ring, rx_offset, x, f)
      BY <1>3, <2>1
    <2>6. Word(at[i - 1] + 2) = Len(f.data) + 4
      BY <1>1, <2>4, <2>5, StoredRead
    <2> QED BY <2>1, <2>6
  <1> QED BY <1>1, <1>13, <1>14

\* The driver reads where the card believes it does, and the headers from there
\* on are those of the frames that arrived, for every ring and every frame.
THEOREM DriverInStep == Spec => []InStep
  BY RingInvariant, InvInStep, PTL
=============================================================================
