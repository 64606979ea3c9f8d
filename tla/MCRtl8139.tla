------------------------------ MODULE MCRtl8139 -------------------------------
(* An instance of Rtl8139: a ring of two frames, frames whose lengths need    *)
(* alignment or not, one damaged and one too long, packets shorter than the   *)
(* wire's minimum and not, and one that rtl_send refuses.                     *)
EXTENDS Rtl8139

Frame(b, n, ok) == [data |-> [k \in 1 .. n |-> b], ok |-> ok]
MCFrames == {Frame(1, 2, TRUE), Frame(2, 5, TRUE), Frame(3, 1, FALSE), Frame(4, 6, TRUE)}
MCPackets == {<<5>>, <<6, 6>>, <<7, 7, 7>>}
MCByte == 0 .. 255

(* States that differ only in stale bytes of the ring, from the card's write  *)
(* pointer to the driver's read pointer, are explored once.                   *)
Unread ==
    [k \in Cells |-> IF (k - card.ptr) % RX_SIZE < (card.addr - card.ptr) % RX_SIZE
                     THEN rx_ring[k] ELSE 0]
MCView == <<driver, Unread, card, transmitter, arriving, taken, leaving>>
=============================================================================
