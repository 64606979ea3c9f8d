--------------------------- MODULE MCTcpConnection ---------------------------
(* Instances of TcpConnection: the host starts at 16 of 18, the peer at 17, *)
(* so both streams wrap.                                                    *)
EXTENDS TcpConnection

MCFiles == {<<>>, <<1, 2>>}
MCIsns == {16}
MCSegments == {}

World(f, p, w, h, r) ==
    [file |-> f, peerfile |-> p, wnd |-> w, waits |-> h, reorder |-> r,
     cap |-> 2, faults |-> 1, prompt |-> FALSE, silent |-> FALSE]
Wide(f, p) == World(f, p, 4, FALSE, TRUE)
Tight(f, p) == World(f, p, 1, TRUE, FALSE)

(* Uploads to a peer with a wide and with a tight window; a download that is  *)
(* reordered, one with a fault, and one of the buffer's size.                 *)
MCConn == {Wide(<<1, 2>>, <<>>), Tight(<<1, 2>>, <<>>),
           [Wide(<<>>, <<3>>) EXCEPT !.faults = 0], [Wide(<<>>, <<3>>) EXCEPT !.reorder = FALSE],
           [Wide(<<>>, <<3, 1>>) EXCEPT !.faults = 0, !.reorder = FALSE]}

(* Both directions in a prompt environment, and a peer that may be silent.  *)
MCLive ==
    {[w EXCEPT !.cap = 4, !.faults = 3, !.prompt = TRUE] :
        w \in {Wide(<<1, 2>>, <<3>>), Tight(<<1, 2>>, <<3>>)}}
    \cup {[Wide(<<>>, <<>>) EXCEPT !.cap = 1, !.faults = 0, !.silent = TRUE]}

(* A tight window that is read late, in a prompt environment.               *)
MCTight == {[World(<<1, 2>>, <<3>>, 1, FALSE, TRUE)
                EXCEPT !.cap = 4, !.faults = 2, !.prompt = TRUE]}

(* The segments a call emitted are in the network already: no step reads out. *)
MCView ==
    <<state, error, transfer, sender, pending, receiver, ack_pending, window, congestion,
      dupacks, timers, now, peer, p_turn, net, faults, world>>
=============================================================================
