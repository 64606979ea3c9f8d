-------------------------------- MODULE MCTcp --------------------------------
(* An instance of Tcp whose sequence numbers wrap: the connection starts at *)
(* 16 of 18, the peer at 17, and the segments that may arrive are correct,  *)
(* stale, repeated, overlapping, out of order and out of range ones.        *)
EXTENDS Tcp

Isn == 16
Irs == 17

Message(F, S, A, W, D, M) ==
    [flags : F, seq : S, ack : A, wnd : W, data : D, mss : M]

MCFiles == {<<1, 2>>, <<1, 2, 1>>}
MCIsns == {Isn}
MCSegments ==
    \* the handshake: right, wrong acknowledgement, malformed option
    Message({{"SYN", "ACK"}}, {Irs}, {17}, {0, 2}, {<<>>}, {2})
    \cup Message({{"SYN", "ACK"}}, {Irs}, {0}, {2}, {<<>>}, {1})
    \cup Message({{"SYN", "ACK"}}, {Irs}, {17}, {2}, {<<>>}, {0, 1})
    \* acknowledgements of nothing, of part, of all, and of what was never sent
    \cup Message({{"ACK"}}, {0}, {17, 0, 1, 2, 9}, {2}, {<<>>}, {0})
    \cup Message({{"ACK"}}, {0}, {17, 1}, {0}, {<<>>}, {0})
    \* data: in order, overlapping, ahead, beyond the buffer, with FIN
    \cup Message({{"ACK"}}, {0}, {17}, {2}, {<<1>>, <<1, 2>>}, {0})
    \cup Message({{"ACK"}}, {1}, {1}, {2}, {<<2>>, <<2, 1>>}, {0})
    \cup Message({{"ACK", "FIN"}}, {1}, {17}, {2}, {<<>>, <<2>>}, {0})
    \cup Message({{"ACK", "FIN"}}, {0}, {2}, {2}, {<<>>}, {0})
    \* resets
    \cup Message({{"RST", "ACK"}}, {0, 9}, {17}, {0}, {<<>>}, {0})
=============================================================================
