---------------------------- MODULE MCTcpTransfer -----------------------------
(* Instances of TcpTransfer: three ports and two records, so that both run     *)
(* out, and a stream of one byte.                                              *)
EXTENDS TcpTransfer

MCChunks == {<<1>>, <<>>}
=============================================================================
