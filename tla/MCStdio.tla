------------------------------- MODULE MCStdio --------------------------------
(* An instance of Stdio: an arena in which two streams and a block of the     *)
(* program fit or not, depending on its fragmentation; files of one byte.     *)
EXTENDS Stdio, TLC

MCContents == {<<1>>, <<2, 1>>}
MCSymmetry == Permutations(Names)
MCView == <<heap, [f \in DOMAIN streams |-> Bytes(f)], streams, client, files>>
=============================================================================
