------------------------------- MODULE MCRamFs --------------------------------
(* An instance of RamFs: more names than slots, names of several lengths,     *)
(* files of zero to two bytes and one that is too long, buffers from one byte *)
(* to more than a full listing takes.                                         *)
EXTENDS RamFs

MCNameLen == [n \in Names |-> CASE n = "a" -> 1 [] n = "bb" -> 2 [] OTHER -> 3]
MCContents == {<<>>, <<1>>, <<2, 1>>, <<1, 1, 1>>}
=============================================================================
