------------------------------ MODULE MCIsolation -----------------------------
(* An instance of Isolation: sixteen addresses, pages of two bytes, one page   *)
(* of each kind in the order of the real layout (code, marker, startup, guard, *)
(* stack) between two parts of the kernel, and one file of at most two bytes.  *)
EXTENDS Isolation

MCSegments == {[start |-> 4, size |-> 2, writable |-> FALSE]}
MCImage == [x \in User |-> IF x < 6 THEN 1 ELSE 0]
MCKernelImage == [x \in Addresses \ User |-> 1]
MCCommands == {<<1>>}
MCLines == {<<1, 1, 1>>}
MCNames == {<<1>>}
MCBadNames == {<<>>}
MCNameLen == [n \in MCNames |-> Len(n)]
MCNoName == <<>>

(* No step depends on the result of the last call.                             *)
MCView == <<process, fs_files>>
=============================================================================
