------------------------------- MODULE FileMap --------------------------------
(***************************************************************************)
(* What the RAM file system promises: a map from names to contents, of at  *)
(* most MaxFiles files of at most MaxSize bytes.  A call that fails, its   *)
(* code says why, changes nothing; a read returns what was last written    *)
(* under that name.  RamFs implements it.                                  *)
(***************************************************************************)
EXTENDS Integers, Sequences, FiniteSets

CONSTANTS
    Names,       \* names a file may have
    BadNames,    \* empty and too long ones
    Contents,    \* what may be written
    Buffers,     \* sizes of read buffers
    MaxFiles, MaxSize

VARIABLES files, ret, buf

vars == <<files, ret, buf>>

Init == files = [n \in {} |-> <<>>] /\ ret = 0 /\ buf = <<>>

Fails(code) == ret' = code /\ UNCHANGED <<files, buf>>

\* The map with n bound to d.
Bind(n, d) == [m \in DOMAIN files \cup {n} |-> IF m = n THEN d ELSE files[m]]
Unbind(n) == [m \in DOMAIN files \ {n} |-> files[m]]

Write(n, d) ==
    \/ n \in BadNames /\ Fails(-2)
    \/ n \in Names /\ Len(d) > MaxSize /\ Fails(-3)
    \/ /\ n \in Names /\ Len(d) <= MaxSize
       /\ n \notin DOMAIN files /\ Cardinality(DOMAIN files) = MaxFiles
       /\ Fails(-4)
    \/ /\ n \in Names /\ Len(d) <= MaxSize
       /\ n \in DOMAIN files \/ Cardinality(DOMAIN files) < MaxFiles
       /\ files' = Bind(n, d) /\ ret' = 0 /\ UNCHANGED buf

Read(n, room) ==
    \/ n \notin DOMAIN files /\ Fails(-1)
    \/ n \in DOMAIN files /\ room < Len(files[n]) /\ Fails(-2)
    \/ /\ n \in DOMAIN files /\ Len(files[n]) <= room
       /\ ret' = Len(files[n]) /\ buf' = files[n] /\ UNCHANGED files

Delete(n) ==
    \/ n \notin DOMAIN files /\ Fails(-1)
    \/ n \in DOMAIN files /\ files' = Unbind(n) /\ ret' = 0 /\ UNCHANGED buf

Next == \E n \in Names \cup BadNames :
    \/ \E d \in Contents : Write(n, d)
    \/ \E room \in Buffers : Read(n, room)
    \/ Delete(n)

Spec == Init /\ [][Next]_vars
=============================================================================
