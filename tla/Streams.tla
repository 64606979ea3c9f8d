-------------------------------- MODULE Streams -------------------------------
(***************************************************************************)
(* What the FILE layer promises its programs: an open stream is a sequence *)
(* of bytes with a position in it.  A write takes place as a whole or not  *)
(* at all, a read returns the bytes at the position, a file that was       *)
(* opened for writing holds exactly the stream's bytes after a close that  *)
(* reports success, unless it was opened under the empty name, and every   *)
(* other operation leaves the files alone.  Opening and writing may fail   *)
(* for want of memory.  Stdio implements it.                               *)
(***************************************************************************)
EXTENDS FileMap

CONSTANTS
    Ids,          \* what may identify a stream
    NoName,       \* the empty name, under which nothing is saved
    NEWLINE

VARIABLE open     \* id -> [bytes, pos, writable, name, out]; out: it is in memory

svars == <<vars, open>>

SInit == Init /\ open = [id \in {} |-> <<>>]

With(id, s) == [i \in DOMAIN open \cup {id} |-> IF i = id THEN s ELSE open[i]]
Stream(b, w, n, out) == [bytes |-> b, pos |-> 0, writable |-> w, name |-> n, out |-> out]
Done(r) == ret' = r /\ UNCHANGED <<files, buf>>

Open(id, n, w) ==
    /\ w \/ n \in DOMAIN files
    /\ open' = With(id, Stream(IF w THEN <<>> ELSE files[n], w, n, FALSE)) /\ Done(0)
OpenMemory(id) == open' = With(id, Stream(<<>>, TRUE, NoName, TRUE)) /\ Done(0)
Fail == UNCHANGED open /\ Done(-1)

\* The bytes b with d written over them from position pos on.
Over(b, pos, d) ==
    [k \in 1 .. (IF pos + Len(d) > Len(b) THEN pos + Len(d) ELSE Len(b)) |->
        IF pos < k /\ k <= pos + Len(d) THEN d[k - pos] ELSE b[k]]
Put(id, d) ==
    LET s == open[id] IN
    \/ /\ s.writable
       /\ open' = With(id, [bytes |-> Over(s.bytes, s.pos, d), pos |-> s.pos + Len(d),
                            writable |-> TRUE, name |-> s.name, out |-> s.out])
       /\ Done(Len(d))
    \/ UNCHANGED open /\ Done(0)

\* k bytes are read, counted in elements of some size.
Moved(id, pos) == With(id, [open[id] EXCEPT !.pos = pos])
Get(id, k, elements) ==
    LET s == open[id] IN
    /\ s.pos + k <= Len(s.bytes)
    /\ open' = Moved(id, s.pos + k) /\ buf' = SubSeq(s.bytes, s.pos + 1, s.pos + k)
    /\ ret' = elements /\ UNCHANGED files
GetElements(id, size, count) ==
    LET most == (Len(open[id].bytes) - open[id].pos) \div size
        k == IF count < most THEN count ELSE most
    IN Get(id, k * size, k)

\* At most n - 1 bytes, up to a newline, and no more than there are.
GetLine(id, n) ==
    LET s == open[id]
        whole(k) == \/ k = n - 1 \/ s.pos + k = Len(s.bytes)
                    \/ k > 0 /\ s.bytes[s.pos + k] = NEWLINE
    IN \E k \in 0 .. n - 1 :
        /\ s.pos + k <= Len(s.bytes) /\ whole(k)
        /\ \A j \in 0 .. k - 1 : ~ whole(j)
        /\ Get(id, k, IF k = 0 THEN -1 ELSE 0)

Seek(id, pos) == open' = Moved(id, pos) /\ Done(0)

\* What the owner of a stream in memory is given.
Flush(id) ==
    /\ buf' = (IF open[id].out THEN open[id].bytes ELSE buf) /\ ret' = 0
    /\ UNCHANGED <<files, open>>

Close(id) ==
    LET s == open[id] IN
    /\ open' = [i \in DOMAIN open \ {id} |-> open[i]]
    /\ \/ s.name # NoName /\ s.writable /\ Write(s.name, s.bytes)
       \/ (s.name = NoName \/ ~ s.writable) /\ ~ s.out /\ Done(0)
       \/ s.out /\ buf' = s.bytes /\ ret' = 0 /\ UNCHANGED files

Remove(n) == Delete(n) /\ UNCHANGED open

SNext ==
    \/ \E id \in DOMAIN open :
         \/ \E d \in Contents : Put(id, d)
         \/ \E size \in 1 .. 2, count \in Buffers : GetElements(id, size, count)
         \/ \E n \in Buffers : GetLine(id, n)
         \/ \E pos \in 0 .. Len(open[id].bytes) : Seek(id, pos)
         \/ Flush(id) \/ Close(id)
    \/ \E n \in Names \cup BadNames : Remove(n)
    \/ \E id \in Ids \ DOMAIN open :
         \/ \E n \in Names \cup {NoName}, w \in BOOLEAN : Open(id, n, w)
         \/ OpenMemory(id)
    \/ Fail

SSpec == SInit /\ [][SNext]_svars
=============================================================================
