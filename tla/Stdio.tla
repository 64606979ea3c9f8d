--------------------------------- MODULE Stdio --------------------------------
(***************************************************************************)
(* The FILE layer of ape/platform.c on the allocator of Heap and the files *)
(* of FileMap (which RamFs implements).  A program opens, reads, writes    *)
(* and closes streams and allocates memory of its own; calls are atomic.   *)
(*                                                                         *)
(* streams holds the FILE structures by their addresses, mem what the      *)
(* blocks of their data hold.  Junk is the content of a byte that was      *)
(* never written.  buf is what the last call gave the program, ret what it *)
(* returned (0 and -1 for a pointer and for NULL).                         *)
(*                                                                         *)
(* Left out: the streams of the console, whose input is read_line (module  *)
(* Shell), formatting, and overflow of a byte count of 2^64.               *)
(*                                                                         *)
(* D_bug is definition D with a slip in it; see README.md.                 *)
(***************************************************************************)
EXTENDS Heap, Sequences

CONSTANTS
    FILE_SIZE,                  \* sizeof(FILE)
    MAX_FILE_SIZE, MAX_FILES,   \* of the file system
    Names, LongNames,           \* names of files, and names too long for one
    NoName,                     \* the empty name
    Byte, Junk, NEWLINE,        \* values of a byte; 0 is one
    Contents,                   \* what a program writes
    Buffers,                    \* sizes of its buffers
    Requests,                   \* sizes it allocates
    MaxHeld,                    \* bound on the streams and blocks a program holds
    MaxBytes                    \* bound on the bytes of a stream

ASSUME StdioAssumption ==
    /\ FILE_SIZE \in Nat /\ MAX_FILE_SIZE \in Nat /\ MAX_FILES \in Nat
    /\ NoName \notin Names \cup LongNames /\ Names \cap LongNames = {}
    /\ 0 \in Byte /\ NEWLINE \in Byte /\ Junk \notin Byte
    /\ Contents \subseteq Seq(Byte) /\ Buffers \subseteq Nat /\ Requests \subseteq Nat

VARIABLES
    heap, mem, streams,
    client,           \* blocks the program owns
    files, ret, buf

stdioVars == <<heap, mem, streams, client, files, ret, buf>>

FS == INSTANCE FileMap WITH MaxFiles <- MAX_FILES, MaxSize <- MAX_FILE_SIZE, BadNames <- LongNames

Empty == [x \in {} |-> <<>>]

StdioInit ==
    /\ heap = FreshHeap /\ mem = Empty /\ streams = Empty /\ client = {}
    /\ FS!Init

Returns(r) == ret' = r /\ UNCHANGED <<files, buf>>
Set(f, k, v) == [x \in DOMAIN f \cup {k} |-> IF x = k THEN v ELSE f[x]]
Unset(f, k) == [x \in DOMAIN f \ {k} |-> f[x]]

\* A block's bytes after s was copied to position pos.
Copied(bytes, pos, s) ==
    [k \in 1 .. Len(bytes) |-> IF pos < k /\ k <= pos + Len(s) THEN s[k - pos] ELSE bytes[k]]
Raw(h, p) == [k \in 1 .. Room(h, p) |-> Junk]
-----------------------------------------------------------------------------
(* Memory of the program.                                                  *)

MayHold == Cardinality(client) + Cardinality(DOMAIN streams) < MaxHeld
Allocates(n) ==
    LET new == Malloc(heap, n) IN
    /\ MayHold
    /\ heap' = new.h /\ client' = client \cup ({new.p} \ {NULL})
    /\ UNCHANGED <<mem, streams, files, ret, buf>>
Resizes(p, n) ==
    LET new == Realloc(heap, p, n) IN
    /\ heap' = new.h
    /\ client' = IF new.p = NULL /\ n # 0 THEN client ELSE (client \ {p}) \cup ({new.p} \ {NULL})
    /\ UNCHANGED <<mem, streams, files, ret, buf>>
Frees(p) ==
    /\ heap' = Freed(heap, p) /\ client' = client \ {p}
    /\ UNCHANGED <<mem, streams, files, ret, buf>>
-----------------------------------------------------------------------------
(* Opening.                                                                *)

\* The FILE f on block d, whose bytes are s with a zero behind them.
Opens(f, d, h, capacity, s, w, n, out) ==
    /\ heap' = h
    /\ streams' = Set(streams, f, [data |-> d, size |-> Len(s), capacity |-> capacity,
                                   pos |-> 0, writable |-> w, name |-> n, out |-> out])
    /\ mem' = Set(mem, d, Copied(Raw(h, d), 0, s \o <<0>>))
    /\ Returns(0) /\ UNCHANGED client
NotOpened(h) == heap' = h /\ Returns(-1) /\ UNCHANGED <<mem, streams, client>>

OpenMemstream ==
    LET f == Malloc(heap, FILE_SIZE)
        d == Malloc(f.h, 1)
    IN \/ f.p = NULL /\ NotOpened(heap)
       \/ f.p # NULL /\ d.p = NULL /\ NotOpened(Freed(f.h, f.p))
       \/ f.p # NULL /\ d.p # NULL /\ Opens(f.p, d.p, d.h, 1, <<>>, TRUE, NoName, TRUE)

\* fopen; the file is read, or found missing, after both blocks are allocated.
OpenFailed_KeepsData(h, d, f) == Freed(h, f)
OpenFailed(h, d, f) == Freed(Freed(h, d), f)
Fopen(n, w) ==
    LET f == Malloc(heap, FILE_SIZE)
        d == Malloc(f.h, MAX_FILE_SIZE + 1)
    IN \/ n \in LongNames /\ NotOpened(heap)
       \/ /\ n \notin LongNames
          /\ \/ f.p = NULL /\ NotOpened(heap)
             \/ f.p # NULL /\ d.p = NULL /\ NotOpened(Freed(f.h, f.p))
             \/ /\ f.p # NULL /\ d.p # NULL /\ ~ w /\ n \notin DOMAIN files
                /\ NotOpened(OpenFailed(d.h, d.p, f.p))
             \/ /\ f.p # NULL /\ d.p # NULL /\ (w \/ n \in DOMAIN files)
                /\ Opens(f.p, d.p, d.h, MAX_FILE_SIZE + 1,
                         IF w THEN <<>> ELSE files[n], w, n, FALSE)
-----------------------------------------------------------------------------
(* Operations on an open stream.                                           *)

Bytes(f) == SubSeq(mem[streams[f].data], 1, streams[f].size)
InMemory(f) == streams[f].out
Saved(f) == streams[f].name # NoName /\ streams[f].writable
Keeps == UNCHANGED <<heap, mem, client>>
Update(f, d, size, capacity, pos) ==
    streams' = [streams EXCEPT ![f] = [data |-> d, size |-> size, capacity |-> capacity,
                  pos |-> pos, writable |-> @.writable, name |-> @.name, out |-> @.out]]
To(f, pos) == Update(f, streams[f].data, streams[f].size, streams[f].capacity, pos)

\* fflush tells the owner of a stream in memory where its bytes are.
Fflush(f) ==
    /\ buf' = (IF InMemory(f) THEN Bytes(f) ELSE buf) /\ ret' = 0
    /\ Keeps /\ UNCHANGED <<streams, files>>

\* fclose: the file is saved, then both blocks are freed; the data of a stream
\* in memory is the program's.
Fclose(f) ==
    LET d == streams[f].data IN
    /\ streams' = Unset(streams, f) /\ mem' = Unset(mem, d)
    /\ \/ Saved(f) /\ FS!Write(streams[f].name, Bytes(f))
       \/ ~ Saved(f) /\ ~ InMemory(f) /\ Returns(0)
       \/ ~ Saved(f) /\ InMemory(f) /\ buf' = Bytes(f) /\ ret' = 0 /\ UNCHANGED files
    /\ heap' = Freed(IF InMemory(f) THEN heap ELSE Freed(heap, d), f)
    /\ client' = IF InMemory(f) THEN client \cup {d} ELSE client

Base(f, origin) == CASE origin = "SET" -> 0 [] origin = "CUR" -> streams[f].pos
                     [] origin = "END" -> streams[f].size
Fseek(f, offset, origin) ==
    LET pos == Base(f, origin) + offset IN
    /\ IF pos < 0 \/ pos > streams[f].size THEN Returns(-1) /\ UNCHANGED streams
       ELSE Returns(0) /\ To(f, pos)
    /\ Keeps

\* k bytes are read.
Takes(f, k, r) ==
    /\ buf' = [i \in 1 .. k |-> mem[streams[f].data][streams[f].pos + i]]
    /\ To(f, streams[f].pos + k) /\ ret' = r /\ Keeps /\ UNCHANGED files
Elements_Bytes(f, size) == streams[f].size - streams[f].pos
Elements(f, size) == (streams[f].size - streams[f].pos) \div size
Fread(f, size, count) ==
    LET k == IF count > Elements(f, size) THEN Elements(f, size) ELSE count
    IN Takes(f, k * size, k)

\* fgets: the bytes up to a newline, the buffer's end or the stream's.
Fgets(f, n) ==
    LET s == streams[f]
        most == Min({n - 1, s.size - s.pos})
        lines == {k \in 1 .. most : mem[s.data][s.pos + k] = NEWLINE}
        k == IF lines = {} THEN most ELSE Min(lines)
    IN IF n < 2 THEN Returns(-1) /\ Keeps /\ UNCHANGED streams
       ELSE Takes(f, k, IF k = 0 THEN -1 ELSE 0)

\* fwrite: the block grows to twice what is needed, which may move it.
Grows(f, n) == streams[f].pos + n + 1 > streams[f].capacity
Fwrite(f, s) ==
    LET old == streams[f]
        behind == old.pos + Len(s)
        cap == IF Grows(f, Len(s)) THEN (behind + 1) * 2 ELSE old.capacity
        new == IF Grows(f, Len(s)) THEN Realloc(heap, old.data, cap)
               ELSE [h |-> heap, p |-> old.data, moved |-> FALSE]
        size == IF behind > old.size THEN behind ELSE old.size
        bytes == IF new.moved THEN Copied(Raw(new.h, new.p), 0, mem[old.data])
                 ELSE mem[old.data]
    IN /\ behind <= MaxBytes
       /\ \/ ~ old.writable /\ Returns(0) /\ Keeps /\ UNCHANGED streams
          \/ old.writable /\ new.p = NULL /\ Returns(0) /\ Keeps /\ UNCHANGED streams
          \/ /\ old.writable /\ new.p # NULL
             /\ heap' = new.h /\ Update(f, new.p, size, cap, behind)
             /\ mem' = Set(Unset(mem, old.data), new.p,
                           Copied(Copied(bytes, old.pos, s), size, <<0>>))
             /\ Returns(Len(s)) /\ UNCHANGED client

Remove(n) == FS!Delete(n) /\ UNCHANGED <<heap, mem, streams, client>>
-----------------------------------------------------------------------------
Opening ==
    /\ MayHold
    /\ OpenMemstream \/ \E n \in Names \cup LongNames \cup {NoName}, w \in BOOLEAN : Fopen(n, w)
Using ==
    \E f \in DOMAIN streams :
        \/ Fflush(f) \/ Fclose(f)
        \/ \E offset \in {-1, 0, 1}, origin \in {"SET", "CUR", "END"} : Fseek(f, offset, origin)
        \/ \E size \in 1 .. 2, count \in Buffers : Fread(f, size, count)
        \/ \E n \in Buffers : Fgets(f, n)
        \/ \E s \in Contents : Fwrite(f, s)

StdioNext ==
    \/ \E n \in Requests : Allocates(n)
    \/ \E p \in client : Frees(p) \/ \E n \in Requests : Resizes(p, n)
    \/ Opening \/ Using
    \/ \E n \in Names \cup LongNames : Remove(n)

StdioSpec == StdioInit /\ [][StdioNext]_stdioVars
-----------------------------------------------------------------------------
(* Properties.                                                             *)

\* Some gap between the blocks in use holds a header and n bytes.
Gap(n) ==
    \E x \in {0} \cup {p + Room(heap, p) : p \in InUse(heap)} :
        /\ x + HEADER + n <= ARENA
        /\ \A p \in InUse(heap) : p + Room(heap, p) <= x \/ x + HEADER + n <= p - HEADER

\* The list of blocks covers the arena without gap or overlap, in order, and no
\* two neighbours are free; so malloc fails exactly when no gap between the
\* blocks in use could hold the request: neither splitting nor coalescing loses
\* memory, in any order of requests.
HeapExact ==
    /\ \A b \in DOMAIN heap :
        LET end == b + HEADER + heap[b].size IN
        /\ heap[b].size > 0 /\ heap[b].size % ALIGN = 0
        /\ heap[b].next = IF end = ARENA THEN NULL ELSE end
        /\ heap[b].next # NULL => /\ heap[b].next \in DOMAIN heap
                                  /\ ~ (heap[b].available /\ heap[heap[b].next].available)
    /\ \A n \in Requests : n <= ARENA - HEADER =>
        ((Malloc(heap, n).p = NULL) <=> ~ Gap(Rounded(n)))

\* Every block in use has exactly one owner, a FILE, the data of one or the
\* program, on every path that opens, fails to open, grows or closes a stream:
\* nothing leaks and nothing is used after it was freed.  A stream's bytes and
\* their terminating zero lie within its block.
BlocksOwned ==
    LET data == {streams[f].data : f \in DOMAIN streams} IN
    /\ InUse(heap) = client \cup DOMAIN streams \cup data
    /\ Cardinality(InUse(heap)) = Cardinality(client) + 2 * Cardinality(DOMAIN streams)
    /\ \A f \in DOMAIN streams : LET s == streams[f] IN
        /\ s.pos <= s.size /\ s.size < s.capacity /\ s.capacity <= Room(heap, s.data)
        /\ mem[s.data][s.size + 1] = 0

Abstract == INSTANCE Streams WITH
    open <- [f \in DOMAIN streams |-> [bytes |-> Bytes(f), pos |-> streams[f].pos,
                writable |-> streams[f].writable, name |-> streams[f].name,
                out |-> streams[f].out]],
    Ids <- {k * ALIGN : k \in 1 .. ARENA \div ALIGN}, MaxFiles <- MAX_FILES, MaxSize <- MAX_FILE_SIZE, BadNames <- LongNames

\* The FILE layer implements streams: whatever blocks move or fail to grow, a
\* stream keeps exactly the bytes that were written, a failed call changes
\* nothing and a successful close of a file saves them all.
ImplementsStreams == Abstract!SSpec
=============================================================================
