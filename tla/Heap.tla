--------------------------------- MODULE Heap ---------------------------------
(***************************************************************************)
(* The allocator of ape/platform.c, as operators on a heap h: the headers  *)
(* in the arena, by address, with size, next and available as in struct    *)
(* Block.  A block's bytes lie behind its header.  The list runs in the    *)
(* order of addresses (HeapExact), so its first fitting block is that of   *)
(* the lowest address.  Sizes are in units of which the header is a        *)
(* multiple, as it is of 16 bytes in the code.                             *)
(***************************************************************************)
EXTENDS Integers, FiniteSets, FiniteSetsExt

CONSTANTS
    ARENA,     \* bytes of the arena (4 MiB)
    HEADER,    \* sizeof(Block) (32)
    ALIGN      \* alignment of sizes (16)

ASSUME HeapAssumption ==
    /\ ALIGN \in Nat \ {0} /\ HEADER \in Nat \ {0} /\ ARENA \in Nat
    /\ HEADER % ALIGN = 0 /\ ARENA % ALIGN = 0 /\ HEADER + ALIGN <= ARENA

NULL == -1
Block(size, next, available) == [size |-> size, next |-> next, available |-> available]

\* ape_heap_reset
FreshHeap == [b \in {0} |-> Block(ARENA - HEADER, NULL, TRUE)]

\* The size malloc looks for.
Rounded(n) == IF n = 0 THEN ALIGN ELSE ((n + ALIGN - 1) \div ALIGN) * ALIGN

\* The block that malloc takes.
Fitting(h, n) == {b \in DOMAIN h : h[b].available /\ h[b].size >= n}

Splits(size, n) == size >= n + HEADER + ALIGN

\* The heap with block b in use for n bytes, and its tail split off.
Used(h, b, n) ==
    LET tail == b + HEADER + n IN
    IF Splits(h[b].size, n)
    THEN [a \in DOMAIN h \cup {tail} |->
            IF a = b THEN Block(n, tail, FALSE)
            ELSE IF a = tail THEN Block(h[b].size - n - HEADER, h[b].next, TRUE)
            ELSE h[a]]
    ELSE [h EXCEPT ![b] = Block(@.size, @.next, FALSE)]

\* malloc: the new heap and the pointer, NULL if there is no room.
Malloc(h, size) ==
    LET n == Rounded(size) IN
    IF size > ARENA - HEADER \/ Fitting(h, n) = {} THEN [h |-> h, p |-> NULL]
    ELSE LET b == Min(Fitting(h, n)) IN [h |-> Used(h, b, n), p |-> b + HEADER]

\* The blocks the loop of free joins to the one before.
Joined_Once(h) ==
    LET run == {b \in DOMAIN h : h[b].available /\ \E a \in DOMAIN h : h[a].available /\ h[a].next = b}
    IN IF run = {} THEN {} ELSE {Min(run)}
Joined(h) == {b \in DOMAIN h : h[b].available /\ \E a \in DOMAIN h : h[a].available /\ h[a].next = b}

Coalesced(h) ==
    LET kept == DOMAIN h \ Joined(h)
        run(b) == {a \in Joined(h) : b < a /\ \A c \in kept : c <= b \/ a < c}
        end(b) == IF run(b) = {} THEN b ELSE Max(run(b))
    IN [b \in kept |-> Block(h[b].size + MapThenSumSet(LAMBDA a : HEADER + h[a].size, run(b)),
                             h[end(b)].next, h[b].available)]

\* free
Freed(h, p) ==
    IF p = NULL THEN h
    ELSE Coalesced([h EXCEPT ![p - HEADER] = Block(@.size, @.next, TRUE)])

Room(h, p) == h[p - HEADER].size

\* realloc; moved says that the bytes were copied to another block.
Realloc(h, p, size) ==
    IF size = 0 THEN [h |-> Freed(h, p), p |-> NULL, moved |-> FALSE]
    ELSE IF p # NULL /\ Room(h, p) >= size THEN [h |-> h, p |-> p, moved |-> FALSE]
    ELSE LET new == Malloc(h, size) IN
         IF new.p = NULL \/ p = NULL THEN [h |-> new.h, p |-> new.p, moved |-> FALSE]
         ELSE [h |-> Freed(new.h, p), p |-> new.p, moved |-> TRUE]

InUse(h) == {b + HEADER : b \in {b \in DOMAIN h : ~ h[b].available}}
=============================================================================
