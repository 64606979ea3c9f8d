------------------------------- MODULE BpfMemory ------------------------------
(***************************************************************************)
(* The address space of the eBPF machine, net/bpf_vm.c: a program sees its *)
(* stack, a context, a packet and the values of the maps at fixed virtual  *)
(* addresses, and memory() turns an access into a place in one of them.    *)
(* An environment e has the fields of BpfEnvironment that matter here; a   *)
(* map that has no values is not present.                                  *)
(*                                                                         *)
(* D_bug is definition D with a slip in it; see README.md.                 *)
(***************************************************************************)
EXTENDS Integers

CONSTANTS
    BPF_CTX, BPF_DATA, BPF_STACK, BPF_VALUES,   \* where the regions begin
    STACK_SIZE,                                 \* bytes of the stack (512)
    BPF_MAPS,                                   \* number of maps (7)
    MAP_SPAN, VALUE_SPAN                        \* addresses per map and per value (2^20, 2^8)

ASSUME SpaceAssumption ==
    /\ {BPF_CTX, BPF_DATA, BPF_STACK, BPF_VALUES, STACK_SIZE, BPF_MAPS} \subseteq Nat
    /\ VALUE_SPAN \in Nat \ {0} /\ MAP_SPAN \in Nat \ {0} /\ MAP_SPAN % VALUE_SPAN = 0
    /\ BPF_CTX < BPF_DATA /\ BPF_DATA < BPF_STACK /\ BPF_STACK + STACK_SIZE <= BPF_VALUES

\* Byte "at" of an object: the stack, the context, the packet or the values of
\* map id.
Place(object, id, at) == [object |-> object, id |-> id, at |-> at]
NULL == Place("none", 0, 0)

\* n bytes from an address on lie in the region of a size from base on.
Within(address, n, base, size) ==
    /\ address >= base /\ address - base <= size
    /\ n <= size - (address - base)

Refused_FitsSpan(m, index, within, n, write) ==
    \/ ~ m.present \/ m.value_size > VALUE_SPAN \/ index >= m.capacity
    \/ within > m.value_size \/ n > VALUE_SPAN - within
    \/ write /\ ~ m.writable
Refused(m, index, within, n, write) ==
    \/ ~ m.present \/ m.value_size > VALUE_SPAN \/ index >= m.capacity
    \/ within > m.value_size \/ n > m.value_size - within
    \/ write /\ ~ m.writable

memory(e, address, n, write) ==
    IF Within(address, n, BPF_STACK, STACK_SIZE)
      THEN Place("stack", 0, address - BPF_STACK)
    ELSE IF ~ write /\ Within(address, n, BPF_CTX, e.context_size)
      THEN Place("context", 0, address - BPF_CTX)
    ELSE IF ~ write /\ Within(address, n, BPF_DATA, e.packet_size)
      THEN Place("packet", 0, address - BPF_DATA)
    ELSE IF address < BPF_VALUES \/ address >= BPF_VALUES + BPF_MAPS * MAP_SPAN THEN NULL
    ELSE LET id == (address - BPF_VALUES) \div MAP_SPAN
             offset == (address - BPF_VALUES) % MAP_SPAN
             index == offset \div VALUE_SPAN
             within == offset % VALUE_SPAN
         IN IF Refused(e.maps[id], index, within, n, write) THEN NULL
            ELSE Place("map", id, index * e.maps[id].value_size + within)
-----------------------------------------------------------------------------
(* The reference: which values a byte belongs to, address by address.      *)

\* The pieces of memory a program may access: where a piece begins for the
\* program and in its object, and how long it is.
Piece(base, p, size) == [base |-> base, place |-> p, size |-> size]
Elements(m) ==
    IF m.present /\ m.value_size <= VALUE_SPAN
    THEN {i \in 0 .. m.capacity - 1 : i < MAP_SPAN \div VALUE_SPAN} ELSE {}
Pieces(e, write) ==
    {Piece(BPF_STACK, Place("stack", 0, 0), STACK_SIZE)}
    \cup (IF write THEN {}
          ELSE {Piece(BPF_CTX, Place("context", 0, 0), e.context_size),
                Piece(BPF_DATA, Place("packet", 0, 0), e.packet_size)})
    \cup UNION {{Piece(BPF_VALUES + id * MAP_SPAN + i * VALUE_SPAN,
                       Place("map", id, i * e.maps[id].value_size), e.maps[id].value_size) :
                    i \in Elements(e.maps[id])} :
                id \in {j \in 0 .. BPF_MAPS - 1 : write => e.maps[j].writable}}

\* The places of n bytes from an address on that lie in one piece.
Places(e, address, n, write) ==
    {Place(q.place.object, q.place.id, q.place.at + (address - q.base)) :
        q \in {q \in Pieces(e, write) :
                 \A k \in 0 .. n - 1 : q.base <= address + k /\ address + k < q.base + q.size}}
=============================================================================
