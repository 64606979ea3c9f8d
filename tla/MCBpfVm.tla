------------------------------- MODULE MCBpfVm --------------------------------
(* An instance of BpfVm with bytes of two bits: programs of two instructions  *)
(* behind a lookup in one of five maps, an address, or nothing.               *)
EXTENDS BpfVm, Bitwise

I(c, d, s, offset, imm) == [code |-> c, d |-> d, s |-> s, offset |-> offset, imm |-> imm]

\* A map: read-only and writable arrays, a map of maps, prefixes, an odd one.
Map(type, ks, vs, cap, w, keys) ==
    [type |-> type, key_size |-> ks, value_size |-> vs, capacity |-> cap, writable |-> w,
     present |-> TRUE, keys |-> keys, entries |-> Len(keys)]
Key(bits, b) == <<bits, 0, 0, 0, b>> \o [k \in 1 .. 15 |-> 0]
MCMaps == [id \in 0 .. BPF_MAPS - 1 |->
    CASE id = 0 -> Map(ARRAY, 4, 3, 2, FALSE, <<>>)
      [] id = 1 -> Map(PERCPU_ARRAY, 4, 8, 2, TRUE, <<>>)
      [] id = 2 -> Map(MAP_ARRAY, 4, 4, 1, FALSE, <<>>)
      [] id = 3 -> Map(LPM, 20, 4, 2, FALSE, <<Key(1, 2), Key(2, 3)>>)
      [] id = 4 -> [Map(ARRAY, 4, 4, 1, TRUE, <<>>) EXCEPT !.present = FALSE]]
MCValues == [id \in 0 .. BPF_MAPS - 1 |->
    [k \in 1 .. MCMaps[id].value_size * MCMaps[id].capacity |-> IF k = 1 THEN 1 ELSE k % 4]]
MCEnvironments ==
    {[context_size |-> 4, context |-> <<0, 2, 0, 0>>, packet_size |-> Len(b), packet |-> b,
      maps |-> MCMaps, values |-> MCValues] : b \in {<<3>>, Key(2, 3)}}

Exit == I(149, 0, 0, 0, 0)
Wide(d, s, a) == <<I(24, d, s, 0, a % Pow(4)), I(0, 0, 0, 0, a \div Pow(4))>>
Move(d, a) == I(183, d, 0, 0, a)
Call == I(133, 0, 0, 0, 1)

\* Nothing, an address at the edge of a region, or a lookup with its key on the
\* stack or in the packet.
MCPrefixes ==
    {<<>>} \cup {Wide(0, 0, a) : a \in {BPF_DATA + 20, BPF_STACK - 1, BPF_VALUES + 7,
                                        BPF_VALUES + MAP_SPAN + 15, BPF_VALUES + 2 * MAP_SPAN,
                                        BPF_VALUES + BPF_MAPS * MAP_SPAN, Pow(8) - 1}}
    \cup {Wide(1, 1, id) \o <<Move(2, a), Call>> :
            id \in 0 .. BPF_MAPS - 1, a \in {BPF_STACK, BPF_DATA}}
    \cup {Wide(1, 1, 2) \o <<Move(2, BPF_STACK), Call, I(191, 1, 0, 0, 0), Move(2, BPF_STACK), Call>>}

\* Valid instructions of every class, and ones that break a single rule.
MCInsns ==
    {I(c, 0, 0, o, 0) : c \in {97, 105, 113, 121}, o \in {-1, 0, 1, 5}}
    \cup {I(c, 0, 3, o, 0) : c \in {99, 115, 123}, o \in {0, 6}} \cup {I(114, 10, 0, -1, 3)}
    \cup {I(op4 * 16 + c, 0, 0, 0, imm) : op4 \in 0 .. 13, c \in {4, 7}, imm \in {2}} \cup {I(135, 0, 0, 0, 0), I(132, 0, 0, 0, 0)}
    \cup {I(220, 0, 0, 0, 16), I(212, 0, 0, 0, 16), I(15, 0, 10, 0, 0), I(12, 0, 3, 0, 0)}
    \cup {I(op4 * 16 + c, 0, 0, 1, 1) : op4 \in 0 .. 14, c \in {5, 6}}
    \cup {I(c, 0, 0, o, 0) : c \in {5, 29}, o \in {-1, -2, -3, 0, 2}}
    \cup {I(183, 10, 0, 0, 0), I(97, 10, 0, 0, 0), I(183, 11, 0, 0, 0), I(24, 0, 2, 0, 0),
          I(24, 0, 1, 0, 5), I(0, 0, 0, 0, 0), I(133, 0, 0, 0, 2), I(193, 0, 0, 0, 0), Call, Exit}
MCSeconds ==
    {I(113, 4, 0, 0, 0), I(123, 0, 0, 0, 0), I(5, 0, 0, -2, 0), I(29, 0, 0, -2, 0), I(24, 3, 0, 0, 1),
     I(0, 0, 0, 0, 0), Exit}
MCPrograms == {p \o <<a, b, Exit>> : p \in MCPrefixes, a \in MCInsns, b \in MCSeconds}
    \cup {[k \in 1 .. BPF_MAX_INSNS + 1 |-> Exit]}

\* The division loop computes the quotient and the remainder.
Numbers == {0, 1, 2, 3, 7, 255, 256, 32767, 32768, 65534, 65535}
ASSUME DivisionExact ==
    \A a \in Numbers, b \in Numbers \ {0} :
        Divide(a, b, FALSE) = a \div b /\ Divide(a, b, TRUE) = a % b

\* The operations on sets of bits are the ones on words.
ASSUME BitsExact ==
    \A a, b \in Numbers : BitOr(a, b) = (a | b) /\ BitAnd(a, b) = (a & b) /\ BitXor(a, b) = (a ^^ b)
=============================================================================
