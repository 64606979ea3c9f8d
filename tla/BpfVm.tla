--------------------------------- MODULE BpfVm --------------------------------
(***************************************************************************)
(* The eBPF machine, net/bpf_vm.c: bpf_validate as an operator on a        *)
(* program, bpf_execute as a step per instruction.  Any program runs, also *)
(* one that bpf_validate refuses: bpf_execute does not rely on it.         *)
(*                                                                         *)
(* An instruction has the fields of BpfInsn, with regs split into d and s; *)
(* code is the opcode byte.  A byte has BYTE_BITS bits, a word eight bytes,*)
(* so that words stay small.  The context is e.context, of context_size    *)
(* bytes, the packet likewise; stack and values are written.               *)
(*                                                                         *)
(* why is the way a run failed: "malformed" for an instruction that is not *)
(* one, "memory" for a refused access, "lookup" for a refused lookup, and  *)
(* "end" when the program or its fuel ran out.                             *)
(***************************************************************************)
EXTENDS BpfMemory, Powers, Sequences, SequencesExt

CONSTANTS
    BPF_HANDLES, BPF_MAX_INSNS, BPF_FUEL,
    BYTE_BITS,          \* bits of a byte (8)
    Programs,           \* the programs considered
    Environments        \* and what they run on

VARIABLES code, env, pc, r, stack, values, steps, status, why

machine == <<code, env, pc, r, stack, values, steps, status, why>>

Regs == 0 .. 10
ARRAY == 2
PERCPU_ARRAY == 6
LPM == 11
MAP_ARRAY == 12

InsnType == [code : Nat, d : Nat, s : Nat, offset : Int, imm : Int]

\* What prepare and fw_bpf_xdp of net/fw_bpf.c hand over: context and packet end
\* before the next region begins, and a map that is present has room for its values.
MapOK(m, v) ==
    /\ m.present \in BOOLEAN /\ m.writable \in BOOLEAN
    /\ {m.key_size, m.value_size, m.capacity, m.entries} \subseteq Nat
    /\ m.present => m.capacity * m.value_size <= Len(v)
EnvironmentOK(e) ==
    /\ e.context \in Seq(Nat) /\ e.context_size = Len(e.context) /\ BPF_CTX + e.context_size <= BPF_DATA
    /\ e.packet \in Seq(Nat) /\ e.packet_size = Len(e.packet) /\ BPF_DATA + e.packet_size <= BPF_STACK
    /\ e.values \in [0 .. BPF_MAPS - 1 -> Seq(Nat)]
    /\ \A id \in 0 .. BPF_MAPS - 1 : MapOK(e.maps[id], e.values[id])

ASSUME VmAssumption ==
    /\ BYTE_BITS \in Nat \ {0} /\ {BPF_HANDLES, BPF_MAX_INSNS, BPF_FUEL} \subseteq Nat
    /\ Programs \subseteq Seq(InsnType)
    /\ \A e \in Environments : EnvironmentOK(e)

\* Unsigned numbers of n bytes, and their signed reading.
Pow(n) == Pow2[BYTE_BITS * n]
Signed(a, n) == IF a >= Pow(n) \div 2 THEN a - Pow(n) ELSE a

\* The parts of an opcode: class, operation, source bit, size bits.
cls(i) == i.code % 8
op(i) == (i.code \div 16) * 16
x(i) == (i.code \div 8) % 2 = 1
Count(c) == Len(c)
At(c, p) == c[p + 1]
-----------------------------------------------------------------------------
(* bpf_validate.                                                           *)

target_AnySlot(c, p, offset) == p + 1 + offset \in 0 .. Count(c) - 1
target(c, p, offset) ==
    p + 1 + offset \in 0 .. Count(c) - 1 /\ At(c, p + 1 + offset).code # 0

\* The operand that an instruction does not use is zero.
Unused(i) == IF x(i) THEN i.imm = 0 ELSE i.s = 0

ValidWide(c, p) ==
    LET i == At(c, p) IN
    /\ i.d # 10 /\ i.offset = 0 /\ i.s <= 1 /\ p + 1 < Count(c)
    /\ LET hi == At(c, p + 1) IN
         /\ hi.code = 0 /\ hi.d = 0 /\ hi.s = 0 /\ hi.offset = 0
         /\ i.s = 1 => i.imm \in 0 .. BPF_MAPS - 1 /\ hi.imm = 0
ValidAlu(i) ==
    /\ i.d # 10 /\ i.offset = 0
    /\ IF op(i) = 208 THEN cls(i) = 4 /\ i.s = 0 /\ i.imm \in {16, 32, 64}
       ELSE /\ op(i) <= 192 /\ Unused(i)
            /\ op(i) = 128 => ~ x(i) /\ i.imm = 0
ValidMemory(i) ==
    /\ i.code \div 32 = 3
    /\ cls(i) = 1 => i.d # 10 /\ i.imm = 0
    /\ cls(i) = 2 => i.s = 0
    /\ cls(i) = 3 => i.imm = 0
ValidJump(c, p) ==
    LET i == At(c, p)
        plain == i.d = 0 /\ i.s = 0
    IN CASE op(i) = 128 -> i.code = 133 /\ plain /\ i.offset = 0 /\ i.imm = 1
         [] op(i) = 144 -> i.code = 149 /\ plain /\ i.offset = 0 /\ i.imm = 0
         [] OTHER -> /\ op(i) <= 208 /\ target(c, p, i.offset)
                     /\ IF op(i) = 0 THEN i.code = 5 /\ plain /\ i.imm = 0 ELSE Unused(i)
ValidInsn(c, p) ==
    LET i == At(c, p) IN
    /\ i.d <= 10 /\ i.s <= 10
    /\ CASE i.code = 24 -> ValidWide(c, p)
         [] i.code # 24 /\ cls(i) \in {4, 7} -> ValidAlu(i)
         [] i.code # 24 /\ cls(i) \in {1, 2, 3} -> ValidMemory(i)
         [] i.code # 24 /\ cls(i) \in {5, 6} -> ValidJump(c, p)
         [] OTHER -> FALSE

\* The slots the loop visits: all but the second halves of wide loads.
Visits(c) ==
    LET visits[p \in 0 .. Count(c) - 1] ==
            p = 0 \/ ~ (visits[p - 1] /\ At(c, p - 1).code = 24)
    IN {p \in 0 .. Count(c) - 1 : visits[p]}
Validate(c) ==
    /\ Count(c) \in 1 .. BPF_MAX_INSNS
    /\ \A p \in Visits(c) : ValidInsn(c, p)
    /\ \E p \in Visits(c) : At(c, p).code = 149
-----------------------------------------------------------------------------
(* Memory and maps.                                                        *)

Total(q) == LET t[k \in 0 .. Len(q)] == IF k = 0 THEN 0 ELSE t[k - 1] + q[k] IN t[Len(q)]
read_le(b) == Total([k \in 1 .. Len(b) |-> b[k] * Pow(k - 1)])
Bytes(a, n) == [k \in 1 .. n |-> (a \div Pow(k - 1)) % Pow(1)]

\* n bytes from a place on.
Load(p, n) ==
    [k \in 1 .. n |-> CASE p.object = "stack" -> stack[p.at + k]
                        [] p.object = "context" -> env.context[p.at + k]
                        [] p.object = "packet" -> env.packet[p.at + k]
                        [] p.object = "map" -> values[p.id][p.at + k]]
Over(b, at, new) == [k \in 1 .. Len(b) |-> IF k \in at + 1 .. at + Len(new) THEN new[k - at] ELSE b[k]]
Store(p, b) ==
    IF p.object = "stack" THEN stack' = Over(stack, p.at, b) /\ UNCHANGED values
    ELSE values' = [values EXCEPT ![p.id] = Over(@, p.at, b)] /\ UNCHANGED stack

\* lookup: the result in r[0], 0 for no entry, -1 if it is refused.
Bit(b, k) == (b[5 + k \div BYTE_BITS] \div Pow2[BYTE_BITS - 1 - (k % BYTE_BITS)]) % 2
LongestPrefix(m, key) ==
    LET bits(i) == read_le(SubSeq(m.keys[i], 1, 4))
        found == {i \in 1 .. m.entries :
                    /\ bits(i) <= read_le(SubSeq(key, 1, 4))
                    /\ \A k \in 0 .. bits(i) - 1 : Bit(key, k) = Bit(m.keys[i], k)}
        best == {i \in found : \A j \in found : bits(j) < bits(i) \/ (bits(j) = bits(i) /\ i <= j)}
    IN {i - 1 : i \in best}
lookup(handle, key_address) ==
    LET id == handle - BPF_HANDLES
        m == env.maps[id]
        p == memory(env, key_address, m.key_size, FALSE)
        key == Load(p, m.key_size)
        first == read_le(SubSeq(key, 1, 4))
        found == IF m.type = LPM THEN LongestPrefix(m, key) ELSE {first}
        index == CHOOSE i \in found : TRUE
        inner == read_le(SubSeq(values[id], index * 4 + 1, index * 4 + 4))
    IN IF \/ id \notin 0 .. BPF_MAPS - 1 \/ ~ m.present \/ m.key_size \notin {4, 20}
          \/ m.value_size \notin 1 .. VALUE_SPAN
          \/ m.capacity > MAP_SPAN \div VALUE_SPAN \/ p = NULL
          \/ m.type \notin {LPM, ARRAY, PERCPU_ARRAY, MAP_ARRAY}
          \/ m.type = LPM /\ (m.key_size # 20 \/ first > 16 * BYTE_BITS \/ m.entries > m.capacity)
       THEN -1
       ELSE IF found = {} \/ index >= m.capacity THEN 0
       ELSE IF m.type # MAP_ARRAY THEN BPF_VALUES + id * MAP_SPAN + index * VALUE_SPAN
       ELSE IF m.value_size # 4 \/ inner >= BPF_MAPS THEN -1 ELSE BPF_HANDLES + inner
-----------------------------------------------------------------------------
(* Arithmetic on words of n bytes.                                         *)

\* divide: one bit of the quotient per pass.
Divide(a, b, remainder) ==
    LET W == 8 * BYTE_BITS
        pass[k \in 0 .. W] ==
            IF k = 0 THEN [q |-> 0, r |-> 0]
            ELSE LET last == pass[k - 1]
                     next == (2 * last.r + ((a \div Pow2[W - k]) % 2)) % Pow(8)
                 IN IF last.r >= Pow(8) \div 2 \/ next >= b
                    THEN [q |-> last.q + Pow2[W - k], r |-> (next - b) % Pow(8)]
                    ELSE [q |-> last.q, r |-> next]
    IN IF b = 0 THEN (IF remainder THEN a ELSE 0)
       ELSE IF remainder THEN pass[W].r ELSE pass[W].q

\* A word as the set of its bits.
BitsOf(a) == {k \in 0 .. 8 * BYTE_BITS - 1 : (a \div Pow2[k]) % 2 = 1}
WordOf(s) == Total([k \in 1 .. 8 * BYTE_BITS |-> IF k - 1 \in s THEN Pow2[k - 1] ELSE 0])
BitOr(a, b) == WordOf(BitsOf(a) \cup BitsOf(b))
BitAnd(a, b) == WordOf(BitsOf(a) \cap BitsOf(b))
BitXor(a, b) == WordOf((BitsOf(a) \cup BitsOf(b)) \ (BitsOf(a) \cap BitsOf(b)))

Times(a, b) == ((a % Pow(4)) * b + (((a \div Pow(4)) * b) % Pow(4)) * Pow(4)) % Pow(8)
Alu(i, a, b, n) ==
    LET shift == b % (n * BYTE_BITS) IN
    CASE op(i) = 0 -> (a + b) % Pow(n)
      [] op(i) = 16 -> (a - b) % Pow(n)
      [] op(i) = 32 -> Times(a, b) % Pow(n)
      [] op(i) = 48 -> Divide(a, b, FALSE)
      [] op(i) = 64 -> BitOr(a, b)
      [] op(i) = 80 -> BitAnd(a, b)
      [] op(i) = 96 -> (a % Pow2[n * BYTE_BITS - shift]) * Pow2[shift]
      [] op(i) = 112 -> a \div Pow2[shift]
      [] op(i) = 128 -> (0 - a) % Pow(n)
      [] op(i) = 144 -> Divide(a, b, TRUE)
      [] op(i) = 160 -> BitXor(a, b)
      [] op(i) = 176 -> b
      [] op(i) = 192 -> (Signed(a, n) \div Pow2[shift]) % Pow(n)

\* The low bytes of a word, reversed for the big-endian form.
Swapped(i, a) ==
    LET b == Bytes(a, i.imm \div 8) IN read_le(IF x(i) THEN Reverse(b) ELSE b)

Jumps(i, a, b, n) ==
    CASE op(i) = 0 -> TRUE
      [] op(i) = 16 -> a = b
      [] op(i) = 32 -> a > b
      [] op(i) = 48 -> a >= b
      [] op(i) = 64 -> BitsOf(a) \cap BitsOf(b) # {}
      [] op(i) = 80 -> a # b
      [] op(i) = 96 -> Signed(a, n) > Signed(b, n)
      [] op(i) = 112 -> Signed(a, n) >= Signed(b, n)
      [] op(i) = 160 -> a < b
      [] op(i) = 176 -> a <= b
      [] op(i) = 192 -> Signed(a, n) < Signed(b, n)
      [] op(i) = 208 -> Signed(a, n) <= Signed(b, n)
-----------------------------------------------------------------------------
(* bpf_execute, one instruction per step.                                  *)

Start ==
    /\ code \in Programs /\ env \in Environments
    /\ pc = 0 /\ r = [k \in Regs |-> IF k = 1 THEN BPF_CTX
                                     ELSE IF k = 10 THEN BPF_STACK + STACK_SIZE ELSE 0]
    /\ stack = [k \in 1 .. STACK_SIZE |-> 0] /\ values = env.values
    /\ steps = 0 /\ status = "run" /\ why = "none"

\* The size check and the condition of the loop.
Runs == Count(code) \in 1 .. BPF_MAX_INSNS /\ pc < Count(code) /\ steps < BPF_FUEL

Insn == At(code, pc)
Operand(n) == (IF x(Insn) THEN r[Insn.s] ELSE Insn.imm) % Pow(n)
Stops(s, w) == status' = s /\ why' = w /\ UNCHANGED <<pc, r, stack, values>>
Fails(w) == Stops("failed", w)
Sets(d, v) == r' = [r EXCEPT ![d] = v]
Continues(next) == pc' = next /\ UNCHANGED <<status, why>>

ExecWide ==
    LET i == Insn
        a == (i.imm % Pow(4)) + (At(code, pc + 1).imm % Pow(4)) * Pow(4)
    IN IF pc + 1 >= Count(code) \/ i.d = 10 \/ i.s > 1 \/ (i.s = 1 /\ a >= BPF_MAPS)
       THEN Fails("malformed")
       ELSE /\ Sets(i.d, IF i.s = 1 THEN a + BPF_HANDLES ELSE a)
            /\ Continues(pc + 2) /\ UNCHANGED <<stack, values>>
ExecAlu ==
    LET i == Insn
        n == IF cls(i) = 7 THEN 8 ELSE 4
    IN IF \/ i.d = 10 \/ op(i) > 208
          \/ op(i) = 208 /\ (n = 8 \/ i.imm \notin {16, 32, 64})
       THEN Fails("malformed")
       ELSE /\ Sets(i.d, IF op(i) = 208 THEN Swapped(i, r[i.d])
                         ELSE Alu(i, r[i.d] % Pow(n), Operand(n), n))
            /\ Continues(pc + 1) /\ UNCHANGED <<stack, values>>
ExecMemory ==
    LET i == Insn
        n == CASE (i.code \div 8) % 4 = 0 -> 4 [] (i.code \div 8) % 4 = 1 -> 2
               [] (i.code \div 8) % 4 = 2 -> 1 [] (i.code \div 8) % 4 = 3 -> 8
        address == (r[IF cls(i) = 1 THEN i.s ELSE i.d] + i.offset) % Pow(8)
        p == memory(env, address, n, cls(i) # 1)
    IN IF i.code \div 32 # 3 \/ (cls(i) = 1 /\ i.d = 10) THEN Fails("malformed")
       ELSE IF p = NULL THEN Fails("memory")
       ELSE /\ Continues(pc + 1)
            /\ IF cls(i) = 1 THEN Sets(i.d, read_le(Load(p, n))) /\ UNCHANGED <<stack, values>>
               ELSE /\ Store(p, Bytes((IF cls(i) = 3 THEN r[i.s] ELSE i.imm) % Pow(8), n))
                    /\ UNCHANGED r
ExecCall ==
    LET v == lookup(r[1], r[2]) IN
    IF Insn.imm # 1 THEN Fails("malformed")
    ELSE IF v = -1 THEN Fails("lookup")
    ELSE /\ r' = [k \in Regs |-> IF k = 0 THEN v ELSE IF k \in 1 .. 5 THEN 0 ELSE r[k]]
         /\ Continues(pc + 1) /\ UNCHANGED <<stack, values>>
ExecJump ==
    LET i == Insn
        n == IF cls(i) = 6 THEN 4 ELSE 8
        taken == Jumps(i, r[i.d] % Pow(n), Operand(n), n)
    IN IF op(i) \in {128, 144} \/ op(i) > 208 \/ (taken /\ ~ target(code, pc, i.offset))
       THEN Fails("malformed")
       ELSE /\ Continues(IF taken THEN pc + 1 + i.offset ELSE pc + 1)
            /\ UNCHANGED <<r, stack, values>>

Exec ==
    /\ status = "run" /\ Runs
    /\ steps' = steps + 1 /\ UNCHANGED <<code, env>>
    /\ LET i == Insn IN
       \/ (i.d > 10 \/ i.s > 10) /\ Fails("malformed")
       \/ /\ i.d <= 10 /\ i.s <= 10
          /\ \/ i.code = 24 /\ ExecWide
             \/ cls(i) \in {4, 7} /\ ExecAlu
             \/ cls(i) \in {1, 2, 3} /\ ExecMemory
             \/ i.code = 149 /\ Stops("ok", "none")
             \/ i.code = 133 /\ ExecCall
             \/ cls(i) \in {5, 6} /\ i.code \notin {133, 149} /\ ExecJump
             \/ cls(i) = 0 /\ i.code # 24 /\ Fails("malformed")

\* The end without an exit: the program was too long, or it or its fuel ran out.
Exhausted ==
    /\ status = "run" /\ ~ Runs
    /\ Fails("end") /\ UNCHANGED <<code, env, steps>>

Step == Exec \/ Exhausted

Execution == Start /\ [][Step]_machine
-----------------------------------------------------------------------------
(* Properties.                                                             *)

\* Whatever a register holds, memory() accepts an access through it exactly when
\* all of its bytes lie in the stack, the context, the packet or one value of a
\* map, and with the right to write; and it yields the place of those bytes.
MemoryExact ==
    \A a \in {r[k] : k \in Regs}, n \in {1, 2, 4, 8, 20}, write \in BOOLEAN :
        {memory(env, a, n, write)} \ {NULL} = Places(env, a, n, write)

\* A program that bpf_validate accepts never reaches an instruction that
\* bpf_execute does not know, on any path and whatever its data: it ends by
\* itself, by a refused access or lookup, or out of fuel.
ValidatedRuns == Validate(code) => why # "malformed"
=============================================================================
