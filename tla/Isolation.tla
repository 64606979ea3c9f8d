------------------------------- MODULE Isolation ------------------------------
(***************************************************************************)
(* The ring-3 processes of jordyOS/isolation.c: launching one in a slot,   *)
(* its system calls with the checks of their arguments, its end by exit or *)
(* fault.  One process runs at a time and nothing preempts a call.         *)
(*                                                                         *)
(* Addresses are numbers below Word (2^64 in the code), and arithmetic on  *)
(* them wraps.  memory is what the user pages of the two slots hold,       *)
(* kernel the rest of the address space as a process sees it: no call may  *)
(* change it.  The files are those of RamFs, and rax is the result of the  *)
(* last call.                                                              *)
(*                                                                         *)
(* Left out: the counters the status command prints, the buffers of the    *)
(* kernel that every call overwrites before it uses them, execution        *)
(* permission, the saved registers, and exceptions of the kernel itself,   *)
(* which halt.                                                             *)
(*                                                                         *)
(* D_bug is definition D with a slip in it; see README.md.                 *)
(***************************************************************************)
EXTENDS Integers, Sequences, FiniteSets

CONSTANTS
    Word, PAGE,                           \* addresses, and bytes of a page
    USER_BASE, MARKER, USER_STARTUP, USER_STACK_BOTTOM, USER_STACK_TOP,
    Segments,                             \* of the image: [start, size, writable]
    Image,                                \* what an image page holds at first
    KernelImage,                          \* what lies outside the user pages
    Commands,                             \* what the startup page is given
    TextMax,                              \* limit of a line or a text
    Pointers, Sizes, Lines,               \* arguments of the calls, typed lines
    MAX_FILES, MAX_FILE_SIZE, NameMax,    \* of the file system
    Names, BadNames, NameLen, NoName, Byte, Contents, Buffers, NEWLINE

VARIABLES
    tables,       \* of each slot: page -> "none", "ro" or "rw"
    memory,       \* of each slot: address -> byte
    kernel,       \* outside the user pages
    active,       \* the slot that runs, or NoProcess
    next_slot,    \* the slot of the next application
    rax,          \* result of the process's last call
    fs_files

\* A file is read into the process's memory, not into a buffer of the caller.
FS == INSTANCE RamFs WITH ret <- rax, buf <- <<>>

process == <<tables, memory, kernel, active, next_slot>>
vars == <<process, rax, fs_files>>

SLOTS == {0, 1}
NoProcess == 2
Addresses == 0 .. Word - 1
User == USER_BASE .. USER_STACK_TOP - 1
Pages == {p \in User : p % PAGE = 0}
PageOf(x) == x - (x % PAGE)

ASSUME LayoutAssumption ==
    /\ Word \in Nat /\ PAGE \in Nat \ {0} /\ USER_BASE \in Nat /\ USER_STACK_TOP \in Nat
    /\ USER_STARTUP \in Nat /\ USER_BASE % PAGE = 0 /\ USER_STACK_TOP % PAGE = 0
    /\ USER_BASE < USER_STACK_TOP /\ USER_STACK_TOP < Word
    /\ Pointers \subseteq Addresses /\ Sizes \subseteq Addresses
ASSUME CallsAssumption ==
    /\ 0 \in Byte /\ NEWLINE \in Byte /\ Image \in [User -> Byte]
    /\ KernelImage \in [Addresses \ User -> Byte]
    /\ Lines \subseteq Seq(Byte \ {0}) /\ Commands \subseteq Seq(Byte)
    /\ TextMax \in Nat /\ NameMax \in Nat
\* Names are strings: those a process can pass are empty or fit a slot.
ASSUME NamesAssumption ==
    /\ MAX_FILES \in Nat \ {0} /\ MAX_FILE_SIZE \in Nat
    /\ Names \subseteq Seq(Byte) \ {<<>>} /\ NameLen = [n \in Names |-> Len(n)]
    /\ \A n \in 0 .. NameMax - 1 : [1 .. n -> Byte \ {0}] \subseteq Names \cup BadNames

\* isolation_init; nothing has been launched.
Init ==
    /\ tables = [s \in SLOTS |-> [p \in Pages |-> "none"]]
    /\ memory = [s \in SLOTS |-> [x \in User |-> 0]]
    /\ kernel = KernelImage
    /\ active = NoProcess /\ next_slot = 0
    /\ FS!Init
-----------------------------------------------------------------------------
(* Launch and end of a process.                                            *)

Covers(g, p) == g.start <= p /\ p < g.start + g.size
Flags(p) ==
    IF p = MARKER \/ p >= USER_STACK_BOTTOM \/ \E g \in Segments : g.writable /\ Covers(g, p)
    THEN "rw"
    ELSE IF p = USER_STARTUP \/ \E g \in Segments : Covers(g, p) THEN "ro" ELSE "none"

\* prepare: the slot is cleared, the image copied, the command line put into
\* the startup page.
Prepared_KeepsMemory(s, cmd) ==
    [x \in User |-> IF x \in USER_STARTUP .. USER_STARTUP + Len(cmd) - 1
                    THEN cmd[x - USER_STARTUP + 1]
                    ELSE IF Image[x] # 0 THEN Image[x] ELSE memory[s][x]]
Prepared(s, cmd) ==
    [x \in User |-> IF x \in USER_STARTUP .. USER_STARTUP + Len(cmd) - 1
                    THEN cmd[x - USER_STARTUP + 1] ELSE Image[x]]

\* run, up to the entry of the process.
Run(s, cmd) ==
    /\ active = NoProcess
    /\ tables' = [tables EXCEPT ![s] = [p \in Pages |-> Flags(p)]]
    /\ memory' = [memory EXCEPT ![s] = Prepared(s, cmd)]
    /\ active' = s /\ rax' = 0
    /\ UNCHANGED <<kernel, fs_files>>

\* Applications alternate between the slots; the self-tests name one.
AppApe(cmd) == Run(next_slot, cmd) /\ next_slot' = 1 - next_slot
TestRun(s, cmd) == Run(s, cmd) /\ UNCHANGED next_slot

\* The process exits, or an exception ends it: run goes on in the kernel.
Leave ==
    /\ active # NoProcess
    /\ active' = NoProcess /\ rax' = 0
    /\ UNCHANGED <<tables, memory, kernel, next_slot, fs_files>>

\* An instruction of the process stores a byte; any other page faults.
Store(x, v) ==
    /\ active # NoProcess /\ tables[active][PageOf(x)] = "rw"
    /\ memory' = [memory EXCEPT ![active][x] = v]
    /\ UNCHANGED <<tables, kernel, active, next_slot, rax, fs_files>>
-----------------------------------------------------------------------------
(* Checks of arguments.                                                    *)

Granted(p, write) ==
    /\ p \in Pages
    /\ tables[active][p] # "none" /\ (write => tables[active][p] = "rw")

\* The sum of two words.
Plus(x, y) == (x + y) % Word

\* user_range, and the pages its loop visits.
Visited(a, last) == {p \in PageOf(a) .. last : p % PAGE = 0}
UserRange_Wraps(a, size, write) ==
    \/ size = 0
    \/ /\ active # NoProcess /\ USER_BASE <= a /\ a < USER_STACK_TOP
       /\ Plus(a, size) <= USER_STACK_TOP
       /\ \A p \in Visited(a, Plus(a, size - 1)) : Granted(p, write)
UserRange_FirstPage(a, size, write) ==
    \/ size = 0
    \/ /\ active # NoProcess /\ USER_BASE <= a /\ a < USER_STACK_TOP
       /\ Granted(PageOf(a), write)
UserRange(a, size, write) ==
    \/ size = 0
    \/ /\ active # NoProcess /\ USER_BASE <= a /\ a < USER_STACK_TOP
       /\ size <= USER_STACK_TOP - a
       /\ \A p \in Visited(a, Plus(a, size - 1)) : Granted(p, write)

\* user_string: a string of n characters before its zero, within capacity bytes
\* that are readable one by one.
IsString(a, n, capacity) ==
    /\ n < capacity
    /\ \A i \in 0 .. n : /\ a + i < Word /\ UserRange(a + i, 1, FALSE)
                         /\ (memory[active][a + i] = 0 <=> i = n)
HasString(a, capacity) == \E n \in 0 .. capacity - 1 : IsString(a, n, capacity)
StringAt(a, capacity) ==
    LET n == CHOOSE n \in 0 .. capacity - 1 : IsString(a, n, capacity)
    IN [i \in 1 .. n |-> memory[active][a + i - 1]]

\* Reading and writing at user addresses; what is outside is the kernel's.
At(x) == IF x \in User THEN memory[active][x] ELSE kernel[x]
BytesAt(a, size) == [i \in 1 .. size |-> At(Plus(a, i - 1))]

CopyTo(a, bytes) ==
    LET index(x) == 1 + ((x - a) % Word)
        new(x, old) == IF index(x) <= Len(bytes) THEN bytes[index(x)] ELSE old
    IN /\ memory' = [memory EXCEPT ![active] = [x \in User |-> new(x, memory[active][x])]]
       /\ kernel' = [x \in Addresses \ User |-> new(x, kernel[x])]
-----------------------------------------------------------------------------
(* The calls.                                                              *)

Calls == active # NoProcess
Others == <<tables, active, next_slot>>
Answers(r) == rax' = r /\ UNCHANGED <<process, fs_files>>

\* Calls that only read a string (write, drawtext, terminal) or nothing.
TextCall(a) == Calls /\ Answers(IF HasString(a, TextMax) THEN 0 ELSE -1)
PlainCall(r) == Calls /\ Answers(r)

\* The line is what the user types, cut to the buffer.
ReadLine(a, b, line) ==
    \/ Calls /\ (b = 0 \/ b > TextMax \/ ~ UserRange(a, b, TRUE)) /\ Answers(-1)
    \/ /\ Calls /\ b # 0 /\ b <= TextMax /\ UserRange(a, b, TRUE)
       /\ CopyTo(a, SubSeq(line, 1, IF Len(line) < b THEN Len(line) ELSE b - 1) \o <<0>>)
       /\ rax' = 0 /\ UNCHANGED <<Others, fs_files>>

\* The text of a listing l of RamFs: the names, a newline if the next name did not
\* fit behind it, and the first zero of the cleared buffer.
Joined(names) ==
    LET text[k \in 0 .. Len(names)] ==
          IF k = 0 THEN <<>> ELSE IF k = 1 THEN names[1]
          ELSE text[k - 1] \o <<NEWLINE>> \o names[k]
    IN text[Len(names)]
ListText(l) ==
    [i \in 1 .. l.cp + 1 |-> IF i <= Len(Joined(l.names)) THEN Joined(l.names)[i]
                             ELSE IF i <= l.cp THEN NEWLINE ELSE 0]

ListMax == MAX_FILES * (NameMax + 1)
Files(a, b) ==
    \/ Calls /\ (b = 0 \/ b > ListMax \/ ~ UserRange(a, b, TRUE)) /\ Answers(-1)
    \/ /\ Calls /\ b # 0 /\ b <= ListMax /\ UserRange(a, b, TRUE)
       /\ LET l == FS!ListFiles(b) IN
          CopyTo(a, ListText(l)) /\ rax' = l.cp
       /\ UNCHANGED <<Others, fs_files>>

MayRead(a, b, c) == c <= MAX_FILE_SIZE /\ HasString(a, NameMax) /\ UserRange(b, c, TRUE)

\* sys_read_file, which refuses an empty buffer, and the copy of what it read.
ReadFileCall(a, b, c) ==
    \/ Calls /\ ~ MayRead(a, b, c) /\ Answers(-1)
    \/ /\ Calls /\ MayRead(a, b, c) /\ (c = 0 \/ FS!Missing(StringAt(a, NameMax)))
       /\ Answers(-1)
    \/ /\ Calls /\ MayRead(a, b, c) /\ c # 0
       /\ \E i \in FS!Slots :
            /\ FS!Found(i, StringAt(a, NameMax)) /\ c < fs_files[i].size /\ Answers(-2)
    \/ /\ Calls /\ MayRead(a, b, c) /\ c # 0
       /\ \E i \in FS!Slots :
            /\ FS!Found(i, StringAt(a, NameMax)) /\ fs_files[i].size <= c
            /\ CopyTo(b, FS!Content(fs_files[i])) /\ rax' = fs_files[i].size
       /\ UNCHANGED <<Others, fs_files>>

MayWrite(a, b, c) == c <= MAX_FILE_SIZE /\ HasString(a, NameMax) /\ UserRange(b, c, FALSE)

WriteFileCall(a, b, c) ==
    \/ Calls /\ ~ MayWrite(a, b, c) /\ Answers(-1)
    \/ /\ Calls /\ MayWrite(a, b, c)
       /\ FS!WriteFile(StringAt(a, NameMax), BytesAt(b, c))
       /\ UNCHANGED process

DeleteFileCall(a) ==
    \/ Calls /\ ~ HasString(a, NameMax) /\ Answers(-1)
    \/ /\ Calls /\ HasString(a, NameMax)
       /\ FS!DeleteFile(StringAt(a, NameMax))
       /\ UNCHANGED process

Launch == \E cmd \in Commands : AppApe(cmd) \/ \E s \in SLOTS : TestRun(s, cmd)
Call ==
    \/ \E a \in Pointers : TextCall(a) \/ DeleteFileCall(a)
    \/ \E r \in {0, -1} : PlainCall(r)
    \/ \E a \in Pointers, b \in Sizes : Files(a, b) \/ \E l \in Lines : ReadLine(a, b, l)
    \/ \E a, b \in Pointers, c \in Sizes : ReadFileCall(a, b, c) \/ WriteFileCall(a, b, c)

Next == \/ Launch \/ Call
        \/ Leave
        \/ \E x \in User, v \in Byte : Store(x, v)

Spec == Init /\ [][Next]_vars
-----------------------------------------------------------------------------
(* Properties.                                                             *)

\* Every variable keeps its type.
TypeOK ==
    /\ tables \in [SLOTS -> [Pages -> {"none", "ro", "rw"}]]
    /\ memory \in [SLOTS -> [User -> Byte]]
    /\ kernel \in [Addresses \ User -> Byte]
    /\ active \in SLOTS \cup {NoProcess} /\ next_slot \in SLOTS
    /\ rax \in Int

\* Access as the memory unit decides it, byte by byte.
Accessible(x, write) == x \in User /\ Granted(PageOf(x), write)
RangeSpec(a, size, write) ==
    \A k \in 0 .. size - 1 : a + k < Word /\ Accessible(a + k, write)

\* user_range accepts exactly the ranges of which the process could access every
\* byte itself: no wrap of the address, page in the middle, guard page or last
\* byte of the stack makes it accept more or less.
RangeExact ==
    active # NoProcess =>
        \A a, size \in Addresses, write \in BOOLEAN :
            UserRange(a, size, write) <=> RangeSpec(a, size, write)

\* No call of a process, whatever its arguments, makes the kernel write to its
\* own part of the address space.
KernelIntact == kernel = KernelImage

\* A process finds nothing of an earlier one: at launch every byte of its slot
\* outside the startup record is the image's.  From then on a slot changes only in
\* the writable pages of the process that runs in it, whatever calls it makes.
PagesPrivate ==
    [][\A s \in SLOTS :
         IF active = NoProcess /\ active' = s
         THEN \E cmd \in Commands : \A x \in User :
                memory'[s][x] = Image[x] \/ x \in USER_STARTUP .. USER_STARTUP + Len(cmd) - 1
         ELSE \A x \in User : memory'[s][x] # memory[s][x] =>
                active = s /\ tables[s][PageOf(x)] = "rw"]_vars
=============================================================================
