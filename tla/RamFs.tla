-------------------------------- MODULE RamFs ---------------------------------
(***************************************************************************)
(* The RAM file system of jordyOS/kernel.c: a table of slots, each with a  *)
(* name, a size and a data array.  Deleting a file or shortening it leaves *)
(* the old bytes in the array.  Calls are atomic (a cooperative kernel);   *)
(* the shell, the editor, TCP transfers and user processes make them in    *)
(* any order.  Null pointers and negative sizes, which the calls refuse    *)
(* first, are not among the arguments.                                     *)
(*                                                                         *)
(* D_bug is definition D with a slip in it; see README.md.                 *)
(***************************************************************************)
EXTENDS Integers, Sequences, FiniteSets

CONSTANTS
    MAX_FILES,       \* slots (16)
    MAX_FILE_SIZE,   \* bytes of a file (16384)
    Names,           \* names a file may have: 1 .. MAX_FILENAME_LEN-1 characters
    BadNames,        \* the empty name and longer ones
    NameLen,         \* the length of a name
    NoName,          \* the name of a free slot
    Byte,            \* values of a byte
    Contents,        \* what may be written, too long ones included
    Buffers          \* sizes of the buffers of a read or a listing

ASSUME FsAssumption ==
    /\ MAX_FILES \in Nat \ {0} /\ MAX_FILE_SIZE \in Nat
    /\ Names \cap BadNames = {} /\ NoName \notin Names
    /\ NameLen \in [Names -> Nat \ {0}]
    /\ 0 \in Byte /\ Contents \subseteq Seq(Byte) /\ Buffers \subseteq Nat \ {0}

VARIABLES fs_files, ret, buf

vars == <<fs_files, ret, buf>>

Slots == 1 .. MAX_FILES
Cells == 1 .. MAX_FILE_SIZE
FileType == [in_use : BOOLEAN, name : Names \cup {NoName}, size : 0 .. MAX_FILE_SIZE,
             data : [Cells -> Byte]]

\* fs_init
Init ==
    /\ fs_files = [i \in Slots |-> [in_use |-> FALSE, name |-> NoName, size |-> 0,
                                    data |-> [k \in Cells |-> 0]]]
    /\ ret = 0 /\ buf = <<>>

UsedIn(t) == {i \in Slots : t[i].in_use}
Used == UsedIn(fs_files)

\* fs_find_file and fs_find_empty_slot: the first slot that qualifies.
Found(i, n) ==
    /\ i \in Used /\ fs_files[i].name = n
    /\ \A j \in 1 .. i - 1 : ~ (j \in Used /\ fs_files[j].name = n)
Missing(n) == \A i \in Used : fs_files[i].name # n
FirstEmpty(i) == i \in Slots \ Used /\ \A j \in 1 .. i - 1 : j \in Used

Fails(code) == ret' = code /\ UNCHANGED <<fs_files, buf>>

\* memcpy: the first cells are replaced, the others keep what they held.
Copied(data, d) == [k \in Cells |-> IF k <= Len(d) THEN d[k] ELSE data[k]]

Filled_KeepsSize(i, n, d) ==
    [in_use |-> TRUE, name |-> n, data |-> Copied(fs_files[i].data, d),
     size |-> IF fs_files[i].size > Len(d) THEN fs_files[i].size ELSE Len(d)]
Filled(i, n, d) ==
    [in_use |-> TRUE, name |-> n, data |-> Copied(fs_files[i].data, d), size |-> Len(d)]

Target_AlwaysNew(i, n) == FirstEmpty(i)
Target(i, n) == Found(i, n) \/ (Missing(n) /\ FirstEmpty(i))

TooLong(d) == Len(d) > MAX_FILE_SIZE

\* sys_write_file
WriteFile(n, d) ==
    \/ n \in BadNames /\ Fails(-2)
    \/ n \notin BadNames /\ TooLong(d) /\ Fails(-3)
    \/ n \notin BadNames /\ ~ TooLong(d) /\ Missing(n) /\ Used = Slots /\ Fails(-4)
    \/ /\ n \notin BadNames /\ ~ TooLong(d)
       /\ \E i \in Slots :
            Target(i, n) /\ fs_files' = [fs_files EXCEPT ![i] = Filled(i, n, d)]
       /\ ret' = 0 /\ UNCHANGED buf

\* The bytes of a file.
Content(f) == [k \in 1 .. f.size |-> f.data[k]]

\* sys_read_file into a buffer of room bytes
ReadFile(n, room) ==
    \/ Missing(n) /\ Fails(-1)
    \/ \E i \in Slots : Found(i, n) /\ room < fs_files[i].size /\ Fails(-2)
    \/ \E i \in Slots :
         /\ Found(i, n) /\ fs_files[i].size <= room
         /\ ret' = fs_files[i].size /\ buf' = Content(fs_files[i]) /\ UNCHANGED fs_files

Freed(i) == [in_use |-> FALSE, name |-> NoName, size |-> 0, data |-> fs_files[i].data]

\* sys_delete_file
DeleteFile(n) ==
    \/ Missing(n) /\ Fails(-1)
    \/ /\ \E i \in Slots : Found(i, n) /\ fs_files' = [fs_files EXCEPT ![i] = Freed(i)]
       /\ ret' = 0 /\ UNCHANGED buf

Next == \E n \in Names \cup BadNames :
    \/ \E d \in Contents : WriteFile(n, d)
    \/ \E room \in Buffers : ReadFile(n, room)
    \/ DeleteFile(n)

Spec == Init /\ [][Next]_vars
-----------------------------------------------------------------------------
(* sys_list_files: the names, separated by a newline, in a buffer of bl    *)
(* bytes.  names is what was copied, cp the characters written, the        *)
(* newlines included; the listing stops at the first name, or newline,     *)
(* that does not fit.                                                      *)

Listing(names, cp, full) == [names |-> names, cp |-> cp, full |-> full]
ListStep_FillsBuffer(l, n, bl) ==
    LET at == IF l.names = <<>> THEN l.cp ELSE l.cp + 1 IN
    IF l.names # <<>> /\ l.cp >= bl - 1 THEN Listing(l.names, l.cp, TRUE)
    ELSE IF at + NameLen[n] <= bl
    THEN Listing(Append(l.names, n), at + NameLen[n], FALSE)
    ELSE Listing(l.names, at, TRUE)
ListStep(l, n, bl) ==
    LET at == IF l.names = <<>> THEN l.cp ELSE l.cp + 1 IN
    IF l.names # <<>> /\ l.cp >= bl - 1 THEN Listing(l.names, l.cp, TRUE)
    ELSE IF at + NameLen[n] < bl
    THEN Listing(Append(l.names, n), at + NameLen[n], FALSE)
    ELSE Listing(l.names, at, TRUE)

ListFiles(bl) ==
    LET upto[i \in 0 .. MAX_FILES] ==
          IF i = 0 THEN Listing(<<>>, 0, FALSE)
          ELSE IF upto[i - 1].full \/ i \notin Used THEN upto[i - 1]
          ELSE ListStep(upto[i - 1], fs_files[i].name, bl)
    IN upto[MAX_FILES]
-----------------------------------------------------------------------------
(* Properties.                                                             *)

\* Every slot keeps its type; sizes stay within the array.
TypeOK == fs_files \in [Slots -> FileType] /\ ret \in Int /\ buf \in Seq(Byte)

Unique(t) ==
    /\ \A i \in Slots : t[i].in_use <=> t[i].name # NoName
    /\ \A i, j \in UsedIn(t) : t[i].name = t[j].name => i = j

\* No two slots hold the same name, and exactly the used slots have one: a
\* sequence of writes and deletes that reuses slots in another order never makes
\* a file that fs_find_file cannot reach.
NamesUnique == Unique(fs_files)

\* The map a table stands for.
NamesIn(t) == {t[i].name : i \in UsedIn(t)}
SlotOf(t, n) == CHOOSE i \in UsedIn(t) : t[i].name = n
Files(t) == [n \in NamesIn(t) |-> Content(t[SlotOf(t, n)])]

Map == INSTANCE FileMap WITH files <- Files(fs_files), MaxFiles <- MAX_FILES,
                             MaxSize <- MAX_FILE_SIZE

\* The table implements the map: a failed call changes no file, a read returns
\* exactly the bytes of the last write under that name and none of the stale
\* ones behind them or of a deleted file, and a new file is refused only when
\* there are MAX_FILES others.
ImplementsMap == Map!Spec

\* Characters of a complete listing: the names and a separator between two.
Needed ==
    LET upto[i \in 0 .. MAX_FILES] ==
          IF i = 0 THEN -1
          ELSE upto[i - 1] + (IF i \in Used THEN NameLen[fs_files[i].name] + 1 ELSE 0)
    IN upto[MAX_FILES]

\* A listing never fills the buffer (the last byte is the terminating zero), it
\* is a part of the table in order, without a gap, and it is complete when the
\* buffer has at least a byte more than the names and their separators take.
ListingFits ==
    \A bl \in Buffers :
        LET l == ListFiles(bl)
            listed == {i \in Used : \E k \in 1 .. Len(l.names) : l.names[k] = fs_files[i].name}
        IN /\ l.cp < bl
           /\ Cardinality(listed) = Len(l.names)
           /\ \A i \in listed, j \in Used : j < i => j \in listed
           /\ bl > Needed => listed = Used
=============================================================================
