----------------------------- MODULE RamFsProofs ------------------------------
(***************************************************************************)
(* RamFs keeps its names unique and implements FileMap, for every number   *)
(* and size of slots and every set of names and contents.  The lemmas      *)
(* speak of a table t, so that they serve for the table before and after a *)
(* step.  That a listing fits is an induction over the slots that          *)
(* sys_list_files visits.                                                  *)
(***************************************************************************)
EXTENDS RamFs, SequenceTheorems, FiniteSetTheorems, NumberLemmas, TLAPS

Tables == {t \in [Slots -> FileType] : Unique(t)}
Inv == TypeOK /\ NamesUnique

-----------------------------------------------------------------------------
(* Tables and the maps they stand for.                                     *)

\* The fields of a slot.
LEMMA SlotType ==
    ASSUME NEW t \in [Slots -> FileType], NEW i \in Slots
    PROVE  /\ t[i].in_use \in BOOLEAN /\ t[i].name \in Names \cup {NoName}
           /\ t[i].size \in Nat /\ t[i].size <= MAX_FILE_SIZE
           /\ t[i].data \in [Cells -> Byte]
  BY FsAssumption DEF FileType

\* A slot with the name n is the one the map takes.
LEMMA SlotOfName ==
    ASSUME NEW t \in Tables, NEW i \in UsedIn(t)
    PROVE  SlotOf(t, t[i].name) = i
  BY DEF Tables, Unique, SlotOf

LEMMA FilesAt ==
    ASSUME NEW t \in Tables, NEW i \in UsedIn(t)
    PROVE  /\ t[i].name \in NamesIn(t)
           /\ Files(t)[t[i].name] = Content(t[i])
  <1>1. t[i].name \in NamesIn(t)
    BY DEF NamesIn
  <1>2. SlotOf(t, t[i].name) = i
    BY SlotOfName
  <1> QED BY <1>1, <1>2 DEF Files

\* The content of a slot is a sequence of its size.
LEMMA ContentType ==
    ASSUME NEW t \in [Slots -> FileType], NEW i \in Slots
    PROVE  Content(t[i]) \in Seq(Byte) /\ Len(Content(t[i])) = t[i].size
  <1>1. /\ t[i].size \in Nat /\ t[i].size <= MAX_FILE_SIZE
        /\ t[i].data \in [Cells -> Byte]
    BY SlotType
  <1>2. Content(t[i]) \in [1 .. t[i].size -> Byte]
    BY <1>1, FsAssumption DEF Content, Cells
  <1> QED BY <1>1, <1>2, SeqDef, LenProperties

\* There are as many names as used slots.
LEMMA NamesCount ==
    ASSUME NEW t \in Tables
    PROVE  /\ IsFiniteSet(Slots) /\ Cardinality(Slots) = MAX_FILES
           /\ IsFiniteSet(UsedIn(t)) /\ Cardinality(NamesIn(t)) = Cardinality(UsedIn(t))
  <1>1. IsFiniteSet(Slots) /\ Cardinality(Slots) = MAX_FILES
    BY FS_Interval, FsAssumption DEF Slots
  <1>2. IsFiniteSet(UsedIn(t))
    BY <1>1, FS_Subset DEF UsedIn
  <1> DEFINE f == [i \in UsedIn(t) |-> t[i].name]
  <1>3. f \in Surjection(UsedIn(t), NamesIn(t))
    BY DEF Surjection, NamesIn
  <1>4. f \in Injection(UsedIn(t), NamesIn(t))
    <2>1. f \in [UsedIn(t) -> NamesIn(t)]
      BY DEF NamesIn
    <2>2. \A i, j \in UsedIn(t) : f[i] = f[j] => i = j
      BY DEF Tables, Unique
    <2> HIDE DEF f
    <2> QED BY <2>1, <2>2 DEF Injection, IsInjective
  <1>5. Cardinality(NamesIn(t)) = Cardinality(UsedIn(t))
    BY <1>2, <1>3, <1>4, FS_Surjection
  <1> QED BY <1>1, <1>2, <1>5

\* The map is full when every slot is used, and not while one is free.
LEMMA FullMap ==
    ASSUME NEW t \in Tables
    PROVE  /\ UsedIn(t) = Slots => Cardinality(NamesIn(t)) = MAX_FILES
           /\ UsedIn(t) # Slots => Cardinality(NamesIn(t)) < MAX_FILES
  <1>1. /\ IsFiniteSet(Slots) /\ Cardinality(Slots) = MAX_FILES
        /\ Cardinality(NamesIn(t)) = Cardinality(UsedIn(t))
        /\ IsFiniteSet(UsedIn(t))
    BY NamesCount
  <1>2. UsedIn(t) \in SUBSET Slots
    BY DEF UsedIn
  <1>3. Cardinality(UsedIn(t)) <= Cardinality(Slots)
        /\ (Cardinality(Slots) = Cardinality(UsedIn(t)) => Slots = UsedIn(t))
    BY <1>1, <1>2, FS_Subset
  <1>4. Cardinality(UsedIn(t)) \in Nat /\ MAX_FILES \in Nat
    BY <1>1, FS_CardinalityType, FsAssumption
  <1> QED BY <1>1, <1>3, <1>4

-----------------------------------------------------------------------------
(* One slot changes.                                                       *)

Changed(t, u, i, f) == u[i] = f /\ \A j \in Slots \ {i} : u[j] = t[j]

\* Filling a slot with a file n binds n in the map.
LEMMA Binds ==
    ASSUME NEW t \in Tables, NEW u \in Tables, NEW i \in Slots, NEW f,
           Changed(t, u, i, f), f.in_use, i \in UsedIn(t) => t[i].name = f.name
    PROVE  Files(u) = [m \in NamesIn(t) \cup {f.name} |->
                          IF m = f.name THEN Content(f) ELSE Files(t)[m]]
  <1>1. UsedIn(u) = UsedIn(t) \cup {i} /\ i \in UsedIn(u)
    BY DEF UsedIn, Changed
  <1>2. NamesIn(u) = NamesIn(t) \cup {f.name}
    BY <1>1 DEF NamesIn, Changed, UsedIn
  <1>3. Files(u)[f.name] = Content(f)
    BY <1>1, FilesAt DEF Changed
  <1>4. ASSUME NEW m \in NamesIn(t), m # f.name
        PROVE  Files(u)[m] = Files(t)[m]
    <2>1. PICK j \in UsedIn(t) : m = t[j].name
      BY DEF NamesIn
    <2>2. j # i
      BY <1>4, <2>1
    <2>3. j \in UsedIn(u) /\ u[j] = t[j]
      BY <1>1, <2>2 DEF Changed, UsedIn
    <2>4. Files(u)[u[j].name] = Content(u[j]) /\ Files(t)[t[j].name] = Content(t[j])
      BY <2>1, <2>3, FilesAt
    <2> QED BY <2>1, <2>3, <2>4
  <1>5. Files(u) = [m \in NamesIn(u) |-> Files(u)[m]]
    BY DEF Files
  <1> QED BY <1>2, <1>3, <1>4, <1>5

\* Freeing the slot of n unbinds n.
LEMMA Unbinds ==
    ASSUME NEW t \in Tables, NEW u \in Tables, NEW i \in UsedIn(t), NEW f,
           Changed(t, u, i, f), ~ f.in_use
    PROVE  Files(u) = [m \in NamesIn(t) \ {t[i].name} |-> Files(t)[m]]
  <1>1. UsedIn(u) = UsedIn(t) \ {i}
    BY DEF UsedIn, Changed
  <1>2. \A j \in UsedIn(u) : u[j] = t[j] /\ t[j].name # t[i].name
    BY <1>1 DEF Changed, UsedIn, Tables, Unique
  <1>3. NamesIn(u) = NamesIn(t) \ {t[i].name}
    <2>1. ASSUME NEW m \in NamesIn(u) PROVE m \in NamesIn(t) \ {t[i].name}
      BY <1>1, <1>2 DEF NamesIn
    <2>2. ASSUME NEW m \in NamesIn(t) \ {t[i].name} PROVE m \in NamesIn(u)
      <3>1. PICK j \in UsedIn(t) : m = t[j].name
        BY DEF NamesIn
      <3>2. j \in UsedIn(u)
        BY <1>1, <3>1
      <3> QED BY <1>2, <3>1, <3>2 DEF NamesIn
    <2> QED BY <2>1, <2>2
  <1>4. ASSUME NEW m \in NamesIn(u) PROVE Files(u)[m] = Files(t)[m]
    <2>1. PICK j \in UsedIn(u) : m = u[j].name
      BY DEF NamesIn
    <2>2. u[j] = t[j] /\ j \in UsedIn(t)
      BY <1>1, <1>2
    <2>3. Files(u)[u[j].name] = Content(u[j]) /\ Files(t)[t[j].name] = Content(t[j])
      BY <2>2, FilesAt
    <2> QED BY <2>1, <2>2, <2>3
  <1>5. Files(u) = [m \in NamesIn(u) |-> Files(u)[m]]
    BY DEF Files
  <1> QED BY <1>3, <1>4, <1>5

-----------------------------------------------------------------------------
(* Steps.                                                                  *)

\* A file of n fits in the slot that WriteFile chooses.
LEMMA WriteStep ==
    ASSUME Inv, NEW n \in Names, NEW d \in Contents, ~ TooLong(d),
           NEW i \in Slots, Target(i, n),
           fs_files' = [fs_files EXCEPT ![i] = Filled(i, n, d)]
    PROVE  /\ fs_files \in Tables /\ fs_files' \in Tables
           /\ Changed(fs_files, fs_files', i, Filled(i, n, d))
           /\ Content(Filled(i, n, d)) = d
           /\ i \in Used => fs_files[i].name = n
  <1> DEFINE f == Filled(i, n, d)
  <1>1. fs_files \in [Slots -> FileType] /\ Unique(fs_files)
    BY DEF Inv, TypeOK, NamesUnique
  <1>2. d \in Seq(Byte) /\ Len(d) \in Nat /\ Len(d) <= MAX_FILE_SIZE
    BY FsAssumption, LenProperties DEF TooLong
  <1>3. fs_files[i].data \in [Cells -> Byte]
    BY <1>1, SlotType
  <1>4. Copied(fs_files[i].data, d) \in [Cells -> Byte]
    <2>1. \A k \in 1 .. Len(d) : d[k] \in Byte
      BY <1>2, ElementOfSeq
    <2>2. ASSUME NEW k \in Cells
          PROVE  (IF k <= Len(d) THEN d[k] ELSE fs_files[i].data[k]) \in Byte
      <3>1. fs_files[i].data[k] \in Byte
        BY <1>3
      <3>2. k <= Len(d) => k \in 1 .. Len(d)
        BY <1>2, FsAssumption DEF Cells
      <3> QED BY <2>1, <3>1, <3>2
    <2> QED BY <2>2 DEF Copied
  <1>5. /\ f.in_use = TRUE /\ f.name = n /\ f.size = Len(d)
        /\ f.data = Copied(fs_files[i].data, d) /\ f \in FileType
    BY <1>2, <1>4, FsAssumption DEF Filled, FileType
  <1>6. Content(f) = d
    <2>1. Content(f) = [k \in 1 .. Len(d) |-> Copied(fs_files[i].data, d)[k]]
      BY <1>5 DEF Content
    <2>2. \A k \in 1 .. Len(d) : Copied(fs_files[i].data, d)[k] = d[k]
      BY <1>2, FsAssumption DEF Copied, Cells
    <2>3. d = [k \in 1 .. Len(d) |-> d[k]]
      BY <1>2, LenProperties
    <2> QED BY <2>1, <2>2, <2>3
  <1> HIDE DEF f
  <1>7. fs_files'[i] = f /\ \A j \in Slots \ {i} : fs_files'[j] = fs_files[j]
    BY <1>1 DEF f
  <1>8. \A j \in Used : fs_files[j].name = n => j = i
    BY <1>1 DEF Target, Found, Missing, Unique, Used
  <1>9. i \in Used => fs_files[i].name = n
    BY DEF Target, Found, Missing, FirstEmpty
  <1>10. fs_files' \in [Slots -> FileType]
    BY <1>1, <1>5 DEF f
  <1>11. Unique(fs_files')
    <2>1. \A j \in Slots : fs_files'[j].in_use <=> fs_files'[j].name # NoName
      BY <1>1, <1>5, <1>7, FsAssumption DEF Unique
    <2>2. ASSUME NEW j \in UsedIn(fs_files'), NEW k \in UsedIn(fs_files'),
                 fs_files'[j].name = fs_files'[k].name
          PROVE  j = k
      <3>1. j \in Slots /\ k \in Slots /\ fs_files'[j].in_use /\ fs_files'[k].in_use
        BY DEF UsedIn
      <3>2. CASE j # i /\ k # i
        BY <1>1, <1>7, <2>2, <3>1, <3>2 DEF Unique, UsedIn
      <3>3. CASE j = i /\ k # i
        BY <1>5, <1>7, <1>8, <2>2, <3>1, <3>3 DEF Used, UsedIn
      <3>4. CASE k = i /\ j # i
        BY <1>5, <1>7, <1>8, <2>2, <3>1, <3>4 DEF Used, UsedIn
      <3> QED BY <3>2, <3>3, <3>4
    <2> QED BY <2>1, <2>2 DEF Unique
  <1> QED BY <1>1, <1>6, <1>7, <1>9, <1>10, <1>11 DEF Tables, Changed, f

LEMMA DeleteStep ==
    ASSUME Inv, NEW n, NEW i \in Slots, Found(i, n),
           fs_files' = [fs_files EXCEPT ![i] = Freed(i)]
    PROVE  /\ fs_files \in Tables /\ fs_files' \in Tables
           /\ Changed(fs_files, fs_files', i, Freed(i)) /\ ~ Freed(i).in_use
  <1> DEFINE f == Freed(i)
  <1>1. fs_files \in [Slots -> FileType] /\ Unique(fs_files)
    BY DEF Inv, TypeOK, NamesUnique
  <1>2. fs_files[i].data \in [Cells -> Byte]
    BY <1>1, SlotType
  <1>3. f.in_use = FALSE /\ f.name = NoName /\ f \in FileType
    BY <1>2, FsAssumption DEF Freed, FileType
  <1> HIDE DEF f
  <1>4. fs_files'[i] = f /\ \A j \in Slots \ {i} : fs_files'[j] = fs_files[j]
    BY <1>1 DEF f
  <1>5. fs_files' \in [Slots -> FileType]
    BY <1>1, <1>3 DEF f
  <1>6. Unique(fs_files')
    <2>1. \A j \in Slots : fs_files'[j].in_use <=> fs_files'[j].name # NoName
      BY <1>1, <1>3, <1>4 DEF Unique
    <2>2. \A j \in UsedIn(fs_files') : j \in UsedIn(fs_files) /\ fs_files'[j] = fs_files[j]
      BY <1>3, <1>4 DEF UsedIn
    <2>3. \A j, k \in UsedIn(fs_files) : fs_files[j].name = fs_files[k].name => j = k
      BY <1>1 DEF Unique
    <2>4. \A j, k \in UsedIn(fs_files') : fs_files'[j].name = fs_files'[k].name => j = k
      BY <2>2, <2>3
    <2> QED BY <2>1, <2>4 DEF Unique
  <1> QED BY <1>1, <1>3, <1>4, <1>5, <1>6 DEF Tables, Changed, f

\* A name that fs_find_file finds is a name of the map, bound to that slot.
LEMMA FoundAt ==
    ASSUME Inv, NEW n, NEW i \in Slots, Found(i, n)
    PROVE  /\ i \in UsedIn(fs_files) /\ fs_files[i].name = n
           /\ n \in NamesIn(fs_files) /\ Files(fs_files)[n] = Content(fs_files[i])
  <1>1. i \in UsedIn(fs_files) /\ fs_files[i].name = n /\ fs_files \in Tables
    BY DEF Found, Used, Inv, TypeOK, NamesUnique, Tables
  <1> QED BY <1>1, FilesAt

LEMMA MissingFrom ==
    ASSUME NEW n, Missing(n) PROVE n \notin NamesIn(fs_files)
  BY DEF Missing, NamesIn, Used

\* The names of the map are valid.
LEMMA NamesValid == ASSUME Inv PROVE NamesIn(fs_files) \subseteq Names
  <1> SUFFICES ASSUME NEW i \in UsedIn(fs_files) PROVE fs_files[i].name \in Names
    BY DEF NamesIn
  <1>1. i \in Slots /\ fs_files[i].in_use /\ fs_files \in [Slots -> FileType]
    BY DEF UsedIn, Inv, TypeOK
  <1>2. fs_files[i].name \in Names \cup {NoName}
    BY <1>1, SlotType
  <1> QED BY <1>1, <1>2 DEF Inv, NamesUnique, Unique
-----------------------------------------------------------------------------
(* The invariant.                                                          *)

LEMMA InitInv == Init => Inv
  <1> SUFFICES ASSUME Init PROVE Inv
    OBVIOUS
  <1>1. fs_files \in [Slots -> FileType]
    BY FsAssumption DEF Init, FileType, Cells
  <1>2. \A i \in Slots : fs_files[i].in_use = FALSE /\ fs_files[i].name = NoName
    BY DEF Init
  <1>3. Unique(fs_files)
    BY <1>2 DEF Unique, UsedIn
  <1>4. ret \in Int /\ buf \in Seq(Byte)
    BY DEF Init
  <1> QED BY <1>1, <1>3, <1>4 DEF Inv, TypeOK, NamesUnique

\* A call that only answers.
LEMMA FailsInv == ASSUME Inv, NEW c \in Int, Fails(c) PROVE Inv'
  BY DEF Inv, TypeOK, NamesUnique, Fails

LEMMA NextInv == ASSUME Inv, [Next]_vars PROVE Inv'
  <1>1. CASE UNCHANGED vars
    BY <1>1 DEF vars, Inv, TypeOK, NamesUnique
  <1>2. ASSUME NEW n \in Names \cup BadNames, NEW d \in Contents, WriteFile(n, d)
        PROVE  Inv'
    <2>1. CASE Fails(-2) \/ Fails(-3) \/ Fails(-4)
      BY <2>1, FailsInv
    <2>2. CASE /\ n \notin BadNames /\ ~ TooLong(d)
               /\ \E i \in Slots : /\ Target(i, n)
                                   /\ fs_files' = [fs_files EXCEPT ![i] = Filled(i, n, d)]
               /\ ret' = 0 /\ UNCHANGED buf
      <3>1. PICK i \in Slots : /\ Target(i, n)
                               /\ fs_files' = [fs_files EXCEPT ![i] = Filled(i, n, d)]
        BY <2>2
      <3>2. fs_files' \in Tables
        BY <1>2, <2>2, <3>1, WriteStep
      <3>3. ret' \in Int /\ buf' \in Seq(Byte)
        BY <2>2 DEF Inv, TypeOK
      <3> QED BY <3>2, <3>3 DEF Inv, TypeOK, NamesUnique, Tables
    <2> QED BY <1>2, <2>1, <2>2 DEF WriteFile
  <1>3. ASSUME NEW n \in Names \cup BadNames, NEW room \in Buffers, ReadFile(n, room)
        PROVE  Inv'
    <2>1. CASE Fails(-1) \/ Fails(-2)
      BY <2>1, FailsInv
    <2>2. CASE \E i \in Slots : /\ ret' = fs_files[i].size /\ buf' = Content(fs_files[i])
                                /\ UNCHANGED fs_files
      <3>1. PICK i \in Slots : /\ ret' = fs_files[i].size /\ buf' = Content(fs_files[i])
                               /\ UNCHANGED fs_files
        BY <2>2
      <3>2. fs_files \in [Slots -> FileType]
        BY DEF Inv, TypeOK
      <3>3. ret' \in Int /\ buf' \in Seq(Byte)
        BY <3>1, <3>2, SlotType, ContentType
      <3> QED BY <3>1, <3>3 DEF Inv, TypeOK, NamesUnique
    <2> QED BY <1>3, <2>1, <2>2 DEF ReadFile
  <1>4. ASSUME NEW n \in Names \cup BadNames, DeleteFile(n)
        PROVE  Inv'
    <2>1. CASE Fails(-1)
      BY <2>1, FailsInv
    <2>2. CASE /\ \E i \in Slots : /\ Found(i, n)
                                   /\ fs_files' = [fs_files EXCEPT ![i] = Freed(i)]
               /\ ret' = 0 /\ UNCHANGED buf
      <3>1. PICK i \in Slots : Found(i, n) /\ fs_files' = [fs_files EXCEPT ![i] = Freed(i)]
        BY <2>2
      <3>2. fs_files' \in Tables
        BY <3>1, DeleteStep
      <3>3. ret' \in Int /\ buf' \in Seq(Byte)
        BY <2>2 DEF Inv, TypeOK
      <3> QED BY <3>2, <3>3 DEF Inv, TypeOK, NamesUnique, Tables
    <2> QED BY <1>4, <2>1, <2>2 DEF DeleteFile
  <1> QED BY <1>1, <1>2, <1>3, <1>4 DEF Next

\* Every call keeps the types of the table, the answer and the buffer, and
\* the names unique.
THEOREM RamFsInvariant == Spec => []Inv
  <1>1. Inv /\ [Next]_vars => Inv'
    BY NextInv
  <1> QED BY <1>1, InitInv, PTL DEF Spec

\* No sequence of calls makes two files of one name, or a file that
\* fs_find_file cannot reach.
THEOREM NamesUniqueAlways == Spec => []NamesUnique
  <1>1. Inv => NamesUnique
    BY DEF Inv
  <1> QED BY <1>1, RamFsInvariant, PTL
-----------------------------------------------------------------------------
(* The refinement.                                                         *)

\* Map!Cardinality is the Cardinality that FileMap takes from FiniteSets.
LEMMA SameCardinality == \A S : Map!Cardinality(S) = Cardinality(S)
  BY DEF Map!Cardinality, Cardinality

LEMMA InitRefines == Init => Map!Init
  <1> SUFFICES ASSUME Init PROVE Map!Init
    OBVIOUS
  <1>1. \A i \in Slots : fs_files[i].in_use = FALSE
    BY DEF Init
  <1>2. NamesIn(fs_files) = {}
    BY <1>1 DEF NamesIn, UsedIn
  <1>3. Files(fs_files) = [n \in {} |-> <<>>]
    BY <1>2 DEF Files
  <1> QED BY <1>3 DEF Init, Map!Init

\* A call that only answers leaves the map alone.
LEMMA FailsRefines == ASSUME NEW c, Fails(c) PROVE Map!Fails(c)
  BY DEF Fails, Map!Fails

LEMMA WriteRefines ==
    ASSUME Inv, NEW n \in Names \cup BadNames, NEW d \in Contents, WriteFile(n, d)
    PROVE  Map!Write(n, d)
  <1>1. DOMAIN Files(fs_files) = NamesIn(fs_files) /\ fs_files \in Tables
    BY DEF Files, Inv, TypeOK, NamesUnique, Tables
  <1>2. n \notin BadNames => n \in Names
    OBVIOUS
  <1>3. Len(d) \in Nat /\ (TooLong(d) <=> Len(d) > MAX_FILE_SIZE)
        /\ (~ TooLong(d) <=> Len(d) <= MAX_FILE_SIZE)
    BY FsAssumption, LenProperties DEF TooLong
  <1>4. CASE n \in BadNames /\ Fails(-2)
    BY <1>4, FailsRefines DEF Map!Write
  <1>5. CASE n \notin BadNames /\ TooLong(d) /\ Fails(-3)
    BY <1>2, <1>3, <1>5, FailsRefines DEF Map!Write
  <1>6. CASE n \notin BadNames /\ ~ TooLong(d) /\ Missing(n) /\ Used = Slots /\ Fails(-4)
    <2>1. Cardinality(NamesIn(fs_files)) = MAX_FILES /\ n \notin NamesIn(fs_files)
      BY <1>1, <1>6, FullMap, MissingFrom DEF Used
    <2>2. Map!Fails(-4)
      BY <1>6, FailsRefines
    <2>3. /\ n \in Names /\ Len(d) <= MAX_FILE_SIZE
          /\ n \notin DOMAIN Files(fs_files) /\ Cardinality(DOMAIN Files(fs_files)) = MAX_FILES
      BY <1>1, <1>2, <1>3, <1>6, <2>1
    <2> QED BY <2>2, <2>3, SameCardinality, Zenon DEF Map!Write
  <1>7. CASE /\ n \notin BadNames /\ ~ TooLong(d)
             /\ \E i \in Slots : /\ Target(i, n)
                                 /\ fs_files' = [fs_files EXCEPT ![i] = Filled(i, n, d)]
             /\ ret' = 0 /\ UNCHANGED buf
    <2>1. PICK i \in Slots : /\ Target(i, n)
                             /\ fs_files' = [fs_files EXCEPT ![i] = Filled(i, n, d)]
      BY <1>7
    <2>2. n \in Names
      BY <1>2, <1>7
    <2>3. /\ fs_files' \in Tables
          /\ Changed(fs_files, fs_files', i, Filled(i, n, d))
          /\ Content(Filled(i, n, d)) = d
          /\ i \in Used => fs_files[i].name = n
      BY <1>7, <2>1, <2>2, WriteStep
    <2>4. Filled(i, n, d).in_use /\ Filled(i, n, d).name = n
      BY DEF Filled
    <2>5. Files(fs_files') = [m \in NamesIn(fs_files) \cup {n} |->
                                 IF m = n THEN d ELSE Files(fs_files)[m]]
      <3> DEFINE f == Filled(i, n, d)
      <3>1. Changed(fs_files, fs_files', i, f) /\ Content(f) = d /\ f.in_use /\ f.name = n
            /\ (i \in UsedIn(fs_files) => fs_files[i].name = f.name)
        BY <2>3, <2>4 DEF Used
      <3> HIDE DEF f
      <3>2. Files(fs_files') = [m \in NamesIn(fs_files) \cup {f.name} |->
                                   IF m = f.name THEN Content(f) ELSE Files(fs_files)[m]]
        BY <1>1, <2>3, <3>1, Binds, SMTT(60)
      <3> QED BY <3>1, <3>2
    <2>6. n \in NamesIn(fs_files) \/ Cardinality(NamesIn(fs_files)) < MAX_FILES
      <3>1. CASE Found(i, n)
        BY <3>1, FoundAt
      <3>2. CASE FirstEmpty(i)
        BY <1>1, <3>2, FullMap DEF FirstEmpty, Used
      <3> QED BY <2>1, <3>1, <3>2 DEF Target
    <2>7. Files(fs_files)' = Map!Bind(n, d)
      BY <1>1, <2>5 DEF Map!Bind
    <2>8. /\ n \in Names /\ Len(d) <= MAX_FILE_SIZE
          /\ n \in DOMAIN Files(fs_files) \/ Cardinality(DOMAIN Files(fs_files)) < MAX_FILES
      BY <1>1, <1>3, <1>7, <2>2, <2>6
    <2> QED BY <1>7, <2>7, <2>8, SameCardinality, Zenon DEF Map!Write
  <1> QED BY <1>4, <1>5, <1>6, <1>7 DEF WriteFile

LEMMA ReadRefines ==
    ASSUME Inv, NEW n, NEW room \in Buffers, ReadFile(n, room)
    PROVE  Map!Read(n, room)
  <1>1. DOMAIN Files(fs_files) = NamesIn(fs_files) /\ fs_files \in [Slots -> FileType]
    BY DEF Files, Inv, TypeOK
  <1>2. CASE Missing(n) /\ Fails(-1)
    BY <1>1, <1>2, MissingFrom, FailsRefines DEF Map!Read
  <1>3. ASSUME NEW i \in Slots, Found(i, n)
        PROVE  /\ n \in NamesIn(fs_files) /\ Files(fs_files)[n] = Content(fs_files[i])
               /\ Len(Files(fs_files)[n]) = fs_files[i].size
    BY <1>1, <1>3, FoundAt, ContentType
  <1>4. CASE \E i \in Slots : Found(i, n) /\ room < fs_files[i].size /\ Fails(-2)
    BY <1>1, <1>3, <1>4, FailsRefines DEF Map!Read
  <1>5. CASE \E i \in Slots :
               /\ Found(i, n) /\ fs_files[i].size <= room
               /\ ret' = fs_files[i].size /\ buf' = Content(fs_files[i]) /\ UNCHANGED fs_files
    <2>1. Files(fs_files)' = Files(fs_files)
      BY <1>5
    <2> QED BY <1>1, <1>3, <1>5, <2>1 DEF Map!Read
  <1> QED BY <1>2, <1>4, <1>5 DEF ReadFile

LEMMA DeleteRefines ==
    ASSUME Inv, NEW n, DeleteFile(n)
    PROVE  Map!Delete(n)
  <1>1. DOMAIN Files(fs_files) = NamesIn(fs_files)
    BY DEF Files
  <1>2. CASE Missing(n) /\ Fails(-1)
    BY <1>1, <1>2, MissingFrom, FailsRefines DEF Map!Delete
  <1>3. CASE /\ \E i \in Slots : Found(i, n) /\ fs_files' = [fs_files EXCEPT ![i] = Freed(i)]
             /\ ret' = 0 /\ UNCHANGED buf
    <2>1. PICK i \in Slots : Found(i, n) /\ fs_files' = [fs_files EXCEPT ![i] = Freed(i)]
      BY <1>3
    <2>2. i \in UsedIn(fs_files) /\ fs_files[i].name = n /\ n \in NamesIn(fs_files)
      BY <2>1, FoundAt
    <2>3. fs_files \in Tables /\ fs_files' \in Tables
          /\ Changed(fs_files, fs_files', i, Freed(i)) /\ ~ Freed(i).in_use
      BY <2>1, DeleteStep
    <2>4. Files(fs_files') = [m \in NamesIn(fs_files) \ {fs_files[i].name} |-> Files(fs_files)[m]]
      BY <2>2, <2>3, Unbinds
    <2>5. Files(fs_files)' = Map!Unbind(n)
      BY <1>1, <2>2, <2>4 DEF Map!Unbind
    <2> QED BY <1>1, <1>3, <2>2, <2>5 DEF Map!Delete
  <1> QED BY <1>2, <1>3 DEF DeleteFile

\* For every number and size of slots, the table with its reused slots and stale
\* bytes is a map from names to contents: a read returns what was last written
\* under that name, a failed call changes no file, and a new file is refused
\* only when the table is full.
THEOREM RamFsImplementsMap == Spec => ImplementsMap
  <1>1. Inv /\ [Next]_vars => [Map!Next]_(Map!vars)
    <2> SUFFICES ASSUME Inv, [Next]_vars PROVE [Map!Next]_(Map!vars)
      OBVIOUS
    <2>1. CASE UNCHANGED vars
      BY <2>1 DEF vars, Map!vars
    <2>2. CASE Next
      <3>1. PICK n \in Names \cup BadNames :
               \/ \E d \in Contents : WriteFile(n, d)
               \/ \E room \in Buffers : ReadFile(n, room)
               \/ DeleteFile(n)
        BY <2>2 DEF Next
      <3>2. \/ \E d \in Contents : Map!Write(n, d)
            \/ \E room \in Buffers : Map!Read(n, room)
            \/ Map!Delete(n)
        BY <3>1, WriteRefines, ReadRefines, DeleteRefines
      <3> QED BY <3>2 DEF Map!Next
    <2> QED BY <2>1, <2>2
  <1> QED BY <1>1, InitRefines, RamFsInvariant, PTL DEF Spec, ImplementsMap, Map!Spec
-----------------------------------------------------------------------------
(* The listing.                                                            *)

Listings(b) == [names : Seq(Names), cp : 0 .. b - 1, full : BOOLEAN]

\* The slots up to i that are used, and the two computations slot by slot: of
\* sys_list_files for a buffer of b bytes, and of the characters needed.
UsedTo(i) == {j \in Used : j <= i}
Visit(i, l, b) ==
    IF l.full \/ i \notin Used THEN l ELSE ListStep(l, fs_files[i].name, b)
Count(i, n) == n + (IF i \in Used THEN NameLen[fs_files[i].name] + 1 ELSE 0)

ListRun(f, b) ==
    /\ f \in [0 .. MAX_FILES -> Listings(b)] /\ f[0] = Listing(<<>>, 0, FALSE)
    /\ \A i \in 1 .. MAX_FILES : f[i] = Visit(i, f[i - 1], b)
CountRun(g) ==
    /\ g \in [0 .. MAX_FILES -> Int] /\ g[0] = -1
    /\ \A i \in 1 .. MAX_FILES : g[i] = Count(i, g[i - 1])

LEMMA UsedName ==
    ASSUME Inv, NEW i \in Used
    PROVE  i \in Slots /\ fs_files[i].name \in Names /\ NameLen[fs_files[i].name] \in Nat \ {0}
  <1>1. fs_files[i].name \in NamesIn(fs_files) /\ i \in Slots
    BY DEF NamesIn, Used, UsedIn
  <1> QED BY <1>1, NamesValid, FsAssumption

LEMMA ListingIn ==
    ASSUME NEW b, NEW names \in Seq(Names), NEW cp \in 0 .. b - 1, NEW full \in BOOLEAN
    PROVE  Listing(names, cp, full) \in Listings(b)
  BY DEF Listing, Listings

\* Where the next name would begin.
Start(l) == IF l.names = <<>> THEN l.cp ELSE l.cp + 1

\* The three outcomes of a step.
LEMMA ListSteps ==
    ASSUME NEW b \in Nat \ {0}, NEW l \in Listings(b), NEW n \in Names
    PROVE  /\ l.names \in Seq(Names) /\ l.cp \in 0 .. b - 1 /\ l.full \in BOOLEAN
           /\ Start(l) \in Nat
           /\ \/ /\ l.names # <<>> /\ l.cp >= b - 1
                 /\ ListStep(l, n, b) = Listing(l.names, l.cp, TRUE)
              \/ /\ Start(l) \in 0 .. b - 1 /\ Start(l) + NameLen[n] < b
                 /\ ListStep(l, n, b)
                      = Listing(Append(l.names, n), Start(l) + NameLen[n], FALSE)
              \/ /\ Start(l) \in 0 .. b - 1 /\ ~ (Start(l) + NameLen[n] < b)
                 /\ ListStep(l, n, b) = Listing(l.names, Start(l), TRUE)
  <1>1. l.names \in Seq(Names) /\ l.cp \in 0 .. b - 1 /\ l.full \in BOOLEAN
    BY DEF Listings
  <1>2. Start(l) \in Nat
    BY <1>1 DEF Start
  <1>3. CASE l.names # <<>> /\ l.cp >= b - 1
    BY <1>1, <1>2, <1>3 DEF ListStep
  <1>4. CASE ~ (l.names # <<>> /\ l.cp >= b - 1)
    <2>1. Start(l) \in 0 .. b - 1
      BY <1>1, <1>4 DEF Start
    <2>2. ListStep(l, n, b) = IF Start(l) + NameLen[n] < b
                              THEN Listing(Append(l.names, n), Start(l) + NameLen[n], FALSE)
                              ELSE Listing(l.names, Start(l), TRUE)
      BY <1>4 DEF ListStep, Start
    <2> QED BY <1>1, <1>2, <2>1, <2>2
  <1> QED BY <1>3, <1>4

LEMMA VisitFits ==
    ASSUME Inv, NEW b \in Nat \ {0}, NEW i \in 1 .. MAX_FILES, NEW l \in Listings(b)
    PROVE  Visit(i, l, b) \in Listings(b)
  <1>1. CASE l.full \/ i \notin Used
    BY <1>1 DEF Visit
  <1>2. CASE ~ (l.full \/ i \notin Used)
    <2> DEFINE n == fs_files[i].name
    <2>1. n \in Names /\ NameLen[n] \in Nat
      BY <1>2, UsedName
    <2>2. Visit(i, l, b) = ListStep(l, n, b)
      BY <1>2 DEF Visit
    <2> HIDE DEF n
    <2>3. l.names \in Seq(Names) /\ Append(l.names, n) \in Seq(Names)
      BY <2>1, ListSteps, AppendProperties
    <2>4. l.cp \in 0 .. b - 1 /\ Start(l) \in Nat
      BY <2>1, ListSteps
    <2>5. CASE ListStep(l, n, b) = Listing(l.names, l.cp, TRUE)
      BY <2>2, <2>3, <2>4, <2>5, ListingIn
    <2>6. CASE /\ Start(l) + NameLen[n] < b
               /\ ListStep(l, n, b)
                    = Listing(Append(l.names, n), Start(l) + NameLen[n], FALSE)
      <3>1. Start(l) + NameLen[n] \in 0 .. b - 1
        BY <2>1, <2>4, <2>6
      <3> QED BY <2>2, <2>3, <2>6, <3>1, ListingIn
    <2>7. CASE Start(l) \in 0 .. b - 1 /\ ListStep(l, n, b) = Listing(l.names, Start(l), TRUE)
      BY <2>2, <2>3, <2>7, ListingIn
    <2> QED BY <2>1, <2>5, <2>6, <2>7, ListSteps
  <1> QED BY <1>1, <1>2

\* sys_list_files is its steps.
LEMMA ListRuns ==
    ASSUME Inv, NEW b \in Nat \ {0}
    PROVE  \E f : ListRun(f, b) /\ ListFiles(b) = f[MAX_FILES]
  <1> DEFINE X == Listings(b)
             first == Listing(<<>>, 0, FALSE)
             Upto(f) == f = [i \in 0 .. MAX_FILES |->
                               IF i = 0 THEN first
                               ELSE IF f[i - 1].full \/ i \notin Used THEN f[i - 1]
                               ELSE ListStep(f[i - 1], fs_files[i].name, b)]
             upto == CHOOSE f : Upto(f)
  <1>1. MAX_FILES \in Nat
    BY FsAssumption
  <1>2. first \in X
    <2>1. <<>> \in Seq(Names) /\ 0 \in 0 .. b - 1
      OBVIOUS
    <2> QED BY <2>1, ListingIn
  <1>3. \A i \in 1 .. MAX_FILES, l \in X : Visit(i, l, b) \in X
    BY VisitFits
  <1>4. ListFiles(b) = upto[MAX_FILES]
    BY Zenon DEF ListFiles
  <1> HIDE DEF X, first
  <1>5. \E f : Upto(f)
    <2> DEFINE step == [p \in (1 .. MAX_FILES) \X X |-> Visit(p[1], p[2], b)]
    <2>1. IsStep(step, MAX_FILES, X)
      BY <1>3 DEF IsStep
    <2>2. \A i \in 1 .. MAX_FILES, l \in X : step[<<i, l>>] = Visit(i, l, b)
      OBVIOUS
    <2> HIDE DEF step
    <2>3. PICK f : Follows(f, MAX_FILES, X, first, step)
      BY <1>1, <1>2, <2>1, FiniteRecursion, Zenon
    <2> DEFINE g == [i \in 0 .. MAX_FILES |->
                       IF i = 0 THEN first
                       ELSE IF f[i - 1].full \/ i \notin Used THEN f[i - 1]
                       ELSE ListStep(f[i - 1], fs_files[i].name, b)]
    <2>4. ASSUME NEW i \in 0 .. MAX_FILES PROVE f[i] = g[i]
      <3>1. CASE i = 0
        BY <2>3, <3>1 DEF Follows
      <3>2. CASE i # 0
        <4>1. i \in 1 .. MAX_FILES /\ f[i - 1] \in X
          BY <1>1, <2>3, <3>2 DEF Follows
        <4>2. f[i] = Visit(i, f[i - 1], b)
          BY <2>2, <2>3, <4>1 DEF Follows
        <4> QED BY <3>2, <4>2 DEF Visit
      <3> QED BY <3>1, <3>2
    <2>5. f = g
      BY <2>3, <2>4 DEF Follows
    <2> QED BY <2>5
  <1>6. Upto(upto)
    <2> HIDE DEF Upto
    <2> QED BY <1>5, Zenon
  <1> HIDE DEF upto
  <1>7. /\ upto[0] = first
        /\ \A i \in 1 .. MAX_FILES : upto[i] = Visit(i, upto[i - 1], b)
    BY <1>1, <1>6 DEF Visit
  <1>8. upto = [i \in 0 .. MAX_FILES |-> upto[i]]
    BY <1>6
  <1> HIDE DEF Upto
  <1> DEFINE S == {i \in 0 .. MAX_FILES : upto[i] \in X}
  <1>9. 0 \in S /\ \A i \in 1 .. MAX_FILES : i - 1 \in S => i \in S
    BY <1>1, <1>2, <1>3, <1>7
  <1>10. \A i \in 0 .. MAX_FILES : i \in S
    <2> HIDE DEF S
    <2> QED BY <1>1, <1>9, BoundedInduction
  <1>11. upto \in [0 .. MAX_FILES -> X]
    BY <1>8, <1>10
  <1> QED BY <1>4, <1>7, <1>11 DEF ListRun, X, first

LEMMA CountRuns ==
    ASSUME Inv PROVE \E g : CountRun(g) /\ Needed = g[MAX_FILES]
  <1> DEFINE Upto(f) == f = [i \in 0 .. MAX_FILES |->
                IF i = 0 THEN -1
                ELSE f[i - 1] + (IF i \in Used THEN NameLen[fs_files[i].name] + 1 ELSE 0)]
             upto == CHOOSE f : Upto(f)
  <1>1. MAX_FILES \in Nat /\ -1 \in Int
    BY FsAssumption
  <1>2. ASSUME NEW i \in 1 .. MAX_FILES, NEW n \in Int PROVE Count(i, n) \in Int
    BY UsedName DEF Count
  <1>3. Needed = upto[MAX_FILES]
    BY Zenon DEF Needed
  <1>4. \E f : Upto(f)
    <2> DEFINE step == [p \in (1 .. MAX_FILES) \X Int |-> Count(p[1], p[2])]
    <2>1. IsStep(step, MAX_FILES, Int)
      BY <1>2 DEF IsStep
    <2>2. \A i \in 1 .. MAX_FILES, n \in Int : step[<<i, n>>] = Count(i, n)
      OBVIOUS
    <2> HIDE DEF step
    <2>3. PICK f : Follows(f, MAX_FILES, Int, -1, step)
      BY <1>1, <2>1, FiniteRecursion, Zenon
    <2> DEFINE g == [i \in 0 .. MAX_FILES |->
                IF i = 0 THEN -1
                ELSE f[i - 1] + (IF i \in Used THEN NameLen[fs_files[i].name] + 1 ELSE 0)]
    <2>4. ASSUME NEW i \in 0 .. MAX_FILES PROVE f[i] = g[i]
      <3>1. CASE i = 0
        BY <2>3, <3>1 DEF Follows
      <3>2. CASE i # 0
        <4>1. i \in 1 .. MAX_FILES /\ f[i - 1] \in Int
          BY <1>1, <2>3, <3>2 DEF Follows
        <4>2. f[i] = Count(i, f[i - 1])
          BY <2>2, <2>3, <4>1 DEF Follows
        <4> QED BY <3>2, <4>2 DEF Count
      <3> QED BY <3>1, <3>2
    <2>5. f = g
      BY <2>3, <2>4 DEF Follows
    <2> QED BY <2>5
  <1>5. Upto(upto)
    <2> HIDE DEF Upto
    <2> QED BY <1>4, Zenon
  <1> HIDE DEF upto
  <1>6. /\ upto[0] = -1
        /\ \A i \in 1 .. MAX_FILES : upto[i] = Count(i, upto[i - 1])
    BY <1>1, <1>5 DEF Count
  <1>7. upto = [i \in 0 .. MAX_FILES |-> upto[i]]
    BY <1>5
  <1> HIDE DEF Upto
  <1> DEFINE S == {i \in 0 .. MAX_FILES : upto[i] \in Int}
  <1>8. 0 \in S /\ \A i \in 1 .. MAX_FILES : i - 1 \in S => i \in S
    BY <1>1, <1>2, <1>6
  <1>9. \A i \in 0 .. MAX_FILES : i \in S
    <2> HIDE DEF S
    <2> QED BY <1>1, <1>8, BoundedInduction
  <1>10. upto \in [0 .. MAX_FILES -> Int]
    BY <1>7, <1>9
  <1> QED BY <1>3, <1>6, <1>10 DEF CountRun

\* The listing l holds the names of exactly the used slots up to m.
Lists(l, m) ==
    /\ Len(l.names) = Cardinality(UsedTo(m))
    /\ {l.names[k] : k \in 1 .. Len(l.names)} = {fs_files[j].name : j \in UsedTo(m)}

\* After slot i, with n characters needed so far: the listing is complete up to
\* i, or it has stopped because the buffer is too small.
Progress(i, l, n, b) ==
    /\ \E m \in 0 .. i : Lists(l, m) /\ (~ l.full => m = i)
    /\ IF l.full THEN n >= b ELSE n + 1 = Start(l)

LEMMA UsedToNext ==
    ASSUME NEW i \in 1 .. MAX_FILES
    PROVE  /\ i \notin Used => UsedTo(i) = UsedTo(i - 1)
           /\ i \in Used => UsedTo(i) = UsedTo(i - 1) \cup {i}
           /\ i \notin UsedTo(i - 1)
           /\ IsFiniteSet(UsedTo(i - 1)) /\ Cardinality(UsedTo(i - 1)) \in Nat
  <1>1. Used \subseteq Int /\ \A j \in Used : j \in 1 .. MAX_FILES
    BY FsAssumption DEF Used, UsedIn, Slots
  <1>2. IsFiniteSet(UsedTo(i - 1))
    <2>1. IsFiniteSet(Slots)
      BY FS_Interval, FsAssumption DEF Slots
    <2>2. UsedTo(i - 1) \subseteq Slots
      BY DEF UsedTo, Used, UsedIn
    <2> QED BY <2>1, <2>2, FS_Subset
  <1>3. Cardinality(UsedTo(i - 1)) \in Nat
    BY <1>2, FS_CardinalityType
  <1>4. \A j \in Used : j <= i <=> j <= i - 1 \/ j = i
    BY <1>1
  <1>5. i \notin UsedTo(i - 1)
    BY DEF UsedTo
  <1>6. i \notin Used => UsedTo(i) = UsedTo(i - 1)
    BY <1>4 DEF UsedTo
  <1>7. i \in Used => UsedTo(i) = UsedTo(i - 1) \cup {i}
    BY <1>4 DEF UsedTo
  <1> QED BY <1>2, <1>3, <1>5, <1>6, <1>7

\* One more name is listed.
LEMMA AppendLists ==
    ASSUME NEW l, NEW l2, NEW i \in 1 .. MAX_FILES, i \in Used, l.names \in Seq(Names),
           Lists(l, i - 1), fs_files[i].name \in Names,
           l2.names = Append(l.names, fs_files[i].name)
    PROVE  Lists(l2, i)
  <1> DEFINE n == fs_files[i].name
             c == Len(l.names)
  <1>1. c \in Nat /\ Len(l2.names) = c + 1
    BY AppendProperties, LenProperties
  <1>2. l2.names[c + 1] = n /\ \A k \in 1 .. c : l2.names[k] = l.names[k]
    BY <1>1, AppendProperties
  <1>3. Cardinality(UsedTo(i)) = Cardinality(UsedTo(i - 1)) + 1
    BY UsedToNext, FS_AddElement
  <1>4. \A k \in 1 .. c + 1 : k \in 1 .. c \/ k = c + 1
    BY <1>1
  <1>5. 1 .. c \subseteq 1 .. c + 1 /\ c + 1 \in 1 .. c + 1
    BY <1>1
  <1>6. {l2.names[k] : k \in 1 .. c + 1} = {l.names[k] : k \in 1 .. c} \cup {n}
    <2> HIDE DEF n, c
    <2> QED BY <1>2, <1>4, <1>5
  <1>7. {fs_files[j].name : j \in UsedTo(i)} = {fs_files[j].name : j \in UsedTo(i - 1)} \cup {n}
    BY UsedToNext
  <1> HIDE DEF n
  <1> QED BY <1>1, <1>3, <1>6, <1>7 DEF Lists

LEMMA VisitProgress ==
    ASSUME Inv, NEW b \in Nat \ {0}, NEW i \in 1 .. MAX_FILES, NEW l \in Listings(b),
           NEW n \in Int, Progress(i - 1, l, n, b)
    PROVE  Progress(i, Visit(i, l, b), Count(i, n), b)
  <1>0. MAX_FILES \in Nat
    BY FsAssumption
  <1>1. PICK m \in 0 .. i - 1 : Lists(l, m) /\ (~ l.full => m = i - 1)
    BY DEF Progress
  <1>2. m \in 0 .. i /\ i \in 0 .. i /\ i - 1 \in 0 .. i
    OBVIOUS
  <1>3. CASE l.full
    <2>1. Visit(i, l, b) = l /\ n >= b
      BY <1>3 DEF Visit, Progress
    <2>2. Count(i, n) \in Int /\ Count(i, n) >= n
      BY UsedName DEF Count
    <2>3. Count(i, n) >= b
      BY <2>1, <2>2
    <2> QED BY <1>1, <1>2, <1>3, <2>1, <2>3 DEF Progress
  <1>4. CASE ~ l.full /\ i \notin Used
    <2>1. Visit(i, l, b) = l /\ Count(i, n) = n
      BY <1>4 DEF Visit, Count
    <2>2. Lists(l, i)
      BY <1>1, <1>4, UsedToNext DEF Lists
    <2> QED BY <1>2, <1>4, <2>1, <2>2 DEF Progress
  <1>5. CASE ~ l.full /\ i \in Used
    <2> DEFINE nm == fs_files[i].name
               w == NameLen[nm]
               l2 == Visit(i, l, b)
    <2>1. nm \in Names /\ w \in Nat \ {0}
      BY <1>5, UsedName
    <2>2. l2 = ListStep(l, nm, b) /\ Count(i, n) = n + (w + 1) /\ n + 1 = Start(l)
      BY <1>5 DEF Visit, Count, Progress
    <2> HIDE DEF nm, w, l2
    <2>3. l.names \in Seq(Names) /\ l.cp \in 0 .. b - 1 /\ Start(l) \in Nat
      BY <2>1, ListSteps
    <2>4. Count(i, n) = Start(l) + w /\ Start(l) + w \in Nat
      BY <2>1, <2>2, <2>3
    <2>5. Lists(l, i - 1)
      BY <1>1, <1>5
    <2>6. CASE l.names # <<>> /\ l.cp >= b - 1 /\ l2 = Listing(l.names, l.cp, TRUE)
      <3>1. l2.names = l.names /\ l2.full = TRUE
        BY <2>6 DEF Listing
      <3>2. Count(i, n) >= b
        BY <2>1, <2>3, <2>4, <2>6 DEF Start
      <3>3. Lists(l2, i - 1)
        BY <2>5, <3>1 DEF Lists
      <3> QED BY <1>2, <3>1, <3>2, <3>3 DEF Progress, l2
    <2>7. CASE Start(l) + w < b /\ l2 = Listing(Append(l.names, nm), Start(l) + w, FALSE)
      <3>1. Start(l) + w \in 0 .. b - 1
        BY <2>4, <2>7
      <3>2. Append(l.names, nm) \in Seq(Names) /\ Append(l.names, nm) # <<>>
        BY <2>1, <2>3, AppendProperties
      <3>3. l2.names = Append(l.names, nm) /\ l2.cp = Start(l) + w /\ l2.full = FALSE
        BY <2>7 DEF Listing
      <3>4. Lists(l2, i)
        BY <1>5, <2>1, <2>3, <2>5, <3>3, AppendLists DEF nm
      <3>5. Count(i, n) + 1 = Start(l2)
        BY <2>4, <3>2, <3>3 DEF Start
      <3> QED BY <1>2, <3>3, <3>4, <3>5 DEF Progress, l2
    <2>8. CASE /\ Start(l) \in 0 .. b - 1 /\ ~ (Start(l) + w < b)
               /\ l2 = Listing(l.names, Start(l), TRUE)
      <3>1. l2.names = l.names /\ l2.full = TRUE
        BY <2>8 DEF Listing
      <3>2. Count(i, n) >= b
        BY <2>1, <2>3, <2>4, <2>8
      <3>3. Lists(l2, i - 1)
        BY <2>5, <3>1 DEF Lists
      <3> QED BY <1>2, <3>1, <3>2, <3>3 DEF Progress, l2
    <2> QED BY <2>1, <2>2, <2>6, <2>7, <2>8, ListSteps DEF w
  <1> QED BY <1>3, <1>4, <1>5

\* The whole listing.
LEMMA ListProgress ==
    ASSUME Inv, NEW b \in Nat \ {0}
    PROVE  /\ ListFiles(b) \in Listings(b) /\ Needed \in Int
           /\ Progress(MAX_FILES, ListFiles(b), Needed, b)
  <1>1. PICK f : ListRun(f, b) /\ ListFiles(b) = f[MAX_FILES]
    BY ListRuns
  <1>2. PICK g : CountRun(g) /\ Needed = g[MAX_FILES]
    BY CountRuns
  <1>3. MAX_FILES \in Nat
    BY FsAssumption
  <1>4. \A i \in 0 .. MAX_FILES : f[i] \in Listings(b) /\ g[i] \in Int
    BY <1>1, <1>2 DEF ListRun, CountRun
  <1> DEFINE S == {i \in 0 .. MAX_FILES : Progress(i, f[i], g[i], b)}
  <1>5. 0 \in S
    <2>1. f[0] = Listing(<<>>, 0, FALSE) /\ g[0] = -1
      BY <1>1, <1>2 DEF ListRun, CountRun
    <2>2. <<>> \in Seq(Names) /\ 0 \in 0 .. b - 1
      OBVIOUS
    <2>3. f[0].names = <<>> /\ f[0].cp = 0 /\ f[0].full = FALSE
      BY <2>1 DEF Listing
    <2>4. UsedTo(0) = {}
      BY FsAssumption DEF UsedTo, Used, UsedIn, Slots
    <2>5. Lists(f[0], 0)
      BY <2>3, <2>4, FS_EmptySet DEF Lists
    <2>6. 0 \in 0 .. 0 /\ Start(f[0]) = 0
      BY <2>3 DEF Start
    <2>7. Progress(0, f[0], g[0], b)
      <3>1. ~ f[0].full
        BY <2>3, Zenon
      <3>2. g[0] = -1 /\ -1 + 1 = 0
        BY <2>1
      <3>3. g[0] + 1 = Start(f[0])
        BY <2>6, <3>2
      <3> QED BY <2>5, <2>6, <3>1, <3>3 DEF Progress
    <2> QED BY <1>3, <2>7
  <1>6. ASSUME NEW i \in 1 .. MAX_FILES, i - 1 \in S PROVE i \in S
    <2>1. f[i] = Visit(i, f[i - 1], b) /\ g[i] = Count(i, g[i - 1])
      BY <1>1, <1>2 DEF ListRun, CountRun
    <2>2. i - 1 \in 0 .. MAX_FILES /\ i \in 0 .. MAX_FILES
      BY <1>3
    <2>3. Progress(i, f[i], g[i], b)
      BY <1>4, <1>6, <2>1, <2>2, VisitProgress
    <2> QED BY <2>2, <2>3
  <1> HIDE DEF S
  <1>7. \A i \in 0 .. MAX_FILES : i \in S
    BY <1>3, <1>5, <1>6, BoundedInduction
  <1>8. MAX_FILES \in S /\ MAX_FILES \in 0 .. MAX_FILES
    BY <1>3, <1>7
  <1> QED BY <1>1, <1>2, <1>4, <1>8 DEF S

LEMMA FitsAt ==
    ASSUME Inv, NEW b \in Nat \ {0}, NEW l, l = ListFiles(b), NEW listed,
           listed = {i \in Used : \E k \in 1 .. Len(l.names) : l.names[k] = fs_files[i].name}
    PROVE  /\ l.cp < b
           /\ Cardinality(listed) = Len(l.names)
           /\ \A i \in listed, j \in Used : j < i => j \in listed
           /\ b > Needed => listed = Used
  <1>1. l \in Listings(b) /\ Needed \in Int /\ Progress(MAX_FILES, l, Needed, b)
    BY ListProgress
  <1>2. PICK m \in 0 .. MAX_FILES : Lists(l, m) /\ (~ l.full => m = MAX_FILES)
    BY <1>1 DEF Progress
  <1>3. listed = UsedTo(m)
    <2>1. \A i, j \in Used : fs_files[i].name = fs_files[j].name => i = j
      BY DEF Inv, NamesUnique, Unique, Used
    <2>2. \A i \in Used : i \in listed <=>
            fs_files[i].name \in {l.names[k] : k \in 1 .. Len(l.names)}
      OBVIOUS
    <2>3. \A i \in Used : i \in listed <=>
            \E j \in UsedTo(m) : fs_files[i].name = fs_files[j].name
      BY <1>2, <2>2 DEF Lists
    <2>4. \A i \in Used : i \in listed <=> i \in UsedTo(m)
      BY <2>1, <2>3 DEF UsedTo
    <2> QED BY <2>4 DEF UsedTo
  <1>4. \A j \in Used : j \in 1 .. MAX_FILES
    BY DEF Used, UsedIn, Slots
  <1>5. l.cp < b
    BY <1>1 DEF Listings
  <1>6. \A i \in listed, j \in Used : j < i => j \in listed
    BY <1>3, <1>4, FsAssumption DEF UsedTo
  <1>7. ASSUME b > Needed PROVE listed = Used
    <2>1. m = MAX_FILES
      BY <1>1, <1>2, <1>7 DEF Progress
    <2> QED BY <1>3, <1>4, <2>1, FsAssumption DEF UsedTo
  <1> QED BY <1>2, <1>3, <1>5, <1>6, <1>7 DEF Lists

\* A listing of any table fits its buffer with the final zero, is a part of the
\* table in order and without a gap, and is complete when the buffer is large
\* enough.
THEOREM ListingFitsAlways == Spec => []ListingFits
  <1>1. Inv => ListingFits
    <2> SUFFICES ASSUME Inv, NEW bl \in Buffers
                 PROVE  LET l == ListFiles(bl)
                            listed == {i \in Used : \E k \in 1 .. Len(l.names) :
                                                       l.names[k] = fs_files[i].name}
                        IN /\ l.cp < bl
                           /\ Cardinality(listed) = Len(l.names)
                           /\ \A i \in listed, j \in Used : j < i => j \in listed
                           /\ bl > Needed => listed = Used
      BY DEF ListingFits
    <2>1. bl \in Nat \ {0}
      BY FsAssumption
    <2> QED BY <2>1, FitsAt
  <1> QED BY <1>1, RamFsInvariant, PTL
=============================================================================
