---------------------------- MODULE IsolationProofs ---------------------------
(***************************************************************************)
(* Isolation, for every layout of the address space and every image, text, *)
(* file and argument of a call.  user_range is exact (RangeExact); it is   *)
(* the only fact about the layout that the other theorems rest on.  What   *)
(* the kernel copies to a process lies within the range it has checked:    *)
(* for a listing this is an induction over the slots of the file system.   *)
(***************************************************************************)
EXTENDS Isolation, SequenceTheorems, NumberLemmas, TLAPS

TablesType == tables \in [SLOTS -> [Pages -> {"none", "ro", "rw"}]]
-----------------------------------------------------------------------------
(* Pages.                                                                  *)

\* The page of an address begins less than PAGE bytes before it.
LEMMA PageStart ==
    ASSUME NEW x \in Nat
    PROVE  /\ PageOf(x) \in Nat /\ PageOf(x) <= x /\ x < PageOf(x) + PAGE
           /\ PageOf(x) % PAGE = 0
  <1> DEFINE q == x \div PAGE
             r == x % PAGE
  <1>1. PAGE \in Nat /\ PAGE > 0
    BY LayoutAssumption
  <1>2. q \in Int /\ r \in 0 .. PAGE - 1 /\ x = PAGE * q + r
    BY <1>1
  <1>3. q >= 0
    BY <1>1
  <1>4. PageOf(x) = x - r
    BY DEF PageOf
  <1> HIDE DEF q, r
  <1>5. PAGE * q \in Nat /\ PageOf(x) = PAGE * q
    BY <1>1, <1>2, <1>3, <1>4
  <1>6. (PAGE * q) % PAGE = 0
    BY <1>1, <1>2
  <1> QED BY <1>1, <1>2, <1>4, <1>5, <1>6

\* Two page boundaries less than a page apart are the same.
LEMMA Boundaries ==
    ASSUME NEW p \in Nat, NEW q \in Nat, p % PAGE = 0, q % PAGE = 0, p <= q, q < p + PAGE
    PROVE  p = q
  <1>1. PAGE \in Nat /\ PAGE > 0
    BY LayoutAssumption
  <1>2. PICK i \in Int : p = PAGE * i
    <2>1. p \div PAGE \in Int /\ p = PAGE * (p \div PAGE) + (p % PAGE)
      BY <1>1
    <2> QED BY <1>1, <2>1
  <1>3. PICK j \in Int : q = PAGE * j
    <2>1. q \div PAGE \in Int /\ q = PAGE * (q \div PAGE) + (q % PAGE)
      BY <1>1
    <2> QED BY <1>1, <2>1
  <1>4. PAGE * i <= PAGE * j /\ PAGE * j < PAGE * (i + 1)
    BY <1>1, <1>2, <1>3
  <1>5. i <= j /\ j < i + 1
    BY <1>1, <1>4
  <1> QED BY <1>2, <1>3, <1>5

\* A boundary is its own page.
LEMMA BoundaryPage ==
    ASSUME NEW p \in Nat, p % PAGE = 0
    PROVE  PageOf(p) = p
  BY LayoutAssumption DEF PageOf

\* user_range accepts exactly the ranges of which the process could access every
\* byte.
LEMMA Exact ==
    ASSUME active # NoProcess, NEW a \in Addresses, NEW size \in Addresses,
           NEW write \in BOOLEAN
    PROVE  UserRange(a, size, write) <=> RangeSpec(a, size, write)
  <1>1. /\ Word \in Nat /\ PAGE \in Nat /\ USER_BASE \in Nat /\ USER_STACK_TOP \in Nat
        /\ USER_STACK_TOP < Word /\ a \in Nat /\ size \in Nat
    BY LayoutAssumption DEF Addresses
  <1>2. CASE size = 0
    BY <1>1, <1>2 DEF UserRange, RangeSpec
  <1>3. CASE size # 0
    <2> DEFINE last == Plus(a, size - 1)
    <2>1. size <= USER_STACK_TOP - a => last = a + size - 1
      BY <1>1, <1>3 DEF Plus
    <2>2. ASSUME UserRange(a, size, write), NEW k \in 0 .. size - 1
          PROVE  a + k < Word /\ Accessible(a + k, write)
      <3>1. /\ USER_BASE <= a /\ size <= USER_STACK_TOP - a
            /\ \A p \in Visited(a, last) : Granted(p, write)
        BY <1>3, <2>2 DEF UserRange
      <3> HIDE DEF last
      <3>2. a + k \in Nat /\ a <= a + k /\ a + k <= last /\ a + k \in User /\ a + k < Word
        BY <1>1, <2>1, <3>1 DEF User
      <3>3. PageOf(a + k) \in PageOf(a) .. last
        <4>1. /\ PageOf(a) \in Nat /\ PageOf(a + k) \in Nat
              /\ PageOf(a + k) <= a + k /\ a + k < PageOf(a + k) + PAGE
              /\ PageOf(a) <= a /\ a < PageOf(a) + PAGE
              /\ PageOf(a) % PAGE = 0 /\ PageOf(a + k) % PAGE = 0
          BY <1>1, <3>2, PageStart
        <4>2. PageOf(a) <= PageOf(a + k)
          <5> SUFFICES ASSUME PageOf(a + k) < PageOf(a) PROVE FALSE
            BY <4>1
          <5>1. PageOf(a) < PageOf(a + k) + PAGE
            BY <1>1, <3>2, <4>1
          <5>2. PageOf(a + k) = PageOf(a)
            BY <4>1, <5>1, Boundaries
          <5> QED BY <4>1, <5>2
        <4>3. last \in Int
          BY <1>1, <2>1, <3>1
        <4> QED BY <1>1, <3>2, <4>1, <4>2, <4>3
      <3>4. PageOf(a + k) \in Visited(a, last)
        BY <3>2, <3>3, PageStart DEF Visited
      <3> QED BY <3>1, <3>2, <3>4 DEF Accessible
    <2>3. ASSUME RangeSpec(a, size, write) PROVE UserRange(a, size, write)
      <3>1. \A k \in 0 .. size - 1 : Accessible(a + k, write)
        BY <2>3 DEF RangeSpec
      <3>2. a + 0 \in User /\ a + (size - 1) \in User
        BY <1>1, <1>3, <3>1 DEF Accessible
      <3>3. USER_BASE <= a /\ a < USER_STACK_TOP /\ size <= USER_STACK_TOP - a
        BY <1>1, <1>3, <3>2 DEF User
      <3>4. last = a + size - 1
        BY <2>1, <3>3
      <3> HIDE DEF last
      <3>5. ASSUME NEW p \in Visited(a, last) PROVE Granted(p, write)
        <4>1. p \in PageOf(a) .. last /\ p % PAGE = 0
          BY DEF Visited
        <4>2. /\ PageOf(a) \in Nat /\ PageOf(a) <= a /\ a < PageOf(a) + PAGE
              /\ PageOf(a) % PAGE = 0
          BY <1>1, PageStart
        <4>3. p \in Nat /\ PageOf(a) <= p /\ p <= last
          BY <1>1, <3>4, <4>1, <4>2
        <4>4. CASE p >= a
          <5>1. p - a \in 0 .. size - 1 /\ a + (p - a) = p
            BY <1>1, <3>4, <4>3, <4>4
          <5>2. Accessible(p, write)
            BY <3>1, <5>1
          <5>3. PageOf(p) = p
            BY <4>1, <4>3, BoundaryPage
          <5> QED BY <5>2, <5>3 DEF Accessible
        <4>5. CASE p < a
          <5>1. p < PageOf(a) + PAGE
            BY <1>1, <4>2, <4>3, <4>5
          <5>2. PageOf(a) = p
            BY <4>1, <4>2, <4>3, <5>1, Boundaries
          <5>3. Accessible(a, write)
            BY <1>1, <1>3, <3>1
          <5> QED BY <5>2, <5>3 DEF Accessible
        <4> QED BY <1>1, <4>3, <4>4, <4>5
      <3> QED BY <3>3, <3>5 DEF UserRange, last
    <2> QED BY <2>2, <2>3 DEF RangeSpec
  <1> QED BY <1>2, <1>3

\* user_range accepts what it should, in every state.
LEMMA RangeAlways == RangeExact
  BY Exact DEF RangeExact
-----------------------------------------------------------------------------
(* What the kernel reads and writes for a process.                         *)

\* The bytes that a copy to x reaches: those from a on, whatever wraps.
LEMMA CopyIndex ==
    ASSUME active # NoProcess, NEW a \in Addresses, NEW size \in Addresses,
           UserRange(a, size, TRUE), size # 0,
           NEW x \in Addresses, 1 + ((x - a) % Word) <= size
    PROVE  Accessible(x, TRUE)
  <1>1. /\ Word \in Nat /\ USER_BASE \in Nat /\ USER_STACK_TOP \in Nat
        /\ USER_STACK_TOP < Word /\ a \in Nat /\ size \in Nat /\ x \in Nat
        /\ a < Word /\ x < Word
    BY LayoutAssumption DEF Addresses
  <1>2. size <= USER_STACK_TOP - a
    BY DEF UserRange
  <1>3. CASE x >= a
    <2>1. (x - a) % Word = x - a
      BY <1>1, <1>3
    <2>2. x - a \in 0 .. size - 1 /\ a + (x - a) = x
      BY <1>1, <1>3, <2>1
    <2>3. RangeSpec(a, size, TRUE)
      BY Exact
    <2> QED BY <2>2, <2>3 DEF RangeSpec
  <1>4. CASE x < a
    <2>1. (x - a) % Word = x - a + Word
      BY <1>1, <1>4
    <2> QED BY <1>1, <1>2, <2>1
  <1>5. x >= a \/ x < a
    BY <1>1
  <1> QED BY <1>3, <1>4, <1>5

MemoryType ==
    /\ memory \in [SLOTS -> [User -> Byte]] /\ kernel \in [Addresses \ User -> Byte]
    /\ active \in SLOTS \cup {NoProcess}

\* What a step may do to the memory.
Confined ==
    /\ kernel' = kernel
    /\ \A s \in SLOTS, x \in User :
         memory'[s][x] # memory[s][x] => active = s /\ tables[s][PageOf(x)] = "rw"

\* A copy of at most as many bytes as were checked stays within the writable
\* pages of the process.
LEMMA CopyConfined ==
    ASSUME MemoryType, active # NoProcess, NEW a \in Addresses, NEW size \in Addresses,
           UserRange(a, size, TRUE), size # 0,
           NEW bytes \in Seq(Byte), Len(bytes) <= size, CopyTo(a, bytes)
    PROVE  /\ memory' \in [SLOTS -> [User -> Byte]] /\ Confined
  <1> DEFINE index(x) == 1 + ((x - a) % Word)
             new(x, old) == IF index(x) <= Len(bytes) THEN bytes[index(x)] ELSE old
  <1>1. /\ memory' = [memory EXCEPT ![active] = [x \in User |-> new(x, memory[active][x])]]
        /\ kernel' = [x \in Addresses \ User |-> new(x, kernel[x])]
    BY DEF CopyTo
  <1>2. active \in SLOTS /\ User \subseteq Addresses /\ Len(bytes) \in Nat /\ size \in Nat
    BY LayoutAssumption, LenProperties DEF MemoryType, User, Addresses
  <1>3. \A x \in Addresses : index(x) \in Nat /\ index(x) >= 1
    BY <1>2, LayoutAssumption DEF Addresses
  <1>4. ASSUME NEW x \in Addresses, index(x) <= Len(bytes)
        PROVE  Accessible(x, TRUE) /\ bytes[index(x)] \in Byte
    <2>1. index(x) <= size /\ index(x) \in 1 .. Len(bytes)
      BY <1>2, <1>3, <1>4
    <2> QED BY <2>1, CopyIndex, ElementOfSeq
  <1> HIDE DEF index
  <1>5. ASSUME NEW x \in Addresses \ User PROVE new(x, kernel[x]) = kernel[x]
    BY <1>4 DEF Accessible
  <1>6. kernel' = kernel
    BY <1>1, <1>5 DEF MemoryType
  <1>7. ASSUME NEW x \in User
        PROVE  /\ new(x, memory[active][x]) \in Byte
               /\ new(x, memory[active][x]) # memory[active][x] =>
                    tables[active][PageOf(x)] = "rw"
    <2>1. memory[active][x] \in Byte
      BY <1>2 DEF MemoryType
    <2>2. CASE index(x) <= Len(bytes)
      BY <1>2, <1>4, <2>2 DEF Accessible, Granted
    <2>3. CASE ~ (index(x) <= Len(bytes))
      BY <2>1, <2>3
    <2> QED BY <2>2, <2>3
  <1> HIDE DEF new
  <1>8. memory' \in [SLOTS -> [User -> Byte]]
    BY <1>1, <1>2, <1>7 DEF MemoryType
  <1>9. \A s \in SLOTS, x \in User :
          memory'[s][x] # memory[s][x] => active = s /\ tables[s][PageOf(x)] = "rw"
    BY <1>1, <1>2, <1>7 DEF MemoryType
  <1> QED BY <1>6, <1>8, <1>9 DEF Confined

\* What is read at user addresses are bytes.
LEMMA ReadBytes ==
    ASSUME MemoryType, active # NoProcess, NEW b \in Addresses, NEW c \in Nat
    PROVE  BytesAt(b, c) \in Seq(Byte) /\ Len(BytesAt(b, c)) = c
  <1>1. ASSUME NEW i \in 1 .. c PROVE At(Plus(b, i - 1)) \in Byte
    <2>1. Plus(b, i - 1) \in Addresses
      BY LayoutAssumption DEF Plus, Addresses
    <2> QED BY <2>1 DEF At, MemoryType
  <1>2. BytesAt(b, c) \in [1 .. c -> Byte]
    BY <1>1 DEF BytesAt
  <1> QED BY <1>2, SeqDef, LenProperties

\* A name that a process passes is one a file may have, or is refused.
LEMMA PassedName ==
    ASSUME MemoryType, active # NoProcess, NEW a \in Addresses, HasString(a, NameMax)
    PROVE  StringAt(a, NameMax) \in Names \cup BadNames
  <1> DEFINE n == CHOOSE n \in 0 .. NameMax - 1 : IsString(a, n, NameMax)
  <1>1. n \in 0 .. NameMax - 1 /\ IsString(a, n, NameMax)
    BY DEF HasString
  <1>2. StringAt(a, NameMax) = [i \in 1 .. n |-> memory[active][a + i - 1]]
    BY DEF StringAt
  <1> HIDE DEF n
  <1>3. ASSUME NEW i \in 1 .. n PROVE memory[active][a + i - 1] \in Byte \ {0}
    <2>1. /\ NameMax \in Nat /\ n \in Nat /\ a \in Nat /\ i - 1 \in 0 .. n /\ i - 1 # n
          /\ a + (i - 1) = a + i - 1 /\ Word \in Nat
      BY <1>1, CallsAssumption, LayoutAssumption DEF Addresses
    <2>2. /\ a + (i - 1) < Word /\ UserRange(a + (i - 1), 1, FALSE)
          /\ memory[active][a + (i - 1)] # 0
      BY <1>1, <2>1 DEF IsString
    <2>3. a + (i - 1) \in User
      BY <2>1, <2>2, LayoutAssumption DEF UserRange, User
    <2> QED BY <2>1, <2>2, <2>3 DEF MemoryType
  <1>4. [i \in 1 .. n |-> memory[active][a + i - 1]] \in [1 .. n -> Byte \ {0}]
    BY <1>3
  <1> QED BY <1>1, <1>2, <1>4, NamesAssumption
-----------------------------------------------------------------------------
(* The listing.                                                            *)

FilesInv ==
    /\ fs_files \in [FS!Slots -> FS!FileType]
    /\ \A i \in FS!Slots : fs_files[i].in_use => fs_files[i].name \in Names

\* A listing that fits a buffer of b bytes with its zero.
Listings(b) == [names : Seq(Names), cp : 0 .. b - 1, full : BOOLEAN]

LEMMA ListingIn ==
    ASSUME NEW b, NEW names \in Seq(Names), NEW cp \in 0 .. b - 1, NEW full \in BOOLEAN
    PROVE  FS!Listing(names, cp, full) \in Listings(b)
  BY DEF FS!Listing, Listings

\* One name more still fits.
LEMMA ListStepFits ==
    ASSUME NEW b \in Nat \ {0}, NEW l \in Listings(b), NEW n \in Names
    PROVE  FS!ListStep(l, n, b) \in Listings(b)
  <1>1. l.names \in Seq(Names) /\ l.cp \in 0 .. b - 1
    BY DEF Listings
  <1>2. NameLen[n] \in Nat
    BY NamesAssumption, LenProperties
  <1> DEFINE at == IF l.names = <<>> THEN l.cp ELSE l.cp + 1
  <1>3. CASE l.names # <<>> /\ l.cp >= b - 1
    <2>1. FS!ListStep(l, n, b) = FS!Listing(l.names, l.cp, TRUE)
      BY <1>3 DEF FS!ListStep
    <2> QED BY <1>1, <2>1, ListingIn
  <1>4. CASE ~ (l.names # <<>> /\ l.cp >= b - 1)
    <2>1. at \in 0 .. b - 1
      BY <1>1, <1>4
    <2>2. CASE at + NameLen[n] < b
      <3>1. FS!ListStep(l, n, b) = FS!Listing(Append(l.names, n), at + NameLen[n], FALSE)
        BY <1>4, <2>2 DEF FS!ListStep
      <3> HIDE DEF at
      <3>2. at + NameLen[n] \in 0 .. b - 1
        BY <1>2, <2>1, <2>2
      <3>3. Append(l.names, n) \in Seq(Names)
        BY <1>1, AppendProperties
      <3> QED BY <3>1, <3>2, <3>3, ListingIn
    <2>3. CASE ~ (at + NameLen[n] < b)
      <3>1. FS!ListStep(l, n, b) = FS!Listing(l.names, at, TRUE)
        BY <1>4, <2>3 DEF FS!ListStep
      <3> HIDE DEF at
      <3> QED BY <1>1, <2>1, <3>1, ListingIn
    <2> QED BY <2>2, <2>3
  <1> QED BY <1>3, <1>4

\* sys_list_files stays below the size of its buffer, whatever the slots hold.
LEMMA ListFits ==
    ASSUME FilesInv, NEW b \in Nat \ {0}
    PROVE  FS!ListFiles(b) \in Listings(b)
  <1> DEFINE X == Listings(b)
             Body(i, l) == IF l.full \/ i \notin FS!Used THEN l
                           ELSE FS!ListStep(l, fs_files[i].name, b)
             first == FS!Listing(<<>>, 0, FALSE)
             Upto(f) == f = [i \in 0 .. MAX_FILES |-> IF i = 0 THEN first ELSE Body(i, f[i - 1])]
             upto == CHOOSE f : Upto(f)
  <1>1. MAX_FILES \in Nat
    BY NamesAssumption
  <1>2. first \in X
    <2>1. <<>> \in Seq(Names) /\ 0 \in 0 .. b - 1
      OBVIOUS
    <2> QED BY <2>1, ListingIn
  <1>3. ASSUME NEW i \in 1 .. MAX_FILES, NEW l \in X PROVE Body(i, l) \in X
    <2>1. CASE l.full \/ i \notin FS!Used
      BY <2>1
    <2>2. CASE ~ (l.full \/ i \notin FS!Used)
      <3>1. fs_files[i].name \in Names
        BY <2>2 DEF FilesInv, FS!Used, FS!UsedIn
      <3> QED BY <2>2, <3>1, ListStepFits
    <2> QED BY <2>1, <2>2
  <1> HIDE DEF X, Body, first
  <1>4. \E f : Upto(f)
    <2> DEFINE step == [p \in (1 .. MAX_FILES) \X X |-> Body(p[1], p[2])]
    <2>1. IsStep(step, MAX_FILES, X)
      BY <1>3 DEF IsStep
    <2>2. \A i \in 1 .. MAX_FILES, l \in X : step[<<i, l>>] = Body(i, l)
      OBVIOUS
    <2> HIDE DEF step
    <2>3. PICK f : Follows(f, MAX_FILES, X, first, step)
      BY <1>1, <1>2, <2>1, FiniteRecursion, Zenon
    <2> DEFINE g == [i \in 0 .. MAX_FILES |-> IF i = 0 THEN first ELSE Body(i, f[i - 1])]
    <2>4. ASSUME NEW i \in 0 .. MAX_FILES PROVE f[i] = g[i]
      <3>1. CASE i = 0
        BY <2>3, <3>1 DEF Follows
      <3>2. CASE i # 0
        <4>1. i \in 1 .. MAX_FILES /\ f[i - 1] \in X
          BY <1>1, <2>3, <3>2 DEF Follows
        <4> QED BY <2>2, <2>3, <3>2, <4>1 DEF Follows
      <3> QED BY <3>1, <3>2
    <2>5. f = g
      BY <2>3, <2>4 DEF Follows
    <2> QED BY <2>5
  <1>5. Upto(upto)
    <2> HIDE DEF Upto
    <2> QED BY <1>4, Zenon
  <1>6. FS!ListFiles(b) = upto[MAX_FILES]
    BY Zenon DEF FS!ListFiles, Body, first
  <1> HIDE DEF upto
  <1>7. /\ upto[0] = first
        /\ \A i \in 1 .. MAX_FILES : upto[i] = Body(i, upto[i - 1])
    BY <1>1, <1>5
  <1> DEFINE S == {i \in 0 .. MAX_FILES : upto[i] \in X}
  <1>8. 0 \in S /\ \A i \in 1 .. MAX_FILES : i - 1 \in S => i \in S
    BY <1>1, <1>2, <1>3, <1>7
  <1>9. \A i \in 0 .. MAX_FILES : i \in S
    <2> HIDE DEF S
    <2> QED BY <1>1, <1>8, BoundedInduction
  <1> QED BY <1>1, <1>6, <1>9 DEF X

\* The names of a listing, joined, are bytes.
LEMMA JoinedBytes ==
    ASSUME NEW names \in Seq(Names)
    PROVE  Joined(names) \in Seq(Byte)
  <1> DEFINE N == Len(names)
             X == Seq(Byte)
             Body(k, t) == IF k = 1 THEN names[1] ELSE t \o <<NEWLINE>> \o names[k]
             Text(f) == f = [k \in 0 .. N |-> IF k = 0 THEN <<>> ELSE IF k = 1 THEN names[1]
                                              ELSE f[k - 1] \o <<NEWLINE>> \o names[k]]
             text == CHOOSE f : Text(f)
  <1>1. N \in Nat
    BY LenProperties
  <1>2. <<>> \in X
    BY EmptySeq
  <1>3. ASSUME NEW k \in 1 .. N, NEW t \in X PROVE Body(k, t) \in X
    <2>1. names[k] \in X /\ names[1] \in X
      <3>1. k \in 1 .. Len(names) /\ 1 \in 1 .. Len(names)
        BY <1>1
      <3>2. names[k] \in Names /\ names[1] \in Names
        BY <3>1, ElementOfSeq
      <3> QED BY <3>2, NamesAssumption
    <2>2. <<NEWLINE>> \in X
      BY CallsAssumption
    <2>3. t \o <<NEWLINE>> \o names[k] \in X
      BY <2>1, <2>2, ConcatProperties
    <2> QED BY <2>1, <2>3
  <1> HIDE DEF N, X
  <1>4. \E f : Text(f)
    <2> DEFINE step == [p \in (1 .. N) \X X |-> Body(p[1], p[2])]
    <2>1. IsStep(step, N, X)
      BY <1>3 DEF IsStep
    <2>2. \A i \in 1 .. N, l \in X : step[<<i, l>>] = Body(i, l)
      OBVIOUS
    <2> HIDE DEF step
    <2>3. PICK f : Follows(f, N, X, <<>>, step)
      BY <1>1, <1>2, <2>1, FiniteRecursion, Zenon
    <2> DEFINE g == [k \in 0 .. N |-> IF k = 0 THEN <<>> ELSE IF k = 1 THEN names[1]
                                      ELSE f[k - 1] \o <<NEWLINE>> \o names[k]]
    <2>4. ASSUME NEW i \in 0 .. N PROVE f[i] = g[i]
      <3>1. CASE i = 0
        BY <2>3, <3>1 DEF Follows
      <3>2. CASE i # 0
        <4>1. i \in 1 .. N /\ f[i - 1] \in X
          BY <1>1, <2>3, <3>2 DEF Follows
        <4>2. f[i] = Body(i, f[i - 1])
          BY <2>2, <2>3, <4>1 DEF Follows
        <4> QED BY <3>2, <4>2
      <3> QED BY <3>1, <3>2
    <2>5. f = g
      BY <2>3, <2>4 DEF Follows
    <2> QED BY <2>5
  <1>5. Text(text)
    <2> HIDE DEF Text
    <2> QED BY <1>4, Zenon
  <1>6. Joined(names) = text[N]
    BY Zenon DEF Joined, N
  <1> HIDE DEF text
  <1>7. text[0] = <<>> /\ \A i \in 1 .. N : text[i] = Body(i, text[i - 1])
    BY <1>1, <1>5
  <1> HIDE DEF Body
  <1> DEFINE S == {i \in 0 .. N : text[i] \in X}
  <1>8. 0 \in S /\ \A i \in 1 .. N : i - 1 \in S => i \in S
    BY <1>1, <1>2, <1>3, <1>7
  <1>9. \A i \in 0 .. N : i \in S
    <2> HIDE DEF S
    <2> QED BY <1>1, <1>8, BoundedInduction
  <1> QED BY <1>1, <1>6, <1>9 DEF X

\* What the call copies fits the buffer.
LEMMA ListTextFits ==
    ASSUME NEW b \in Nat \ {0}, NEW l \in Listings(b)
    PROVE  ListText(l) \in Seq(Byte) /\ Len(ListText(l)) <= b
  <1>1. l.cp \in 0 .. b - 1 /\ l.names \in Seq(Names)
    BY DEF Listings
  <1>2. Joined(l.names) \in Seq(Byte) /\ Len(Joined(l.names)) \in Nat
    BY <1>1, JoinedBytes, LenProperties
  <1>3. ASSUME NEW i \in 1 .. l.cp + 1, i <= Len(Joined(l.names))
        PROVE  Joined(l.names)[i] \in Byte
    <2>1. i \in 1 .. Len(Joined(l.names))
      BY <1>1, <1>2, <1>3
    <2> QED BY <1>2, <2>1, ElementOfSeq
  <1>4. ListText(l) \in [1 .. l.cp + 1 -> Byte]
    BY <1>3, CallsAssumption DEF ListText
  <1>5. l.cp + 1 \in Nat
    BY <1>1
  <1> QED BY <1>1, <1>4, <1>5, SeqDef, LenProperties, SMTT(60)
-----------------------------------------------------------------------------
(* The invariant, step by step.                                            *)

\* The inductive invariant: the types, the files' included, and the kernel as it
\* was.
IInv == TypeOK /\ FilesInv /\ KernelIntact

\* What a call does, whatever it answers.
Serves == IInv' /\ Confined /\ active' = active

LEMMA InitIInv == Init => IInv
  <1> SUFFICES ASSUME Init PROVE IInv
    OBVIOUS
  <1>1. TypeOK
    BY CallsAssumption DEF Init, TypeOK, SLOTS, NoProcess, FS!Init
  <1>2. FilesInv
    <2>1. fs_files = [i \in FS!Slots |-> [in_use |-> FALSE, name |-> NoName, size |-> 0,
                                        data |-> [k \in FS!Cells |-> 0]]]
      BY DEF Init, FS!Init
    <2>2. [k \in FS!Cells |-> 0] \in [FS!Cells -> Byte] /\ 0 \in 0 .. MAX_FILE_SIZE
      BY CallsAssumption, NamesAssumption
    <2> QED BY <2>1, <2>2 DEF FilesInv, FS!FileType
  <1> QED BY <1>1, <1>2 DEF IInv, KernelIntact, Init

\* A call that only answers.
LEMMA Answered ==
    ASSUME IInv, NEW r \in Int, Answers(r) PROVE Serves
  BY DEF IInv, TypeOK, FilesInv, KernelIntact, Answers, process, Serves, Confined

\* A call that copies a sequence no longer than the range it has checked.
LEMMA CopyServes ==
    ASSUME IInv, active # NoProcess, NEW a \in Addresses, NEW size \in Addresses,
           UserRange(a, size, TRUE), size # 0,
           NEW bytes \in Seq(Byte), Len(bytes) <= size, CopyTo(a, bytes),
           rax' \in Int, UNCHANGED <<Others, fs_files>>
    PROVE  Serves
  <1>1. MemoryType
    BY DEF IInv, TypeOK, MemoryType
  <1>2. memory' \in [SLOTS -> [User -> Byte]] /\ Confined
    BY <1>1, CopyConfined
  <1> QED BY <1>2 DEF IInv, TypeOK, FilesInv, KernelIntact, Others, Serves, Confined

LEMMA ReadLineServes ==
    ASSUME IInv, NEW a \in Addresses, NEW b \in Addresses, NEW line \in Lines,
           ReadLine(a, b, line)
    PROVE  Serves
  <1>1. CASE Answers(-1)
    BY <1>1, Answered
  <1>2. CASE /\ Calls /\ b # 0 /\ b <= TextMax /\ UserRange(a, b, TRUE)
             /\ CopyTo(a, SubSeq(line, 1, IF Len(line) < b THEN Len(line) ELSE b - 1)
                          \o <<0>>)
             /\ rax' = 0 /\ UNCHANGED <<Others, fs_files>>
    <2> DEFINE n == IF Len(line) < b THEN Len(line) ELSE b - 1
               text == SubSeq(line, 1, n) \o <<0>>
    <2>1. line \in Seq(Byte) /\ Len(line) \in Nat /\ b \in Nat
      BY CallsAssumption, LayoutAssumption, LenProperties DEF Addresses
    <2>2. n \in Nat /\ n <= Len(line) /\ n <= b - 1
      BY <1>2, <2>1
    <2> HIDE DEF n
    <2>3. SubSeq(line, 1, n) \in Seq(Byte) /\ Len(SubSeq(line, 1, n)) = n
      BY <2>1, <2>2
    <2>4. <<0>> \in Seq(Byte) /\ Len(<<0>>) = 1
      BY CallsAssumption
    <2>5. text \in Seq(Byte) /\ Len(text) <= b
      BY <2>1, <2>2, <2>3, <2>4
    <2>6. CopyTo(a, text)
      BY <1>2 DEF n
    <2> HIDE DEF text
    <2>7. active # NoProcess /\ b # 0 /\ UserRange(a, b, TRUE) /\ rax' = 0
      BY <1>2 DEF Calls
    <2>8. UNCHANGED <<Others, fs_files>>
      BY <1>2
    <2>9. rax' \in Int
      BY <2>7
    <2> QED BY <2>5, <2>6, <2>7, <2>8, <2>9, CopyServes
  <1> QED BY <1>1, <1>2 DEF ReadLine

LEMMA FilesServes ==
    ASSUME IInv, NEW a \in Addresses, NEW b \in Addresses, Files(a, b)
    PROVE  Serves
  <1>1. CASE Answers(-1)
    BY <1>1, Answered
  <1>2. CASE /\ Calls /\ b # 0 /\ UserRange(a, b, TRUE)
             /\ CopyTo(a, ListText(FS!ListFiles(b))) /\ rax' = FS!ListFiles(b).cp
             /\ UNCHANGED <<Others, fs_files>>
    <2>1. b \in Nat \ {0} /\ FilesInv
      BY <1>2, LayoutAssumption DEF Addresses, IInv
    <2>2. FS!ListFiles(b) \in Listings(b)
      BY <2>1, ListFits
    <2>3. ListText(FS!ListFiles(b)) \in Seq(Byte) /\ Len(ListText(FS!ListFiles(b))) <= b
      BY <2>1, <2>2, ListTextFits
    <2>4. rax' \in Int
      BY <1>2, <2>1, <2>2 DEF Listings
    <2> QED BY <1>2, <2>3, <2>4, CopyServes DEF Calls
  <1> QED BY <1>1, <1>2 DEF Files

\* What sys_read_file reads fits the buffer it is read into.
LEMMA ReadFileServes ==
    ASSUME IInv, NEW a \in Addresses, NEW b \in Addresses, NEW c \in Addresses,
           ReadFileCall(a, b, c)
    PROVE  Serves
  <1>1. CASE Answers(-1) \/ Answers(-2)
    BY <1>1, Answered
  <1>2. CASE /\ Calls /\ MayRead(a, b, c) /\ c # 0
             /\ \E i \in FS!Slots :
                  /\ FS!Found(i, StringAt(a, NameMax)) /\ fs_files[i].size <= c
                  /\ CopyTo(b, FS!Content(fs_files[i])) /\ rax' = fs_files[i].size
             /\ UNCHANGED <<Others, fs_files>>
    <2>1. PICK i \in FS!Slots : /\ fs_files[i].size <= c /\ rax' = fs_files[i].size
                                /\ CopyTo(b, FS!Content(fs_files[i]))
      BY <1>2
    <2>2. /\ fs_files[i].size \in 0 .. MAX_FILE_SIZE
          /\ fs_files[i].data \in [FS!Cells -> Byte]
      BY DEF IInv, FilesInv, FS!FileType
    <2>3. fs_files[i].size \in Nat /\ fs_files[i].size <= MAX_FILE_SIZE
      BY <2>2, NamesAssumption
    <2>4. FS!Content(fs_files[i]) \in [1 .. fs_files[i].size -> Byte]
      BY <2>2, <2>3, NamesAssumption DEF FS!Content, FS!Cells
    <2>5. FS!Content(fs_files[i]) \in Seq(Byte) /\ Len(FS!Content(fs_files[i])) <= c
      BY <2>1, <2>3, <2>4, SeqDef, LenProperties
    <2>6. UserRange(b, c, TRUE)
      BY <1>2 DEF MayRead
    <2>7. rax' \in Int
      BY <2>1, <2>3
    <2> QED BY <1>2, <2>1, <2>5, <2>6, <2>7, CopyServes DEF Calls
  <1> QED BY <1>1, <1>2 DEF ReadFileCall

\* A step that changes the files and the result only.
LEMMA FileServes ==
    ASSUME IInv, UNCHANGED process, rax' \in Int,
           NEW i \in FS!Slots, NEW f \in FS!FileType, f.in_use => f.name \in Names,
           fs_files' = [fs_files EXCEPT ![i] = f]
    PROVE  Serves
  <1>1. FilesInv'
    BY DEF IInv, FilesInv
  <1> QED BY <1>1 DEF IInv, TypeOK, KernelIntact, process, Serves, Confined

LEMMA WriteFileServes ==
    ASSUME IInv, NEW a \in Addresses, NEW b \in Addresses, NEW c \in Addresses,
           WriteFileCall(a, b, c)
    PROVE  Serves
  <1> DEFINE n == StringAt(a, NameMax)
             d == BytesAt(b, c)
  <1>1. CASE Answers(-1)
    BY <1>1, Answered
  <1>2. CASE Calls /\ MayWrite(a, b, c) /\ FS!WriteFile(n, d) /\ UNCHANGED process
    <2>1. MemoryType /\ c \in Nat
      BY LayoutAssumption DEF IInv, TypeOK, MemoryType, Addresses
    <2>2. n \in Names \cup BadNames
      BY <1>2, <2>1, PassedName DEF Calls, MayWrite
    <2>3. d \in Seq(Byte) /\ Len(d) = c
      BY <1>2, <2>1, ReadBytes DEF Calls
    <2> HIDE DEF n, d
    <2>4. CASE FS!Fails(-2) \/ FS!Fails(-3) \/ FS!Fails(-4)
      <3>1. \E r \in Int : Answers(r)
        BY <1>2, <2>4 DEF FS!Fails, Answers
      <3> QED BY <3>1, Answered
    <2>5. CASE /\ n \notin BadNames /\ ~ FS!TooLong(d)
               /\ \E i \in FS!Slots :
                    FS!Target(i, n) /\ fs_files' = [fs_files EXCEPT ![i] = FS!Filled(i, n, d)]
               /\ rax' = 0
      <3>1. PICK i \in FS!Slots : fs_files' = [fs_files EXCEPT ![i] = FS!Filled(i, n, d)]
        BY <2>5
      <3>2. Len(d) \in 0 .. MAX_FILE_SIZE
        BY <2>1, <2>3, <2>5, NamesAssumption DEF FS!TooLong
      <3>3. fs_files[i].data \in [FS!Cells -> Byte]
        BY DEF IInv, FilesInv, FS!FileType
      <3>4. ASSUME NEW k \in FS!Cells
            PROVE  (IF k <= Len(d) THEN d[k] ELSE fs_files[i].data[k]) \in Byte
        <4>1. k <= Len(d) => k \in 1 .. Len(d)
          BY <2>1, <2>3, NamesAssumption DEF FS!Cells
        <4>2. k <= Len(d) => d[k] \in Byte
          BY <2>3, <4>1, ElementOfSeq
        <4> QED BY <3>3, <4>2
      <3>5. FS!Copied(fs_files[i].data, d) \in [FS!Cells -> Byte]
        BY <3>4 DEF FS!Copied
      <3>6. /\ FS!Filled(i, n, d) \in FS!FileType
            /\ FS!Filled(i, n, d).name = n /\ n \in Names
        BY <2>2, <2>5, <3>2, <3>5 DEF FS!Filled, FS!FileType
      <3> DEFINE f == FS!Filled(i, n, d)
      <3>7. /\ f \in FS!FileType /\ (f.in_use => f.name \in Names)
            /\ fs_files' = [fs_files EXCEPT ![i] = f]
        BY <3>1, <3>6
      <3>8. UNCHANGED process /\ rax' \in Int
        BY <1>2, <2>5
      <3> HIDE DEF f
      <3> QED BY <3>7, <3>8, FileServes
    <2> QED BY <1>2, <2>4, <2>5 DEF FS!WriteFile
  <1> QED BY <1>1, <1>2 DEF WriteFileCall

LEMMA DeleteFileServes ==
    ASSUME IInv, NEW a \in Addresses, DeleteFileCall(a) PROVE Serves
  <1> DEFINE n == StringAt(a, NameMax)
  <1>1. CASE Answers(-1)
    BY <1>1, Answered
  <1>2. CASE FS!DeleteFile(n) /\ UNCHANGED process
    <2>1. CASE FS!Fails(-1)
      <3>1. Answers(-1)
        BY <1>2, <2>1 DEF FS!Fails, Answers
      <3> QED BY <3>1, Answered
    <2>2. CASE /\ \E i \in FS!Slots :
                    FS!Found(i, n) /\ fs_files' = [fs_files EXCEPT ![i] = FS!Freed(i)]
               /\ rax' = 0
      <3>1. PICK i \in FS!Slots : fs_files' = [fs_files EXCEPT ![i] = FS!Freed(i)]
        BY <2>2
      <3>2. fs_files[i].data \in [FS!Cells -> Byte]
        BY DEF IInv, FilesInv, FS!FileType
      <3>3. FS!Freed(i) \in FS!FileType /\ ~ FS!Freed(i).in_use
        BY <3>2, NamesAssumption DEF FS!Freed, FS!FileType
      <3> DEFINE f == FS!Freed(i)
      <3>4. /\ f \in FS!FileType /\ (f.in_use => f.name \in Names)
            /\ fs_files' = [fs_files EXCEPT ![i] = f]
        BY <3>1, <3>3
      <3>5. UNCHANGED process /\ rax' \in Int
        BY <1>2, <2>2
      <3> HIDE DEF f
      <3> QED BY <3>4, <3>5, FileServes
    <2> QED BY <1>2, <2>1, <2>2 DEF FS!DeleteFile
  <1> QED BY <1>1, <1>2 DEF DeleteFileCall

\* Every call of a process, whatever its arguments.
LEMMA CallServes == ASSUME IInv, Call PROVE Serves
  <1>1. Pointers \subseteq Addresses /\ Sizes \subseteq Addresses
    BY LayoutAssumption
  <1>2. ASSUME NEW a \in Pointers, TextCall(a) PROVE Serves
    BY <1>2, Answered DEF TextCall
  <1>3. ASSUME NEW r \in {0, -1}, PlainCall(r) PROVE Serves
    BY <1>3, Answered DEF PlainCall
  <1>4. ASSUME NEW a \in Pointers, NEW b \in Sizes, NEW l \in Lines, ReadLine(a, b, l)
        PROVE  Serves
    BY <1>1, <1>4, ReadLineServes
  <1>5. ASSUME NEW a \in Pointers, NEW b \in Sizes, Files(a, b) PROVE Serves
    BY <1>1, <1>5, FilesServes
  <1>6. ASSUME NEW a \in Pointers, DeleteFileCall(a) PROVE Serves
    BY <1>1, <1>6, DeleteFileServes
  <1>7. ASSUME NEW a \in Pointers, NEW b \in Pointers, NEW c \in Sizes,
               ReadFileCall(a, b, c) \/ WriteFileCall(a, b, c)
        PROVE  Serves
    BY <1>1, <1>7, ReadFileServes, WriteFileServes
  <1> QED BY <1>2, <1>3, <1>4, <1>5, <1>6, <1>7 DEF Call

\* A launch replaces the memory of one slot by the image and the command line.
LEMMA Launches ==
    ASSUME IInv, Launch
    PROVE  /\ IInv' /\ active = NoProcess
           /\ \A s \in SLOTS : active' # s => memory'[s] = memory[s]
           /\ \E cmd \in Commands : \A s \in SLOTS : active' = s =>
                \A x \in User : \/ memory'[s][x] = Image[x]
                                \/ x \in USER_STARTUP .. USER_STARTUP + Len(cmd) - 1
  <1>1. PICK cmd \in Commands, s \in SLOTS : Run(s, cmd) /\ next_slot' \in SLOTS
    <2>1. PICK cmd \in Commands : AppApe(cmd) \/ \E s \in SLOTS : TestRun(s, cmd)
      BY DEF Launch
    <2>2. CASE AppApe(cmd)
      <3>1. next_slot \in SLOTS /\ 1 - next_slot \in SLOTS
        BY DEF IInv, TypeOK, SLOTS
      <3> QED BY <2>2, <3>1 DEF AppApe
    <2>3. CASE \E s \in SLOTS : TestRun(s, cmd)
      BY <2>3 DEF TestRun, IInv, TypeOK
    <2> QED BY <2>1, <2>2, <2>3
  <1>2. /\ memory \in [SLOTS -> [User -> Byte]]
        /\ tables \in [SLOTS -> [Pages -> {"none", "ro", "rw"}]]
    BY DEF IInv, TypeOK
  <1>3. ASSUME NEW x \in User
        PROVE  /\ Prepared(s, cmd)[x] \in Byte
               /\ \/ Prepared(s, cmd)[x] = Image[x]
                  \/ x \in USER_STARTUP .. USER_STARTUP + Len(cmd) - 1
    <2>1. Image[x] \in Byte
      BY CallsAssumption
    <2>2. CASE x \in USER_STARTUP .. USER_STARTUP + Len(cmd) - 1
      <3>1. cmd \in Seq(Byte)
        BY CallsAssumption
      <3>2. x - USER_STARTUP + 1 \in 1 .. Len(cmd)
        BY <2>2, <3>1, LayoutAssumption, LenProperties DEF User
      <3> QED BY <2>2, <3>1, <3>2, ElementOfSeq DEF Prepared
    <2> QED BY <2>1, <2>2 DEF Prepared
  <1>4. Prepared(s, cmd) \in [User -> Byte]
    BY <1>3 DEF Prepared
  <1>5. memory' \in [SLOTS -> [User -> Byte]] /\ memory'[s] = Prepared(s, cmd)
        /\ \A t \in SLOTS : t # s => memory'[t] = memory[t]
    BY <1>1, <1>2, <1>4 DEF Run
  <1>6. tables' \in [SLOTS -> [Pages -> {"none", "ro", "rw"}]]
    <2>1. [p \in Pages |-> Flags(p)] \in [Pages -> {"none", "ro", "rw"}]
      BY DEF Flags
    <2> QED BY <1>1, <1>2, <2>1 DEF Run
  <1>7. active' = s /\ rax' = 0 /\ UNCHANGED <<kernel, fs_files>> /\ active = NoProcess
    BY <1>1 DEF Run
  <1>8. IInv'
    BY <1>1, <1>5, <1>6, <1>7 DEF IInv, TypeOK, FilesInv, KernelIntact
  <1> QED BY <1>3, <1>5, <1>7, <1>8

LEMMA LeaveKeeps ==
    ASSUME IInv, Leave PROVE IInv' /\ memory' = memory /\ active # NoProcess
  BY DEF IInv, TypeOK, FilesInv, KernelIntact, Leave

LEMMA StoreServes ==
    ASSUME IInv, NEW x \in User, NEW v \in Byte, Store(x, v) PROVE Serves
  <1>1. memory \in [SLOTS -> [User -> Byte]] /\ active \in SLOTS
    BY DEF IInv, TypeOK, Store
  <1>2. memory' \in [SLOTS -> [User -> Byte]]
    BY <1>1 DEF Store
  <1>3. Confined
    BY <1>1 DEF Store, Confined
  <1> QED BY <1>2, <1>3 DEF IInv, TypeOK, FilesInv, KernelIntact, Serves, Store

\* What a step is: a launch, the end of a process, or one that stays in the pages
\* of the process.
LEMMA Steps ==
    ASSUME IInv, [Next]_vars
    PROVE  Launch \/ Leave \/ Serves
  <1>1. CASE UNCHANGED vars
    BY <1>1 DEF vars, process, IInv, TypeOK, FilesInv, KernelIntact, Serves, Confined
  <1>2. CASE Call
    BY <1>2, CallServes
  <1>3. CASE \E x \in User, v \in Byte : Store(x, v)
    BY <1>3, StoreServes
  <1> QED BY <1>1, <1>2, <1>3 DEF Next

LEMMA NextIInv == IInv /\ [Next]_vars => IInv'
  BY Steps, Launches, LeaveKeeps DEF Serves

\* The inductive invariant of isolation.c holds in every state.
THEOREM IsolationInvariant == Spec => []IInv
  BY InitIInv, NextIInv, PTL DEF Spec

\* Page tables, memory, the running slot and the results keep their types,
\* whatever a process passes to isolation.c.
THEOREM IsolationTypes == Spec => []TypeOK
  <1>1. IInv => TypeOK
    BY DEF IInv
  <1> QED BY <1>1, IsolationInvariant, PTL

\* user_range is exact in every state, for every layout and argument.
THEOREM UserRangeExact == Spec => []RangeExact
  BY RangeAlways, PTL

\* No call makes the kernel write outside the user pages, whatever the process
\* passes as a pointer, a size or a name.
THEOREM KernelUntouched == Spec => []KernelIntact
  <1>1. IInv => KernelIntact
    BY DEF IInv
  <1> QED BY <1>1, IsolationInvariant, PTL

Private ==
    \A s \in SLOTS :
      IF active = NoProcess /\ active' = s
      THEN \E cmd \in Commands : \A x \in User :
             memory'[s][x] = Image[x] \/ x \in USER_STARTUP .. USER_STARTUP + Len(cmd) - 1
      ELSE \A x \in User : memory'[s][x] # memory[s][x] =>
             active = s /\ tables[s][PageOf(x)] = "rw"

LEMMA StepPrivate == ASSUME IInv, [Next]_vars PROVE Private
  <1>1. CASE Launch
    BY <1>1, Launches DEF Private
  <1>2. CASE Leave
    BY <1>2, LeaveKeeps DEF Private
  <1>3. CASE Serves
    BY <1>3 DEF Private, Serves, Confined, SLOTS, NoProcess
  <1> QED BY <1>1, <1>2, <1>3, Steps

\* A process starts from the image alone, and from then on only its own writable
\* pages change.
THEOREM ProcessesPrivate == Spec => PagesPrivate
  <1>1. IInv /\ [Next]_vars => [Private]_vars
    BY StepPrivate
  <1> QED BY <1>1, IsolationInvariant, PTL DEF Spec, PagesPrivate, Private
=============================================================================
