------------------------------ MODULE ProgramProofs ---------------------------
(***************************************************************************)
(* What programs run on: Shell, for every number of task slots, every      *)
(* line, key and serial character and every reading of a line as a         *)
(* command, and Stdio, for every arena, header, file size, request,        *)
(* content and name.                                                       *)
(*                                                                         *)
(* The invariant of Shell says whose turn it is: the task that owns the    *)
(* shell's stack lives for ever, it runs alone or waits, and while an      *)
(* application runs it is saved in its waiting loop.  That of Stdio is     *)
(* StdioInv: the blocks of the heap tile the arena, no two free ones       *)
(* touch, every block in use has one owner, and a stream and the zero      *)
(* behind its bytes lie within its block.                                  *)
(***************************************************************************)
EXTENDS Shell, Stdio, SequenceTheorems, FiniteSetTheorems,
        NumberLemmas, TLAPS

shell == stack["shell"]

TableType ==
    /\ tasks \in [TaskIds -> [sp : {"null", "start", "saved"}, entry : Programs \cup {"null"}]]
    /\ cur \in TaskIds \cup {Nobody}
    /\ at \in [TaskIds -> Places]
    /\ stack \in [Programs -> TaskIds \cup {Nobody}]

\* Every live task owns the stack of its program, and one of them is the shell.
Owners ==
    /\ cur \in Live /\ shell \in Live /\ tasks[shell].entry = "shell"
    /\ \A i \in Live : tasks[i].entry \in Programs /\ stack[tasks[i].entry] = i

\* Whose turn it is.
Turn ==
    /\ cur = shell =>
        /\ at[cur] \in {"desktop", "line", "wait"}
        /\ at[cur] # "wait" => Live = {cur}
        /\ \A i \in Live : i # cur => tasks[i].sp = "start"
    /\ cur # shell =>
        at[cur] = "run" /\ at[shell] = "wait" /\ tasks[shell].sp = "saved"

TableInv ==
    /\ TableType
    /\ cur = Nobody => Live = {}
    /\ cur # Nobody => Owners /\ Turn
-----------------------------------------------------------------------------
(* Slots of the table.                                                     *)

\* The fields of a task.
LEMMA TaskFields ==
    ASSUME NEW sp, NEW entry
    PROVE  /\ Task(sp, entry).sp = sp /\ Task(sp, entry).entry = entry
           /\ sp \in {"null", "start", "saved"} /\ entry \in Programs \cup {"null"} =>
                Task(sp, entry) \in [sp : {"null", "start", "saved"},
                                     entry : Programs \cup {"null"}]
  BY DEF Task

LEMMA SlotFields ==
    ASSUME TableType, NEW i \in TaskIds
    PROVE  /\ tasks[i].sp \in {"null", "start", "saved"}
           /\ tasks[i].entry \in Programs \cup {"null"}
           /\ i \in Live <=> tasks[i].sp # "null"
  BY DEF TableType, Live

LEMMA Slots ==
    /\ Nobody \notin TaskIds /\ TaskIds \subseteq Nat /\ IsFiniteSet(TaskIds)
    /\ 0 \in TaskIds /\ 1 \in TaskIds
  BY ShellAssumption, FS_Interval DEF Nobody, TaskIds

\* The least element of a set of slots or of distances is in it.
LEMMA MinIn ==
    ASSUME NEW S, S \subseteq Nat, S # {}
    PROVE  Min(S) \in S
  <1>1. \E x \in S : \A y \in S : x <= y
    BY SmallestOf
  <1> QED BY <1>1 DEF Min

\* task_create finds a free slot.
LEMMA SlotIsFree ==
    ASSUME NEW fn, Free # {}
    PROVE  SlotFor(fn) \in Free
  <1> DEFINE preferred == {i \in Free : tasks[i].entry \in {"null", fn}}
  <1>1. preferred \subseteq Free /\ Free \subseteq Nat
    BY Slots DEF Free
  <1>2. CASE preferred # {}
    <2>1. Min(preferred) \in preferred
      BY <1>1, <1>2, MinIn
    <2> QED BY <1>1, <1>2, <2>1 DEF SlotFor
  <1>3. CASE preferred = {}
    <2>1. Min(Free) \in Free
      BY <1>1, MinIn
    <2> QED BY <1>3, <2>1 DEF SlotFor
  <1> QED BY <1>2, <1>3

\* Counting on from a slot reaches every other slot and not the slot itself.
LEMMA Around ==
    ASSUME NEW c \in TaskIds
    PROVE  /\ \A d \in 1 .. MAX_TASKS - 1 : (c + d) % MAX_TASKS \in TaskIds \ {c}
           /\ \A i \in TaskIds \ {c} : \E d \in 1 .. MAX_TASKS - 1 : (c + d) % MAX_TASKS = i
  <1> USE ShellAssumption DEF TaskIds
  <1>1. ASSUME NEW d \in 1 .. MAX_TASKS - 1 PROVE (c + d) % MAX_TASKS \in TaskIds \ {c}
    <2>1. CASE c + d < MAX_TASKS
      <3>1. (c + d) % MAX_TASKS = c + d
        BY <2>1
      <3> QED BY <2>1, <3>1
    <2>2. CASE c + d >= MAX_TASKS
      <3>1. (c + d) % MAX_TASKS = c + d - MAX_TASKS
        BY <2>2
      <3> QED BY <2>2, <3>1
    <2> QED BY <2>1, <2>2
  <1>2. ASSUME NEW i \in TaskIds \ {c}
        PROVE  \E d \in 1 .. MAX_TASKS - 1 : (c + d) % MAX_TASKS = i
    <2>1. CASE i > c
      <3>1. i - c \in 1 .. MAX_TASKS - 1 /\ (c + (i - c)) % MAX_TASKS = i
        BY <2>1
      <3> QED BY <3>1
    <2>2. CASE i < c
      <3>1. i + MAX_TASKS - c \in 1 .. MAX_TASKS - 1 /\ c + (i + MAX_TASKS - c) = i + MAX_TASKS
        BY <2>2
      <3>2. (i + MAX_TASKS) % MAX_TASKS = i
        OBVIOUS
      <3> QED BY <3>1, <3>2
    <2> QED BY <2>1, <2>2
  <1> QED BY <1>1, <1>2

\* yield goes to the one other live task of its table.
LEMMA NextIs ==
    ASSUME NEW t, cur \in TaskIds, NEW i \in TaskIds, i # cur, t[i].sp # "null",
           \A j \in TaskIds : j # cur /\ j # i => t[j].sp = "null"
    PROVE  Ahead(t) # {} /\ NextTask(t) = i
  <1>1. PICK d \in 1 .. MAX_TASKS - 1 : (cur + d) % MAX_TASKS = i
    BY Around
  <1>2. Ahead(t) # {} /\ Ahead(t) \subseteq Nat
    BY <1>1, ShellAssumption DEF Ahead
  <1>3. Min(Ahead(t)) \in Ahead(t)
    BY <1>2, MinIn
  <1>4. /\ (cur + Min(Ahead(t))) % MAX_TASKS \in TaskIds \ {cur}
        /\ t[(cur + Min(Ahead(t))) % MAX_TASKS].sp # "null"
    BY <1>3, Around DEF Ahead
  <1> QED BY <1>2, <1>4 DEF NextTask
-----------------------------------------------------------------------------
(* What a step does to the table.                                          *)

\* The task that runs, by its place.
LEMMA WhoRuns ==
    ASSUME TableInv, cur # Nobody
    PROVE  /\ cur \in TaskIds /\ shell \in TaskIds
           /\ at[cur] \in {"desktop", "line"} => cur = shell /\ Live = {cur}
           /\ at[cur] = "wait" => cur = shell
           /\ at[cur] = "run" => cur # shell
  BY DEF TableInv, Owners, Turn, Live

\* The table does not change, or only the place of the lone shell.
LEMMA SameTable == ASSUME TableInv, UNCHANGED table PROVE TableInv'
  BY DEF TableInv, TableType, Owners, Turn, Live, shell, table

LEMMA MovesAlone ==
    ASSUME TableInv, cur # Nobody, cur = shell, Live = {cur},
           NEW place \in {"desktop", "line", "wait"},
           Moves(place), UNCHANGED <<tasks, cur, stack>>
    PROVE  TableInv'
  <1>1. cur \in TaskIds /\ shell' = shell /\ Live' = Live
    BY WhoRuns DEF shell, Live
  <1>2. at' \in [TaskIds -> Places] /\ at'[cur] = place
    BY <1>1 DEF TableInv, TableType, Moves, Places
  <1>3. TableType'
    BY <1>2 DEF TableInv, TableType
  <1>4. Owners'
    BY <1>1 DEF TableInv, Owners
  <1>5. Turn'
    BY <1>1, <1>2 DEF TableInv, Turn
  <1> QED BY <1>3, <1>4, <1>5 DEF TableInv

\* task_create: one more task, which owns the stack of its program.
LEMMA CreateStep ==
    ASSUME TableType, NEW fn \in Programs, Create(fn)
    PROVE  LET n == SlotFor(fn) IN
           /\ n \in TaskIds \ Live
           /\ tasks' \in [TaskIds -> [sp : {"null", "start", "saved"},
                                     entry : Programs \cup {"null"}]]
           /\ tasks'[n].sp = "start" /\ tasks'[n].entry = fn
           /\ \A i \in TaskIds : i # n => tasks'[i] = tasks[i]
           /\ Live' = Live \cup {n}
           /\ stack' \in [Programs -> TaskIds \cup {Nobody}]
           /\ stack'[fn] = n /\ \A p \in Programs : p # fn => stack'[p] = stack[p]
  <1> DEFINE n == SlotFor(fn)
  <1>1. n \in TaskIds \ Live
    BY SlotIsFree DEF Create, Free
  <1>2. tasks' = [tasks EXCEPT ![n] = Task("start", fn)] /\ stack' = [stack EXCEPT ![fn] = n]
    BY DEF Create
  <1> HIDE DEF n
  <1>3. /\ tasks' \in [TaskIds -> [sp : {"null", "start", "saved"},
                                   entry : Programs \cup {"null"}]]
        /\ tasks'[n].sp = "start" /\ tasks'[n].entry = fn
        /\ \A i \in TaskIds : i # n => tasks'[i] = tasks[i]
    BY <1>1, <1>2, TaskFields DEF TableType
  <1>4. Live' = Live \cup {n}
    BY <1>1, <1>3 DEF Live
  <1>5. /\ stack' \in [Programs -> TaskIds \cup {Nobody}]
        /\ stack'[fn] = n /\ \A p \in Programs : p # fn => stack'[p] = stack[p]
    BY <1>1, <1>2 DEF TableType
  <1> QED BY <1>1, <1>3, <1>4, <1>5 DEF n

\* kmain creates the shell in an empty table.
LEMMA BootStep == ASSUME TableInv, Boot PROVE TableInv'
  <1> DEFINE n == SlotFor("shell")
  <1>1. /\ n \in TaskIds \ Live /\ Live' = Live \cup {n}
        /\ tasks' \in [TaskIds -> [sp : {"null", "start", "saved"},
                                  entry : Programs \cup {"null"}]]
        /\ tasks'[n].entry = "shell"
        /\ stack' \in [Programs -> TaskIds \cup {Nobody}] /\ stack'["shell"] = n
    BY CreateStep DEF Boot, TableInv, Programs
  <1>2. cur' = n /\ at' = [at EXCEPT ![n] = "desktop"] /\ Live = {}
    BY DEF Boot, TableInv
  <1> HIDE DEF n
  <1>3. at' \in [TaskIds -> Places] /\ at'[n] = "desktop"
    BY <1>1, <1>2 DEF TableInv, TableType, Places
  <1>4. TableType'
    BY <1>1, <1>2, <1>3 DEF TableType
  <1>5. Live' = {n} /\ shell' = n
    BY <1>1, <1>2 DEF shell
  <1>6. Owners'
    BY <1>1, <1>2, <1>5 DEF Owners, Programs
  <1>7. Turn'
    BY <1>2, <1>3, <1>5 DEF Turn
  <1> QED BY <1>1, <1>2, <1>4, <1>6, <1>7, Slots DEF TableInv

\* The lone shell starts an application and waits for it.
LEMMA LaunchStep ==
    ASSUME TableInv, cur # Nobody, at[cur] \in {"desktop", "line"},
           Create("app"), Moves("wait"), UNCHANGED cur
    PROVE  TableInv'
  <1> DEFINE n == SlotFor("app")
  <1>1. /\ n \in TaskIds \ Live /\ Live' = Live \cup {n}
        /\ tasks' \in [TaskIds -> [sp : {"null", "start", "saved"},
                                  entry : Programs \cup {"null"}]]
        /\ tasks'[n].sp = "start" /\ tasks'[n].entry = "app"
        /\ \A i \in TaskIds : i # n => tasks'[i] = tasks[i]
        /\ stack' \in [Programs -> TaskIds \cup {Nobody}] /\ stack'["app"] = n
        /\ stack'["shell"] = stack["shell"]
    BY CreateStep DEF TableInv, Programs
  <1> HIDE DEF n
  <1>2. cur \in TaskIds /\ cur = shell /\ Live = {cur}
    BY WhoRuns
  <1>3. at' \in [TaskIds -> Places] /\ at'[cur] = "wait"
    BY <1>2 DEF Moves, TableInv, TableType, Places
  <1>4. TableType'
    BY <1>1, <1>2, <1>3 DEF TableType
  <1>5. shell' = shell /\ Live' = {cur, n} /\ n # cur
    BY <1>1, <1>2 DEF shell
  <1>6. tasks'[cur] = tasks[cur] /\ tasks[cur].entry = "shell"
    BY <1>1, <1>2, <1>5 DEF TableInv, Owners
  <1>7. Owners'
    BY <1>1, <1>2, <1>5, <1>6 DEF Owners, Programs, shell
  <1>8. Turn'
    BY <1>1, <1>2, <1>3, <1>5 DEF Turn
  <1> QED BY <1>4, <1>7, <1>8 DEF TableInv

\* The shell yields: the application starts.
LEMMA WaitStep == ASSUME TableInv, Waits PROVE TableInv'
  <1>1. cur # Nobody /\ cur \in TaskIds /\ cur = shell /\ at[cur] = "wait"
    BY WhoRuns DEF Waits, Runs
  <1>2. PICK n \in Live : n # cur
    BY DEF Waits, Foreground
  <1>3. /\ n \in TaskIds /\ tasks[n].sp = "start" /\ tasks[n].entry = "app"
        /\ stack["app"] = n
    BY <1>1, <1>2 DEF TableInv, Owners, Turn, Live, Programs, shell
  <1>4. \A j \in Live : j = cur \/ j = n
    BY <1>1, <1>3 DEF TableInv, Owners, Programs, shell
  <1>5. Ahead(tasks) # {} /\ NextTask(tasks) = n
    BY <1>1, <1>2, <1>3, <1>4, NextIs, SlotFields DEF TableInv
  <1>6. tasks[cur].sp # "null" /\ tasks[cur].entry = "shell"
    BY <1>1 DEF TableInv, Owners, Live
  <1>7. /\ tasks' = [tasks EXCEPT ![cur] = Task("saved", "shell")]
        /\ cur' = n /\ at' = [at EXCEPT ![cur] = "wait", ![n] = "run"] /\ stack' = stack
    BY <1>3, <1>5, <1>6 DEF Waits, Yield, First
  <1>8. /\ tasks' \in [TaskIds -> [sp : {"null", "start", "saved"},
                                  entry : Programs \cup {"null"}]]
        /\ tasks'[cur].sp = "saved" /\ tasks'[cur].entry = "shell"
        /\ \A i \in TaskIds : i # cur => tasks'[i] = tasks[i]
    BY <1>1, <1>7, TaskFields DEF TableInv, TableType, Programs
  <1>9. at' \in [TaskIds -> Places] /\ at'[cur] = "wait" /\ at'[n] = "run"
    BY <1>1, <1>2, <1>3, <1>7 DEF TableInv, TableType, Places
  <1>10. Live' = Live /\ shell' = shell
    BY <1>1, <1>6, <1>7, <1>8 DEF Live, shell
  <1>11. TableType'
    BY <1>3, <1>7, <1>8, <1>9 DEF TableInv, TableType
  <1>12. Owners'
    BY <1>1, <1>2, <1>3, <1>7, <1>8, <1>10 DEF TableInv, Owners, Live
  <1>13. Turn'
    BY <1>1, <1>2, <1>7, <1>8, <1>9, <1>10 DEF Turn
  <1> QED BY <1>3, <1>7, <1>11, <1>12, <1>13, Slots DEF TableInv

\* The application ends: the shell goes on in its waiting loop.
LEMMA ExitStep == ASSUME TableInv, AppExits PROVE TableInv'
  <1> DEFINE s == shell
  <1>1. /\ cur # Nobody /\ cur \in TaskIds /\ s \in TaskIds /\ cur # s
        /\ at[cur] = "run" /\ at[s] = "wait" /\ s \in Live
        /\ tasks[s].sp = "saved" /\ tasks[s].entry = "shell"
    BY WhoRuns DEF AppExits, Runs, TableInv, Owners, Turn
  <1>2. \A j \in Live : j = cur \/ j = s
    BY <1>1 DEF TableInv, Owners, Programs, shell
  <1>3. tasks[cur].entry \in Programs
    BY <1>1 DEF TableInv, Owners
  <1>4. /\ Exited \in [TaskIds -> [sp : {"null", "start", "saved"},
                                   entry : Programs \cup {"null"}]]
        /\ Exited[cur].sp = "null" /\ Exited[cur].entry = tasks[cur].entry
        /\ \A i \in TaskIds : i # cur => Exited[i] = tasks[i]
    BY <1>1, <1>3, TaskFields DEF TableInv, TableType, Exited
  <1>5. Ahead(Exited) # {} /\ NextTask(Exited) = s
    <2>1. \A j \in TaskIds : j # cur /\ j # s => Exited[j].sp = "null"
      BY <1>2, <1>4, SlotFields DEF TableInv
    <2>2. Exited[s].sp # "null"
      BY <1>1, <1>4
    <2> HIDE DEF s
    <2> QED BY <1>1, <2>1, <2>2, NextIs
  <1>6. /\ tasks' = [Exited EXCEPT ![cur] = Task("null", tasks[cur].entry)]
        /\ cur' = s /\ at' = [at EXCEPT ![cur] = "resumed", ![s] = at[s]] /\ stack' = stack
    BY <1>1, <1>4, <1>5 DEF AppExits, Yield
  <1>7. /\ tasks' \in [TaskIds -> [sp : {"null", "start", "saved"},
                                  entry : Programs \cup {"null"}]]
        /\ tasks'[cur].sp = "null"
        /\ \A i \in TaskIds : i # cur => tasks'[i] = tasks[i]
    BY <1>1, <1>3, <1>4, <1>6, TaskFields
  <1>8. at' \in [TaskIds -> Places] /\ at'[s] = "wait"
    BY <1>1, <1>6 DEF TableInv, TableType, Places
  <1>9. Live' = {s} /\ shell' = s
    <2>1. shell' = s
      BY <1>6 DEF shell
    <2>2. Live' = {s}
      BY <1>1, <1>2, <1>7 DEF Live
    <2> QED BY <2>1, <2>2
  <1>10. TableType'
    BY <1>1, <1>6, <1>7, <1>8 DEF TableInv, TableType
  <1>11. Owners'
    BY <1>1, <1>6, <1>7, <1>9 DEF TableInv, Owners, Programs, shell
  <1>12. Turn'
    BY <1>6, <1>8, <1>9 DEF Turn
  <1> QED BY <1>1, <1>6, <1>10, <1>11, <1>12, Slots DEF TableInv

LEMMA InitTable == Init => TableInv
  <1> SUFFICES ASSUME Init PROVE TableInv
    OBVIOUS
  <1>1. Task("null", "null").sp = "null"
    BY TaskFields
  <1>2. TableType
    BY TaskFields DEF Init, TableType, Places
  <1>3. Live = {}
    BY <1>1 DEF Init, Live
  <1> QED BY <1>2, <1>3 DEF Init, TableInv

LEMMA NextTable == TableInv /\ [Next]_vars => TableInv'
  <1> SUFFICES ASSUME TableInv, [Next]_vars PROVE TableInv'
    OBVIOUS
  <1>1. CASE Boot
    BY <1>1, BootStep
  <1>2. CASE Desktop
    <2>1. cur # Nobody /\ at[cur] = "desktop"
      BY <1>2 DEF Desktop, Runs
    <2>2. cur = shell /\ Live = {cur}
      BY <2>1, WhoRuns
    <2>3. \/ UNCHANGED table
          \/ Moves("line") /\ UNCHANGED <<tasks, cur, stack>>
          \/ Create("app") /\ Moves("wait") /\ UNCHANGED cur
      BY <1>2 DEF Desktop
    <2> QED BY <2>1, <2>2, <2>3, SameTable, MovesAlone, LaunchStep
  <1>3. CASE Dispatch
    <2>1. cur # Nobody /\ at[cur] = "line"
      BY <1>3 DEF Dispatch, Runs
    <2>2. cur = shell /\ Live = {cur}
      BY <2>1, WhoRuns
    <2>3. /\ Moves("wait") /\ UNCHANGED cur
          /\ Create("app") \/ UNCHANGED <<tasks, stack>>
      BY <1>3 DEF Dispatch
    <2> QED BY <2>1, <2>2, <2>3, MovesAlone, LaunchStep
  <1>4. CASE Waits
    BY <1>4, WaitStep
  <1>5. CASE Continues
    <2>1. cur # Nobody /\ at[cur] = "wait" /\ Live \ {cur} = {}
      BY <1>5 DEF Continues, Runs, Foreground
    <2>2. cur = shell /\ Live = {cur}
      BY <2>1, WhoRuns DEF TableInv, Owners
    <2>3. \E place \in {"desktop", "line"} : Moves(place)
      BY <1>5 DEF Continues
    <2> QED BY <1>5, <2>1, <2>2, <2>3, MovesAlone DEF Continues
  <1>6. CASE AppExits
    BY <1>6, ExitStep
  <1>7. CASE ReadLine \/ AppReads \/ AppCalls \/ Devices \/ UNCHANGED vars
    BY <1>7, SameTable DEF ReadLine, AppReads, AppCalls, Devices, vars
  <1> QED BY <1>1, <1>2, <1>3, <1>4, <1>5, <1>6, <1>7 DEF Next, Kernel

\* At most one live task per program, if every live task owns its stack.
LEMMA OnePerProgram ==
    ASSUME Owners, NEW p \in Programs
    PROVE  Cardinality({i \in Live : tasks[i].entry = p}) <= 1
  <1> DEFINE S == {i \in Live : tasks[i].entry = p}
  <1>1. S \subseteq {stack[p]}
    BY DEF Owners
  <1>2. IsFiniteSet({stack[p]}) /\ Cardinality({stack[p]}) = 1
    BY FS_Singleton
  <1> QED BY <1>1, <1>2, FS_Subset

\* The console belongs to the foreground application until it exits: for every
\* number of slots, yield and task_create keep one shell and at most one
\* application, on stacks of their own, and the shell takes no key while an
\* application lives.
THEOREM ForegroundOnly == Spec => []OneForeground
  <1>1. TableInv => OneForeground
    <2> SUFFICES ASSUME TableInv, cur # Nobody
                 PROVE  /\ cur \in Live /\ at[cur] # "resumed"
                        /\ at[cur] \in {"desktop", "line"} => Live = {cur}
                        /\ \A p \in Programs : Cardinality({i \in Live : tasks[i].entry = p}) <= 1
                        /\ \A i \in Live : stack[tasks[i].entry] = i
      BY DEF OneForeground
    <2>1. Owners /\ at[cur] # "resumed"
      BY DEF TableInv, Turn
    <2> QED BY <2>1, WhoRuns, OnePerProgram DEF Owners
  <1> QED BY <1>1, InitTable, NextTable, PTL DEF Spec
-----------------------------------------------------------------------------
(* The shift keys.  A run of flags is what the codes in the controller     *)
(* make of a flag, one after the other.                                    *)

After(make, sc, flag) == IF sc \in {make, make + 128} THEN sc = make ELSE flag
IsRun(f, make, codes, flag) ==
    f = [i \in 0 .. Len(codes) |-> IF i = 0 THEN flag ELSE After(make, codes[i], f[i - 1])]

\* There is a run, and every run ends with the flag "down".
Settles(make, codes, flag, down) ==
    /\ \E f : IsRun(f, make, codes, flag)
    /\ \A f : IsRun(f, make, codes, flag) => f[Len(codes)] = down

Codes == 0 .. 255

\* A run, entry by entry.
LEMMA RunSteps ==
    ASSUME NEW f, NEW make, NEW codes \in Seq(Codes), NEW flag, IsRun(f, make, codes, flag)
    PROVE  /\ f[0] = flag /\ DOMAIN f = 0 .. Len(codes)
           /\ \A i \in 1 .. Len(codes) : f[i] = After(make, codes[i], f[i - 1])
  <1>1. Len(codes) \in Nat
    BY LenProperties
  <1> DEFINE g == [i \in 0 .. Len(codes) |-> IF i = 0 THEN flag ELSE After(make, codes[i], f[i - 1])]
  <1>2. f = g
    BY DEF IsRun
  <1>3. g[0] = flag /\ DOMAIN g = 0 .. Len(codes)
    BY <1>1
  <1>4. \A i \in 1 .. Len(codes) : g[i] = After(make, codes[i], f[i - 1])
    BY <1>1
  <1> HIDE DEF g
  <1> QED BY <1>2, <1>3, <1>4

\* No code waits: the flag is what it is.
LEMMA SettlesEmpty ==
    ASSUME NEW make, NEW codes \in Seq(Codes), Len(codes) = 0, NEW flag
    PROVE  Settles(make, codes, flag, flag)
  <1>1. IsRun([i \in 0 .. 0 |-> flag], make, codes, flag)
    BY DEF IsRun
  <1>2. ASSUME NEW f, IsRun(f, make, codes, flag) PROVE f[Len(codes)] = flag
    <2>1. /\ f[0] = flag /\ DOMAIN f = 0 .. Len(codes)
          /\ \A i \in 1 .. Len(codes) : f[i] = After(make, codes[i], f[i - 1])
      BY <1>2, RunSteps, ZenonT(60)
    <2> QED BY <2>1
  <1> QED BY <1>1, <1>2 DEF Settles

\* The first code is read.
LEMMA SettlesTail ==
    ASSUME NEW make, NEW codes \in Seq(Codes), codes # <<>>, NEW flag, NEW down,
           Settles(make, codes, flag, down)
    PROVE  Settles(make, Tail(codes), After(make, Head(codes), flag), down)
  <1> DEFINE rest == Tail(codes)
             flag2 == After(make, Head(codes), flag)
             n == Len(codes)
  <1>1. /\ n \in Nat /\ n >= 1 /\ rest \in Seq(Codes) /\ Len(rest) = n - 1
        /\ Head(codes) = codes[1]
        /\ \A i \in 1 .. n - 1 : rest[i] = codes[i + 1]
    BY HeadTailProperties, LenProperties
  <1> HIDE DEF rest, n
  <1>2. \E f : IsRun(f, make, rest, flag2)
    <2>1. PICK f : IsRun(f, make, codes, flag)
      BY DEF Settles
    <2>2. f[0] = flag /\ \A i \in 1 .. n : f[i] = After(make, codes[i], f[i - 1])
      BY <2>1, RunSteps DEF n
    <2> DEFINE g == [i \in 0 .. n - 1 |-> f[i + 1]]
    <2>3. g[0] = flag2
      BY <1>1, <2>2
    <2>4. ASSUME NEW i \in 0 .. n - 1, i # 0 PROVE g[i] = After(make, rest[i], g[i - 1])
      <3>1. g[i] = f[i + 1] /\ g[i - 1] = f[i] /\ i + 1 \in 1 .. n /\ i \in 1 .. n - 1
        BY <1>1, <2>4
      <3>2. f[i + 1] = After(make, codes[i + 1], f[i])
        BY <1>1, <2>2, <3>1
      <3> QED BY <1>1, <3>1, <3>2
    <2> DEFINE h == [i \in 0 .. n - 1 |-> IF i = 0 THEN flag2 ELSE After(make, rest[i], g[i - 1])]
    <2> HIDE DEF flag2
    <2>5. \A i \in 0 .. n - 1 : g[i] = h[i]
      BY <2>3, <2>4
    <2>6. g = h
      BY <2>5
    <2>7. IsRun(g, make, rest, flag2)
      BY <1>1, <2>6 DEF IsRun
    <2> QED BY <2>7
  <1>3. ASSUME NEW f, IsRun(f, make, rest, flag2) PROVE f[Len(rest)] = down
    <2>1. f[0] = flag2 /\ \A i \in 1 .. n - 1 : f[i] = After(make, rest[i], f[i - 1])
      BY <1>1, <1>3, RunSteps
    <2> DEFINE g == [i \in 0 .. n |-> IF i = 0 THEN flag ELSE f[i - 1]]
               h == [i \in 0 .. n |-> IF i = 0 THEN flag ELSE After(make, codes[i], g[i - 1])]
    <2>2. ASSUME NEW i \in 0 .. n, i # 0 PROVE f[i - 1] = After(make, codes[i], g[i - 1])
      <3>1. CASE i = 1
        <4>1. g[0] = flag
          BY <1>1
        <4> QED BY <1>1, <2>1, <3>1, <4>1
      <3>2. CASE i > 1
        <4>1. g[i - 1] = f[i - 2] /\ i - 1 \in 1 .. n - 1
          BY <1>1, <3>2
        <4>2. f[i - 1] = After(make, rest[i - 1], f[(i - 1) - 1]) /\ rest[i - 1] = codes[(i - 1) + 1]
          BY <1>1, <2>1, <4>1
        <4>3. (i - 1) - 1 = i - 2 /\ (i - 1) + 1 = i
          BY <1>1
        <4> QED BY <4>1, <4>2, <4>3
      <3> QED BY <1>1, <2>2, <3>1, <3>2
    <2>3. \A i \in 0 .. n : g[i] = h[i]
      BY <2>2
    <2>4. g = h
      BY <2>3
    <2>5. IsRun(g, make, codes, flag)
      BY <2>4 DEF IsRun, n
    <2>6. g[n] = down
      BY <2>5 DEF Settles, n
    <2> QED BY <1>1, <2>6
  <1> QED BY <1>2, <1>3 DEF Settles, rest

\* One more code arrives.
LEMMA SettlesAppend ==
    ASSUME NEW make, NEW codes \in Seq(Codes), NEW sc \in Codes, NEW flag, NEW down,
           Settles(make, codes, flag, down)
    PROVE  Settles(make, Append(codes, sc), flag, After(make, sc, down))
  <1> DEFINE more == Append(codes, sc)
             n == Len(codes)
  <1>1. /\ n \in Nat /\ more \in Seq(Codes) /\ Len(more) = n + 1 /\ more[n + 1] = sc
        /\ \A i \in 1 .. n : more[i] = codes[i]
    BY AppendProperties, LenProperties
  <1> HIDE DEF more, n
  <1>2. \E f : IsRun(f, make, more, flag)
    <2>1. PICK f : IsRun(f, make, codes, flag)
      BY DEF Settles
    <2>2. f[0] = flag /\ \A i \in 1 .. n : f[i] = After(make, codes[i], f[i - 1])
      BY <2>1, RunSteps, ZenonT(60) DEF n
    <2> DEFINE g == [i \in 0 .. n + 1 |-> IF i = n + 1 THEN After(make, sc, f[n]) ELSE f[i]]
               h == [i \in 0 .. n + 1 |-> IF i = 0 THEN flag ELSE After(make, more[i], g[i - 1])]
    <2>3. ASSUME NEW i \in 0 .. n + 1 PROVE g[i] = h[i]
      <3>1. CASE i = 0
        <4>1. g[0] = f[0] /\ h[0] = flag
          BY <1>1
        <4> QED BY <2>2, <3>1, <4>1
      <3>2. CASE i = n + 1
        <4>1. g[i - 1] = f[n] /\ g[i] = After(make, sc, f[n]) /\ i # 0
          BY <1>1, <3>2
        <4> QED BY <1>1, <3>2, <4>1
      <3>3. CASE i \in 1 .. n
        <4>1. g[i] = f[i] /\ g[i - 1] = f[i - 1] /\ i # 0
          BY <1>1, <3>3
        <4> QED BY <1>1, <2>2, <3>3, <4>1
      <3> QED BY <1>1, <3>1, <3>2, <3>3
    <2>4. g = h
      BY <2>3
    <2>5. IsRun(g, make, more, flag)
      BY <1>1, <2>4 DEF IsRun
    <2> QED BY <2>5
  <1>3. ASSUME NEW f, IsRun(f, make, more, flag) PROVE f[Len(more)] = After(make, sc, down)
    <2>1. f[0] = flag /\ \A i \in 1 .. n + 1 : f[i] = After(make, more[i], f[i - 1])
      <3>1. /\ f[0] = flag
            /\ \A i \in 1 .. Len(more) : f[i] = After(make, more[i], f[i - 1])
        BY <1>1, <1>3, RunSteps, Zenon
      <3> QED BY <1>1, <3>1
    <2> DEFINE g == [i \in 0 .. n |-> f[i]]
               h == [i \in 0 .. n |-> IF i = 0 THEN flag ELSE After(make, codes[i], g[i - 1])]
    <2>2. ASSUME NEW i \in 0 .. n, i # 0 PROVE f[i] = After(make, codes[i], g[i - 1])
      <3>1. g[i - 1] = f[i - 1] /\ i \in 1 .. n /\ i \in 1 .. n + 1
        BY <1>1, <2>2
      <3> QED BY <1>1, <2>1, <3>1
    <2>3. \A i \in 0 .. n : g[i] = h[i]
      BY <2>1, <2>2
    <2>4. g = h
      BY <2>3
    <2>5. IsRun(g, make, codes, flag)
      BY <2>4 DEF IsRun, n
    <2>6. g[n] = down
      BY <2>5 DEF Settles, n
    <2>7. f[n] = down
      BY <1>1, <2>6
    <2>8. f[n + 1] = After(make, more[n + 1], f[(n + 1) - 1]) /\ (n + 1) - 1 = n
      BY <1>1, <2>1
    <2> QED BY <1>1, <2>7, <2>8
  <1> QED BY <1>2, <1>3 DEF Settles, more

\* What the taken codes say of the two keys, l and r, holds of those not astray.
Says(l, r) ==
    /\ Settles(42, kbd, left_shift, l) /\ ("left" \in astray \/ l = ("left" \in held))
    /\ Settles(54, kbd, right_shift, r) /\ ("right" \in astray \/ r = ("right" \in held))
ShiftInv ==
    /\ kbd \in Seq(Codes)
    /\ \E l, r \in BOOLEAN : Says(l, r)

LEMMA Afters ==
    ASSUME NEW sc, NEW flag
    PROVE  LeftAfter(sc, flag) = After(42, sc, flag) /\ RightAfter(sc, flag) = After(54, sc, flag)
  BY DEF LeftAfter, RightAfter, After

\* poll_ch takes a code from the controller, or none.
LEMMA KeyTakenShift == ASSUME ShiftInv, KeyTaken PROVE ShiftInv'
  <1>0. PICK l \in BOOLEAN, r \in BOOLEAN : Says(l, r)
    BY DEF ShiftInv
  <1>1. CASE UNCHANGED <<kbd, shifts>>
    <2>1. Says(l, r)'
      BY <1>0, <1>1 DEF KeyTaken, Says, shifts
    <2> QED BY <1>1, <2>1 DEF ShiftInv
  <1>2. CASE /\ kbd # <<>> /\ kbd' = Tail(kbd)
             /\ left_shift' = LeftAfter(Head(kbd), left_shift)
             /\ right_shift' = RightAfter(Head(kbd), right_shift)
    <2>1. /\ left_shift' = After(42, Head(kbd), left_shift)
          /\ right_shift' = After(54, Head(kbd), right_shift) /\ held' = held /\ astray' = astray
      BY <1>2, Afters DEF KeyTaken
    <2>2. Tail(kbd) \in Seq(Codes)
      BY <1>2, HeadTailProperties DEF ShiftInv
    <2>3. Settles(42, Tail(kbd), After(42, Head(kbd), left_shift), l)
      BY <1>0, <1>2, SettlesTail DEF ShiftInv, Says
    <2>4. Settles(54, Tail(kbd), After(54, Head(kbd), right_shift), r)
      BY <1>0, <1>2, SettlesTail DEF ShiftInv, Says
    <2>5. Says(l, r)'
      BY <1>0, <1>2, <2>1, <2>3, <2>4, Zenon DEF Says
    <2> QED BY <1>2, <2>2, <2>5 DEF ShiftInv
  <1> QED BY <1>1, <1>2 DEF KeyTaken

\* The keyboard sends a code: a full controller loses it, and then the codes say
\* what they said; else they say what it says of its key.
LEMMA SendsShift ==
    ASSUME kbd \in Seq(Codes), NEW sc \in Codes, Sends(sc), UNCHANGED shifts,
           NEW l, NEW r, Settles(42, kbd, left_shift, l), Settles(54, kbd, right_shift, r)
    PROVE  /\ kbd' \in Seq(Codes)
           /\ Full => /\ Settles(42, kbd', left_shift', l)
                      /\ Settles(54, kbd', right_shift', r)
           /\ ~ Full => /\ Settles(42, kbd', left_shift', After(42, sc, l))
                        /\ Settles(54, kbd', right_shift', After(54, sc, r))
  <1>1. left_shift' = left_shift /\ right_shift' = right_shift
    BY DEF shifts
  <1>2. CASE Full
    <2>1. kbd' = kbd
      BY <1>2 DEF Sends
    <2> QED BY <1>1, <1>2, <2>1
  <1>3. CASE ~ Full
    <2>1. kbd' = Append(kbd, sc)
      BY <1>3 DEF Sends
    <2>2. Append(kbd, sc) \in Seq(Codes)
      BY AppendProperties
    <2>3. Settles(42, Append(kbd, sc), left_shift, After(42, sc, l))
      BY SettlesAppend
    <2>4. Settles(54, Append(kbd, sc), right_shift, After(54, sc, r))
      BY SettlesAppend
    <2> QED BY <1>1, <1>3, <2>1, <2>2, <2>3, <2>4, Zenon
  <1> QED BY <1>2, <1>3

\* What a code of a shift key says of the two keys.
LEMMA ShiftSays ==
    ASSUME NEW key \in Keys, NEW down \in BOOLEAN, NEW l, NEW r
    PROVE  /\ ShiftCode(key, down) \in Codes
           /\ After(42, ShiftCode(key, down), l) = IF key = "left" THEN down ELSE l
           /\ After(54, ShiftCode(key, down), r) = IF key = "right" THEN down ELSE r
  <1>1. CASE key = "left" /\ down
    <2>1. ShiftCode(key, down) = 42 /\ 42 \in Codes
      BY <1>1 DEF ShiftCode, Codes
    <2>2. After(42, 42, l) = TRUE /\ After(54, 42, r) = r
      BY DEF After
    <2> QED BY <1>1, <2>1, <2>2, Zenon
  <1>2. CASE key = "left" /\ ~ down
    <2>1. ShiftCode(key, down) = 170 /\ 170 \in Codes
      BY <1>2 DEF ShiftCode, Codes
    <2>2. After(42, 170, l) = FALSE /\ After(54, 170, r) = r
      BY DEF After
    <2> QED BY <1>2, <2>1, <2>2, Zenon
  <1>3. CASE key = "right" /\ down
    <2>1. ShiftCode(key, down) = 54 /\ 54 \in Codes
      BY <1>3 DEF ShiftCode, Codes
    <2>2. After(42, 54, l) = l /\ After(54, 54, r) = TRUE
      BY DEF After
    <2> QED BY <1>3, <2>1, <2>2, Zenon
  <1>4. CASE key = "right" /\ ~ down
    <2>1. ShiftCode(key, down) = 182 /\ 182 \in Codes
      BY <1>4 DEF ShiftCode, Codes
    <2>2. After(42, 182, l) = l /\ After(54, 182, r) = FALSE
      BY DEF After
    <2> QED BY <1>4, <2>1, <2>2, Zenon
  <1> QED BY <1>1, <1>2, <1>3, <1>4 DEF Keys

\* A code of a shift key arrives or is lost: astray keeps account of it.
LEMMA ShiftCodeShift ==
    ASSUME ShiftInv, UNCHANGED shifts, NEW key \in Keys, NEW down \in BOOLEAN,
           Sends(ShiftCode(key, down)),
           \A k \in Keys \ {key} : /\ (k \in held') = (k \in held)
                                   /\ (k \in astray') = (k \in astray),
           Full => key \in astray' \/ ((key \in held') = (key \in held)
                                        /\ (key \in astray') = (key \in astray)),
           ~ Full => key \in astray' \/ down = (key \in held')
    PROVE  ShiftInv'
  <1>1. PICK l \in BOOLEAN, r \in BOOLEAN : Says(l, r)
    BY DEF ShiftInv
  <1> DEFINE sc == ShiftCode(key, down)
             l2 == IF key = "left" THEN down ELSE l
             r2 == IF key = "right" THEN down ELSE r
  <1>2. sc \in Codes /\ After(42, sc, l) = l2 /\ After(54, sc, r) = r2
    BY ShiftSays
  <1>3. /\ kbd' \in Seq(Codes)
        /\ Full => Settles(42, kbd', left_shift', l) /\ Settles(54, kbd', right_shift', r)
        /\ ~ Full => Settles(42, kbd', left_shift', l2) /\ Settles(54, kbd', right_shift', r2)
    <2> HIDE DEF l2, r2
    <2>1. Settles(42, kbd, left_shift, l) /\ Settles(54, kbd, right_shift, r)
      BY <1>1 DEF Says
    <2>2. kbd \in Seq(Codes)
      BY DEF ShiftInv
    <2>3. Sends(sc)
      OBVIOUS
    <2> HIDE DEF sc
    <2> QED BY <1>2, <2>1, <2>2, <2>3, SendsShift
  <1>4. CASE Full
    <2>1. \A k \in Keys : k \in astray' \/ ((k \in held') = (k \in held)
                                           /\ (k \in astray') = (k \in astray))
      BY <1>4
    <2>2. /\ "left" \in astray' \/ l = ("left" \in held')
          /\ "right" \in astray' \/ r = ("right" \in held')
      BY <1>1, <2>1, Zenon DEF Says, Keys
    <2>3. Says(l, r)'
      BY <1>3, <1>4, <2>2, Zenon DEF Says
    <2> QED BY <1>3, <2>3 DEF ShiftInv
  <1>5. CASE ~ Full
    <2>1. "left" \in astray' \/ l2 = ("left" \in held')
      <3>1. CASE key = "left"
        BY <1>5, <3>1, Zenon
      <3>2. CASE key # "left"
        <4>1. "left" \in Keys \ {key} /\ l2 = l
          BY <3>2 DEF Keys
        <4> QED BY <1>1, <4>1, Zenon DEF Says
      <3> QED BY <3>1, <3>2
    <2>2. "right" \in astray' \/ r2 = ("right" \in held')
      <3>1. CASE key = "right"
        BY <1>5, <3>1, Zenon
      <3>2. CASE key # "right"
        <4>1. "right" \in Keys \ {key} /\ r2 = r
          BY <3>2 DEF Keys
        <4> QED BY <1>1, <4>1, Zenon DEF Says
      <3> QED BY <3>1, <3>2
    <2>3. l2 \in BOOLEAN /\ r2 \in BOOLEAN
      BY Zenon
    <2> HIDE DEF l2, r2
    <2>4. Says(l2, r2)'
      BY <1>3, <1>5, <2>1, <2>2, Zenon DEF Says
    <2> QED BY <1>3, <2>3, <2>4 DEF ShiftInv
  <1> QED BY <1>4, <1>5

LEMMA DevicesShift == ASSUME ShiftInv, Devices PROVE ShiftInv'
  <1>1. UNCHANGED shifts
    BY DEF Devices
  <1>2. ASSUME NEW sc \in ScanCodes, KeyPressed(sc) PROVE ShiftInv'
    <2>1. sc \in Codes /\ sc \notin {42, 170, 54, 182}
      BY ShellAssumption DEF Codes
    <2>2. PICK l \in BOOLEAN, r \in BOOLEAN : Says(l, r)
      BY DEF ShiftInv
    <2>3. After(42, sc, l) = l /\ After(54, sc, r) = r
      BY <2>1 DEF After
    <2>4. /\ kbd' \in Seq(Codes)
          /\ Settles(42, kbd', left_shift', l) /\ Settles(54, kbd', right_shift', r)
      <3>1. kbd \in Seq(Codes) /\ Sends(sc)
        BY <1>2 DEF ShiftInv, KeyPressed
      <3>2. Settles(42, kbd, left_shift, l) /\ Settles(54, kbd, right_shift, r)
        BY <2>2 DEF Says
      <3> QED BY <1>1, <2>1, <2>3, <3>1, <3>2, SendsShift
    <2>5. Says(l, r)'
      BY <1>2, <2>2, <2>4, Zenon DEF Says, KeyPressed
    <2> QED BY <2>4, <2>5 DEF ShiftInv
  <1>3. ASSUME NEW key \in Keys, ShiftPressed(key) PROVE ShiftInv'
    <2>1. /\ Sends(ShiftCode(key, TRUE)) /\ key \in held'
          /\ Full => key \in astray'
          /\ \A k \in Keys \ {key} : /\ (k \in held') = (k \in held)
                                   /\ (k \in astray') = (k \in astray)
      <3>1. Sends(ShiftCode(key, TRUE)) /\ held' = held \cup {key}
        BY <1>3 DEF ShiftPressed
      <3>2. \/ Full /\ astray' = astray \cup {key}
            \/ ~ Full /\ astray' = astray \ {key}
        BY <1>3 DEF ShiftPressed
      <3>3. key \in held' /\ (Full => key \in astray')
        BY <3>1, <3>2
      <3>4. ASSUME NEW k \in Keys \ {key}
            PROVE  (k \in held') = (k \in held) /\ (k \in astray') = (k \in astray)
        <4>1. k # key
          OBVIOUS
        <4>2. (k \in held') = (k \in held)
          <5>1. k \in held' <=> k \in held
            BY <3>1, <4>1
          <5> QED BY <5>1
        <4>3. (k \in astray') = (k \in astray)
          <5>1. k \in astray' <=> k \in astray
            BY <3>2, <4>1
          <5> QED BY <5>1
        <4> QED BY <4>2, <4>3
      <3> QED BY <3>1, <3>3, <3>4, Zenon
    <2>2. TRUE \in BOOLEAN /\ TRUE = (key \in held')
      BY <2>1
    <2> QED BY <1>1, <2>1, <2>2, ShiftCodeShift
  <1>4. ASSUME NEW key \in Keys, ShiftReleased(key) PROVE ShiftInv'
    <2>1. /\ Sends(ShiftCode(key, FALSE)) /\ key \notin held'
          /\ Full => key \in astray'
          /\ \A k \in Keys \ {key} : /\ (k \in held') = (k \in held)
                                   /\ (k \in astray') = (k \in astray)
      <3>1. Sends(ShiftCode(key, FALSE)) /\ held' = held \ {key}
        BY <1>4 DEF ShiftReleased
      <3>2. \/ Full /\ astray' = astray \cup {key}
            \/ ~ Full /\ astray' = astray \ {key}
        BY <1>4 DEF ShiftReleased
      <3>3. key \notin held' /\ (Full => key \in astray')
        BY <3>1, <3>2
      <3>4. ASSUME NEW k \in Keys \ {key}
            PROVE  (k \in held') = (k \in held) /\ (k \in astray') = (k \in astray)
        <4>1. k # key
          OBVIOUS
        <4>2. (k \in held') = (k \in held)
          <5>1. k \in held' <=> k \in held
            BY <3>1, <4>1
          <5> QED BY <5>1
        <4>3. (k \in astray') = (k \in astray)
          <5>1. k \in astray' <=> k \in astray
            BY <3>2, <4>1
          <5> QED BY <5>1
        <4> QED BY <4>2, <4>3
      <3> QED BY <3>1, <3>3, <3>4, Zenon
    <2>2. FALSE \in BOOLEAN /\ FALSE = (key \in held')
      BY <2>1
    <2> QED BY <1>1, <2>1, <2>2, ShiftCodeShift
  <1>5. ASSUME NEW key \in Keys, NEW down \in BOOLEAN, FeignedShift(key, down) PROVE ShiftInv'
    BY <1>1, <1>5, ShiftCodeShift DEF FeignedShift
  <1>6. ASSUME NEW c \in SerialChars, SerialReceives(c) PROVE ShiftInv'
    <2>1. PICK l \in BOOLEAN, r \in BOOLEAN : Says(l, r)
      BY DEF ShiftInv
    <2>2. Says(l, r)' /\ kbd' = kbd
      BY <1>1, <1>6, <2>1 DEF SerialReceives, Says, shifts
    <2> QED BY <2>2 DEF ShiftInv
  <1> QED BY <1>2, <1>3, <1>4, <1>5, <1>6 DEF Devices

LEMMA InitShift == Init => ShiftInv
  <1> SUFFICES ASSUME Init PROVE ShiftInv
    OBVIOUS
  <1>1. kbd \in Seq(Codes) /\ Len(kbd) = 0
    BY EmptySeq DEF Init
  <1>2. left_shift = FALSE /\ right_shift = FALSE
    BY DEF Init
  <1>3. ("left" \in held) = FALSE /\ ("right" \in held) = FALSE
    BY DEF Init
  <1>4. Settles(42, kbd, FALSE, FALSE) /\ Settles(54, kbd, FALSE, FALSE)
    BY <1>1, SettlesEmpty
  <1>5. Says(FALSE, FALSE)
    BY <1>2, <1>3, <1>4, Zenon DEF Says
  <1> QED BY <1>1, <1>5, Zenon DEF ShiftInv

LEMMA NextShift == ShiftInv /\ [Next]_vars => ShiftInv'
  <1> SUFFICES ASSUME ShiftInv, [Next]_vars PROVE ShiftInv'
    OBVIOUS
  <1>1. KeyTaken \/ Devices \/ UNCHANGED <<kbd, held, astray, shifts>>
    BY DEF Next, Kernel, Boot, Desktop, ReadLine, Dispatch, Waits, Continues, AppReads,
           AppCalls, AppExits, PollCh, vars, devices, shifts
  <1>2. CASE UNCHANGED <<kbd, held, astray, shifts>>
    <2>1. PICK l \in BOOLEAN, r \in BOOLEAN : Says(l, r)
      BY DEF ShiftInv
    <2>2. Says(l, r)' /\ kbd' = kbd
      BY <1>2, <2>1 DEF Says, shifts
    <2> QED BY <2>2 DEF ShiftInv
  <1> QED BY <1>1, <1>2, KeyTakenShift, DevicesShift

\* For every sequence of codes, lost or feigned at any time, whichever task reads
\* them and whatever the serial line sends: a flag of poll_ch differs from its key,
\* once the waiting codes are read, only if that key is astray.
THEOREM ShiftSticksOnlyByLoss == Spec => []ShiftTracksKeys
  <1>1. ShiftInv => ShiftTracksKeys
    <2> SUFFICES ASSUME ShiftInv PROVE ShiftTracksKeys
      OBVIOUS
    <2>0. PICK l \in BOOLEAN, r \in BOOLEAN : Says(l, r)
      BY DEF ShiftInv
    <2> DEFINE Left(f) == f = [i \in 0 .. Len(kbd) |->
                          IF i = 0 THEN left_shift ELSE LeftAfter(kbd[i], f[i - 1])]
               Right(f) == f = [i \in 0 .. Len(kbd) |->
                          IF i = 0 THEN right_shift ELSE RightAfter(kbd[i], f[i - 1])]
               left == CHOOSE f : Left(f)
               right == CHOOSE f : Right(f)
    <2>1. IsRun(left, 42, kbd, left_shift)
      <3>1. ASSUME NEW f PROVE Left(f) <=> IsRun(f, 42, kbd, left_shift)
        <4> DEFINE g == [i \in 0 .. Len(kbd) |->
                          IF i = 0 THEN left_shift ELSE LeftAfter(kbd[i], f[i - 1])]
                   h == [i \in 0 .. Len(kbd) |->
                          IF i = 0 THEN left_shift ELSE After(42, kbd[i], f[i - 1])]
        <4>1. \A i \in 0 .. Len(kbd) : LeftAfter(kbd[i], f[i - 1]) = After(42, kbd[i], f[i - 1])
          BY Afters, Zenon
        <4>2. g = h
          BY <4>1
        <4> QED BY <4>2, Zenon DEF IsRun
      <3>2. \E f : Left(f)
        BY <2>0, <3>1 DEF Says, Settles
      <3> HIDE DEF Left
      <3>3. Left(left)
        BY <3>2, Zenon
      <3> QED BY <3>1, <3>3
    <2>2. IsRun(right, 54, kbd, right_shift)
      <3>1. ASSUME NEW f PROVE Right(f) <=> IsRun(f, 54, kbd, right_shift)
        <4> DEFINE g == [i \in 0 .. Len(kbd) |->
                          IF i = 0 THEN right_shift ELSE RightAfter(kbd[i], f[i - 1])]
                   h == [i \in 0 .. Len(kbd) |->
                          IF i = 0 THEN right_shift ELSE After(54, kbd[i], f[i - 1])]
        <4>1. \A i \in 0 .. Len(kbd) : RightAfter(kbd[i], f[i - 1]) = After(54, kbd[i], f[i - 1])
          BY Afters, Zenon
        <4>2. g = h
          BY <4>1
        <4> QED BY <4>2, Zenon DEF IsRun
      <3>2. \E f : Right(f)
        BY <2>0, <3>1 DEF Says, Settles
      <3> HIDE DEF Right
      <3>3. Right(right)
        BY <3>2, Zenon
      <3> QED BY <3>1, <3>3
    <2>3. left[Len(kbd)] = l
      BY <2>0, <2>1, Zenon DEF Says, Settles
    <2>4. right[Len(kbd)] = r
      BY <2>0, <2>2, Zenon DEF Says, Settles
    <2> QED BY <2>0, <2>3, <2>4, Zenon DEF ShiftTracksKeys, Settled, Says
  <1> QED BY <1>1, InitShift, NextShift, PTL DEF Spec

-----------------------------------------------------------------------------
(* The allocator: the blocks cover the arena, in order, and no two that    *)
(* are free touch.                                                         *)

End(h, b) == b + HEADER + h[b].size
BlockType == [size : Nat \ {0}, next : Nat \cup {NULL}, available : BOOLEAN]

\* The blocks cover the arena in the order of their addresses.
Layout(h) ==
    /\ h \in [DOMAIN h -> BlockType]
    /\ IsFiniteSet(DOMAIN h) /\ DOMAIN h \subseteq Nat /\ 0 \in DOMAIN h
    /\ \A b \in DOMAIN h : b % ALIGN = 0 /\ h[b].size % ALIGN = 0 /\ End(h, b) <= ARENA
    /\ \A b \in DOMAIN h : End(h, b) # ARENA => End(h, b) \in DOMAIN h
    /\ \A b \in DOMAIN h : h[b].next = IF End(h, b) = ARENA THEN NULL ELSE End(h, b)
    /\ \A b \in DOMAIN h : b # 0 => \E a \in DOMAIN h : End(h, a) = b
    /\ \A a, b \in DOMAIN h : a < b => End(h, a) <= b

\* No block that is available lies before another one.
Apart(h) == \A a, b \in DOMAIN h : End(h, a) = b => ~ (h[a].available /\ h[b].available)

HeapInv(h) == Layout(h) /\ Apart(h)

\* The sum over a set of at most two blocks.
Span(h, a) == HEADER + h[a].size
SumOf(h, S) == MapThenSumSet(LAMBDA a : HEADER + h[a].size, S)

LEMMA Sums ==
    ASSUME NEW h, NEW x, NEW y, Span(h, x) \in Int, Span(h, y) \in Int
    PROVE  /\ SumOf(h, {}) = 0
           /\ SumOf(h, {x}) = Span(h, x)
           /\ x # y => SumOf(h, {x, y}) = Span(h, x) + Span(h, y)
  <1> DEFINE Is(S, g) == g = [s \in SUBSET S |->
                 IF s = {} THEN 0
                 ELSE Span(h, CHOOSE e \in s : TRUE) + g[s \ {CHOOSE e \in s : TRUE}]]
  <1>1. ASSUME NEW S PROVE SumOf(h, S) = (CHOOSE g : Is(S, g))[S]
    BY DEF SumOf, MapThenSumSet, MapThenFoldSet, Span
  <1>2. ASSUME NEW S, NEW g, Is(S, g) PROVE Is(S, CHOOSE f : Is(S, f))
    <2> HIDE DEF Is
    <2> QED BY <1>2, Zenon
  <1>3. ASSUME NEW S, NEW g, Is(S, g)
        PROVE  /\ g[{}] = 0
               /\ \A s \in SUBSET S : s # {} =>
                    \E e \in s : g[s] = Span(h, e) + g[s \ {e}]
    <2>1. g[{}] = 0
      BY <1>3
    <2>2. ASSUME NEW s \in SUBSET S, s # {}
          PROVE  \E e \in s : g[s] = Span(h, e) + g[s \ {e}]
      <3> DEFINE e == CHOOSE e \in s : TRUE
      <3>1. e \in s
        BY <2>2, Zenon
      <3>2. g[s] = Span(h, e) + g[s \ {e}]
        BY <1>3, <2>2
      <3> HIDE DEF e
      <3> QED BY <3>1, <3>2
    <2> QED BY <2>1, <2>2
  <1>4. ASSUME NEW S, S \subseteq {x, y}, NEW g, Is(S, g)
        PROVE  /\ S = {} => SumOf(h, S) = 0
               /\ S = {x} => SumOf(h, S) = Span(h, x)
               /\ S = {x, y} /\ x # y => SumOf(h, S) = Span(h, x) + Span(h, y)
    <2> DEFINE f == CHOOSE f : Is(S, f)
    <2>2. SumOf(h, S) = f[S]
      BY <1>1
    <2> HIDE DEF Is
    <2>1. Is(S, f)
      BY <1>2, <1>4, Zenon
    <2> HIDE DEF f
    <2>3. f[{}] = 0
      BY <1>3, <2>1
    <2>4. \A s \in SUBSET S : s # {} => \E e \in s : f[s] = Span(h, e) + f[s \ {e}]
      BY <1>3, <2>1
    <2>5. ASSUME NEW z \in S PROVE f[{z}] = Span(h, z) + 0
      <3>1. {z} \ {z} = {} /\ {z} \in SUBSET S
        OBVIOUS
      <3>2. PICK e \in {z} : f[{z}] = Span(h, e) + f[{z} \ {e}]
        BY <2>4, <3>1
      <3> QED BY <2>3, <3>1, <3>2
    <2>6. CASE S = {}
      BY <2>2, <2>3, <2>6
    <2>7. CASE S = {x}
      BY <2>2, <2>5, <2>7
    <2>8. CASE S = {x, y} /\ x # y
      <3>1. PICK e \in S : f[S] = Span(h, e) + f[S \ {e}]
        BY <2>4, <2>8
      <3>2. f[{x}] = Span(h, x) + 0 /\ f[{y}] = Span(h, y) + 0
        BY <2>5, <2>8
      <3>3. CASE e = x
        <4>1. S \ {e} = {y}
          BY <2>8, <3>3
        <4>2. f[S] = Span(h, x) + f[{y}]
          BY <3>1, <3>3, <4>1
        <4>3. f[S] = Span(h, x) + Span(h, y)
          BY <3>2, <4>2
        <4> QED BY <2>2, <2>8, <4>3
      <3>4. CASE e = y
        <4>1. S \ {e} = {x}
          BY <2>8, <3>4
        <4>2. f[S] = Span(h, y) + f[{x}]
          BY <3>1, <3>4, <4>1
        <4>3. f[S] = Span(h, x) + Span(h, y)
          BY <3>2, <4>2
        <4> QED BY <2>2, <2>8, <4>3
      <3> QED BY <2>8, <3>3, <3>4
    <2> QED BY <1>4, <2>6, <2>7, <2>8
  <1> DEFINE G(S) == [s \in SUBSET S |->
                 IF s = {} THEN 0 ELSE IF s = {x} THEN Span(h, x) ELSE IF s = {y} THEN Span(h, y)
                 ELSE Span(h, x) + Span(h, y)]
  <1>5. ASSUME NEW S, S \subseteq {x, y} PROVE Is(S, G(S))
    <2> DEFINE F == [s \in SUBSET S |->
                 IF s = {} THEN 0
                 ELSE Span(h, CHOOSE e \in s : TRUE) + G(S)[s \ {CHOOSE e \in s : TRUE}]]
    <2>1. ASSUME NEW s \in SUBSET S PROVE G(S)[s] = F[s]
      <3>1. CASE s = {}
        BY <3>1
      <3>2. CASE s # {}
        <4> DEFINE e == CHOOSE e \in s : TRUE
        <4>1. e \in s
          BY <3>2, Zenon
        <4>2. F[s] = Span(h, e) + G(S)[s \ {e}]
          BY <3>2
        <4> HIDE DEF e, F
        <4>3. e = x \/ e = y
          BY <1>5, <4>1
        <4>4. CASE s = {e}
          <5>1. s \ {e} = {} /\ {} \in SUBSET S
            BY <4>4
          <5>2. G(S)[s \ {e}] = 0
            BY <5>1
          <5>3. G(S)[s] = Span(h, e)
            BY <4>1, <4>3, <4>4
          <5> QED BY <4>2, <4>3, <5>2, <5>3
        <4>5. CASE s # {e}
          <5>1. s = {x, y} /\ x # y
            BY <1>5, <4>1, <4>3, <4>5
          <5>2. {x} \in SUBSET S /\ {y} \in SUBSET S /\ s # {x} /\ s # {y} /\ s # {}
            BY <5>1
          <5>3. G(S)[s] = Span(h, x) + Span(h, y)
            BY <5>2
          <5>4. G(S)[{x}] = Span(h, x) /\ G(S)[{y}] = Span(h, y)
            BY <5>1, <5>2
          <5>5. e = x => s \ {e} = {y}
            BY <5>1
          <5>6. e = y => s \ {e} = {x}
            BY <5>1
          <5> DEFINE H == G(S)
          <5> HIDE DEF G
          <5>7. H[s] = Span(h, x) + Span(h, y) /\ H[{x}] = Span(h, x) /\ H[{y}] = Span(h, y)
                /\ F[s] = Span(h, e) + H[s \ {e}]
            BY <4>2, <5>3, <5>4
          <5> HIDE DEF H
          <5>8. ASSUME e = x PROVE H[s] = F[s]
            BY <5>5, <5>7, <5>8
          <5>9. ASSUME e = y PROVE H[s] = F[s]
            <6>1. F[s] = Span(h, y) + H[{x}]
              BY <5>6, <5>7, <5>9
            <6>2. F[s] = Span(h, y) + Span(h, x)
              BY <5>7, <6>1
            <6>3. Span(h, y) + Span(h, x) = Span(h, x) + Span(h, y)
              OBVIOUS
            <6> QED BY <5>7, <6>2, <6>3
          <5>10. H[s] = F[s]
            BY <4>3, <5>8, <5>9
          <5> QED BY <5>10 DEF H
        <4> QED BY <4>4, <4>5
      <3> QED BY <3>1, <3>2
    <2>2. G(S) = [s \in SUBSET S |-> G(S)[s]] /\ F = [s \in SUBSET S |-> F[s]]
      OBVIOUS
    <2> HIDE DEF F, G
    <2>3. G(S) = F
      BY <2>1, <2>2
    <2> QED BY <2>3 DEF F
  <1> HIDE DEF Is, G
  <1>6. {} \subseteq {x, y} /\ {x} \subseteq {x, y}
    OBVIOUS
  <1>7. SumOf(h, {}) = 0
    BY <1>4, <1>5, <1>6
  <1>8. SumOf(h, {x}) = Span(h, x)
    BY <1>4, <1>5, <1>6
  <1>9. x # y => SumOf(h, {x, y}) = Span(h, x) + Span(h, y)
    BY <1>4, <1>5
  <1> QED BY <1>7, <1>8, <1>9
LEMMA Multiples ==
    ASSUME NEW a \in Int, NEW b \in Int, a % ALIGN = 0, b % ALIGN = 0
    PROVE  (a + b) % ALIGN = 0 /\ (a - b) % ALIGN = 0
  <1>1. ALIGN \in Nat \ {0}
    BY HeapAssumption
  <1>2. ((a % ALIGN) + b) % ALIGN = (a + b) % ALIGN
    BY <1>1, ModPlus
  <1>3. ((a % ALIGN) - (b % ALIGN)) % ALIGN = (a - b) % ALIGN
    BY <1>1, ModMinus
  <1>4. 0 + b = b /\ 0 - 0 = 0 /\ 0 % ALIGN = 0
    BY <1>1
  <1> QED BY <1>2, <1>3, <1>4

LEMMA Blocks ==
    ASSUME NEW size, NEW next, NEW available
    PROVE  /\ Block(size, next, available).size = size
           /\ Block(size, next, available).next = next
           /\ Block(size, next, available).available = available
  BY DEF Block

LEMMA BlockTyped ==
    ASSUME NEW size \in Nat \ {0}, NEW next \in Nat \cup {NULL}, NEW available \in BOOLEAN
    PROVE  Block(size, next, available) \in BlockType
  BY DEF Block, BlockType

LEMMA BlockAt ==
    ASSUME NEW h, Layout(h), NEW b \in DOMAIN h
    PROVE  /\ b \in Nat /\ h[b].size \in Nat /\ h[b].size > 0 /\ h[b].available \in BOOLEAN
           /\ h[b].next \in Nat \cup {NULL} /\ h[b] = Block(h[b].size, h[b].next, h[b].available)
           /\ End(h, b) \in Nat /\ End(h, b) > b + HEADER /\ End(h, b) <= ARENA
           /\ End(h, b) % ALIGN = 0 /\ b % ALIGN = 0 /\ h[b].size % ALIGN = 0
  <1>1. h[b] \in BlockType /\ b \in Nat /\ b % ALIGN = 0 /\ h[b].size % ALIGN = 0
        /\ End(h, b) <= ARENA
    BY DEF Layout
  <1>2. h[b].size \in Nat /\ h[b].size > 0 /\ h[b].available \in BOOLEAN
        /\ h[b].next \in Nat \cup {NULL} /\ h[b] = Block(h[b].size, h[b].next, h[b].available)
    BY <1>1 DEF BlockType, Block
  <1>3. HEADER \in Nat /\ HEADER % ALIGN = 0
    BY HeapAssumption
  <1>4. PICK s \in Nat : s = h[b].size
    BY <1>2
  <1>5. (b + HEADER) % ALIGN = 0
    BY <1>1, <1>3, Multiples
  <1>6. b + HEADER \in Int /\ s \in Int /\ s % ALIGN = 0
    BY <1>1, <1>3, <1>4
  <1>7. ((b + HEADER) + s) % ALIGN = 0
    BY <1>5, <1>6, Multiples
  <1> QED BY <1>1, <1>2, <1>3, <1>4, <1>7 DEF End

\* The size that malloc looks for.
LEMMA RoundedUp ==
    ASSUME NEW n \in Nat
    PROVE  Rounded(n) \in Nat /\ Rounded(n) > 0 /\ Rounded(n) % ALIGN = 0 /\ Rounded(n) >= n
  <1>1. ALIGN \in Nat \ {0}
    BY HeapAssumption
  <1>2. CASE n = 0
    BY <1>1, <1>2, ModMultiple DEF Rounded
  <1>3. CASE n # 0
    <2> DEFINE x == n + ALIGN - 1
               q == x \div ALIGN
    <2>1. x \in Nat /\ x = n + ALIGN - 1
      BY <1>1
    <2>2. q \in Nat /\ x % ALIGN < ALIGN /\ x % ALIGN \in Nat /\ x = ALIGN * q + (x % ALIGN)
      BY <1>1, <2>1, DivParts
    <2> HIDE DEF x
    <2> HIDE DEF q
    <2>3. Rounded(n) = q * ALIGN
      BY <1>3 DEF Rounded, x, q
    <2>4. PICK r \in Nat : r = x % ALIGN
      BY <2>2
    <2>5. q * ALIGN = ALIGN * q /\ ALIGN * q \in Nat
      BY <1>1, <2>2
    <2>6. PICK m \in Nat : m = ALIGN * q
      BY <2>5
    <2>7. m >= n /\ m > 0
      BY <1>1, <1>3, <2>1, <2>2, <2>4, <2>6
    <2>8. (ALIGN * q) % ALIGN = 0
      BY <1>1, <2>2, ModMultiple
    <2> QED BY <2>3, <2>5, <2>6, <2>7, <2>8
  <1> QED BY <1>2, <1>3

\* The blocks in use and their room.
LEMMA UseIs ==
    ASSUME NEW h, Layout(h)
    PROVE  /\ \A p : p \in InUse(h) <=> p - HEADER \in DOMAIN h /\ p \in Nat /\ ~ h[p - HEADER].available
           /\ \A b \in DOMAIN h : /\ b + HEADER \in InUse(h) <=> ~ h[b].available
                                  /\ (b + HEADER) - HEADER = b
                                  /\ (b + HEADER) + Room(h, b + HEADER) = End(h, b)
           /\ IsFiniteSet(InUse(h)) /\ InUse(h) \subseteq Nat \ {0}
  <1>1. HEADER \in Nat /\ HEADER > 0
    BY HeapAssumption
  <1>2. \A b \in DOMAIN h : b \in Nat /\ h[b].size \in Nat
    BY BlockAt
  <1>3. ASSUME NEW b \in DOMAIN h
        PROVE  /\ b + HEADER \in InUse(h) <=> ~ h[b].available
               /\ (b + HEADER) - HEADER = b /\ (b + HEADER) + Room(h, b + HEADER) = End(h, b)
    <2>1. (b + HEADER) - HEADER = b
      BY <1>1, <1>2
    <2>2. \A c \in DOMAIN h : c + HEADER = b + HEADER => c = b
      BY <1>1, <1>2
    <2>3. b + HEADER \in InUse(h) <=> ~ h[b].available
      BY <2>2 DEF InUse
    <2>4. Room(h, b + HEADER) = h[b].size
      BY <2>1 DEF Room
    <2> QED BY <1>1, <1>2, <2>1, <2>3, <2>4 DEF End
  <1>4. ASSUME NEW p
        PROVE  p \in InUse(h) <=> p - HEADER \in DOMAIN h /\ p \in Nat /\ ~ h[p - HEADER].available
    <2>1. ASSUME p \in InUse(h)
          PROVE  p - HEADER \in DOMAIN h /\ p \in Nat /\ ~ h[p - HEADER].available
      <3>1. PICK b \in DOMAIN h : ~ h[b].available /\ p = b + HEADER
        BY <2>1 DEF InUse
      <3>2. p - HEADER = b /\ p \in Nat
        BY <1>1, <1>2, <3>1
      <3> QED BY <3>1, <3>2
    <2>2. ASSUME p - HEADER \in DOMAIN h /\ p \in Nat /\ ~ h[p - HEADER].available
          PROVE  p \in InUse(h)
      <3>1. (p - HEADER) + HEADER = p
        BY <1>1, <2>2
      <3> QED BY <2>2, <3>1 DEF InUse
    <2> QED BY <2>1, <2>2
  <1>5. IsFiniteSet(InUse(h))
    <2>1. IsFiniteSet({b \in DOMAIN h : ~ h[b].available})
      BY FS_Subset DEF Layout
    <2> DEFINE U == {b \in DOMAIN h : ~ h[b].available}
               f == [b \in U |-> b + HEADER]
    <2>2. f \in Surjection(U, InUse(h))
      BY DEF Surjection, InUse
    <2> HIDE DEF f
    <2> QED BY <2>1, <2>2, FS_Surjection
  <1>6. InUse(h) \subseteq Nat \ {0}
    BY <1>1, <1>2 DEF InUse
  <1> QED BY <1>3, <1>4, <1>5, <1>6

\* A heap h that becomes g: what is new in use and what no longer is.
Becomes(h, g, gone, new) ==
    /\ HeapInv(g)
    /\ InUse(g) = (InUse(h) \ gone) \cup new
    /\ \A p \in InUse(h) \ gone : Room(g, p) = Room(h, p)
\* malloc takes an available block with room for n bytes, and splits it or not.
LEMMA SplitInv ==
    ASSUME NEW h, HeapInv(h), NEW b \in DOMAIN h, h[b].available,
           NEW n \in Nat \ {0}, n % ALIGN = 0, Splits(h[b].size, n)
    PROVE  HeapInv(Used(h, b, n))
  <1> DEFINE g == Used(h, b, n)
             t == b + HEADER + n
             D == DOMAIN h
             s == h[b].size
             e == End(h, b)
  <1>1. Layout(h) /\ Apart(h)
    BY DEF HeapInv
  <1>2. /\ b \in Nat /\ s \in Nat /\ e \in Nat /\ e <= ARENA /\ e = b + HEADER + s
        /\ b % ALIGN = 0 /\ s % ALIGN = 0 /\ h[b].next \in Nat \cup {NULL}
    BY <1>1, BlockAt DEF End
  <1>3. HEADER \in Nat /\ HEADER > 0 /\ ALIGN \in Nat /\ ALIGN > 0 /\ HEADER % ALIGN = 0 /\ ARENA \in Nat
    BY HeapAssumption
  <1>4. s >= n + HEADER + ALIGN
    BY DEF Splits
  <1>5. /\ DOMAIN g = D \cup {t}
        /\ \A a \in D \cup {t} : g[a] = IF a = b THEN Block(n, t, FALSE)
                              ELSE IF a = t THEN Block(s - n - HEADER, h[b].next, TRUE) ELSE h[a]
        /\ g = [a \in DOMAIN g |-> g[a]]
    BY DEF Used
  <1> HIDE DEF g, e, s
  <1>6. t \in Nat /\ b < t /\ t < e
    BY <1>2, <1>3, <1>4
  <1>7. t \notin D
    BY <1>1, <1>2, <1>6 DEF Layout, e
  <1>8. /\ g[b] = Block(n, t, FALSE) /\ g[t] = Block(s - n - HEADER, h[b].next, TRUE)
        /\ \A a \in D \ {b} : g[a] = h[a]
    BY <1>5, <1>6, <1>7
  <1>9. s - n - HEADER \in Nat /\ s - n - HEADER > 0
    BY <1>2, <1>3, <1>4
  <1>10. n \in Int /\ s \in Int /\ b \in Int /\ HEADER \in Int /\ s - n \in Int /\ b + HEADER \in Int
    BY <1>2, <1>3
  <1>11. (s - n - HEADER) % ALIGN = 0 /\ t % ALIGN = 0
    <2>1. (s - n) % ALIGN = 0
      BY <1>2, <1>10, Multiples
    <2>2. (b + HEADER) % ALIGN = 0
      BY <1>2, <1>3, <1>10, Multiples
    <2>3. (s - n - HEADER) % ALIGN = 0
      BY <1>3, <1>10, <2>1, Multiples
    <2>4. (b + HEADER + n) % ALIGN = 0
      BY <1>10, <2>2, Multiples
    <2> QED BY <2>3, <2>4
  <1>13. /\ g[b].size = n /\ g[b].next = t /\ g[b].available = FALSE
         /\ g[t].size = s - n - HEADER /\ g[t].next = h[b].next /\ g[t].available = TRUE
    <2> HIDE DEF t
    <2>1. g[b].size = n /\ g[b].next = t /\ g[b].available = FALSE
      BY <1>8 DEF Block
    <2>2. g[t].size = s - n - HEADER /\ g[t].next = h[b].next /\ g[t].available = TRUE
      BY <1>8 DEF Block
    <2> QED BY <2>1, <2>2
  <1>12. End(g, b) = t /\ End(g, t) = e /\ \A a \in D \ {b} : End(g, a) = End(h, a)
    <2>1. End(g, b) = t
      BY <1>13 DEF End
    <2>2. End(g, t) = t + HEADER + (s - n - HEADER)
      <3> HIDE DEF t
      <3> QED BY <1>13 DEF End
    <2>3. t + HEADER + (s - n - HEADER) = e
      BY <1>2, <1>10
    <2>4. \A a \in D \ {b} : End(g, a) = End(h, a)
      BY <1>8 DEF End
    <2> QED BY <2>1, <2>2, <2>3, <2>4
  <1> HIDE DEF t
  <1>14. \A a \in D : /\ a \in Nat /\ End(h, a) \in Nat /\ End(h, a) <= ARENA
                      /\ a % ALIGN = 0 /\ h[a].size % ALIGN = 0 /\ End(h, a) > a
    <2> TAKE a \in D
    <2>1. /\ a \in Nat /\ End(h, a) \in Nat /\ End(h, a) <= ARENA
          /\ a % ALIGN = 0 /\ h[a].size % ALIGN = 0 /\ End(h, a) > a + HEADER
      BY <1>1, BlockAt
    <2> QED BY <1>3, <2>1
  <1>15. g \in [DOMAIN g -> BlockType]
    <2>1. g[b] \in BlockType
      BY <1>6, <1>8, BlockTyped
    <2>2. g[t] \in BlockType
      <3>1. PICK m \in Nat \ {0} : m = s - n - HEADER
        BY <1>9
      <3>2. g[t] = Block(m, h[b].next, TRUE)
        BY <1>8, <3>1
      <3> QED BY <1>2, <3>2, BlockTyped
    <2>3. \A a \in D \ {b} : g[a] \in BlockType
      BY <1>1, <1>8 DEF Layout
    <2>4. \A a \in DOMAIN g : g[a] \in BlockType
      BY <1>5, <2>1, <2>2, <2>3
    <2> QED BY <1>5, <2>4
  <1>16. IsFiniteSet(DOMAIN g) /\ DOMAIN g \subseteq Nat /\ 0 \in DOMAIN g
    <2>1. IsFiniteSet(D) /\ D \subseteq Nat /\ 0 \in D
      BY <1>1 DEF Layout
    <2> QED BY <1>5, <1>6, <2>1, FS_AddElement
  <1>17. \A a \in DOMAIN g : a % ALIGN = 0 /\ g[a].size % ALIGN = 0 /\ End(g, a) <= ARENA
    <2>1. b % ALIGN = 0 /\ g[b].size % ALIGN = 0 /\ End(g, b) <= ARENA
      BY <1>2, <1>3, <1>6, <1>12, <1>13
    <2>2. t % ALIGN = 0 /\ g[t].size % ALIGN = 0 /\ End(g, t) <= ARENA
      BY <1>2, <1>11, <1>12, <1>13
    <2>3. \A a \in D \ {b} : a % ALIGN = 0 /\ g[a].size % ALIGN = 0 /\ End(g, a) <= ARENA
      BY <1>8, <1>12, <1>14
    <2> QED BY <1>5, <2>1, <2>2, <2>3
  <1>18. \A a \in DOMAIN g : End(g, a) # ARENA => End(g, a) \in DOMAIN g
    <2>1. \A a \in D : End(h, a) # ARENA => End(h, a) \in D
      BY <1>1 DEF Layout
    <2> QED BY <1>5, <1>12, <2>1 DEF e
  <1>19. \A a \in DOMAIN g : g[a].next = IF End(g, a) = ARENA THEN NULL ELSE End(g, a)
    <2>1. \A a \in D : h[a].next = IF End(h, a) = ARENA THEN NULL ELSE End(h, a)
      BY <1>1 DEF Layout
    <2>2. t # ARENA
      BY <1>2, <1>3, <1>6
    <2>3. g[b].next = IF End(g, b) = ARENA THEN NULL ELSE End(g, b)
      BY <1>12, <1>13, <2>2
    <2>4. g[t].next = IF End(g, t) = ARENA THEN NULL ELSE End(g, t)
      BY <1>12, <1>13, <2>1 DEF e
    <2>5. \A a \in D \ {b} : g[a].next = IF End(g, a) = ARENA THEN NULL ELSE End(g, a)
      BY <1>8, <1>12, <2>1
    <2> QED BY <1>5, <2>3, <2>4, <2>5
  <1>20. \A c \in DOMAIN g : c # 0 => \E a \in DOMAIN g : End(g, a) = c
    <2> SUFFICES ASSUME NEW c \in DOMAIN g, c # 0 PROVE \E a \in DOMAIN g : End(g, a) = c
      OBVIOUS
    <2>1. CASE c = t
      BY <1>5, <1>12, <2>1
    <2>2. CASE c # t
      <3>1. PICK a \in D : End(h, a) = c
        BY <1>1, <1>5, <2>2 DEF Layout
      <3>2. CASE a = b
        BY <1>5, <1>12, <3>1, <3>2 DEF e
      <3>3. CASE a # b
        BY <1>5, <1>12, <3>1, <3>3
      <3> QED BY <3>2, <3>3
    <2> QED BY <2>1, <2>2
  <1>21. \A a, c \in DOMAIN g : a < c => End(g, a) <= c
    <2> SUFFICES ASSUME NEW a \in DOMAIN g, NEW c \in DOMAIN g, a < c PROVE End(g, a) <= c
      OBVIOUS
    <2>1. \A x, y \in D : x < y => End(h, x) <= y
      BY <1>1 DEF Layout
    <2>2. CASE a \in D /\ c \in D
      <3>1. End(h, a) <= c
        BY <2>1, <2>2
      <3>2. CASE a = b
        <4>1. e <= c
          BY <3>1, <3>2 DEF e
        <4> QED BY <1>2, <1>6, <1>12, <1>14, <2>2, <3>2, <4>1
      <3>3. CASE a # b
        BY <1>12, <2>2, <3>1, <3>3
      <3> QED BY <3>2, <3>3
    <2>3. CASE a = t /\ c \in D
      <3>1. b < c
        BY <1>2, <1>6, <1>14, <2>3
      <3>2. e <= c
        BY <2>1, <2>3, <3>1 DEF e
      <3> QED BY <1>12, <2>3, <3>2
    <2>4. CASE a \in D /\ c = t
      <3>1. CASE a = b
        BY <1>6, <1>12, <2>4, <3>1
      <3>2. CASE a # b
        <4>1. a < b
          <5>1. ~ (b < a)
            <6> SUFFICES ASSUME b < a PROVE FALSE
              OBVIOUS
            <6>1. e <= a
              BY <2>1, <2>4 DEF e
            <6> QED BY <1>2, <1>6, <1>14, <2>4, <6>1
          <5> QED BY <1>2, <1>14, <2>4, <3>2, <5>1
        <4>2. End(h, a) <= b
          BY <2>1, <2>4, <4>1
        <4> QED BY <1>2, <1>6, <1>12, <1>14, <2>4, <3>2, <4>2
      <3> QED BY <3>1, <3>2
    <2>5. CASE a = t /\ c = t
      BY <1>6, <2>5
    <2> QED BY <1>5, <2>2, <2>3, <2>4, <2>5
  <1>22. Layout(g)
    BY <1>15, <1>16, <1>17, <1>18, <1>19, <1>20, <1>21 DEF Layout
  <1>23. Apart(g)
    <2> SUFFICES ASSUME NEW a \in DOMAIN g, NEW c \in DOMAIN g, End(g, a) = c
                 PROVE  ~ (g[a].available /\ g[c].available)
      BY DEF Apart
    <2>1. \A x, y \in D : End(h, x) = y => ~ (h[x].available /\ h[y].available)
      BY <1>1 DEF Apart
    <2>2. CASE a = b \/ c = b
      BY <1>13, <2>2
    <2>3. CASE a = t /\ c # b
      <3>1. c = e /\ c # t
        BY <1>2, <1>6, <1>12, <2>3
      <3>2. c \in D \ {b} /\ g[c] = h[c]
        BY <1>5, <1>8, <2>3, <3>1
      <3> QED BY <2>1, <3>1, <3>2 DEF e
    <2>4. CASE c = t /\ a # b
      <3>1. a # t
        BY <1>2, <1>6, <1>12, <2>4
      <3>2. a \in D \ {b} /\ End(h, a) = t
        BY <1>5, <1>12, <2>4, <3>1
      <3>3. End(h, a) \in D \/ End(h, a) = ARENA
        BY <1>1, <3>2 DEF Layout
      <3> QED BY <1>2, <1>3, <1>6, <1>7, <3>2, <3>3
    <2>5. CASE a \in D \ {b} /\ c \in D \ {b}
      BY <1>8, <1>12, <2>1, <2>5
    <2> QED BY <1>5, <2>2, <2>3, <2>4, <2>5
  <1> QED BY <1>22, <1>23 DEF HeapInv, g
\* A block that is marked as available or as in use.
Mark(h, b, v) == [h EXCEPT ![b] = Block(@.size, @.next, v)]

LEMMA Marked ==
    ASSUME NEW h, Layout(h), NEW b \in DOMAIN h, NEW v \in BOOLEAN
    PROVE  /\ Layout(Mark(h, b, v)) /\ DOMAIN Mark(h, b, v) = DOMAIN h
           /\ \A a \in DOMAIN h : /\ End(Mark(h, b, v), a) = End(h, a)
                                  /\ Mark(h, b, v)[a].size = h[a].size
                                  /\ a # b => Mark(h, b, v)[a] = h[a]
           /\ Mark(h, b, v)[b].available = v
  <1> DEFINE g == Mark(h, b, v)
             D == DOMAIN h
  <1>1. h \in [D -> BlockType]
    BY DEF Layout
  <1>2. /\ DOMAIN g = D /\ g = [a \in D |-> g[a]] /\ \A a \in D \ {b} : g[a] = h[a]
        /\ g[b] = Block(h[b].size, h[b].next, v)
    BY <1>1 DEF Mark
  <1> HIDE DEF g
  <1>3. g[b].size = h[b].size /\ g[b].next = h[b].next /\ g[b].available = v
    BY <1>2 DEF Block
  <1>4. \A a \in D : g[a].size = h[a].size /\ g[a].next = h[a].next
    BY <1>2, <1>3
  <1>5. \A a \in D : End(g, a) = End(h, a)
    BY <1>4 DEF End
  <1>6. g \in [D -> BlockType]
    <2>1. h[b].size \in Nat \ {0} /\ h[b].next \in Nat \cup {NULL}
      BY BlockAt
    <2>2. g[b] \in BlockType
      BY <1>2, <2>1, BlockTyped
    <2>3. \A a \in D : g[a] \in BlockType
      BY <1>1, <1>2, <2>2
    <2> QED BY <1>2, <2>3
  <1>7. Layout(g)
    BY <1>2, <1>4, <1>5, <1>6 DEF Layout
  <1> QED BY <1>2, <1>3, <1>4, <1>5, <1>7 DEF g

LEMMA UsedBecomes ==
    ASSUME NEW h, HeapInv(h), NEW b \in DOMAIN h, h[b].available,
           NEW n \in Nat \ {0}, n % ALIGN = 0, h[b].size >= n
    PROVE  /\ Becomes(h, Used(h, b, n), {}, {b + HEADER})
           /\ b + HEADER \notin InUse(h)
           /\ Room(Used(h, b, n), b + HEADER) >= n
  <1> DEFINE g == Used(h, b, n)
             t == b + HEADER + n
             D == DOMAIN h
  <1>1. Layout(h) /\ Apart(h)
    BY DEF HeapInv
  <1>2. b \in Nat /\ h[b].size \in Nat /\ HEADER \in Nat /\ (b + HEADER) - HEADER = b
    BY <1>1, BlockAt, HeapAssumption
  <1>3. b + HEADER \notin InUse(h)
    BY <1>1, UseIs
  <1>4. /\ HeapInv(g) /\ D \subseteq DOMAIN g
        /\ \A a \in DOMAIN g \ D : g[a].available
        /\ \A a \in D \ {b} : g[a] = h[a]
        /\ ~ g[b].available /\ g[b].size >= n
    <2>1. CASE Splits(h[b].size, n)
      <3>1. HeapInv(g)
        BY <2>1, SplitInv
      <3>2. /\ DOMAIN g = D \cup {t}
            /\ \A a \in D \cup {t} : g[a] = IF a = b THEN Block(n, t, FALSE)
                        ELSE IF a = t THEN Block(h[b].size - n - HEADER, h[b].next, TRUE) ELSE h[a]
        BY <2>1 DEF Used
      <3>3. t \in Nat /\ t > b /\ t < End(h, b)
        BY <1>2, <2>1, HeapAssumption DEF Splits, End
      <3> HIDE DEF g, t
      <3>4. t \notin D /\ t # b
        <4>1. End(h, b) \in Nat
          BY <1>1, BlockAt
        <4>2. \A x, y \in D : x < y => End(h, x) <= y
          BY <1>1 DEF Layout
        <4> QED BY <1>2, <3>3, <4>1, <4>2
      <3>5. /\ g[b] = Block(n, t, FALSE) /\ g[t] = Block(h[b].size - n - HEADER, h[b].next, TRUE)
            /\ \A a \in D \ {b} : g[a] = h[a]
        BY <3>2, <3>4
      <3>6. g[b].size = n /\ ~ g[b].available /\ g[t].available
        BY <3>5 DEF Block
      <3>7. D \subseteq DOMAIN g /\ \A a \in DOMAIN g \ D : a = t
        BY <3>2
      <3>8. g[b].size >= n
        BY <3>6
      <3> QED BY <3>1, <3>5, <3>6, <3>7, <3>8
    <2>2. CASE ~ Splits(h[b].size, n)
      <3>1. g = Mark(h, b, FALSE)
        BY <2>2 DEF Used, Mark
      <3> HIDE DEF g
      <3>2. /\ Layout(g) /\ DOMAIN g = D /\ g[b].available = FALSE
            /\ \A a \in D : End(g, a) = End(h, a) /\ g[a].size = h[a].size /\ (a # b => g[a] = h[a])
        <4>1. PICK v \in BOOLEAN : v = FALSE
          OBVIOUS
        <4>2. g = Mark(h, b, v)
          BY <3>1, <4>1
        <4>3. /\ Layout(g) /\ DOMAIN g = D /\ g[b].available = v
              /\ \A a \in D : End(g, a) = End(h, a) /\ g[a].size = h[a].size /\ (a # b => g[a] = h[a])
          BY <1>1, <4>2, Marked
        <4> QED BY <4>1, <4>3
      <3>3. Apart(g)
        BY <1>1, <3>2 DEF Apart
      <3> QED BY <3>2, <3>3 DEF HeapInv
    <2> QED BY <2>1, <2>2
  <1> HIDE DEF g
  <1>5. Layout(g)
    BY <1>4 DEF HeapInv
  <1>6. InUse(g) = (InUse(h) \ {}) \cup {b + HEADER}
    <2>1. ASSUME NEW p PROVE p \in InUse(g) <=> p \in InUse(h) \/ p = b + HEADER
      <3>1. /\ p \in InUse(h) <=> p - HEADER \in D /\ p \in Nat /\ ~ h[p - HEADER].available
            /\ p \in InUse(g) <=> p - HEADER \in DOMAIN g /\ p \in Nat /\ ~ g[p - HEADER].available
        BY <1>1, <1>5, UseIs
      <3>2. p \in Nat => (p = b + HEADER <=> p - HEADER = b)
        BY <1>2
      <3>3. b + HEADER \in Nat
        BY <1>2
      <3> QED BY <1>4, <3>1, <3>2, <3>3
    <2> QED BY <2>1
  <1>7. \A p \in InUse(h) \ {} : Room(g, p) = Room(h, p)
    <2> SUFFICES ASSUME NEW p \in InUse(h) PROVE Room(g, p) = Room(h, p)
      OBVIOUS
    <2>1. p - HEADER \in D /\ ~ h[p - HEADER].available
      BY <1>1, UseIs
    <2>2. p - HEADER # b
      BY <2>1
    <2> QED BY <1>4, <2>1, <2>2 DEF Room
  <1>8. Room(g, b + HEADER) >= n
    BY <1>2, <1>4 DEF Room
  <1> QED BY <1>3, <1>4, <1>6, <1>7, <1>8 DEF Becomes, g

\* malloc
MallocCases(h, size, new) ==
    \/ /\ size > ARENA - HEADER \/ Fitting(h, Rounded(size)) = {}
       /\ new.p = NULL /\ new.h = h
    \/ /\ ~ (size > ARENA - HEADER \/ Fitting(h, Rounded(size)) = {})
       /\ new.p # NULL /\ new.p \in Nat /\ new.p \notin InUse(h)
       /\ Becomes(h, new.h, {}, {new.p}) /\ Room(new.h, new.p) >= size

LEMMA MallocBecomes ==
    ASSUME NEW h, HeapInv(h), NEW size \in Nat
    PROVE  MallocCases(h, size, Malloc(h, size))
  <1> DEFINE n == Rounded(size)
             new == Malloc(h, size)
             b == Min(Fitting(h, n))
  <1>1. n \in Nat \ {0} /\ n % ALIGN = 0 /\ n >= size
    BY RoundedUp
  <1> HIDE DEF n
  <1>2. CASE size > ARENA - HEADER \/ Fitting(h, n) = {}
    <2>1. new = [h |-> h, p |-> NULL]
      BY <1>2 DEF Malloc, n
    <2>2. new.h = h /\ new.p = NULL
      BY <2>1
    <2> HIDE DEF new
    <2> QED BY <1>2, <2>2 DEF MallocCases, n, new
  <1>3. CASE ~ (size > ARENA - HEADER \/ Fitting(h, n) = {})
    <2>1. new = [h |-> Used(h, b, n), p |-> b + HEADER]
      BY <1>3 DEF Malloc, n
    <2>2. Layout(h)
      BY DEF HeapInv
    <2>3. b \in Fitting(h, n)
      BY <1>3, <2>2, MinIn DEF Fitting, Layout
    <2> HIDE DEF b
    <2>4. b \in DOMAIN h /\ h[b].available /\ h[b].size >= n
      BY <2>3 DEF Fitting
    <2>5. /\ Becomes(h, Used(h, b, n), {}, {b + HEADER}) /\ b + HEADER \notin InUse(h)
          /\ Room(Used(h, b, n), b + HEADER) >= n
      BY <1>1, <2>4, UsedBecomes
    <2>6. new.h = Used(h, b, n) /\ new.p = b + HEADER
      BY <2>1
    <2>7. b \in Nat /\ HEADER \in Nat /\ b + HEADER # NULL /\ b + HEADER \in Nat
      BY <2>2, <2>4, BlockAt, HeapAssumption DEF NULL
    <2>8. Room(Used(h, b, n), b + HEADER) \in Nat
      <3>1. Layout(Used(h, b, n))
        BY <2>5 DEF Becomes, HeapInv
      <3>2. b + HEADER \in InUse(Used(h, b, n))
        BY <2>5 DEF Becomes
      <3>3. (b + HEADER) - HEADER \in DOMAIN Used(h, b, n)
        BY <3>1, <3>2, UseIs
      <3> QED BY <3>1, <3>3, BlockAt DEF Room
    <2>9. Room(Used(h, b, n), b + HEADER) >= size
      BY <1>1, <2>5, <2>8
    <2> HIDE DEF new
    <2> QED BY <1>3, <2>5, <2>6, <2>7, <2>9 DEF MallocCases, n, new
  <1> QED BY <1>2, <1>3
\* The heap with the blocks behind lo up to hi joined to lo.
Merged(g, lo, hi) ==
    [x \in {x \in DOMAIN g : x <= lo \/ hi < x} |->
        IF x = lo THEN Block(End(g, hi) - lo - HEADER, g[hi].next, TRUE) ELSE g[x]]

\* What may be joined: the blocks from lo to hi are available, and no others that
\* are neighbours are.
Mergeable(g, lo, hi) ==
    /\ Layout(g) /\ lo \in DOMAIN g /\ hi \in DOMAIN g /\ lo <= hi
    /\ \A x \in DOMAIN g : lo <= x /\ x <= hi => g[x].available
    /\ \A a, b \in DOMAIN g : End(g, a) = b /\ g[a].available /\ g[b].available => lo <= a /\ b <= hi

LEMMA MergedInv ==
    ASSUME NEW g, NEW lo, NEW hi, Mergeable(g, lo, hi)
    PROVE  Becomes(g, Merged(g, lo, hi), {}, {})
  <1> DEFINE m == Merged(g, lo, hi)
             D == DOMAIN g
             K == {x \in D : x <= lo \/ hi < x}
             e == End(g, hi)
  <1>1. /\ Layout(g) /\ lo \in D /\ hi \in D /\ lo <= hi /\ g[lo].available /\ g[hi].available
        /\ \A x \in D : lo <= x /\ x <= hi => g[x].available
        /\ \A a, b \in D : End(g, a) = b /\ g[a].available /\ g[b].available => lo <= a /\ b <= hi
    <2>1. /\ Layout(g) /\ lo \in D /\ hi \in D /\ lo <= hi
          /\ \A x \in D : lo <= x /\ x <= hi => g[x].available
          /\ \A a, b \in D : End(g, a) = b /\ g[a].available /\ g[b].available => lo <= a /\ b <= hi
      BY DEF Mergeable
    <2>2. lo \in Nat /\ hi \in Nat
      BY <2>1, BlockAt
    <2>3. lo <= lo /\ hi <= hi
      BY <2>2
    <2> QED BY <2>1, <2>3
  <1>2. \A x \in D : /\ x \in Nat /\ End(g, x) \in Nat /\ End(g, x) > x + HEADER /\ End(g, x) <= ARENA
                     /\ x % ALIGN = 0 /\ End(g, x) % ALIGN = 0 /\ g[x].size % ALIGN = 0
    BY <1>1, BlockAt
  <1>3. HEADER \in Nat /\ HEADER > 0 /\ HEADER % ALIGN = 0 /\ ALIGN \in Nat /\ ARENA \in Nat
    BY HeapAssumption
  <1>4. lo \in Nat /\ hi \in Nat /\ e \in Nat /\ e > hi + HEADER /\ e <= ARENA /\ e % ALIGN = 0 /\ lo % ALIGN = 0
    BY <1>1, <1>2
  <1>5. /\ DOMAIN m = K /\ m = [x \in K |-> m[x]] /\ \A x \in K \ {lo} : m[x] = g[x]
        /\ lo \in K /\ m[lo] = Block(e - lo - HEADER, g[hi].next, TRUE)
    <2>1. lo \in K
      BY <1>1, <1>4
    <2> QED BY <2>1 DEF Merged
  <1> HIDE DEF m, e
  <1>6. PICK s \in Nat \ {0} : s = e - lo - HEADER /\ s % ALIGN = 0
    <2>1. e - lo - HEADER \in Nat \ {0}
      BY <1>1, <1>3, <1>4
    <2>2. e - lo \in Int /\ (e - lo) % ALIGN = 0
      BY <1>4, Multiples
    <2>3. (e - lo - HEADER) % ALIGN = 0
      BY <1>3, <2>2, Multiples
    <2> QED BY <2>1, <2>3
  <1>7. m[lo].size = s /\ m[lo].next = g[hi].next /\ m[lo].available = TRUE
    BY <1>5, <1>6 DEF Block
  <1>8. End(m, lo) = e
    <2>1. End(m, lo) = lo + HEADER + s
      BY <1>7 DEF End
    <2> QED BY <1>3, <1>4, <1>6, <2>1
  <1>9. \A x \in K \ {lo} : End(m, x) = End(g, x)
    BY <1>5 DEF End
  <1>10. /\ \A x \in D : End(g, x) # ARENA => End(g, x) \in D
         /\ \A x \in D : g[x].next = IF End(g, x) = ARENA THEN NULL ELSE End(g, x)
         /\ \A x \in D : x # 0 => \E a \in D : End(g, a) = x
         /\ \A a, b \in D : a < b => End(g, a) <= b
         /\ g \in [D -> BlockType] /\ IsFiniteSet(D) /\ D \subseteq Nat /\ 0 \in D
    BY <1>1 DEF Layout
  <1>11. m \in [DOMAIN m -> BlockType]
    <2>1. g[hi].next \in Nat \cup {NULL}
      BY <1>1, BlockAt
    <2>2. m[lo] = Block(s, g[hi].next, TRUE)
      BY <1>5, <1>6
    <2>3. m[lo] \in BlockType
      BY <2>1, <2>2, BlockTyped
    <2>4. \A x \in K : m[x] \in BlockType
      BY <1>5, <1>10, <2>3
    <2> QED BY <1>5, <2>4
  <1>12. IsFiniteSet(DOMAIN m) /\ DOMAIN m \subseteq Nat /\ 0 \in DOMAIN m
    <2>1. K \subseteq D /\ 0 \in K
      BY <1>4, <1>10
    <2> QED BY <1>5, <1>10, <2>1, FS_Subset
  <1>13. \A x \in DOMAIN m : x % ALIGN = 0 /\ m[x].size % ALIGN = 0 /\ End(m, x) <= ARENA
    <2>1. lo % ALIGN = 0 /\ m[lo].size % ALIGN = 0 /\ End(m, lo) <= ARENA
      BY <1>4, <1>6, <1>7, <1>8
    <2>2. \A x \in K \ {lo} : x % ALIGN = 0 /\ m[x].size % ALIGN = 0 /\ End(m, x) <= ARENA
      BY <1>2, <1>5, <1>9
    <2> QED BY <1>5, <2>1, <2>2
  <1>14. \A x \in DOMAIN m : End(m, x) # ARENA => End(m, x) \in DOMAIN m
    <2> SUFFICES ASSUME NEW x \in K, End(m, x) # ARENA PROVE End(m, x) \in K
      BY <1>5
    <2>1. CASE x = lo
      <3>1. e \in D
        BY <1>1, <1>8, <1>10, <2>1 DEF e
      <3> QED BY <1>3, <1>4, <1>8, <2>1, <3>1
    <2>2. CASE x # lo
      <3>1. End(m, x) = End(g, x) /\ End(g, x) \in D
        BY <1>9, <1>10, <2>2
      <3>2. CASE x < lo
        BY <1>1, <1>10, <3>1, <3>2
      <3>3. CASE hi < x
        BY <1>2, <1>3, <1>4, <3>1, <3>3
      <3> QED BY <1>2, <1>4, <2>2, <3>2, <3>3
    <2> QED BY <2>1, <2>2
  <1>15. \A x \in DOMAIN m : m[x].next = IF End(m, x) = ARENA THEN NULL ELSE End(m, x)
    <2>1. m[lo].next = IF End(m, lo) = ARENA THEN NULL ELSE End(m, lo)
      BY <1>1, <1>7, <1>8, <1>10 DEF e
    <2>2. \A x \in K \ {lo} : m[x].next = IF End(m, x) = ARENA THEN NULL ELSE End(m, x)
      BY <1>5, <1>9, <1>10
    <2> QED BY <1>5, <2>1, <2>2
  <1>16. \A c \in DOMAIN m : c # 0 => \E a \in DOMAIN m : End(m, a) = c
    <2> SUFFICES ASSUME NEW c \in K, c # 0 PROVE \E a \in K : End(m, a) = c
      BY <1>5
    <2>1. PICK a \in D : End(g, a) = c
      BY <1>10
    <2>2. a \in Nat /\ c \in Nat /\ a < c
      BY <1>2, <1>3, <2>1
    <2>3. CASE a \in K \ {lo}
      BY <1>9, <2>1, <2>3
    <2>4. CASE ~ (a \in K \ {lo})
      <3>1. lo <= a /\ a <= hi
        BY <1>1, <1>4, <2>2, <2>4
      <3>2. hi < c
        BY <1>4, <2>2, <3>1
      <3>3. a = hi
        <4>1. ~ (a < hi)
          <5> SUFFICES ASSUME a < hi PROVE FALSE
            OBVIOUS
          <5>1. c <= hi
            BY <1>1, <1>10, <2>1
          <5> QED BY <1>4, <2>2, <3>2, <5>1
        <4> QED BY <1>4, <2>2, <3>1, <4>1
      <3> QED BY <1>5, <1>8, <2>1, <3>3 DEF e
    <2> QED BY <2>3, <2>4
  <1>17. \A a, c \in DOMAIN m : a < c => End(m, a) <= c
    <2> SUFFICES ASSUME NEW a \in K, NEW c \in K, a < c PROVE End(m, a) <= c
      BY <1>5
    <2>1. CASE a = lo
      <3>1. hi < c
        BY <1>2, <1>4, <2>1
      <3>2. e <= c
        BY <1>1, <1>10, <3>1 DEF e
      <3> QED BY <1>8, <2>1, <3>2
    <2>2. CASE a # lo
      BY <1>9, <1>10, <2>2
    <2> QED BY <2>1, <2>2
  <1>18. Layout(m)
    BY <1>11, <1>12, <1>13, <1>14, <1>15, <1>16, <1>17 DEF Layout
  <1>19. Apart(m)
    <2> SUFFICES ASSUME NEW a \in K, NEW c \in K, End(m, a) = c, m[a].available, m[c].available
                 PROVE  FALSE
      BY <1>5 DEF Apart
    <2>1. a \in Nat /\ c \in Nat /\ a < c
      <3>1. CASE a = lo
        BY <1>1, <1>2, <1>3, <1>4, <1>8, <3>1
      <3>2. CASE a # lo
        BY <1>2, <1>3, <1>9, <3>2
      <3> QED BY <3>1, <3>2
    <2>2. g[c].available
      BY <1>1, <1>5
    <2>3. CASE a = lo
      <3>1. End(g, hi) = c
        BY <1>8, <2>3 DEF e
      <3>2. c <= hi
        BY <1>1, <2>2, <3>1
      <3>3. e = c
        BY <3>1 DEF e
      <3> QED BY <1>3, <1>4, <3>2, <3>3
    <2>4. CASE a # lo
      <3>1. End(g, a) = c /\ g[a].available
        BY <1>5, <1>9, <2>4
      <3>2. lo <= a /\ c <= hi
        BY <1>1, <2>2, <3>1
      <3> QED BY <1>4, <2>1, <2>4, <3>2
    <2> QED BY <2>3, <2>4
  <1>20. HeapInv(m)
    BY <1>18, <1>19 DEF HeapInv
  <1>21. ASSUME NEW p
         PROVE  p \in InUse(m) <=> p \in InUse(g)
    <2>1. /\ p \in InUse(g) <=> p - HEADER \in D /\ p \in Nat /\ ~ g[p - HEADER].available
          /\ p \in InUse(m) <=> p - HEADER \in K /\ p \in Nat /\ ~ m[p - HEADER].available
      BY <1>1, <1>5, <1>18, UseIs
    <2> DEFINE x == p - HEADER
    <2> HIDE DEF x
    <2>2. x \in K /\ ~ m[x].available <=> x \in D /\ ~ g[x].available
      <3>1. ASSUME x \in K, ~ m[x].available PROVE x \in D /\ ~ g[x].available
        BY <1>5, <1>7, <3>1
      <3>2. ASSUME x \in D, ~ g[x].available PROVE x \in K /\ ~ m[x].available
        <4>1. ~ (lo <= x /\ x <= hi)
          BY <1>1, <3>2
        <4>2. x \in K /\ x # lo
          BY <1>2, <1>4, <1>1, <3>2, <4>1
        <4> QED BY <1>5, <3>2, <4>2
      <3> QED BY <3>1, <3>2
    <2> QED BY <2>1, <2>2 DEF x
  <1>22. \A p \in InUse(g) : Room(m, p) = Room(g, p)
    <2> TAKE p \in InUse(g)
    <2>1. p - HEADER \in K /\ ~ m[p - HEADER].available
      BY <1>5, <1>18, <1>21, UseIs
    <2>2. p - HEADER # lo
      BY <1>7, <2>1
    <2> QED BY <1>5, <2>1, <2>2 DEF Room
  <1> QED BY <1>20, <1>21, <1>22 DEF Becomes, m
\* The blocks that are joined to b, and the last of them.
Run(h, b) == {a \in Joined(h) : b < a /\ \A c \in DOMAIN h \ Joined(h) : c <= b \/ a < c}
Last(h, b) == IF Run(h, b) = {} THEN b ELSE Max(Run(h, b))

LEMMA CoalescedIs ==
    ASSUME NEW g, NEW lo, NEW hi, Mergeable(g, lo, hi),
           Joined(g) = {x \in DOMAIN g : lo < x /\ x <= hi},
           SumOf(g, Joined(g)) = End(g, hi) - End(g, lo)
    PROVE  Coalesced(g) = Merged(g, lo, hi)
  <1> DEFINE D == DOMAIN g
             J == Joined(g)
             K == {x \in D : x <= lo \/ hi < x}
             C == [b \in D \ J |-> Block(g[b].size + SumOf(g, Run(g, b)), g[Last(g, b)].next, g[b].available)]
  <1>1. Coalesced(g) = C
    BY DEF Coalesced, SumOf, Run, Last
  <1>2. Layout(g) /\ lo \in D /\ hi \in D /\ lo <= hi /\ g[lo].available
    <2>1. Layout(g) /\ lo \in D /\ hi \in D /\ lo <= hi /\ (lo <= lo /\ lo <= hi => g[lo].available)
      BY DEF Mergeable
    <2>2. lo \in Nat
      BY <2>1, BlockAt
    <2> QED BY <2>1, <2>2
  <1>3. \A x \in D : x \in Nat /\ g[x].size \in Nat /\ End(g, x) \in Nat
    BY <1>2, BlockAt
  <1>4. D \ J = K
    BY <1>2, <1>3
  <1>5. J \subseteq D /\ \A x \in J : lo < x /\ x <= hi
    OBVIOUS
  <1>6. Run(g, lo) = J
    <2>1. \A a \in J : lo < a /\ \A c \in K : c <= lo \/ a < c
      BY <1>2, <1>3, <1>5
    <2> QED BY <1>4, <2>1 DEF Run
  <1>7. ASSUME NEW b \in K, b # lo PROVE Run(g, b) = {}
    <2> SUFFICES ASSUME NEW a \in Run(g, b) PROVE FALSE
      OBVIOUS
    <2>1. a \in J /\ b < a /\ (lo <= b \/ a < lo)
      <3>1. lo \in D \ J
        BY <1>2, <1>3, <1>4
      <3> QED BY <3>1 DEF Run
    <2>2. a \in Nat /\ lo < a /\ a <= hi /\ b \in Nat /\ lo \in Nat /\ hi \in Nat
      BY <1>2, <1>3, <1>5, <2>1
    <2> QED BY <1>7, <2>1, <2>2
  <1>8. Last(g, lo) = hi
    <2>1. CASE J = {}
      <3>1. hi = lo
        BY <1>2, <1>3, <2>1
      <3> QED BY <1>6, <2>1, <3>1 DEF Last
    <2>2. CASE J # {}
      <3>1. hi \in J
        BY <1>2, <1>3, <1>5, <2>2
      <3>2. \A y \in J : hi >= y
        BY <1>2, <1>3, <1>5
      <3>3. \A x \in J : (\A y \in J : x >= y) => x = hi
        BY <1>2, <1>3, <1>5, <3>1
      <3> HIDE DEF J
      <3>4. Max(J) \in J /\ \A y \in J : Max(J) >= y
        BY <3>1, <3>2 DEF Max
      <3>5. Max(J) = hi
        BY <3>3, <3>4
      <3> QED BY <1>6, <2>2, <3>5 DEF Last
    <2> QED BY <2>1, <2>2
  <1>9. SumOf(g, {}) = 0
    <2>1. Span(g, lo) \in Int
      BY <1>2, <1>3, HeapAssumption DEF Span
    <2> QED BY <2>1, Sums
  <1> HIDE DEF J
  <1>10. ASSUME NEW b \in K
         PROVE  Block(g[b].size + SumOf(g, Run(g, b)), g[Last(g, b)].next, g[b].available)
                  = IF b = lo THEN Block(End(g, hi) - lo - HEADER, g[hi].next, TRUE) ELSE g[b]
    <2>1. CASE b = lo
      <3>1. PICK s \in Nat, e \in Nat, f \in Nat, h \in Nat, l \in Nat :
                s = g[lo].size /\ e = End(g, lo) /\ f = End(g, hi) /\ h = HEADER /\ l = lo
        BY <1>2, <1>3, HeapAssumption
      <3>2. e = l + h + s
        BY <3>1 DEF End
      <3>3. s + (f - e) = f - l - h
        BY <3>2
      <3>4. g[b].size + SumOf(g, Run(g, b)) = End(g, hi) - lo - HEADER
        BY <1>6, <2>1, <3>1, <3>3 DEF J
      <3>5. g[b].available = TRUE
        BY <1>2, <2>1, BlockAt
      <3> QED BY <1>8, <2>1, <3>4, <3>5
    <2>2. CASE b # lo
      <3>1. Run(g, b) = {} /\ Last(g, b) = b
        BY <1>7, <2>2 DEF Last
      <3>2. g[b].size + 0 = g[b].size
        BY <1>3
      <3>3. g[b] = Block(g[b].size, g[b].next, g[b].available)
        BY <1>2, BlockAt
      <3> QED BY <1>9, <2>2, <3>1, <3>2, <3>3
    <2> QED BY <2>1, <2>2
  <1>11. C = [b \in K |-> IF b = lo THEN Block(End(g, hi) - lo - HEADER, g[hi].next, TRUE) ELSE g[b]]
    BY <1>4, <1>10
  <1> QED BY <1>1, <1>11 DEF Merged

\* free
LEMMA FreedBecomes ==
    ASSUME NEW h, HeapInv(h), NEW p \in InUse(h)
    PROVE  Becomes(h, Freed(h, p), {p}, {})
  <1> DEFINE b == p - HEADER
             g == Mark(h, b, TRUE)
             D == DOMAIN h
             c == End(h, b)
  <1>1. Layout(h) /\ Apart(h)
    BY DEF HeapInv
  <1>2. b \in D /\ ~ h[b].available /\ p \in Nat /\ p # NULL
    BY <1>1, UseIs DEF NULL
  <1>3. Freed(h, p) = Coalesced(g)
    BY <1>2 DEF Freed, Mark
  <1>4. HEADER \in Nat /\ HEADER > 0 /\ b + HEADER = p
    BY <1>2, HeapAssumption
  <1> HIDE DEF b
  <1>5. /\ Layout(g) /\ DOMAIN g = D /\ g[b].available = TRUE
        /\ \A a \in D : End(g, a) = End(h, a) /\ g[a].size = h[a].size /\ (a # b => g[a] = h[a])
    <2>1. PICK v \in BOOLEAN : v = TRUE
      OBVIOUS
    <2>2. /\ Layout(Mark(h, b, v)) /\ DOMAIN Mark(h, b, v) = D /\ Mark(h, b, v)[b].available = v
          /\ \A a \in D : /\ End(Mark(h, b, v), a) = End(h, a) /\ Mark(h, b, v)[a].size = h[a].size
                          /\ (a # b => Mark(h, b, v)[a] = h[a])
      BY <1>1, <1>2, Marked
    <2> QED BY <2>1, <2>2
  <1> HIDE DEF g
  <1>6. \A x \in D : x \in Nat /\ End(h, x) \in Nat /\ End(h, x) > x /\ End(h, x) <= ARENA /\ h[x].size \in Nat
    <2> TAKE x \in D
    <2>1. x \in Nat /\ End(h, x) \in Nat /\ End(h, x) > x + HEADER /\ End(h, x) <= ARENA /\ h[x].size \in Nat
      BY <1>1, BlockAt
    <2> QED BY <1>4, <2>1
  <1>7. /\ \A x, y \in D : x < y => End(h, x) <= y
        /\ \A x \in D : g[x].next = IF End(h, x) = ARENA THEN NULL ELSE End(h, x)
    BY <1>1, <1>5 DEF Layout
  <1> DEFINE J1 == \E a \in D : h[a].available /\ End(h, a) = b
             J2 == c \in D /\ h[c].available
  <1>8. PICK lo \in D : /\ J1 => End(h, lo) = b /\ h[lo].available
                        /\ ~ J1 => lo = b
    BY <1>2
  <1>9. PICK hi \in D : (J2 => hi = c) /\ (~ J2 => hi = b)
    BY <1>2
  <1>10. b \in Nat /\ c \in Nat /\ b < c /\ lo \in Nat /\ hi \in Nat /\ lo <= b /\ b <= hi /\ lo <= hi
    <2>1. b \in Nat /\ c \in Nat /\ b < c /\ lo \in Nat /\ hi \in Nat
      BY <1>2, <1>6
    <2>2. lo <= b
      BY <1>6, <1>8, <2>1
    <2>3. b <= hi
      <3> HIDE DEF c
      <3> QED BY <1>9, <2>1
    <2> QED BY <2>1, <2>2, <2>3
  <1>11. \A a, x \in D : g[a].available /\ g[x].available /\ End(h, a) = x =>
             (x = b /\ J1) \/ (a = b /\ x = c /\ J2)
    <2> SUFFICES ASSUME NEW a \in D, NEW x \in D, g[a].available, g[x].available, End(h, a) = x
                 PROVE  (x = b /\ J1) \/ (a = b /\ x = c /\ J2)
      OBVIOUS
    <2>1. a # x
      BY <1>6
    <2>2. CASE x = b
      BY <1>5, <2>1, <2>2
    <2>3. CASE a = b
      BY <1>5, <2>1, <2>3
    <2>4. CASE a # b /\ x # b
      <3>1. h[a].available /\ h[x].available
        BY <1>5, <2>4
      <3> QED BY <1>1, <3>1 DEF Apart
    <2> QED BY <2>2, <2>3, <2>4
  <1>12. \A x \in D : lo < x /\ x <= hi <=> (x = b /\ J1) \/ (x = c /\ J2)
    <2> SUFFICES ASSUME NEW x \in D
                 PROVE  lo < x /\ x <= hi <=> (x = b /\ J1) \/ (x = c /\ J2)
      OBVIOUS
    <2>1. ASSUME x = b, J1 PROVE lo < x /\ x <= hi
      BY <1>6, <1>8, <1>10, <2>1
    <2>2. ASSUME x = c, J2 PROVE lo < x /\ x <= hi
      <3> HIDE DEF c, J1, J2
      <3> QED BY <1>9, <1>10, <2>2
    <2>3. ASSUME lo < x, x <= hi PROVE (x = b /\ J1) \/ (x = c /\ J2)
      <3>1. x \in Nat
        BY <1>6
      <3>2. CASE x = b
        <4>1. J1
          BY <1>8, <1>10, <2>3, <3>2
        <4> QED BY <3>2, <4>1
      <3>3. CASE x < b
        <4>1. J1
          <5> HIDE DEF J1
          <5> QED BY <1>8, <1>10, <2>3, <3>1, <3>3
        <4>2. b <= x
          BY <1>7, <1>8, <2>3, <4>1
        <4> QED BY <1>10, <3>1, <3>3, <4>2
      <3>4. CASE b < x
        <4>1. c <= x
          BY <1>2, <1>7, <3>4
        <4>2. J2
          <5> HIDE DEF J2
          <5> QED BY <1>9, <1>10, <2>3, <3>1, <3>4
        <4> HIDE DEF c, J1
        <4>3. x = c
          BY <1>9, <1>10, <2>3, <3>1, <4>1, <4>2
        <4> QED BY <4>2, <4>3
      <3> QED BY <1>10, <3>1, <3>2, <3>3, <3>4
    <2> QED BY <2>1, <2>2, <2>3
  <1>13. \A x \in D : lo <= x /\ x <= hi => g[x].available
    <2> SUFFICES ASSUME NEW x \in D, lo <= x, x <= hi PROVE g[x].available
      OBVIOUS
    <2>1. CASE x = b
      BY <1>5, <2>1
    <2>2. CASE x = lo /\ x # b
      BY <1>5, <1>8, <2>2
    <2>3. CASE x # lo /\ x # b
      <3>1. lo < x
        BY <1>6, <1>10, <2>3
      <3>2. x = c /\ J2
        BY <1>12, <2>3, <3>1
      <3> QED BY <1>5, <2>3, <3>2
    <2> QED BY <2>1, <2>2, <2>3
  <1>14. Mergeable(g, lo, hi)
    <2>1. ASSUME NEW a \in D, NEW x \in D, End(h, a) = x, g[a].available, g[x].available
          PROVE  lo <= a /\ x <= hi
      <3>1. a \in Nat /\ x \in Nat /\ a < x
        BY <1>6, <2>1
      <3>2. (x = b /\ J1) \/ (a = b /\ x = c /\ J2)
        BY <1>11, <2>1
      <3>3. CASE x = b /\ J1
        <4>1. End(h, lo) = b /\ End(h, a) = b
          BY <1>8, <2>1, <3>3
        <4>2. lo <= a
          <5> SUFFICES ASSUME a < lo PROVE FALSE
            BY <1>10, <3>1
          <5>1. b <= lo
            BY <1>7, <4>1
          <5>2. lo < b
            BY <1>6, <4>1
          <5> QED BY <1>10, <5>1, <5>2
        <4> QED BY <1>10, <3>3, <4>2
      <3>4. CASE a = b /\ x = c /\ J2
        <4> HIDE DEF c, J1, J2
        <4> QED BY <1>9, <1>10, <3>1, <3>4
      <3> QED BY <3>2, <3>3, <3>4
    <2> QED BY <1>5, <1>10, <1>13, <2>1 DEF Mergeable
  <1>15. Joined(g) = {x \in D : lo < x /\ x <= hi}
    <2>1. ASSUME NEW x \in D, NEW a \in D PROVE g[a].next = x <=> End(h, a) = x
      <3>1. x # NULL /\ x < ARENA
        BY <1>6, HeapAssumption DEF NULL
      <3>2. End(h, a) = x => End(h, a) # ARENA
        BY <1>6, <3>1, HeapAssumption
      <3> QED BY <1>7, <3>1, <3>2
    <2>2. ASSUME NEW x \in D
          PROVE  (g[x].available /\ \E a \in D : g[a].available /\ g[a].next = x) <=> lo < x /\ x <= hi
      <3>1. ASSUME g[x].available, NEW a \in D, g[a].available, g[a].next = x PROVE lo < x /\ x <= hi
        <4>1. End(h, a) = x
          BY <2>1, <3>1
        <4>2. (x = b /\ J1) \/ (a = b /\ x = c /\ J2)
          BY <1>11, <3>1, <4>1
        <4> QED BY <1>12, <4>2
      <3>2. ASSUME lo < x, x <= hi PROVE g[x].available /\ \E a \in D : g[a].available /\ g[a].next = x
        <4>1. g[x].available
          BY <1>6, <1>10, <1>13, <3>2
        <4>2. CASE x = b /\ J1
          <5>1. PICK a \in D : h[a].available /\ End(h, a) = b
            BY <4>2
          <5>2. a # b
            BY <1>2, <5>1
          <5>3. g[a].available /\ g[a].next = x
            BY <1>5, <2>1, <4>2, <5>1, <5>2
          <5> QED BY <4>1, <5>3
        <4>3. CASE x = c /\ J2
          <5>1. g[b].next = x
            BY <1>2, <2>1, <4>3
          <5> QED BY <1>2, <1>5, <4>1, <5>1
        <4> QED BY <1>12, <3>2, <4>2, <4>3
      <3> QED BY <3>1, <3>2
    <2> QED BY <1>5, <2>2 DEF Joined
  <1>16. SumOf(g, Joined(g)) = End(g, hi) - End(g, lo)
    <2>1. \A x \in D : Span(g, x) \in Int /\ Span(g, x) = End(h, x) - x
      <3> TAKE x \in D
      <3>1. PICK y \in Nat, s \in Nat : y = x /\ s = g[x].size
        BY <1>5, <1>6
      <3>2. Span(g, x) = HEADER + s /\ End(h, x) = y + HEADER + s
        BY <1>5, <3>1 DEF Span, End
      <3> QED BY <1>4, <3>1, <3>2
    <2>2. SumOf(g, {}) = 0 /\ SumOf(g, {b}) = End(h, b) - b
      BY <1>2, <2>1, Sums
    <2>3. c \in D => SumOf(g, {c}) = End(h, c) - c /\ SumOf(g, {b, c}) = (End(h, b) - b) + (End(h, c) - c)
      <3> SUFFICES ASSUME c \in D
                   PROVE  SumOf(g, {c}) = End(h, c) - c /\ SumOf(g, {b, c}) = (End(h, b) - b) + (End(h, c) - c)
        OBVIOUS
      <3>1. b # c
        BY <1>10
      <3> HIDE DEF c
      <3>2. SumOf(g, {c}) = Span(g, c)
        BY <2>1, Sums
      <3>3. SumOf(g, {b, c}) = Span(g, b) + Span(g, c)
        BY <1>2, <2>1, <3>1, Sums
      <3> QED BY <1>2, <2>1, <3>2, <3>3
    <2>4. Joined(g) = {x \in D : (x = b /\ J1) \/ (x = c /\ J2)}
      BY <1>12, <1>15
    <2>5. End(g, hi) = End(h, hi) /\ End(g, lo) = End(h, lo) /\ End(h, hi) \in Nat /\ End(h, lo) \in Nat
      BY <1>5, <1>6
    <2>6. CASE J1 /\ J2
      <3>1. Joined(g) = {b, c}
        BY <1>2, <2>4, <2>6
      <3>2. End(h, lo) = b /\ hi = c /\ c \in D
        BY <1>8, <1>9, <2>6
      <3>3. PICK d \in Nat : d = End(h, c)
        BY <1>6, <3>2
      <3>4. SumOf(g, Joined(g)) = (c - b) + (d - c)
        BY <2>3, <3>1, <3>2, <3>3
      <3>5. End(g, hi) - End(g, lo) = d - b
        BY <2>5, <3>2, <3>3
      <3> HIDE DEF c
      <3> QED BY <1>10, <3>4, <3>5
    <2>7. CASE J1 /\ ~ J2
      <3>1. Joined(g) = {b}
        BY <1>2, <2>4, <2>7
      <3>2. End(h, lo) = b /\ hi = b
        BY <1>8, <1>9, <2>7
      <3> QED BY <2>2, <2>5, <3>1, <3>2
    <2>8. CASE ~ J1 /\ J2
      <3>1. Joined(g) = {c}
        BY <2>4, <2>8
      <3>2. lo = b /\ hi = c /\ c \in D
        BY <1>8, <1>9, <2>8
      <3> QED BY <2>3, <2>5, <3>1, <3>2
    <2>9. CASE ~ J1 /\ ~ J2
      <3>1. Joined(g) = {}
        BY <2>4, <2>9
      <3>2. lo = b /\ hi = b
        BY <1>8, <1>9, <2>9
      <3> QED BY <2>2, <2>5, <3>1, <3>2
    <2> QED BY <2>6, <2>7, <2>8, <2>9
  <1>17. Freed(h, p) = Merged(g, lo, hi)
    BY <1>3, <1>5, <1>14, <1>15, <1>16, CoalescedIs
  <1>18. Becomes(g, Freed(h, p), {}, {})
    BY <1>14, <1>17, MergedInv
  <1>19. ASSUME NEW q PROVE q \in InUse(g) <=> q \in InUse(h) /\ q # p
    <2>1. /\ q \in InUse(h) <=> q - HEADER \in D /\ q \in Nat /\ ~ h[q - HEADER].available
          /\ q \in InUse(g) <=> q - HEADER \in D /\ q \in Nat /\ ~ g[q - HEADER].available
      BY <1>1, <1>5, UseIs
    <2>2. q \in Nat => (q = p <=> q - HEADER = b)
      BY <1>2, <1>4, <1>10
    <2> QED BY <1>2, <1>5, <2>1, <2>2
  <1>20. \A q \in InUse(g) : Room(g, q) = Room(h, q)
    <2> TAKE q \in InUse(g)
    <2>1. q - HEADER \in D
      BY <1>5, UseIs
    <2> QED BY <1>5, <2>1 DEF Room
  <1> QED BY <1>18, <1>19, <1>20 DEF Becomes
\* ape_heap_reset
LEMMA FreshInv == HeapInv(FreshHeap) /\ InUse(FreshHeap) = {}
  <1> DEFINE h == FreshHeap
  <1>1. /\ ALIGN \in Nat \ {0} /\ HEADER \in Nat \ {0} /\ ARENA \in Nat /\ HEADER % ALIGN = 0
        /\ ARENA % ALIGN = 0 /\ HEADER + ALIGN <= ARENA
    BY HeapAssumption
  <1>2. PICK s \in Nat \ {0} : s = ARENA - HEADER /\ s % ALIGN = 0
    <2>0. ARENA \in Int /\ HEADER \in Int
      BY <1>1
    <2>1. (ARENA - HEADER) % ALIGN = 0
      BY <1>1, <2>0, Multiples
    <2>2. ARENA - HEADER \in Nat \ {0}
      BY <1>1
    <2> QED BY <2>1, <2>2
  <1>3. DOMAIN h = {0} /\ h = [b \in {0} |-> h[b]] /\ h[0] = Block(s, NULL, TRUE)
    BY <1>2 DEF FreshHeap
  <1> HIDE DEF h
  <1>4. h[0].size = s /\ h[0].next = NULL /\ h[0].available = TRUE
    BY <1>3 DEF Block
  <1>5. End(h, 0) = ARENA
    <2>1. End(h, 0) = 0 + HEADER + s
      BY <1>4 DEF End
    <2> QED BY <1>1, <1>2, <2>1
  <1>6. h[0] \in BlockType
    BY <1>3, BlockTyped
  <1>7. h \in [DOMAIN h -> BlockType]
    BY <1>3, <1>6
  <1>8. IsFiniteSet(DOMAIN h) /\ DOMAIN h \subseteq Nat /\ 0 \in DOMAIN h
    BY <1>3, FS_Singleton
  <1>9. 0 % ALIGN = 0
    BY <1>1
  <1>10. \A b \in DOMAIN h : b = 0
    BY <1>3
  <1>11. Layout(h)
    BY <1>1, <1>2, <1>4, <1>5, <1>7, <1>8, <1>9, <1>10 DEF Layout
  <1>12. Apart(h)
    BY <1>1, <1>5, <1>10 DEF Apart
  <1>13. InUse(h) = {}
    BY <1>4, <1>10 DEF InUse
  <1> QED BY <1>11, <1>12, <1>13 DEF HeapInv, h

\* realloc of a block in use
ReallocCases(h, p, size, new) ==
    \/ size = 0 /\ new.p = NULL /\ ~ new.moved /\ Becomes(h, new.h, {p}, {})
    \/ size # 0 /\ new.p = NULL /\ ~ new.moved /\ new.h = h
    \/ size # 0 /\ new.p = p /\ p # NULL /\ ~ new.moved /\ new.h = h /\ Room(h, p) >= size
    \/ /\ size # 0 /\ new.p # NULL /\ new.p \notin InUse(h) /\ new.moved /\ ~ (Room(h, p) >= size)
       /\ Becomes(h, new.h, {p}, {new.p}) /\ Room(new.h, new.p) >= size

LEMMA ReallocBecomes ==
    ASSUME NEW h, HeapInv(h), NEW p \in InUse(h), NEW size \in Nat
    PROVE  ReallocCases(h, p, size, Realloc(h, p, size))
  <1> DEFINE new == Realloc(h, p, size)
             got == Malloc(h, size)
  <1>1. Layout(h)
    BY DEF HeapInv
  <1>2. p # NULL /\ p \in Nat
    BY <1>1, UseIs DEF NULL
  <1>3. CASE size = 0
    <2>1. new = [h |-> Freed(h, p), p |-> NULL, moved |-> FALSE]
      BY <1>3 DEF Realloc
    <2>2. Becomes(h, Freed(h, p), {p}, {})
      BY FreedBecomes
    <2>3. new.h = Freed(h, p) /\ new.p = NULL /\ new.moved = FALSE
      BY <2>1
    <2> HIDE DEF new
    <2> QED BY <1>3, <2>2, <2>3 DEF ReallocCases, new
  <1>4. CASE size # 0 /\ Room(h, p) >= size
    <2>1. new = [h |-> h, p |-> p, moved |-> FALSE]
      BY <1>2, <1>4 DEF Realloc
    <2>2. new.h = h /\ new.p = p /\ new.moved = FALSE
      BY <2>1
    <2> HIDE DEF new
    <2> QED BY <1>2, <1>4, <2>2 DEF ReallocCases, new
  <1>5. CASE size # 0 /\ ~ (Room(h, p) >= size)
    <2>1. /\ got.p = NULL => got.h = h
          /\ got.p # NULL => /\ Becomes(h, got.h, {}, {got.p})
                             /\ got.p \notin InUse(h) /\ Room(got.h, got.p) >= size
      BY MallocBecomes DEF MallocCases
    <2>2. new = IF got.p = NULL THEN [h |-> got.h, p |-> got.p, moved |-> FALSE]
                ELSE [h |-> Freed(got.h, p), p |-> got.p, moved |-> TRUE]
      BY <1>2, <1>5 DEF Realloc
    <2> HIDE DEF got, new
    <2>3. CASE got.p = NULL
      <3>1. new.h = h /\ new.p = NULL /\ new.moved = FALSE
        BY <2>1, <2>2, <2>3
      <3> QED BY <1>5, <3>1 DEF ReallocCases, new
    <2>4. CASE got.p # NULL
      <3>1. new.h = Freed(got.h, p) /\ new.p = got.p /\ new.moved = TRUE
        BY <2>2, <2>4
      <3>2. /\ Becomes(h, got.h, {}, {got.p})
            /\ got.p \notin InUse(h) /\ Room(got.h, got.p) >= size
        BY <2>1, <2>4
      <3>3. HeapInv(got.h) /\ p \in InUse(got.h) /\ got.p \in InUse(got.h) /\ got.p # p
        BY <3>2 DEF Becomes
      <3>4. Becomes(got.h, new.h, {p}, {})
        BY <3>1, <3>3, FreedBecomes
      <3>5. Becomes(h, new.h, {p}, {got.p}) /\ Room(new.h, got.p) = Room(got.h, got.p)
        BY <3>2, <3>3, <3>4 DEF Becomes
      <3> QED BY <1>5, <2>4, <3>1, <3>2, <3>5 DEF ReallocCases, new
    <2> QED BY <2>3, <2>4
  <1> QED BY <1>3, <1>4, <1>5

\* malloc fails exactly when there is no gap.
LEMMA GapExact ==
    ASSUME HeapInv(heap)
    PROVE  HeapExact
  <1> DEFINE D == DOMAIN heap
             h == heap
  <1>1. Layout(h) /\ Apart(h)
    BY DEF HeapInv
  <1>2. HEADER \in Nat /\ HEADER > 0 /\ ARENA \in Nat
    BY HeapAssumption
  <1>3. \A b \in D : /\ b \in Nat /\ h[b].size \in Nat /\ h[b].size > 0 /\ h[b].size % ALIGN = 0
                     /\ End(h, b) \in Nat /\ End(h, b) > b /\ End(h, b) <= ARENA
                     /\ End(h, b) = b + HEADER + h[b].size
    <2> TAKE b \in D
    <2>1. /\ b \in Nat /\ h[b].size \in Nat /\ h[b].size > 0 /\ h[b].size % ALIGN = 0
          /\ End(h, b) \in Nat /\ End(h, b) > b + HEADER /\ End(h, b) <= ARENA
      BY <1>1, BlockAt
    <2> QED BY <1>2, <2>1 DEF End
  <1>4. /\ \A b \in D : End(h, b) # ARENA => End(h, b) \in D
        /\ \A b \in D : h[b].next = IF End(h, b) = ARENA THEN NULL ELSE End(h, b)
        /\ \A b \in D : b # 0 => \E a \in D : End(h, a) = b
        /\ \A a, b \in D : a < b => End(h, a) <= b
        /\ 0 \in D
    BY <1>1 DEF Layout
  <1>5. \A a, b \in D : End(h, a) = b => ~ (h[a].available /\ h[b].available)
    BY <1>1 DEF Apart
  <1>6. ASSUME NEW b \in D
        PROVE  LET end == b + HEADER + heap[b].size IN
               /\ heap[b].size > 0 /\ heap[b].size % ALIGN = 0
               /\ heap[b].next = IF end = ARENA THEN NULL ELSE end
               /\ heap[b].next # NULL => /\ heap[b].next \in DOMAIN heap
                                         /\ ~ (heap[b].available /\ heap[heap[b].next].available)
    <2>1. h[b].size > 0 /\ h[b].size % ALIGN = 0 /\ End(h, b) = b + HEADER + h[b].size
      BY <1>3
    <2>2. h[b].next = IF End(h, b) = ARENA THEN NULL ELSE End(h, b)
      BY <1>4
    <2>3. ASSUME h[b].next # NULL
          PROVE  h[b].next \in D /\ ~ (h[b].available /\ h[h[b].next].available)
      <3>1. h[b].next = End(h, b) /\ End(h, b) \in D
        BY <1>4, <2>2, <2>3
      <3> QED BY <1>5, <3>1
    <2> QED BY <2>1, <2>2, <2>3
  <1>7. ASSUME NEW n \in Nat
        PROVE  Gap(n) <=> \E x \in {0} \cup {End(h, a) : a \in {a \in D : ~ h[a].available}} :
                  /\ x + HEADER + n <= ARENA
                  /\ \A c \in D : ~ h[c].available => End(h, c) <= x \/ x + HEADER + n <= c
    <2> DEFINE U == {a \in D : ~ h[a].available}
               X == {0} \cup {p + Room(heap, p) : p \in InUse(heap)}
               Y == {0} \cup {End(h, a) : a \in U}
    <2>1. \A b \in D : (b + HEADER) - HEADER = b /\ (b + HEADER) + Room(h, b + HEADER) = End(h, b)
      BY <1>1, UseIs
    <2>2. InUse(h) = {b + HEADER : b \in U}
      BY DEF InUse
    <2>3. X = Y
      BY <2>1, <2>2
    <2>4. ASSUME NEW x
          PROVE  (\A p \in InUse(heap) : p + Room(heap, p) <= x \/ x + HEADER + n <= p - HEADER)
                   <=> \A c \in U : End(h, c) <= x \/ x + HEADER + n <= c
      BY <2>1, <2>2
    <2> HIDE DEF X
    <2>5. Gap(n) <=> \E x \in X : /\ x + HEADER + n <= ARENA
                                  /\ \A p \in InUse(heap) : p + Room(heap, p) <= x \/ x + HEADER + n <= p - HEADER
      BY DEF Gap, X
    <2>6. Gap(n) <=> \E x \in Y : /\ x + HEADER + n <= ARENA
                                  /\ \A c \in U : End(h, c) <= x \/ x + HEADER + n <= c
      BY <2>3, <2>4, <2>5
    <2> QED BY <2>6
  <1>8. ASSUME NEW n \in Nat, n > 0, NEW b \in Fitting(h, n) PROVE Gap(n)
    <2>1. b \in D /\ h[b].available /\ h[b].size >= n
      BY DEF Fitting
    <2>2. b \in {0} \cup {End(h, a) : a \in {a \in D : ~ h[a].available}}
      <3>1. CASE b = 0
        BY <3>1
      <3>2. CASE b # 0
        <4>1. PICK a \in D : End(h, a) = b
          BY <1>4, <2>1, <3>2
        <4>2. ~ h[a].available
          BY <1>5, <2>1, <4>1
        <4> QED BY <4>1, <4>2
      <3> QED BY <3>1, <3>2
    <2>3. PICK y \in Nat, s \in Nat, e \in Nat : /\ y = b /\ s = h[b].size /\ e = End(h, b)
                                                 /\ e = y + HEADER + s /\ e <= ARENA /\ s >= n
      BY <1>3, <2>1
    <2>4. b + HEADER + n <= e
      BY <1>2, <2>3
    <2>5. b + HEADER + n <= ARENA
      BY <1>2, <2>3
    <2>6. ASSUME NEW c \in D, ~ h[c].available PROVE End(h, c) <= b \/ b + HEADER + n <= c
      <3>1. c # b /\ c \in Nat /\ b \in Nat
        BY <1>3, <2>1, <2>6
      <3>2. CASE c < b
        BY <1>4, <2>1, <3>2
      <3>3. CASE b < c
        <4>1. e <= c
          BY <1>4, <2>1, <2>3, <3>3
        <4> QED BY <1>2, <2>3, <2>4, <3>1, <4>1
      <3> QED BY <3>1, <3>2, <3>3
    <2> QED BY <1>7, <2>2, <2>5, <2>6
  <1>9. ASSUME NEW n \in Nat, n > 0, Gap(n) PROVE Fitting(h, n) # {}
    <2>1. PICK x \in {0} \cup {End(h, a) : a \in {a \in D : ~ h[a].available}} :
             /\ x + HEADER + n <= ARENA
             /\ \A c \in D : ~ h[c].available => End(h, c) <= x \/ x + HEADER + n <= c
      BY <1>7, <1>9
    <2>2. x \in D
      <3>1. x \in Nat
        BY <1>3
      <3>2. x # ARENA
        BY <1>2, <2>1, <3>1
      <3> QED BY <1>4, <3>2
    <2>3. x \in Nat /\ h[x].size \in Nat /\ End(h, x) \in Nat /\ End(h, x) > x /\ End(h, x) = x + HEADER + h[x].size
      BY <1>3, <2>2
    <2>4. h[x].available
      <3> SUFFICES ASSUME ~ h[x].available PROVE FALSE
        OBVIOUS
      <3>1. End(h, x) <= x \/ x + HEADER + n <= x
        BY <2>1, <2>2
      <3> QED BY <1>2, <1>9, <2>3, <3>1
    <2>5. h[x].size >= n
      <3> SUFFICES ASSUME h[x].size < n PROVE FALSE
        BY <2>3
      <3>1. End(h, x) < x + HEADER + n
        BY <1>2, <2>3
      <3>2. End(h, x) # ARENA
        BY <1>2, <2>1, <2>3, <3>1
      <3>3. PICK y \in D : y = End(h, x)
        BY <1>4, <2>2, <3>2
      <3>4. ~ h[y].available
        BY <1>5, <2>2, <2>4, <3>3
      <3>5. End(h, y) <= x \/ x + HEADER + n <= y
        BY <2>1, <3>4
      <3>6. y \in Nat /\ End(h, y) \in Nat /\ End(h, y) > y
        BY <1>3
      <3> QED BY <1>2, <2>3, <3>1, <3>3, <3>5, <3>6
    <2> QED BY <2>2, <2>4, <2>5 DEF Fitting
  <1>10. ASSUME NEW n \in Requests, n <= ARENA - HEADER
         PROVE  (Malloc(heap, n).p = NULL) <=> ~ Gap(Rounded(n))
    <2>1. n \in Nat
      BY StdioAssumption
    <2>2. Rounded(n) \in Nat /\ Rounded(n) > 0
      BY <2>1, RoundedUp
    <2>3. (Malloc(heap, n).p = NULL) <=> (n > ARENA - HEADER \/ Fitting(heap, Rounded(n)) = {})
      <3>1. MallocCases(heap, n, Malloc(heap, n))
        BY <2>1, MallocBecomes
      <3> QED BY <3>1 DEF MallocCases
    <2>4. ~ (n > ARENA - HEADER)
      BY <1>2, <1>10, <2>1
    <2>5. Gap(Rounded(n)) <=> Fitting(heap, Rounded(n)) # {}
      BY <1>8, <1>9, <2>2
    <2> QED BY <2>3, <2>4, <2>5
  <1> QED BY <1>6, <1>10 DEF HeapExact
-----------------------------------------------------------------------------
(* Streams and the blocks they own.                                        *)

Cell == Byte \cup {Junk}
StreamType == [data : Nat, size : Nat, capacity : Nat, pos : Nat, writable : BOOLEAN,
               name : Names \cup {NoName}, out : BOOLEAN]
Data(st) == {st[f].data : f \in DOMAIN st}

\* The stream s lies within its block, a zero behind its bytes.
StreamOK(h, m, s) ==
    /\ s \in StreamType /\ s.data \in DOMAIN m
    /\ m[s.data] \in Seq(Cell) /\ Len(m[s.data]) = Room(h, s.data)
    /\ s.pos <= s.size /\ s.size < s.capacity /\ s.capacity <= Room(h, s.data)
    /\ m[s.data][s.size + 1] = 0

\* Nothing owns a block twice.
Disjoint(st, cl) ==
    /\ cl \cap DOMAIN st = {} /\ cl \cap Data(st) = {} /\ DOMAIN st \cap Data(st) = {}
    /\ \A f, g \in DOMAIN st : st[f].data = st[g].data => f = g

Owned(h, m, st, cl) ==
    /\ HeapInv(h) /\ st = [f \in DOMAIN st |-> st[f]]
    /\ InUse(h) = cl \cup DOMAIN st \cup Data(st)
    /\ Disjoint(st, cl)
    /\ \A f \in DOMAIN st : StreamOK(h, m, st[f])

FilesOK(fs) == \A n \in DOMAIN fs : fs[n] \in Seq(Cell) /\ Len(fs[n]) <= MAX_FILE_SIZE

StdioInv == Owned(heap, mem, streams, client) /\ FilesOK(files)

LEMMA RoomIs ==
    ASSUME NEW h, HeapInv(h), NEW p \in InUse(h)
    PROVE  Room(h, p) \in Nat /\ p \in Nat
  <1>1. Layout(h)
    BY DEF HeapInv
  <1>2. p - HEADER \in DOMAIN h /\ p \in Nat
    BY <1>1, UseIs
  <1> QED BY <1>1, <1>2, BlockAt DEF Room

\* A function on an interval of positions is a sequence.
LEMMA SequenceOf ==
    ASSUME NEW n \in Nat, NEW S, NEW f \in [1 .. n -> S]
    PROVE  f \in Seq(S) /\ Len(f) = n
  <1>1. f \in Seq(S)
    BY SeqDef
  <1>2. Len(f) \in Nat /\ DOMAIN f = 1 .. Len(f)
    BY <1>1, LenProperties
  <1>3. 1 .. Len(f) = 1 .. n
    BY <1>2
  <1> QED BY <1>1, <1>2, <1>3

IsCopy(c, bytes, pos, s) ==
    /\ c \in Seq(Cell) /\ Len(c) = Len(bytes)
    /\ \A k \in 1 .. Len(bytes) : c[k] =
         IF pos < k /\ k <= pos + Len(s) THEN s[k - pos] ELSE bytes[k]
LEMMA CopiedIs ==
    ASSUME NEW bytes \in Seq(Cell), NEW pos \in Nat, NEW s \in Seq(Cell)
    PROVE  IsCopy(Copied(bytes, pos, s), bytes, pos, s)
  <1> DEFINE c == Copied(bytes, pos, s)
  <1>1. PICK n \in Nat, l \in Nat : n = Len(bytes) /\ l = Len(s)
    BY LenProperties
  <1>2. c = [k \in 1 .. n |-> IF pos < k /\ k <= pos + l THEN s[k - pos] ELSE bytes[k]]
    BY <1>1 DEF Copied
  <1>3. ASSUME NEW k \in 1 .. n PROVE c[k] \in Cell
    <2>1. bytes[k] \in Cell
      BY <1>1, ElementOfSeq
    <2>2. ASSUME pos < k, k <= pos + l PROVE s[k - pos] \in Cell
      <3>1. k - pos \in 1 .. l
        BY <2>2
      <3> QED BY <1>1, <3>1, ElementOfSeq
    <2> QED BY <1>2, <2>1, <2>2
  <1> HIDE DEF c
  <1>4. c \in [1 .. n -> Cell]
    BY <1>2, <1>3
  <1>5. c \in Seq(Cell) /\ Len(c) = n
    BY <1>4, SequenceOf
  <1> QED BY <1>1, <1>2, <1>5 DEF c, IsCopy

LEMMA RawIs ==
    ASSUME NEW h, HeapInv(h), NEW p \in InUse(h)
    PROVE  Raw(h, p) \in Seq(Cell) /\ Len(Raw(h, p)) = Room(h, p)
  <1>1. PICK n \in Nat : n = Room(h, p)
    BY RoomIs
  <1>2. Raw(h, p) \in [1 .. n -> Cell]
    BY <1>1 DEF Raw, Cell
  <1> QED BY <1>1, <1>2, SequenceOf

\* A stream of which neither the block nor its bytes change.
LEMMA StreamKept ==
    ASSUME NEW h, NEW m, NEW st, NEW cl, Owned(h, m, st, cl), NEW g, NEW gone, NEW new,
           Becomes(h, g, gone, new), NEW f \in DOMAIN st, st[f].data \notin gone,
           NEW m2, st[f].data \in DOMAIN m2, m2[st[f].data] = m[st[f].data]
    PROVE  StreamOK(g, m2, st[f])
  <1>1. StreamOK(h, m, st[f]) /\ st[f].data \in InUse(h) \ gone
    BY DEF Owned, Data
  <1>2. Room(g, st[f].data) = Room(h, st[f].data)
    BY <1>1 DEF Becomes
  <1> QED BY <1>1, <1>2 DEF StreamOK

\* The program's own blocks change.
LEMMA ClientStep ==
    ASSUME NEW h, NEW m, NEW st, NEW cl, Owned(h, m, st, cl), NEW g, NEW gone, NEW new,
           Becomes(h, g, gone, new), gone \subseteq cl, new \cap InUse(h) = {}
    PROVE  Owned(g, m, st, (cl \ gone) \cup new)
  <1>1. /\ HeapInv(h) /\ st = [f \in DOMAIN st |-> st[f]]
        /\ InUse(h) = cl \cup DOMAIN st \cup Data(st) /\ Disjoint(st, cl)
        /\ \A f \in DOMAIN st : StreamOK(h, m, st[f])
    BY DEF Owned
  <1>2. HeapInv(g) /\ InUse(g) = (InUse(h) \ gone) \cup new
    BY DEF Becomes
  <1>3. InUse(g) = ((cl \ gone) \cup new) \cup DOMAIN st \cup Data(st)
    BY <1>1, <1>2 DEF Disjoint
  <1>4. Disjoint(st, (cl \ gone) \cup new)
    BY <1>1 DEF Disjoint
  <1>5. \A f \in DOMAIN st : StreamOK(g, m, st[f])
    <2> TAKE f \in DOMAIN st
    <2>1. st[f].data \in Data(st) /\ st[f].data \in DOMAIN m
      BY <1>1 DEF Data, StreamOK
    <2>2. st[f].data \notin gone
      BY <1>1, <2>1 DEF Disjoint
    <2> QED BY <2>1, <2>2, StreamKept
  <1> QED BY <1>1, <1>2, <1>3, <1>4, <1>5 DEF Owned

\* A stream is opened.
LEMMA OpenStep ==
    ASSUME NEW h, NEW m, NEW st, NEW cl, Owned(h, m, st, cl), NEW g, NEW f, NEW d, NEW x, NEW m2,
           Becomes(h, g, {}, {f, d}), f # d, f \notin InUse(h), d \notin InUse(h),
           x.data = d, StreamOK(g, m2, x), \A e \in DOMAIN m \ {d} : e \in DOMAIN m2 /\ m2[e] = m[e]
    PROVE  Owned(g, m2, Set(st, f, x), cl)
  <1> DEFINE t == Set(st, f, x)
  <1>1. /\ HeapInv(h) /\ st = [e \in DOMAIN st |-> st[e]]
        /\ InUse(h) = cl \cup DOMAIN st \cup Data(st) /\ Disjoint(st, cl)
        /\ \A e \in DOMAIN st : StreamOK(h, m, st[e])
    BY DEF Owned
  <1>2. HeapInv(g) /\ InUse(g) = InUse(h) \cup {f, d}
    BY DEF Becomes
  <1>3. f \notin DOMAIN st /\ d \notin Data(st) /\ f \notin Data(st) /\ d \notin DOMAIN st
        /\ f \notin cl /\ d \notin cl
    BY <1>1
  <1>4. /\ DOMAIN t = DOMAIN st \cup {f} /\ t = [e \in DOMAIN t |-> t[e]]
        /\ t[f] = x /\ \A e \in DOMAIN st : t[e] = st[e]
    BY <1>3 DEF Set
  <1> HIDE DEF t
  <1>5. Data(t) = Data(st) \cup {d}
    <2>1. ASSUME NEW y \in Data(t) PROVE y \in Data(st) \cup {d}
      BY <1>4 DEF Data
    <2>2. ASSUME NEW y \in Data(st) \cup {d} PROVE y \in Data(t)
      BY <1>4 DEF Data
    <2> QED BY <2>1, <2>2
  <1>6. InUse(g) = cl \cup DOMAIN t \cup Data(t)
    BY <1>1, <1>2, <1>4, <1>5
  <1>7. Disjoint(t, cl)
    <2>1. cl \cap DOMAIN t = {} /\ cl \cap Data(t) = {} /\ DOMAIN t \cap Data(t) = {}
      BY <1>1, <1>3, <1>4, <1>5 DEF Disjoint
    <2>2. \A e \in DOMAIN st : st[e].data # d
      BY <1>3 DEF Data
    <2>3. \A a, b \in DOMAIN t : t[a].data = t[b].data => a = b
      BY <1>1, <1>4, <2>2 DEF Disjoint
    <2> QED BY <2>1, <2>3 DEF Disjoint
  <1>8. ASSUME NEW e \in DOMAIN t PROVE StreamOK(g, m2, t[e])
    <2>1. CASE e = f
      BY <1>4, <2>1
    <2>2. CASE e # f
      <3>1. e \in DOMAIN st /\ t[e] = st[e]
        BY <1>4, <2>2
      <3>2. st[e].data \in DOMAIN m /\ st[e].data # d
        BY <1>1, <1>3, <3>1 DEF Data, StreamOK
      <3>3. st[e].data \in DOMAIN m2 /\ m2[st[e].data] = m[st[e].data] /\ st[e].data \notin {}
        BY <3>2
      <3> QED BY <3>1, <3>3, StreamKept
    <2> QED BY <2>1, <2>2
  <1> QED BY <1>2, <1>4, <1>6, <1>7, <1>8 DEF Owned, t

\* A stream changes, and its block may move.
Relocates(h, g, d, e) == (g = h /\ e = d) \/ (Becomes(h, g, {d}, {e}) /\ e \notin InUse(h))
LEMMA ChangeStep ==
    ASSUME NEW h, NEW m, NEW st, NEW cl, Owned(h, m, st, cl), NEW g, NEW f \in DOMAIN st, NEW x, NEW m2,
           Relocates(h, g, st[f].data, x.data), StreamOK(g, m2, x),
           \A d \in DOMAIN m \ {st[f].data, x.data} : d \in DOMAIN m2 /\ m2[d] = m[d]
    PROVE  Owned(g, m2, [st EXCEPT ![f] = x], cl)
  <1> DEFINE t == [st EXCEPT ![f] = x]
             d == st[f].data
             e == x.data
  <1>1. /\ HeapInv(h) /\ st = [a \in DOMAIN st |-> st[a]]
        /\ InUse(h) = cl \cup DOMAIN st \cup Data(st) /\ Disjoint(st, cl)
        /\ \A a \in DOMAIN st : StreamOK(h, m, st[a])
    BY DEF Owned
  <1>2. /\ DOMAIN t = DOMAIN st /\ t = [a \in DOMAIN t |-> t[a]]
        /\ t[f] = x /\ \A a \in DOMAIN st \ {f} : t[a] = st[a]
    BY <1>1
  <1>3. d \in Data(st) /\ d \in InUse(h) /\ d \notin cl /\ d \notin DOMAIN st
        /\ \A a \in DOMAIN st \ {f} : st[a].data # d
    BY <1>1 DEF Data, Disjoint
  <1> HIDE DEF t
  <1>4. HeapInv(g) /\ InUse(g) = (InUse(h) \ {d}) \cup {e} /\ (e \in InUse(h) => e = d)
    BY <1>1, <1>3 DEF Relocates, Becomes
  <1>5. Data(t) = (Data(st) \ {d}) \cup {e}
    <2>1. ASSUME NEW y \in Data(t) PROVE y \in (Data(st) \ {d}) \cup {e}
      <3>1. PICK a \in DOMAIN st : y = t[a].data
        BY <1>2 DEF Data
      <3>2. CASE a = f
        BY <1>2, <3>1, <3>2
      <3>3. CASE a # f
        <4>1. y = st[a].data /\ st[a].data # d
          BY <1>2, <1>3, <3>1, <3>3
        <4> QED BY <4>1 DEF Data
      <3> QED BY <3>2, <3>3
    <2>2. ASSUME NEW y \in (Data(st) \ {d}) \cup {e} PROVE y \in Data(t)
      <3>1. CASE y = e
        BY <1>2, <3>1 DEF Data
      <3>2. CASE y # e
        <4>1. PICK a \in DOMAIN st : y = st[a].data
          BY <2>2, <3>2 DEF Data
        <4>2. a # f
          BY <2>2, <3>2, <4>1
        <4>3. t[a].data = y
          BY <1>2, <4>1, <4>2
        <4> QED BY <1>2, <4>3 DEF Data
      <3> QED BY <3>1, <3>2
    <2> QED BY <2>1, <2>2
  <1>6. InUse(g) = cl \cup DOMAIN t \cup Data(t)
    BY <1>1, <1>2, <1>3, <1>4, <1>5
  <1>7. e \notin cl /\ e \notin DOMAIN st /\ \A a \in DOMAIN st \ {f} : st[a].data # e
    BY <1>1, <1>3, <1>4 DEF Data
  <1>8. Disjoint(t, cl)
    <2>1. cl \cap DOMAIN t = {} /\ cl \cap Data(t) = {} /\ DOMAIN t \cap Data(t) = {}
      BY <1>1, <1>2, <1>5, <1>7 DEF Disjoint
    <2>2. \A a, b \in DOMAIN t : t[a].data = t[b].data => a = b
      <3> SUFFICES ASSUME NEW a \in DOMAIN st, NEW b \in DOMAIN st, t[a].data = t[b].data PROVE a = b
        BY <1>2
      <3>1. CASE a = f /\ b # f
        BY <1>2, <1>7, <3>1
      <3>2. CASE a # f /\ b = f
        BY <1>2, <1>7, <3>2
      <3>3. CASE a # f /\ b # f
        BY <1>1, <1>2, <3>3 DEF Disjoint
      <3> QED BY <3>1, <3>2, <3>3
    <2> QED BY <2>1, <2>2 DEF Disjoint
  <1>9. ASSUME NEW a \in DOMAIN t PROVE StreamOK(g, m2, t[a])
    <2>1. CASE a = f
      BY <1>2, <2>1
    <2>2. CASE a # f
      <3>1. a \in DOMAIN st /\ t[a] = st[a] /\ st[a].data # d /\ st[a].data # e
        BY <1>2, <1>3, <1>7, <2>2
      <3>2. st[a].data \in DOMAIN m
        BY <1>1, <3>1 DEF StreamOK
      <3>3. st[a].data \in DOMAIN m2 /\ m2[st[a].data] = m[st[a].data]
        BY <3>1, <3>2
      <3>4. CASE g = h /\ e = d
        <4>1. StreamOK(h, m, st[a])
          BY <1>1, <3>1
        <4> QED BY <3>1, <3>3, <3>4, <4>1 DEF StreamOK
      <3>5. CASE Becomes(h, g, {d}, {e})
        <4>1. st[a].data \notin {d}
          BY <3>1
        <4> QED BY <3>1, <3>3, <3>5, <4>1, StreamKept
      <3> QED BY <3>4, <3>5 DEF Relocates
    <2> QED BY <2>1, <2>2
  <1> QED BY <1>2, <1>4, <1>6, <1>8, <1>9 DEF Owned, t

\* A stream is closed; its block is freed or becomes the program's.
LEMMA CloseStep ==
    ASSUME NEW h, NEW m, NEW st, NEW cl, Owned(h, m, st, cl), NEW g, NEW f \in DOMAIN st, NEW kept,
           kept \subseteq {st[f].data},
           Becomes(h, g, {f, st[f].data} \ kept, {})
    PROVE  Owned(g, Unset(m, st[f].data), Unset(st, f), cl \cup kept)
  <1> DEFINE t == Unset(st, f)
             d == st[f].data
             m2 == Unset(m, d)
  <1>1. /\ HeapInv(h) /\ st = [a \in DOMAIN st |-> st[a]]
        /\ InUse(h) = cl \cup DOMAIN st \cup Data(st) /\ Disjoint(st, cl)
        /\ \A a \in DOMAIN st : StreamOK(h, m, st[a])
    BY DEF Owned
  <1>2. /\ DOMAIN t = DOMAIN st \ {f} /\ t = [a \in DOMAIN t |-> t[a]]
        /\ \A a \in DOMAIN st \ {f} : t[a] = st[a]
    BY DEF Unset
  <1>3. d \in Data(st) /\ d \in InUse(h) /\ d \notin cl /\ d \notin DOMAIN st /\ f \notin Data(st) /\ f \notin cl
        /\ \A a \in DOMAIN st \ {f} : st[a].data # d
    BY <1>1 DEF Data, Disjoint
  <1>4. HeapInv(g) /\ InUse(g) = InUse(h) \ ({f, d} \ kept)
    BY DEF Becomes
  <1>5. DOMAIN m2 = DOMAIN m \ {d} /\ \A b \in DOMAIN m \ {d} : m2[b] = m[b]
    BY DEF Unset
  <1> HIDE DEF t, m2
  <1>6. Data(t) = Data(st) \ {d}
    <2>1. ASSUME NEW y \in Data(t) PROVE y \in Data(st) \ {d}
      <3>1. PICK a \in DOMAIN st \ {f} : y = st[a].data
        BY <1>2 DEF Data
      <3> QED BY <1>3, <3>1 DEF Data
    <2>2. ASSUME NEW y \in Data(st) \ {d} PROVE y \in Data(t)
      <3>1. PICK a \in DOMAIN st : y = st[a].data
        BY DEF Data
      <3>2. a # f
        BY <2>2, <3>1
      <3>3. a \in DOMAIN t /\ t[a].data = y
        BY <1>2, <3>1, <3>2
      <3> QED BY <3>3 DEF Data
    <2> QED BY <2>1, <2>2
  <1>7. InUse(g) = (cl \cup kept) \cup DOMAIN t \cup Data(t)
    BY <1>1, <1>2, <1>3, <1>4, <1>6
  <1>8. Disjoint(t, cl \cup kept)
    <2>1. (cl \cup kept) \cap DOMAIN t = {} /\ (cl \cup kept) \cap Data(t) = {} /\ DOMAIN t \cap Data(t) = {}
      BY <1>1, <1>2, <1>3, <1>6 DEF Disjoint
    <2>2. \A a, b \in DOMAIN t : t[a].data = t[b].data => a = b
      BY <1>1, <1>2 DEF Disjoint
    <2> QED BY <2>1, <2>2 DEF Disjoint
  <1>9. ASSUME NEW a \in DOMAIN t PROVE StreamOK(g, m2, t[a])
    <2>1. a \in DOMAIN st /\ t[a] = st[a] /\ st[a].data # d /\ st[a].data # f
      BY <1>2, <1>3 DEF Data
    <2>2. st[a].data \in DOMAIN m
      BY <1>1, <2>1 DEF StreamOK
    <2>3. st[a].data \in DOMAIN m2 /\ m2[st[a].data] = m[st[a].data] /\ st[a].data \notin {f, d} \ kept
      BY <1>5, <2>1, <2>2
    <2> QED BY <2>1, <2>3, StreamKept
  <1> QED BY <1>2, <1>4, <1>7, <1>8, <1>9 DEF Owned, t, m2
-----------------------------------------------------------------------------
(* Every call keeps the invariant.                                         *)

\* The heap changes and the same blocks remain in use.
LEMMA SameBlocks ==
    ASSUME NEW h, NEW m, NEW st, NEW cl, Owned(h, m, st, cl), NEW g, Becomes(h, g, {}, {})
    PROVE  Owned(g, m, st, cl)
  <1>1. Owned(g, m, st, (cl \ {}) \cup {})
    BY ClientStep
  <1>2. (cl \ {}) \cup {} = cl
    OBVIOUS
  <1> QED BY <1>1, <1>2

LEMMA AllocatesInv ==
    ASSUME StdioInv, NEW n \in Requests, Allocates(n)
    PROVE  StdioInv'
  <1> DEFINE new == Malloc(heap, n)
  <1>1. Owned(heap, mem, streams, client) /\ FilesOK(files) /\ HeapInv(heap)
    BY DEF StdioInv, Owned
  <1>2. /\ heap' = new.h /\ client' = client \cup ({new.p} \ {NULL})
        /\ mem' = mem /\ streams' = streams /\ files' = files
    BY DEF Allocates
  <1>3. MallocCases(heap, n, new)
    BY <1>1, MallocBecomes, StdioAssumption
  <1> HIDE DEF new
  <1>4. Owned(heap', mem', streams', client')
    <2>1. CASE new.p = NULL
      <3>1. heap' = heap /\ client' = client
        BY <1>2, <1>3, <2>1 DEF MallocCases
      <3> QED BY <1>1, <1>2, <3>1
    <2>2. CASE new.p # NULL
      <3>1. Becomes(heap, new.h, {}, {new.p}) /\ {new.p} \cap InUse(heap) = {}
        BY <1>3, <2>2 DEF MallocCases
      <3>2. client' = (client \ {}) \cup {new.p}
        BY <1>2, <2>2
      <3>3. Owned(new.h, mem, streams, (client \ {}) \cup {new.p})
        BY <1>1, <3>1, ClientStep
      <3> QED BY <1>2, <3>2, <3>3
    <2> QED BY <2>1, <2>2
  <1> QED BY <1>1, <1>2, <1>4 DEF StdioInv

LEMMA ResizesInv ==
    ASSUME StdioInv, NEW p \in client, NEW n \in Requests, Resizes(p, n)
    PROVE  StdioInv'
  <1> DEFINE new == Realloc(heap, p, n)
  <1>1. Owned(heap, mem, streams, client) /\ FilesOK(files) /\ HeapInv(heap) /\ p \in InUse(heap)
    BY DEF StdioInv, Owned
  <1>2. /\ heap' = new.h
        /\ client' = IF new.p = NULL /\ n # 0 THEN client ELSE (client \ {p}) \cup ({new.p} \ {NULL})
        /\ mem' = mem /\ streams' = streams /\ files' = files
    BY DEF Resizes
  <1>3. ReallocCases(heap, p, n, new)
    BY <1>1, ReallocBecomes, StdioAssumption
  <1> HIDE DEF new
  <1>4. Owned(heap', mem', streams', client')
    <2>1. CASE n = 0
      <3>1. new.p = NULL /\ Becomes(heap, new.h, {p}, {})
        BY <1>3, <2>1 DEF ReallocCases
      <3>2. client' = (client \ {p}) \cup {}
        BY <1>2, <2>1, <3>1
      <3>3. Owned(new.h, mem, streams, (client \ {p}) \cup {})
        BY <1>1, <3>1, ClientStep
      <3> QED BY <1>2, <3>2, <3>3
    <2>2. CASE n # 0 /\ ~ new.moved
      <3>1. new.h = heap /\ (new.p = NULL \/ (new.p = p /\ p # NULL))
        BY <1>3, <2>2 DEF ReallocCases
      <3>2. client' = client
        BY <1>2, <2>2, <3>1
      <3> QED BY <1>1, <1>2, <3>1, <3>2
    <2>3. CASE n # 0 /\ new.moved
      <3>1. new.p # NULL /\ Becomes(heap, new.h, {p}, {new.p}) /\ {new.p} \cap InUse(heap) = {}
        BY <1>3, <2>3 DEF ReallocCases
      <3>2. client' = (client \ {p}) \cup {new.p}
        BY <1>2, <3>1
      <3>3. Owned(new.h, mem, streams, (client \ {p}) \cup {new.p})
        BY <1>1, <3>1, ClientStep
      <3> QED BY <1>2, <3>2, <3>3
    <2> QED BY <2>1, <2>2, <2>3
  <1> QED BY <1>1, <1>2, <1>4 DEF StdioInv

LEMMA FreesInv ==
    ASSUME StdioInv, NEW p \in client, Frees(p)
    PROVE  StdioInv'
  <1>1. Owned(heap, mem, streams, client) /\ FilesOK(files) /\ HeapInv(heap) /\ p \in InUse(heap)
    BY DEF StdioInv, Owned
  <1>2. /\ heap' = Freed(heap, p) /\ client' = client \ {p}
        /\ mem' = mem /\ streams' = streams /\ files' = files
    BY DEF Frees
  <1>3. Becomes(heap, heap', {p}, {})
    BY <1>1, <1>2, FreedBecomes
  <1>4. Owned(heap', mem, streams, (client \ {p}) \cup {})
    BY <1>1, <1>3, ClientStep
  <1>5. (client \ {p}) \cup {} = client'
    BY <1>2
  <1> QED BY <1>1, <1>2, <1>4, <1>5 DEF StdioInv

\* The two blocks of a stream: neither, the first alone or both are allocated.
TwoCases(h, f, d, size) ==
    \/ f.p = NULL
    \/ f.p # NULL /\ d.p = NULL /\ Becomes(h, Freed(f.h, f.p), {}, {})
    \/ /\ f.p # NULL /\ d.p # NULL /\ f.p # d.p /\ f.p \notin InUse(h) /\ d.p \notin InUse(h)
       /\ Becomes(h, d.h, {}, {f.p, d.p}) /\ Room(d.h, d.p) >= size
       /\ Becomes(h, OpenFailed(d.h, d.p, f.p), {}, {})

LEMMA TwoBlocks ==
    ASSUME NEW h, HeapInv(h), NEW a \in Nat, NEW b \in Nat
    PROVE  TwoCases(h, Malloc(h, a), Malloc(Malloc(h, a).h, b), b)
  <1> DEFINE f == Malloc(h, a)
             d == Malloc(f.h, b)
  <1>1. MallocCases(h, a, f)
    BY MallocBecomes
  <1>2. HeapInv(f.h)
    BY <1>1 DEF MallocCases, Becomes
  <1>3. MallocCases(f.h, b, d)
    BY <1>2, MallocBecomes
  <1> HIDE DEF f, d
  <1>4. CASE f.p = NULL
    BY <1>4 DEF TwoCases, f, d
  <1>5. CASE f.p # NULL /\ d.p = NULL
    <2>1. Becomes(h, f.h, {}, {f.p}) /\ f.p \notin InUse(h) /\ f.p \in InUse(f.h)
      BY <1>1, <1>5 DEF MallocCases, Becomes
    <2>2. Becomes(f.h, Freed(f.h, f.p), {f.p}, {})
      BY <1>2, <2>1, FreedBecomes
    <2>3. Becomes(h, Freed(f.h, f.p), {}, {})
      BY <2>1, <2>2 DEF Becomes
    <2> QED BY <1>5, <2>3 DEF TwoCases, f, d
  <1>6. CASE f.p # NULL /\ d.p # NULL
    <2>1. Becomes(h, f.h, {}, {f.p}) /\ f.p \notin InUse(h) /\ f.p \in InUse(f.h)
      BY <1>1, <1>6 DEF MallocCases, Becomes
    <2>2. Becomes(f.h, d.h, {}, {d.p}) /\ d.p \notin InUse(f.h) /\ d.p \in InUse(d.h) /\ Room(d.h, d.p) >= b
      BY <1>3, <1>6 DEF MallocCases, Becomes
    <2>3. f.p # d.p /\ d.p \notin InUse(h) /\ Becomes(h, d.h, {}, {f.p, d.p})
      BY <2>1, <2>2 DEF Becomes
    <2>4. Becomes(d.h, Freed(d.h, d.p), {d.p}, {})
      BY <2>2, FreedBecomes DEF Becomes
    <2>5. HeapInv(Freed(d.h, d.p)) /\ f.p \in InUse(Freed(d.h, d.p))
      BY <2>3, <2>4 DEF Becomes
    <2>6. Becomes(Freed(d.h, d.p), OpenFailed(d.h, d.p, f.p), {f.p}, {})
      BY <2>5, FreedBecomes DEF OpenFailed
    <2>7. Becomes(h, OpenFailed(d.h, d.p, f.p), {}, {})
      BY <2>1, <2>3, <2>4, <2>6 DEF Becomes
    <2> QED BY <1>6, <2>1, <2>2, <2>3, <2>7 DEF TwoCases, f, d
  <1> QED BY <1>4, <1>5, <1>6

\* The bytes of a new stream.
LEMMA FreshBytes ==
    ASSUME NEW h, HeapInv(h), NEW d \in InUse(h), NEW s \in Seq(Cell), Len(s) < Room(h, d)
    PROVE  LET bytes == Copied(Raw(h, d), 0, s \o <<0>>) IN
           /\ bytes \in Seq(Cell) /\ Len(bytes) = Room(h, d) /\ bytes[Len(s) + 1] = 0
           /\ \A k \in 1 .. Len(s) : bytes[k] = s[k]
  <1> DEFINE z == s \o <<0>>
             bytes == Copied(Raw(h, d), 0, z)
  <1>1. PICK n \in Nat, l \in Nat : n = Room(h, d) /\ l = Len(s)
    BY RoomIs, LenProperties
  <1>2. <<0>> \in Seq(Cell) /\ Len(<<0>>) = 1 /\ <<0>>[1] = 0
    BY StdioAssumption DEF Cell
  <1>3. z \in Seq(Cell) /\ Len(z) = l + 1
    BY <1>1, <1>2
  <1>4. z[l + 1] = 0 /\ \A k \in 1 .. l : z[k] = s[k]
    BY <1>1, <1>2
  <1> HIDE DEF z
  <1>5. PICK raw \in Seq(Cell) : raw = Raw(h, d) /\ Len(raw) = n
    BY <1>1, RawIs
  <1>6. PICK pos \in Nat : pos = 0
    OBVIOUS
  <1>7. IsCopy(Copied(raw, pos, z), raw, pos, z)
    BY <1>3, CopiedIs
  <1>8. bytes \in Seq(Cell) /\ Len(bytes) = n
        /\ \A k \in 1 .. n : bytes[k] = IF pos < k /\ k <= pos + Len(z) THEN z[k - pos] ELSE raw[k]
    BY <1>5, <1>6, <1>7 DEF IsCopy
  <1> HIDE DEF bytes
  <1>9. \A k \in 1 .. l + 1 : bytes[k] = z[k]
    <2> TAKE k \in 1 .. l + 1
    <2>1. k \in 1 .. n /\ pos < k /\ k <= pos + Len(z) /\ k - pos = k
      BY <1>1, <1>3, <1>6
    <2> QED BY <1>8, <2>1
  <1>10. l + 1 \in 1 .. l + 1 /\ \A k \in 1 .. l : k \in 1 .. l + 1
    OBVIOUS
  <1>11. bytes[l + 1] = 0 /\ \A k \in 1 .. l : bytes[k] = s[k]
    BY <1>4, <1>9, <1>10
  <1> QED BY <1>1, <1>8, <1>11 DEF bytes, z

\* A call that opens a stream on two new blocks, the second with room for s and
\* for the zero behind it.
OpensWell(f, d, h, capacity, s, w, n, out) ==
    /\ Opens(f, d, h, capacity, s, w, n, out)
    /\ capacity \in Nat /\ s \in Seq(Cell) /\ w \in BOOLEAN /\ n \in Names \cup {NoName} /\ out \in BOOLEAN
    /\ Becomes(heap, h, {}, {f, d}) /\ f # d /\ f \notin InUse(heap) /\ d \notin InUse(heap)
    /\ Len(s) < capacity /\ capacity <= Room(h, d)
FailsWell(h) == NotOpened(h) /\ (h = heap \/ Becomes(heap, h, {}, {}))

LEMMA OpensInv ==
    ASSUME StdioInv, NEW f, NEW d, NEW h, NEW capacity, NEW s, NEW w, NEW n, NEW out,
           OpensWell(f, d, h, capacity, s, w, n, out)
    PROVE  StdioInv'
  <1>0. /\ Opens(f, d, h, capacity, s, w, n, out)
        /\ capacity \in Nat /\ s \in Seq(Cell) /\ w \in BOOLEAN /\ n \in Names \cup {NoName} /\ out \in BOOLEAN
        /\ Becomes(heap, h, {}, {f, d}) /\ f # d /\ f \notin InUse(heap) /\ d \notin InUse(heap)
        /\ Len(s) < capacity /\ capacity <= Room(h, d)
    BY DEF OpensWell
  <1> USE <1>0
  <1> DEFINE x == [data |-> d, size |-> Len(s), capacity |-> capacity,
                   pos |-> 0, writable |-> w, name |-> n, out |-> out]
             bytes == Copied(Raw(h, d), 0, s \o <<0>>)
  <1>1. Owned(heap, mem, streams, client) /\ FilesOK(files)
    BY DEF StdioInv
  <1>2. /\ heap' = h /\ streams' = Set(streams, f, x) /\ mem' = Set(mem, d, bytes)
        /\ files' = files /\ client' = client
    BY DEF Opens, Returns
  <1>3. HeapInv(h) /\ d \in InUse(h)
    BY DEF Becomes
  <1>4. d \in Nat /\ Room(h, d) \in Nat /\ Len(s) \in Nat
    BY <1>3, RoomIs, LenProperties
  <1>5. Len(s) < Room(h, d)
    BY <1>4
  <1>6. bytes \in Seq(Cell) /\ Len(bytes) = Room(h, d) /\ bytes[Len(s) + 1] = 0
    BY <1>3, <1>5, FreshBytes
  <1> HIDE DEF bytes
  <1>7. /\ DOMAIN mem' = DOMAIN mem \cup {d} /\ mem'[d] = bytes
        /\ \A e \in DOMAIN mem \ {d} : e \in DOMAIN mem' /\ mem'[e] = mem[e]
    BY <1>2 DEF Set
  <1>8. x \in StreamType /\ x.data = d /\ x.size = Len(s) /\ x.pos = 0 /\ x.capacity = capacity
    BY <1>4 DEF StreamType
  <1> HIDE DEF x
  <1>9. StreamOK(h, mem', x)
    <2>1. x.pos <= x.size
      BY <1>4, <1>8
    <2> QED BY <1>6, <1>7, <1>8, <2>1 DEF StreamOK
  <1>10. Owned(h, mem', Set(streams, f, x), client)
    BY <1>1, <1>7, <1>8, <1>9, OpenStep
  <1> QED BY <1>1, <1>2, <1>10 DEF StdioInv

LEMMA NotOpenedInv ==
    ASSUME StdioInv, NEW h, FailsWell(h)
    PROVE  StdioInv'
  <1>1. Owned(heap, mem, streams, client) /\ FilesOK(files)
    BY DEF StdioInv
  <1>2. heap' = h /\ mem' = mem /\ streams' = streams /\ client' = client /\ files' = files
    BY DEF FailsWell, NotOpened, Returns
  <1>3. Owned(h, mem, streams, client)
    <2>1. CASE h = heap
      BY <1>1, <2>1
    <2>2. CASE Becomes(heap, h, {}, {})
      BY <1>1, <2>2, SameBlocks
    <2> QED BY <2>1, <2>2 DEF FailsWell
  <1> QED BY <1>1, <1>2, <1>3 DEF StdioInv

LEMMA OpenMemstreamCases ==
    ASSUME StdioInv, OpenMemstream
    PROVE  \/ \E h : FailsWell(h)
           \/ \E f, d, h : OpensWell(f, d, h, 1, <<>>, TRUE, NoName, TRUE)
  <1> DEFINE f == Malloc(heap, FILE_SIZE)
             d == Malloc(f.h, 1)
  <1>1. HeapInv(heap)
    BY DEF StdioInv, Owned
  <1>2. TwoCases(heap, f, d, 1)
    BY <1>1, TwoBlocks, StdioAssumption
  <1>3. \/ f.p = NULL /\ NotOpened(heap)
        \/ f.p # NULL /\ d.p = NULL /\ NotOpened(Freed(f.h, f.p))
        \/ f.p # NULL /\ d.p # NULL /\ Opens(f.p, d.p, d.h, 1, <<>>, TRUE, NoName, TRUE)
    BY DEF OpenMemstream
  <1> HIDE DEF f, d
  <1>4. CASE f.p = NULL /\ NotOpened(heap)
    BY <1>4 DEF FailsWell
  <1>5. CASE f.p # NULL /\ d.p = NULL /\ NotOpened(Freed(f.h, f.p))
    <2>1. Becomes(heap, Freed(f.h, f.p), {}, {})
      BY <1>2, <1>5 DEF TwoCases
    <2> QED BY <1>5, <2>1 DEF FailsWell
  <1>6. CASE f.p # NULL /\ d.p # NULL /\ Opens(f.p, d.p, d.h, 1, <<>>, TRUE, NoName, TRUE)
    <2>1. /\ f.p # d.p /\ f.p \notin InUse(heap) /\ d.p \notin InUse(heap)
          /\ Becomes(heap, d.h, {}, {f.p, d.p}) /\ Room(d.h, d.p) >= 1
      BY <1>2, <1>6 DEF TwoCases
    <2>2. <<>> \in Seq(Cell) /\ Len(<<>>) < 1 /\ 1 <= Room(d.h, d.p)
      <3>1. HeapInv(d.h) /\ d.p \in InUse(d.h)
        BY <2>1 DEF Becomes
      <3>2. Room(d.h, d.p) \in Nat
        BY <3>1, RoomIs
      <3> QED BY <2>1, <3>2
    <2>3. OpensWell(f.p, d.p, d.h, 1, <<>>, TRUE, NoName, TRUE)
      BY <1>6, <2>1, <2>2 DEF OpensWell
    <2> QED BY <2>3
  <1> QED BY <1>3, <1>4, <1>5, <1>6

LEMMA FopenCases ==
    ASSUME StdioInv, NEW n \in Names \cup LongNames \cup {NoName}, NEW w \in BOOLEAN, Fopen(n, w)
    PROVE  \/ \E h : FailsWell(h)
           \/ /\ n \in Names \cup {NoName} /\ (w \/ n \in DOMAIN files)
              /\ \E f, d, h : OpensWell(f, d, h, MAX_FILE_SIZE + 1, IF w THEN <<>> ELSE files[n], w, n, FALSE)
  <1> DEFINE f == Malloc(heap, FILE_SIZE)
             cap == MAX_FILE_SIZE + 1
             d == Malloc(f.h, cap)
             s == IF w THEN <<>> ELSE files[n]
  <1>1. HeapInv(heap) /\ FilesOK(files)
    BY DEF StdioInv, Owned
  <1>2. cap \in Nat /\ FILE_SIZE \in Nat /\ MAX_FILE_SIZE \in Nat
    BY StdioAssumption
  <1>3. TwoCases(heap, f, d, cap)
    BY <1>1, <1>2, TwoBlocks
  <1>4. \/ n \in LongNames /\ NotOpened(heap)
        \/ n \notin LongNames /\ f.p = NULL /\ NotOpened(heap)
        \/ n \notin LongNames /\ f.p # NULL /\ d.p = NULL /\ NotOpened(Freed(f.h, f.p))
        \/ n \notin LongNames /\ f.p # NULL /\ d.p # NULL /\ NotOpened(OpenFailed(d.h, d.p, f.p))
        \/ /\ n \notin LongNames /\ f.p # NULL /\ d.p # NULL /\ (w \/ n \in DOMAIN files)
           /\ Opens(f.p, d.p, d.h, cap, s, w, n, FALSE)
    BY DEF Fopen
  <1> HIDE DEF f, d, s
  <1>5. CASE NotOpened(heap)
    BY <1>5 DEF FailsWell
  <1>6. CASE f.p # NULL /\ d.p = NULL /\ NotOpened(Freed(f.h, f.p))
    <2>1. Becomes(heap, Freed(f.h, f.p), {}, {})
      BY <1>3, <1>6 DEF TwoCases
    <2> QED BY <1>6, <2>1 DEF FailsWell
  <1>7. CASE f.p # NULL /\ d.p # NULL /\ NotOpened(OpenFailed(d.h, d.p, f.p))
    <2>1. Becomes(heap, OpenFailed(d.h, d.p, f.p), {}, {})
      BY <1>3, <1>7 DEF TwoCases
    <2> QED BY <1>7, <2>1 DEF FailsWell
  <1>8. CASE /\ n \notin LongNames /\ f.p # NULL /\ d.p # NULL /\ (w \/ n \in DOMAIN files)
             /\ Opens(f.p, d.p, d.h, cap, s, w, n, FALSE)
    <2>1. /\ f.p # d.p /\ f.p \notin InUse(heap) /\ d.p \notin InUse(heap)
          /\ Becomes(heap, d.h, {}, {f.p, d.p}) /\ Room(d.h, d.p) >= cap
      BY <1>3, <1>8 DEF TwoCases
    <2>2. Room(d.h, d.p) \in Nat
      <3>1. HeapInv(d.h) /\ d.p \in InUse(d.h)
        BY <2>1 DEF Becomes
      <3> QED BY <3>1, RoomIs
    <2>3. s \in Seq(Cell) /\ Len(s) <= MAX_FILE_SIZE
      <3>1. CASE w
        BY <1>2, <3>1 DEF s
      <3>2. CASE ~ w
        BY <1>1, <1>8, <3>2 DEF FilesOK, s
      <3> QED BY <3>1, <3>2
    <2>4. Len(s) < cap /\ cap <= Room(d.h, d.p) /\ Len(s) \in Nat
      BY <1>2, <2>1, <2>2, <2>3, LenProperties
    <2>5. n \in Names \cup {NoName}
      BY <1>8
    <2>6. OpensWell(f.p, d.p, d.h, cap, s, w, n, FALSE)
      BY <1>2, <1>8, <2>1, <2>3, <2>4, <2>5 DEF OpensWell
    <2> QED BY <1>8, <2>5, <2>6 DEF s
  <1> QED BY <1>4, <1>5, <1>6, <1>7, <1>8

LEMMA OpeningInv ==
    ASSUME StdioInv, Opening
    PROVE  StdioInv'
  <1>1. CASE OpenMemstream
    BY <1>1, OpenMemstreamCases, NotOpenedInv, OpensInv
  <1>2. ASSUME NEW n \in Names \cup LongNames \cup {NoName}, NEW w \in BOOLEAN, Fopen(n, w) PROVE StdioInv'
    BY <1>2, FopenCases, NotOpenedInv, OpensInv
  <1> QED BY <1>1, <1>2 DEF Opening

LEMMA Updated ==
    ASSUME StdioInv, NEW f \in DOMAIN streams, NEW d, NEW size, NEW capacity, NEW pos, Update(f, d, size, capacity, pos)
    PROVE  LET old == streams[f]
               x == [data |-> d, size |-> size, capacity |-> capacity, pos |-> pos,
                     writable |-> old.writable, name |-> old.name, out |-> old.out]
           IN streams' = [streams EXCEPT ![f] = x]
  BY DEF Update

\* The position moves within the stream.
LEMMA ToInv ==
    ASSUME StdioInv, NEW f \in DOMAIN streams, NEW pos \in Nat, pos <= streams[f].size, To(f, pos),
           Keeps, UNCHANGED files
    PROVE  StdioInv'
  <1> DEFINE old == streams[f]
             x == [data |-> old.data, size |-> old.size, capacity |-> old.capacity, pos |-> pos,
                   writable |-> old.writable, name |-> old.name, out |-> old.out]
  <1>1. Owned(heap, mem, streams, client) /\ FilesOK(files) /\ StreamOK(heap, mem, old)
    BY DEF StdioInv, Owned
  <1>2. streams' = [streams EXCEPT ![f] = x] /\ heap' = heap /\ mem' = mem /\ client' = client /\ files' = files
    BY Updated DEF To, Keeps
  <1>3. /\ x \in StreamType /\ x.data = old.data /\ x.size = old.size /\ x.pos = pos
        /\ x.capacity = old.capacity
    BY <1>1 DEF StreamOK, StreamType
  <1> HIDE DEF x
  <1>4. StreamOK(heap, mem, x) /\ Relocates(heap, heap, old.data, x.data)
    BY <1>1, <1>3 DEF StreamOK, Relocates
  <1>5. Owned(heap, mem, [streams EXCEPT ![f] = x], client)
    BY <1>1, <1>4, ChangeStep
  <1> QED BY <1>1, <1>2, <1>5 DEF StdioInv

LEMMA FflushInv ==
    ASSUME StdioInv, NEW f \in DOMAIN streams, Fflush(f)
    PROVE  StdioInv'
  BY DEF StdioInv, Fflush, Keeps

LEMMA OldStream ==
    ASSUME StdioInv, NEW f \in DOMAIN streams
    PROVE  /\ StreamOK(heap, mem, streams[f]) /\ streams[f].data \in InUse(heap)
           /\ streams[f].pos \in Nat /\ streams[f].size \in Nat /\ streams[f].capacity \in Nat
           /\ streams[f].pos <= streams[f].size /\ streams[f].size < streams[f].capacity
           /\ streams[f].capacity <= Room(heap, streams[f].data) /\ Room(heap, streams[f].data) \in Nat
           /\ streams[f].out \in BOOLEAN /\ streams[f].writable \in BOOLEAN
           /\ streams[f].name \in Names \cup {NoName}
  <1>1. HeapInv(heap) /\ StreamOK(heap, mem, streams[f]) /\ streams[f].data \in InUse(heap)
    BY DEF StdioInv, Owned, Data
  <1>2. Room(heap, streams[f].data) \in Nat
    BY <1>1, RoomIs
  <1> QED BY <1>1, <1>2 DEF StreamOK, StreamType

LEMMA FseekInv ==
    ASSUME StdioInv, NEW f \in DOMAIN streams, NEW offset \in {-1, 0, 1},
           NEW origin \in {"SET", "CUR", "END"}, Fseek(f, offset, origin)
    PROVE  StdioInv'
  <1> DEFINE pos == Base(f, origin) + offset
  <1>1. pos \in Int /\ streams[f].size \in Nat
    BY OldStream DEF Base
  <1>2. /\ IF pos < 0 \/ pos > streams[f].size THEN Returns(-1) /\ UNCHANGED streams
           ELSE Returns(0) /\ To(f, pos)
        /\ Keeps
    BY DEF Fseek
  <1> HIDE DEF pos
  <1>3. CASE pos < 0 \/ pos > streams[f].size
    BY <1>2, <1>3 DEF StdioInv, Returns, Keeps
  <1>4. CASE ~ (pos < 0 \/ pos > streams[f].size)
    <2>1. pos \in Nat /\ pos <= streams[f].size
      BY <1>1, <1>4
    <2>2. To(f, pos) /\ Keeps /\ UNCHANGED files
      BY <1>2, <1>4 DEF Returns
    <2> QED BY <2>1, <2>2, ToInv
  <1> QED BY <1>3, <1>4

\* k bytes are read, of those that are there.
LEMMA TakesInv ==
    ASSUME StdioInv, NEW f \in DOMAIN streams, NEW k \in Nat, NEW e, k <= streams[f].size - streams[f].pos, Takes(f, k, e)
    PROVE  StdioInv'
  <1>1. PICK p \in Nat, n \in Nat : p = streams[f].pos /\ n = streams[f].size
    BY OldStream
  <1>2. p + k \in Nat /\ p + k <= n
    BY <1>1
  <1>3. To(f, p + k) /\ Keeps /\ UNCHANGED files
    BY <1>1 DEF Takes
  <1> QED BY <1>1, <1>2, <1>3, ToInv

\* The bytes that fread and fgets take are there.
LEMMA FreadTakes ==
    ASSUME StdioInv, NEW f \in DOMAIN streams, NEW size \in 1 .. 2, NEW count \in Nat
    PROVE  LET k == IF count > Elements(f, size) THEN Elements(f, size) ELSE count IN
           k \in Nat /\ k * size \in Nat /\ k * size <= streams[f].size - streams[f].pos
  <1>1. PICK m \in Nat : m = streams[f].size - streams[f].pos
    BY OldStream
  <1>2. PICK q \in Nat : q = Elements(f, size) /\ q * size <= m
    <2>1. m \div size \in Nat /\ (m \div size) * size <= m
      OBVIOUS
    <2> QED BY <1>1, <2>1 DEF Elements
  <1>3. PICK k \in Nat : k = (IF count > q THEN q ELSE count) /\ k <= q
    OBVIOUS
  <1>4. k * size \in Nat /\ k * size <= m
    BY <1>2, <1>3
  <1> QED BY <1>1, <1>2, <1>3, <1>4

LEMMA FreadInv ==
    ASSUME StdioInv, NEW f \in DOMAIN streams, NEW size \in 1 .. 2, NEW count \in Buffers, Fread(f, size, count)
    PROVE  StdioInv'
  <1> DEFINE k == IF count > Elements(f, size) THEN Elements(f, size) ELSE count
  <1>1. k * size \in Nat /\ k * size <= streams[f].size - streams[f].pos
    BY FreadTakes, StdioAssumption
  <1>2. Takes(f, k * size, k)
    BY DEF Fread
  <1> HIDE DEF k
  <1>3. PICK l \in Nat : l = k * size
    BY <1>1
  <1> QED BY <1>1, <1>2, <1>3, TakesInv

LEMMA MinLeast ==
    ASSUME NEW S, S \subseteq Nat, S # {}
    PROVE  Min(S) \in S /\ \A y \in S : Min(S) <= y
  <1>1. \E x \in S : \A y \in S : x <= y
    BY SmallestOf
  <1> QED BY <1>1 DEF Min

Most(f, n) == Min({n - 1, streams[f].size - streams[f].pos})
Lines(f, n) == {k \in 1 .. Most(f, n) : mem[streams[f].data][streams[f].pos + k] = NEWLINE}
LineEnd(f, n) == IF Lines(f, n) = {} THEN Most(f, n) ELSE Min(Lines(f, n))
LEMMA FgetsTakes ==
    ASSUME StdioInv, NEW f \in DOMAIN streams, NEW n \in Nat, n >= 2
    PROVE  /\ LineEnd(f, n) \in Nat /\ LineEnd(f, n) <= Most(f, n) /\ Most(f, n) \in Nat
           /\ Most(f, n) <= n - 1 /\ Most(f, n) <= streams[f].size - streams[f].pos
           /\ Most(f, n) \in {n - 1, streams[f].size - streams[f].pos}
           /\ Lines(f, n) # {} => LineEnd(f, n) \in Lines(f, n) /\ \A k \in Lines(f, n) : LineEnd(f, n) <= k
  <1>1. PICK m \in Nat : m = streams[f].size - streams[f].pos
    BY OldStream
  <1>2. PICK t \in Nat : t = Most(f, n) /\ t <= n - 1 /\ t <= m /\ t \in {n - 1, m}
    <2>1. {n - 1, m} \subseteq Nat /\ {n - 1, m} # {}
      OBVIOUS
    <2>2. Min({n - 1, m}) \in {n - 1, m} /\ \A y \in {n - 1, m} : Min({n - 1, m}) <= y
      BY <2>1, MinLeast
    <2> QED BY <1>1, <2>2 DEF Most
  <1>3. Lines(f, n) \subseteq 1 .. t
    BY <1>2 DEF Lines
  <1>4. ASSUME Lines(f, n) # {} PROVE LineEnd(f, n) \in Lines(f, n) /\ \A k \in Lines(f, n) : LineEnd(f, n) <= k
    <2>1. Lines(f, n) \subseteq Nat
      BY <1>3
    <2> QED BY <1>4, <2>1, MinLeast DEF LineEnd
  <1>5. LineEnd(f, n) \in Nat /\ LineEnd(f, n) <= t
    <2>1. CASE Lines(f, n) = {}
      BY <1>2, <2>1 DEF LineEnd
    <2>2. CASE Lines(f, n) # {}
      BY <1>3, <1>4, <2>2
    <2> QED BY <2>1, <2>2
  <1> QED BY <1>1, <1>2, <1>4, <1>5

LEMMA FgetsInv ==
    ASSUME StdioInv, NEW f \in DOMAIN streams, NEW n \in Buffers, Fgets(f, n)
    PROVE  StdioInv'
  <1>1. n \in Nat
    BY StdioAssumption
  <1>2. CASE n < 2
    BY <1>2 DEF Fgets, Returns, Keeps, StdioInv
  <1>3. CASE ~ (n < 2)
    <2>1. PICK k : k = LineEnd(f, n)
      OBVIOUS
    <2>2. Takes(f, k, IF k = 0 THEN -1 ELSE 0)
      BY <1>3, <2>1 DEF Fgets, LineEnd, Lines, Most
    <2>3. PICK m \in Nat : m = streams[f].size - streams[f].pos
      BY OldStream
    <2>4. k \in Nat /\ k <= m
      BY <1>1, <1>3, <2>1, <2>3, FgetsTakes
    <2> QED BY <2>2, <2>3, <2>4, TakesInv
  <1> QED BY <1>2, <1>3
\* What fwrite computes: the end of the bytes, the capacity, the block and what
\* it holds before s is copied to it.
Behind(f, s) == streams[f].pos + Len(s)
Cap(f, s) == IF Grows(f, Len(s)) THEN (Behind(f, s) + 1) * 2 ELSE streams[f].capacity
Place(f, s) ==
    IF Grows(f, Len(s)) THEN Realloc(heap, streams[f].data, Cap(f, s))
    ELSE [h |-> heap, p |-> streams[f].data, moved |-> FALSE]
Held(f, new) ==
    IF new.moved THEN Copied(Raw(new.h, new.p), 0, mem[streams[f].data]) ELSE mem[streams[f].data]
NewSize(f, s) == IF Behind(f, s) > streams[f].size THEN Behind(f, s) ELSE streams[f].size
Written(f, s, new) ==
    Copied(Copied(Held(f, new), streams[f].pos, s), NewSize(f, s), <<0>>)

PlaceCases(f, s, new) ==
    /\ new.p = NULL => new.h = heap
    /\ new.p # NULL =>
        /\ Relocates(heap, new.h, streams[f].data, new.p)
        /\ HeapInv(new.h) /\ new.p \in InUse(new.h) /\ new.p \in Nat
        /\ Cap(f, s) <= Room(new.h, new.p) /\ Room(new.h, new.p) \in Nat
        /\ new.moved => Room(heap, streams[f].data) <= Room(new.h, new.p)
        /\ ~ new.moved => new.h = heap /\ new.p = streams[f].data

LEMMA CapIs ==
    ASSUME StdioInv, NEW f \in DOMAIN streams, NEW s \in Seq(Cell)
    PROVE  /\ Behind(f, s) \in Nat /\ NewSize(f, s) \in Nat /\ Cap(f, s) \in Nat
           /\ streams[f].pos <= Behind(f, s) /\ Behind(f, s) <= NewSize(f, s)
           /\ streams[f].size <= NewSize(f, s) /\ NewSize(f, s) < Cap(f, s)
  <1>1. PICK l \in Nat, p \in Nat, z \in Nat, c \in Nat :
            l = Len(s) /\ p = streams[f].pos /\ z = streams[f].size /\ c = streams[f].capacity /\ p <= z /\ z < c
    BY OldStream, LenProperties
  <1>2. PICK b \in Nat : b = Behind(f, s) /\ b = p + l
    BY <1>1 DEF Behind
  <1>3. NewSize(f, s) = (IF b > z THEN b ELSE z)
    BY <1>1, <1>2 DEF NewSize
  <1>4. Cap(f, s) = (IF b + 1 > c THEN (b + 1) * 2 ELSE c)
    BY <1>1, <1>2 DEF Cap, Grows
  <1>5. PICK n \in Nat : n = NewSize(f, s) /\ n = (IF b > z THEN b ELSE z)
    BY <1>3
  <1>6. PICK e \in Nat : e = Cap(f, s) /\ e = (IF b + 1 > c THEN (b + 1) * 2 ELSE c)
    BY <1>4
  <1>7. p <= b /\ b <= n /\ z <= n /\ n < e
    <2>1. p <= z /\ z < c /\ p <= b
      BY <1>1, <1>2
    <2>2. b <= n /\ z <= n /\ (n = b \/ n = z)
      BY <1>5
    <2>3. b + 1 <= e /\ c <= e
      BY <1>6
    <2> QED BY <2>1, <2>2, <2>3
  <1> QED BY <1>1, <1>2, <1>5, <1>6, <1>7

LEMMA PlaceIs ==
    ASSUME StdioInv, NEW f \in DOMAIN streams, NEW s \in Seq(Cell)
    PROVE  PlaceCases(f, s, Place(f, s))
  <1> DEFINE new == Place(f, s)
             d == streams[f].data
  <1>1. PICK cap \in Nat : cap = Cap(f, s) /\ cap # 0
    BY CapIs
  <1>2. HeapInv(heap) /\ d \in InUse(heap) /\ d \in Nat /\ Room(heap, d) \in Nat
        /\ streams[f].capacity <= Room(heap, d)
    BY OldStream, RoomIs DEF StdioInv, Owned
  <1>3. CASE ~ Grows(f, Len(s))
    <2>1. new.h = heap /\ new.p = d /\ ~ new.moved
      BY <1>3 DEF Place
    <2>2. cap = streams[f].capacity
      BY <1>1, <1>3 DEF Cap
    <2> HIDE DEF new
    <2> QED BY <1>1, <1>2, <2>1, <2>2 DEF PlaceCases, Relocates, new
  <1>4. CASE Grows(f, Len(s))
    <2>1. ReallocCases(heap, d, cap, new)
      BY <1>1, <1>2, <1>4, ReallocBecomes DEF Place
    <2> HIDE DEF new
    <2>2. CASE new.p = NULL
      <3>1. new.h = heap
        BY <1>1, <2>1, <2>2 DEF ReallocCases
      <3> QED BY <2>2, <3>1 DEF PlaceCases, new
    <2>3. CASE new.p # NULL /\ ~ new.moved
      <3>1. new.h = heap /\ new.p = d /\ Room(heap, d) >= cap
        BY <1>1, <2>1, <2>3 DEF ReallocCases
      <3> QED BY <1>1, <1>2, <2>3, <3>1 DEF PlaceCases, Relocates, new
    <2>4. CASE new.p # NULL /\ new.moved
      <3>1. /\ new.p \notin InUse(heap) /\ ~ (Room(heap, d) >= cap)
            /\ Becomes(heap, new.h, {d}, {new.p}) /\ Room(new.h, new.p) >= cap
        BY <1>1, <2>1, <2>4 DEF ReallocCases
      <3>2. HeapInv(new.h) /\ new.p \in InUse(new.h)
        BY <3>1 DEF Becomes
      <3>3. Room(new.h, new.p) \in Nat /\ new.p \in Nat
        BY <3>2, RoomIs
      <3>4. cap <= Room(new.h, new.p) /\ Room(heap, d) <= Room(new.h, new.p)
        BY <1>2, <3>1, <3>3
      <3> QED BY <1>1, <2>4, <3>1, <3>2, <3>3, <3>4 DEF PlaceCases, Relocates, new
    <2> QED BY <2>2, <2>3, <2>4
  <1> QED BY <1>3, <1>4

LEMMA PlaceMoved ==
    ASSUME NEW f, NEW s
    PROVE  Place(f, s).moved \in BOOLEAN
  <1>1. CASE ~ Grows(f, Len(s))
    BY <1>1 DEF Place
  <1>2. CASE Grows(f, Len(s))
    BY <1>2 DEF Place, Realloc
  <1> QED BY <1>1, <1>2

\* What the block holds after the write: the old bytes, s over them, a zero behind.
WrittenOK(f, s, new, w) ==
    /\ w \in Seq(Cell) /\ Len(w) = Room(new.h, new.p) /\ w[NewSize(f, s) + 1] = 0
    /\ \A k \in 1 .. NewSize(f, s) : w[k] =
         IF streams[f].pos < k /\ k <= Behind(f, s) THEN s[k - streams[f].pos]
         ELSE mem[streams[f].data][k]

LEMMA HeldIs ==
    ASSUME StdioInv, NEW f \in DOMAIN streams, NEW s \in Seq(Cell), NEW new, PlaceCases(f, s, new), new.p # NULL,
           new.moved \in BOOLEAN
    PROVE  /\ Held(f, new) \in Seq(Cell) /\ Len(Held(f, new)) = Room(new.h, new.p)
           /\ \A k \in 1 .. streams[f].size : Held(f, new)[k] = mem[streams[f].data][k]
  <1> DEFINE d == streams[f].data
  <1>1. PICK old \in Seq(Cell) : old = mem[d] /\ Len(old) = Room(heap, d)
    BY OldStream DEF StreamOK
  <1>2. PICK n \in Nat, z \in Nat, m \in Nat :
            n = Room(heap, d) /\ z = streams[f].size /\ m = Room(new.h, new.p) /\ z <= n
    BY OldStream DEF PlaceCases
  <1>3. CASE ~ new.moved
    <2>1. new.h = heap /\ new.p = d
      BY <1>3 DEF PlaceCases
    <2> QED BY <1>1, <1>3, <2>1 DEF Held
  <1>4. CASE new.moved
    <2>1. HeapInv(new.h) /\ new.p \in InUse(new.h) /\ n <= m
      BY <1>2, <1>4 DEF PlaceCases
    <2>2. PICK raw \in Seq(Cell) : raw = Raw(new.h, new.p) /\ Len(raw) = m
      BY <1>2, <2>1, RawIs
    <2>3. PICK zero \in Nat : zero = 0
      OBVIOUS
    <2>4. PICK c : c = Copied(raw, zero, old)
      OBVIOUS
    <2>5. IsCopy(c, raw, zero, old)
      BY <2>4, CopiedIs
    <2>6. c = Held(f, new)
      BY <1>1, <1>4, <2>2, <2>3, <2>4 DEF Held
    <2>7. c \in Seq(Cell) /\ Len(c) = m
      BY <2>2, <2>5 DEF IsCopy
    <2>8. ASSUME NEW k \in 1 .. z PROVE c[k] = old[k]
      <3>1. k \in 1 .. m /\ zero < k /\ k <= zero + n /\ k - zero = k
        BY <1>2, <2>1, <2>3
      <3> QED BY <1>1, <1>2, <2>2, <2>5, <3>1 DEF IsCopy
    <2> QED BY <1>1, <1>2, <2>6, <2>7, <2>8
  <1> QED BY <1>3, <1>4

LEMMA WrittenIs ==
    ASSUME StdioInv, NEW f \in DOMAIN streams, NEW s \in Seq(Cell), NEW new, PlaceCases(f, s, new), new.p # NULL,
           new.moved \in BOOLEAN
    PROVE  WrittenOK(f, s, new, Written(f, s, new))
  <1>1. PICK before \in Seq(Cell) : before = Held(f, new) /\ Len(before) = Room(new.h, new.p)
            /\ \A k \in 1 .. streams[f].size : before[k] = mem[streams[f].data][k]
    BY HeldIs
  <1>2. PICK m \in Nat, pos \in Nat, z \in Nat, size \in Nat, l \in Nat :
            /\ m = Room(new.h, new.p) /\ pos = streams[f].pos /\ z = NewSize(f, s)
            /\ size = streams[f].size /\ l = Len(s) /\ Behind(f, s) = pos + l
    BY OldStream, CapIs, LenProperties DEF PlaceCases, Behind
  <1>3. z < m /\ pos <= size /\ size <= z /\ pos + l <= z /\ (z = size \/ z = pos + l)
    <2>1. PICK c \in Nat : c = Cap(f, s) /\ z < c /\ c <= m
      BY <1>2, CapIs DEF PlaceCases
    <2>2. pos <= size
      BY <1>2, OldStream
    <2>3. z = (IF pos + l > size THEN pos + l ELSE size)
      BY <1>2 DEF NewSize
    <2> QED BY <2>1, <2>2, <2>3
  <1>4. PICK c : c = Copied(before, pos, s)
    OBVIOUS
  <1>5. IsCopy(c, before, pos, s)
    BY <1>4, CopiedIs
  <1>6. c \in Seq(Cell) /\ Len(c) = m
    BY <1>1, <1>2, <1>5 DEF IsCopy
  <1>7. <<0>> \in Seq(Cell) /\ Len(<<0>>) = 1 /\ <<0>>[1] = 0
    BY StdioAssumption DEF Cell
  <1>8. PICK w : w = Copied(c, z, <<0>>)
    OBVIOUS
  <1>9. IsCopy(w, c, z, <<0>>)
    BY <1>6, <1>7, <1>8, CopiedIs
  <1>10. w = Written(f, s, new)
    BY <1>1, <1>2, <1>4, <1>8 DEF Written
  <1>11. w \in Seq(Cell) /\ Len(w) = m
    BY <1>6, <1>9 DEF IsCopy
  <1>12. w[z + 1] = 0
    <2>1. z + 1 \in 1 .. m /\ z < z + 1 /\ z + 1 <= z + 1 /\ (z + 1) - z = 1
      BY <1>3
    <2> QED BY <1>6, <1>7, <1>9, <2>1 DEF IsCopy
  <1>13. ASSUME NEW k \in 1 .. z
         PROVE  w[k] = IF pos < k /\ k <= pos + l THEN s[k - pos] ELSE mem[streams[f].data][k]
    <2>1. k \in 1 .. m /\ ~ (z < k)
      BY <1>3
    <2>2. w[k] = c[k]
      BY <1>6, <1>9, <2>1 DEF IsCopy
    <2>3. c[k] = IF pos < k /\ k <= pos + l THEN s[k - pos] ELSE before[k]
      BY <1>1, <1>2, <1>5, <2>1 DEF IsCopy
    <2>4. CASE pos < k /\ k <= pos + l
      BY <2>2, <2>3, <2>4
    <2>5. CASE ~ (pos < k /\ k <= pos + l)
      <3>1. k \in 1 .. size
        BY <1>3, <2>5
      <3> QED BY <1>1, <1>2, <2>2, <2>3, <2>5, <3>1
    <2> QED BY <2>4, <2>5
  <1> QED BY <1>2, <1>10, <1>11, <1>12, <1>13 DEF WrittenOK

FwriteDone(f, s, new) ==
    /\ streams[f].writable /\ new.p # NULL
    /\ heap' = new.h /\ Update(f, new.p, NewSize(f, s), Cap(f, s), Behind(f, s))
    /\ mem' = Set(Unset(mem, streams[f].data), new.p, Written(f, s, new))
    /\ Returns(Len(s)) /\ UNCHANGED client

LEMMA FwriteCases ==
    ASSUME StdioInv, NEW f \in DOMAIN streams, NEW s \in Seq(Cell), Fwrite(f, s)
    PROVE  \/ Returns(0) /\ Keeps /\ UNCHANGED streams
           \/ FwriteDone(f, s, Place(f, s))
  BY DEF Fwrite, FwriteDone, Place, Cap, Behind, NewSize, Written, Held

LEMMA FwriteInv ==
    ASSUME StdioInv, NEW f \in DOMAIN streams, NEW s \in Contents, Fwrite(f, s)
    PROVE  StdioInv'
  <1>1. s \in Seq(Cell)
    <2>1. s \in Seq(Byte)
      BY StdioAssumption
    <2> QED BY <2>1 DEF Cell
  <1> DEFINE old == streams[f]
             new == Place(f, s)
             w == Written(f, s, new)
             x == [data |-> new.p, size |-> NewSize(f, s), capacity |-> Cap(f, s), pos |-> Behind(f, s),
                   writable |-> old.writable, name |-> old.name, out |-> old.out]
  <1>2. Owned(heap, mem, streams, client) /\ FilesOK(files) /\ StreamOK(heap, mem, old)
    BY DEF StdioInv, Owned
  <1>3. CASE Returns(0) /\ Keeps /\ UNCHANGED streams
    BY <1>3 DEF StdioInv, Returns, Keeps
  <1>4. CASE FwriteDone(f, s, new)
    <2>1. /\ heap' = new.h /\ mem' = Set(Unset(mem, old.data), new.p, w) /\ client' = client /\ files' = files
          /\ new.p # NULL
      BY <1>4 DEF FwriteDone, Returns
    <2>2. streams' = [streams EXCEPT ![f] = x]
      BY <1>4, Updated DEF FwriteDone
    <2>3. PlaceCases(f, s, new)
      BY <1>1, PlaceIs
    <2>4. new.moved \in BOOLEAN
      BY PlaceMoved
    <2> HIDE DEF new
    <2>5. WrittenOK(f, s, new, w)
      BY <1>1, <2>1, <2>3, <2>4, WrittenIs
    <2>6. /\ x \in StreamType /\ x.data = new.p /\ x.size = NewSize(f, s) /\ x.pos = Behind(f, s)
          /\ x.capacity = Cap(f, s)
      BY <1>1, <2>1, <2>3, OldStream, CapIs DEF StreamType, PlaceCases
    <2> HIDE DEF x, w
    <2>7. /\ new.p \in DOMAIN mem' /\ mem'[new.p] = w
          /\ \A d \in DOMAIN mem \ {old.data, new.p} : d \in DOMAIN mem' /\ mem'[d] = mem[d]
      BY <2>1 DEF Set, Unset
    <2>8. StreamOK(new.h, mem', x)
      <3>1. x.pos <= x.size /\ x.size < x.capacity /\ x.capacity <= Room(new.h, x.data)
        BY <1>1, <2>1, <2>3, <2>6, CapIs DEF PlaceCases
      <3>2. mem'[x.data] \in Seq(Cell) /\ Len(mem'[x.data]) = Room(new.h, x.data) /\ mem'[x.data][x.size + 1] = 0
        BY <2>5, <2>6, <2>7 DEF WrittenOK
      <3> QED BY <2>6, <2>7, <3>1, <3>2 DEF StreamOK
    <2>9. Relocates(heap, new.h, old.data, x.data)
      BY <2>1, <2>3, <2>6 DEF PlaceCases
    <2>10. Owned(new.h, mem', [streams EXCEPT ![f] = x], client)
      BY <1>2, <2>6, <2>7, <2>8, <2>9, ChangeStep
    <2> QED BY <1>2, <2>1, <2>2, <2>10 DEF StdioInv
  <1> QED BY <1>1, <1>3, <1>4, FwriteCases
\* The bytes of a stream.
LEMMA BytesIs ==
    ASSUME StdioInv, NEW f \in DOMAIN streams
    PROVE  /\ Bytes(f) \in Seq(Cell) /\ Len(Bytes(f)) = streams[f].size
           /\ \A k \in 1 .. streams[f].size : Bytes(f)[k] = mem[streams[f].data][k]
  <1>1. PICK all \in Seq(Cell), n \in Nat, z \in Nat :
            all = mem[streams[f].data] /\ n = Len(all) /\ z = streams[f].size /\ z <= n
    BY OldStream DEF StreamOK
  <1>2. \A k \in 1 .. z : k \in 1 .. n
    BY <1>1
  <1>3. SubSeq(all, 1, z) \in Seq(Cell) /\ Len(SubSeq(all, 1, z)) = z /\ \A k \in 1 .. z : SubSeq(all, 1, z)[k] = all[k]
    <2>1. \A k \in 1 .. z : all[k] \in Cell
      BY <1>1, <1>2, ElementOfSeq
    <2>2. SubSeq(all, 1, z) = [k \in 1 .. z |-> all[k]]
      BY <1>1
    <2>3. [k \in 1 .. z |-> all[k]] \in [1 .. z -> Cell]
      BY <2>1
    <2> QED BY <2>2, <2>3, SequenceOf
  <1> QED BY <1>1, <1>3 DEF Bytes

\* A write to the file system saves the bytes or nothing.
LEMMA SaveFiles ==
    ASSUME FilesOK(files), NEW n, NEW d \in Seq(Cell), FS!Write(n, d)
    PROVE  FilesOK(files')
  <1>1. CASE files' = files
    BY <1>1
  <1>2. CASE Len(d) <= MAX_FILE_SIZE /\ files' = FS!Bind(n, d)
    <2>1. /\ DOMAIN files' = DOMAIN files \cup {n}
          /\ \A k \in DOMAIN files' : files'[k] = IF k = n THEN d ELSE files[k]
      BY <1>2 DEF FS!Bind
    <2> QED BY <1>2, <2>1 DEF FilesOK
  <1> QED BY <1>1, <1>2 DEF FS!Write, FS!Fails

LEMMA FcloseFreed ==
    ASSUME StdioInv, NEW f \in DOMAIN streams
    PROVE  LET d == streams[f].data
               kept == IF InMemory(f) THEN {d} ELSE {}
           IN Becomes(heap, Freed(IF InMemory(f) THEN heap ELSE Freed(heap, d), f), {f, d} \ kept, {})
  <1> DEFINE d == streams[f].data
  <1>1. HeapInv(heap) /\ f \in InUse(heap) /\ d \in InUse(heap) /\ f # d
    BY DEF StdioInv, Owned, Data, Disjoint
  <1>2. CASE InMemory(f)
    <2>1. Becomes(heap, Freed(heap, f), {f}, {})
      BY <1>1, FreedBecomes
    <2>2. {f, d} \ {d} = {f}
      BY <1>1
    <2> QED BY <1>2, <2>1, <2>2
  <1>3. CASE ~ InMemory(f)
    <2>1. Becomes(heap, Freed(heap, d), {d}, {})
      BY <1>1, FreedBecomes
    <2>2. PICK g : g = Freed(heap, d)
      OBVIOUS
    <2>3. HeapInv(g) /\ f \in InUse(g)
      BY <1>1, <2>1, <2>2 DEF Becomes
    <2>4. Becomes(g, Freed(g, f), {f}, {})
      BY <2>3, FreedBecomes
    <2>5. Becomes(heap, Freed(g, f), {f, d}, {})
      BY <2>1, <2>2, <2>4 DEF Becomes
    <2>6. {f, d} \ {} = {f, d}
      OBVIOUS
    <2> QED BY <1>3, <2>2, <2>5, <2>6
  <1> QED BY <1>2, <1>3

LEMMA FcloseInv ==
    ASSUME StdioInv, NEW f \in DOMAIN streams, Fclose(f)
    PROVE  StdioInv'
  <1> DEFINE d == streams[f].data
             kept == IF InMemory(f) THEN {d} ELSE {}
             g == Freed(IF InMemory(f) THEN heap ELSE Freed(heap, d), f)
  <1>1. Owned(heap, mem, streams, client) /\ FilesOK(files)
    BY DEF StdioInv
  <1>2. /\ streams' = Unset(streams, f) /\ mem' = Unset(mem, d) /\ heap' = g
        /\ client' = client \cup kept
        /\ FS!Write(streams[f].name, Bytes(f)) \/ files' = files
    BY DEF Fclose, Returns
  <1>3. Becomes(heap, g, {f, d} \ kept, {})
    BY FcloseFreed
  <1>4. kept \subseteq {d}
    OBVIOUS
  <1> HIDE DEF g, kept
  <1>5. Owned(g, Unset(mem, d), Unset(streams, f), client \cup kept)
    BY <1>1, <1>3, <1>4, CloseStep
  <1>6. FilesOK(files')
    BY <1>1, <1>2, BytesIs, SaveFiles
  <1> QED BY <1>2, <1>5, <1>6 DEF StdioInv

LEMMA RemoveInv ==
    ASSUME StdioInv, NEW n, Remove(n)
    PROVE  StdioInv'
  <1>1. Owned(heap, mem, streams, client) /\ FilesOK(files)
    BY DEF StdioInv
  <1>2. heap' = heap /\ mem' = mem /\ streams' = streams /\ client' = client /\ FS!Delete(n)
    BY DEF Remove
  <1>3. CASE files' = files
    BY <1>1, <1>2, <1>3 DEF StdioInv
  <1>4. CASE files' = FS!Unbind(n)
    <2>1. DOMAIN files' = DOMAIN files \ {n} /\ \A k \in DOMAIN files' : files'[k] = files[k]
      BY <1>4 DEF FS!Unbind
    <2>2. FilesOK(files')
      BY <1>1, <2>1 DEF FilesOK
    <2> QED BY <1>1, <1>2, <2>2 DEF StdioInv
  <1> QED BY <1>2, <1>3, <1>4 DEF FS!Delete, FS!Fails

LEMMA StdioInitInv == StdioInit => StdioInv
  <1> SUFFICES ASSUME StdioInit PROVE StdioInv
    OBVIOUS
  <1>1. /\ heap = FreshHeap /\ DOMAIN streams = {} /\ client = {} /\ DOMAIN files = {}
        /\ streams = [x \in DOMAIN streams |-> streams[x]]
    BY DEF StdioInit, FS!Init, Empty
  <1>2. HeapInv(heap) /\ InUse(heap) = {}
    BY <1>1, FreshInv
  <1>3. Data(streams) = {}
    BY <1>1 DEF Data
  <1>4. Owned(heap, mem, streams, client)
    BY <1>1, <1>2, <1>3 DEF Owned, Disjoint
  <1> QED BY <1>1, <1>4 DEF StdioInv, FilesOK

\* Every call, and every step that is none, keeps the invariant.
LEMMA StdioNextInv == StdioInv /\ [StdioNext]_stdioVars => StdioInv'
  <1> SUFFICES ASSUME StdioInv, [StdioNext]_stdioVars PROVE StdioInv'
    OBVIOUS
  <1>1. ASSUME NEW n \in Requests, Allocates(n) PROVE StdioInv'
    BY <1>1, AllocatesInv
  <1>2. ASSUME NEW p \in client, Frees(p) PROVE StdioInv'
    BY <1>2, FreesInv
  <1>3. ASSUME NEW p \in client, NEW n \in Requests, Resizes(p, n) PROVE StdioInv'
    BY <1>3, ResizesInv
  <1>4. CASE Opening
    BY <1>4, OpeningInv
  <1>5. CASE Using
    BY <1>5, FflushInv, FcloseInv, FseekInv, FreadInv, FgetsInv, FwriteInv DEF Using
  <1>6. ASSUME NEW n \in Names \cup LongNames, Remove(n) PROVE StdioInv'
    BY <1>6, RemoveInv
  <1>7. CASE UNCHANGED stdioVars
    BY <1>7 DEF stdioVars, StdioInv
  <1> QED BY <1>1, <1>2, <1>3, <1>4, <1>5, <1>6, <1>7 DEF StdioNext

LEMMA StdioAlways == StdioSpec => []StdioInv
  BY StdioInitInv, StdioNextInv, PTL DEF StdioSpec

\* The program's blocks and the FILE structures are finitely many, and the data
\* blocks as many as the FILE structures.
LEMMA OwnersOf ==
    ASSUME StdioInv
    PROVE  BlocksOwned
  <1> DEFINE D == Data(streams)
             F == DOMAIN streams
  <1>1. /\ HeapInv(heap) /\ InUse(heap) = client \cup F \cup D /\ Disjoint(streams, client)
        /\ \A f \in F : StreamOK(heap, mem, streams[f])
    BY DEF StdioInv, Owned
  <1>2. IsFiniteSet(InUse(heap))
    BY <1>1, UseIs DEF HeapInv
  <1>3. IsFiniteSet(client) /\ IsFiniteSet(F) /\ IsFiniteSet(D)
    <2>1. client \in SUBSET InUse(heap) /\ F \in SUBSET InUse(heap) /\ D \in SUBSET InUse(heap)
      BY <1>1
    <2> HIDE DEF D, F
    <2> QED BY <1>2, <2>1, FS_Subset
  <1> DEFINE data == [f \in F |-> streams[f].data]
  <1>4. D = {streams[f].data : f \in F} /\ \A f, g \in F : streams[f].data = streams[g].data => f = g
    BY <1>1 DEF Data, Disjoint
  <1>5. F \cap client = {} /\ D \cap (client \cup F) = {}
    BY <1>1 DEF Disjoint
  <1>6. \A f \in F : LET s == streams[f] IN
          /\ s.pos <= s.size /\ s.size < s.capacity /\ s.capacity <= Room(heap, s.data)
          /\ mem[s.data][s.size + 1] = 0
    BY <1>1 DEF StreamOK
  <1> HIDE DEF D, F
  <1>7. data \in Surjection(F, D) /\ data \in Injection(F, D)
    BY <1>4 DEF Surjection, Injection, IsInjective
  <1> HIDE DEF data
  <1>8. Cardinality(D) = Cardinality(F)
    BY <1>3, <1>7, FS_Surjection
  <1>9. PICK c \in Nat, n \in Nat : c = Cardinality(client) /\ n = Cardinality(F)
    BY <1>3, FS_CardinalityType
  <1>10. IsFiniteSet(client \cup F) /\ Cardinality(client \cup F) = c + n
    <2>1. Cardinality(client \cap F) = 0
      BY <1>5, FS_EmptySet
    <2> QED BY <1>3, <1>9, <2>1, FS_Union
  <1>11. Cardinality((client \cup F) \cup D) = (c + n) + n
    <2>1. Cardinality((client \cup F) \cap D) = 0
      BY <1>5, FS_EmptySet
    <2>2. PICK a : a = client \cup F
      OBVIOUS
    <2>3. Cardinality(a \cup D) = Cardinality(a) + Cardinality(D) - Cardinality(a \cap D)
      BY <1>3, <1>10, <2>2, FS_Union
    <2> QED BY <1>8, <1>9, <1>10, <2>1, <2>2, <2>3
  <1>12. Cardinality(InUse(heap)) = c + 2 * n
    BY <1>1, <1>11 DEF D, F
  <1> QED BY <1>1, <1>6, <1>9, <1>12 DEF BlocksOwned, D, F, Data

\* The heap is exact, whatever is allocated, grown and freed: the list of blocks
\* covers the arena without gap or overlap, no two neighbours are free, and
\* malloc fails only when no gap could hold the request.
THEOREM HeapIsExact == StdioSpec => []HeapExact
  <1>1. StdioInv => HeapExact
    BY GapExact DEF StdioInv, Owned
  <1> QED BY <1>1, StdioAlways, PTL

\* Every block in use has one owner and a stream's bytes lie within its block,
\* on every path that opens, fails to open, grows or closes a stream.
THEOREM BlocksHaveOwners == StdioSpec => []BlocksOwned
  BY OwnersOf, StdioAlways, PTL
-----------------------------------------------------------------------------
(* The FILE layer implements streams.                                      *)

\* The stream that the structure s stands for.
ViewOf(m, s) == [bytes |-> SubSeq(m[s.data], 1, s.size), pos |-> s.pos, writable |-> s.writable,
                 name |-> s.name, out |-> s.out]
Views(m, st) == [f \in DOMAIN st |-> ViewOf(m, st[f])]
Opened == Views(mem, streams)
Bound(o, id, x) == [i \in DOMAIN o \cup {id} |-> IF i = id THEN x ELSE o[i]]

\* The actions of Streams, on the streams that are open.
LEMMA ViewIs ==
    ASSUME StdioInv, NEW f \in DOMAIN streams
    PROVE  /\ f \in DOMAIN Opened /\ Opened[f] = ViewOf(mem, streams[f])
           /\ Opened[f].bytes = Bytes(f) /\ Len(Opened[f].bytes) = streams[f].size
           /\ Opened[f].pos = streams[f].pos /\ Opened[f].writable = streams[f].writable
           /\ Opened[f].name = streams[f].name /\ Opened[f].out = streams[f].out
  <1>1. f \in DOMAIN Opened /\ Opened[f] = ViewOf(mem, streams[f])
    BY DEF Opened, Views
  <1>2. Len(Bytes(f)) = streams[f].size
    BY BytesIs
  <1>3. /\ ViewOf(mem, streams[f]).bytes = Bytes(f) /\ ViewOf(mem, streams[f]).pos = streams[f].pos
        /\ ViewOf(mem, streams[f]).writable = streams[f].writable
        /\ ViewOf(mem, streams[f]).name = streams[f].name /\ ViewOf(mem, streams[f]).out = streams[f].out
    BY DEF ViewOf, Bytes
  <1> QED BY <1>1, <1>2, <1>3

LEMMA AbstractPut ==
    ASSUME NEW f, NEW d, NEW x,
           Opened[f].writable, Opened' = Bound(Opened, f, x), Returns(Len(d)),
           x = [bytes |-> Abstract!Over(Opened[f].bytes, Opened[f].pos, d), pos |-> Opened[f].pos + Len(d),
                writable |-> TRUE, name |-> Opened[f].name, out |-> Opened[f].out]
    PROVE  Abstract!Put(f, d)
  BY DEF Abstract!Put, Abstract!With, Abstract!Done, Returns, Opened, Views, ViewOf, Bytes, Bound

LEMMA AbstractNotPut ==
    ASSUME NEW f, NEW d, Opened' = Opened, Returns(0)
    PROVE  Abstract!Put(f, d)
  BY DEF Abstract!Put, Abstract!Done, Returns, Opened, Views, ViewOf, Bytes

LEMMA AbstractGet ==
    ASSUME NEW f, NEW k, NEW e, Opened[f].pos + k <= Len(Opened[f].bytes),
           Opened' = Bound(Opened, f, [Opened[f] EXCEPT !.pos = Opened[f].pos + k]),
           buf' = SubSeq(Opened[f].bytes, Opened[f].pos + 1, Opened[f].pos + k), ret' = e, UNCHANGED files
    PROVE  Abstract!Get(f, k, e)
  BY DEF Abstract!Get, Abstract!Moved, Abstract!With, Opened, Views, ViewOf, Bytes, Bound

LEMMA AbstractSeek ==
    ASSUME NEW f, NEW pos, Opened' = Bound(Opened, f, [Opened[f] EXCEPT !.pos = pos]), Returns(0)
    PROVE  Abstract!Seek(f, pos)
  BY DEF Abstract!Seek, Abstract!Moved, Abstract!With, Abstract!Done, Returns, Opened, Views, ViewOf, Bytes, Bound

LEMMA AbstractFlush ==
    ASSUME NEW f, buf' = (IF Opened[f].out THEN Opened[f].bytes ELSE buf), ret' = 0, UNCHANGED files, Opened' = Opened
    PROVE  Abstract!Flush(f)
  BY DEF Abstract!Flush, Opened, Views, ViewOf, Bytes

LEMMA AbstractClose ==
    ASSUME NEW f, Opened' = [i \in DOMAIN Opened \ {f} |-> Opened[i]],
           \/ Opened[f].name # NoName /\ Opened[f].writable /\ FS!Write(Opened[f].name, Opened[f].bytes)
           \/ (Opened[f].name = NoName \/ ~ Opened[f].writable) /\ ~ Opened[f].out /\ Returns(0)
           \/ Opened[f].out /\ buf' = Opened[f].bytes /\ ret' = 0 /\ UNCHANGED files
    PROVE  Abstract!Close(f)
  <1>1. ASSUME NEW n, NEW d, FS!Write(n, d) PROVE Abstract!Write(n, d)
    BY <1>1 DEF FS!Write, FS!Fails, FS!Bind, Abstract!Write, Abstract!Fails, Abstract!Bind, FS!Cardinality, Abstract!Cardinality
  <1>2. \/ Opened[f].name # NoName /\ Opened[f].writable /\ Abstract!Write(Opened[f].name, Opened[f].bytes)
        \/ (Opened[f].name = NoName \/ ~ Opened[f].writable) /\ ~ Opened[f].out /\ Abstract!Done(0)
        \/ Opened[f].out /\ buf' = Opened[f].bytes /\ ret' = 0 /\ UNCHANGED files
    BY <1>1 DEF Returns, Abstract!Done
  <1> QED BY <1>2 DEF Abstract!Close, Opened, Views, ViewOf, Bytes

LEMMA AbstractOpen ==
    ASSUME NEW f, NEW n, NEW w, w \/ n \in DOMAIN files, Returns(0),
           Opened' = Bound(Opened, f, [bytes |-> IF w THEN <<>> ELSE files[n], pos |-> 0, writable |-> w,
                                       name |-> n, out |-> FALSE])
    PROVE  Abstract!Open(f, n, w)
  BY DEF Abstract!Open, Abstract!Stream, Abstract!With, Abstract!Done, Returns, Opened, Views, ViewOf, Bytes, Bound

LEMMA AbstractOpenMemory ==
    ASSUME NEW f, Returns(0),
           Opened' = Bound(Opened, f, [bytes |-> <<>>, pos |-> 0, writable |-> TRUE, name |-> NoName, out |-> TRUE])
    PROVE  Abstract!OpenMemory(f)
  BY DEF Abstract!OpenMemory, Abstract!Stream, Abstract!With, Abstract!Done, Returns, Opened, Views, ViewOf, Bytes, Bound

LEMMA AbstractFail ==
    ASSUME Opened' = Opened, Returns(-1)
    PROVE  Abstract!Fail
  BY DEF Abstract!Fail, Abstract!Done, Returns, Opened, Views, ViewOf, Bytes

LEMMA AbstractStutter ==
    ASSUME Opened' = Opened, UNCHANGED <<files, ret, buf>>
    PROVE  UNCHANGED Abstract!svars
  BY DEF Abstract!svars, Abstract!vars, Opened, Views, ViewOf, Bytes

LEMMA AbstractInit == StdioInit => Abstract!SInit
  BY DEF StdioInit, Abstract!SInit, Abstract!Init, FS!Init, Empty, Bytes
\* A stream that keeps its structure and its bytes looks the same.
LEMMA SameView ==
    ASSUME NEW m, NEW m2, NEW s, m2[s.data] = m[s.data]
    PROVE  ViewOf(m2, s) = ViewOf(m, s)
  BY DEF ViewOf

OthersKept(m, st, f, m2, t) ==
    /\ DOMAIN t = DOMAIN st \cup {f}
    /\ \A e \in DOMAIN st \ {f} : t[e] = st[e] /\ m2[st[e].data] = m[st[e].data]
LEMMA ViewsBound ==
    ASSUME NEW m, NEW st, NEW f, NEW m2, NEW t, OthersKept(m, st, f, m2, t)
    PROVE  Views(m2, t) = Bound(Views(m, st), f, ViewOf(m2, t[f]))
  <1>1. DOMAIN Views(m, st) = DOMAIN st /\ \A e \in DOMAIN st : Views(m, st)[e] = ViewOf(m, st[e])
    BY DEF Views
  <1>2. ASSUME NEW e \in DOMAIN t
        PROVE  ViewOf(m2, t[e]) = IF e = f THEN ViewOf(m2, t[f]) ELSE Views(m, st)[e]
    <2>1. CASE e = f
      BY <2>1
    <2>2. CASE e # f
      <3>1. e \in DOMAIN st /\ t[e] = st[e] /\ m2[st[e].data] = m[st[e].data]
        BY <2>2 DEF OthersKept
      <3>2. ViewOf(m2, st[e]) = ViewOf(m, st[e])
        BY <3>1, SameView
      <3> QED BY <1>1, <2>2, <3>1, <3>2
    <2> QED BY <2>1, <2>2
  <1>3. Views(m2, t) = [e \in DOMAIN t |-> ViewOf(m2, t[e])]
    BY DEF Views
  <1> QED BY <1>1, <1>2, <1>3 DEF Bound, OthersKept

BytesKept(m, st, f, m2) == \A e \in DOMAIN st \ {f} : m2[st[e].data] = m[st[e].data]
LEMMA ViewsUnset ==
    ASSUME NEW m, NEW st, NEW f, NEW m2, BytesKept(m, st, f, m2)
    PROVE  Views(m2, Unset(st, f)) = Unset(Views(m, st), f)
  <1> DEFINE t == Unset(st, f)
  <1>1. DOMAIN Views(m, st) = DOMAIN st /\ \A e \in DOMAIN st : Views(m, st)[e] = ViewOf(m, st[e])
    BY DEF Views
  <1>2. DOMAIN t = DOMAIN st \ {f} /\ \A e \in DOMAIN st \ {f} : t[e] = st[e]
    BY DEF Unset
  <1> HIDE DEF t
  <1>3. ASSUME NEW e \in DOMAIN st \ {f} PROVE ViewOf(m2, t[e]) = Views(m, st)[e]
    <2>1. ViewOf(m2, st[e]) = ViewOf(m, st[e])
      BY SameView DEF BytesKept
    <2> QED BY <1>1, <1>2, <2>1
  <1>4. Views(m2, t) = [e \in DOMAIN t |-> ViewOf(m2, t[e])]
    BY DEF Views
  <1>5. Unset(Views(m, st), f) = [e \in DOMAIN Views(m, st) \ {f} |-> Views(m, st)[e]]
    BY DEF Unset
  <1> QED BY <1>1, <1>2, <1>3, <1>4, <1>5 DEF t

\* Nothing that a program sees of its streams changes.
LEMMA SameOpened ==
    ASSUME UNCHANGED <<mem, streams>>
    PROVE  Opened' = Opened
  BY DEF Opened

LEMMA AllocatesStep ==
    ASSUME NEW n, Allocates(n)
    PROVE  UNCHANGED Abstract!svars
  BY AbstractStutter, SameOpened DEF Allocates

LEMMA ResizesStep ==
    ASSUME NEW p, NEW n, Resizes(p, n)
    PROVE  UNCHANGED Abstract!svars
  BY AbstractStutter, SameOpened DEF Resizes

LEMMA FreesStep ==
    ASSUME NEW p, Frees(p)
    PROVE  UNCHANGED Abstract!svars
  BY AbstractStutter, SameOpened DEF Frees

LEMMA NotOpenedStep ==
    ASSUME NEW h, NotOpened(h)
    PROVE  Abstract!Fail
  BY AbstractFail, SameOpened DEF NotOpened, Returns

\* The address of a FILE is one that may identify a stream.
LEMMA Identifies ==
    ASSUME NEW h, HeapInv(h), NEW p \in InUse(h)
    PROVE  p \in {k * ALIGN : k \in 1 .. ARENA \div ALIGN}
  <1>1. ALIGN \in Nat \ {0} /\ HEADER \in Nat \ {0} /\ HEADER % ALIGN = 0 /\ ARENA \in Nat
    BY HeapAssumption
  <1>2. PICK b \in DOMAIN h : p = b + HEADER
    BY DEF InUse
  <1>3. b \in Nat /\ End(h, b) \in Nat /\ End(h, b) > b + HEADER /\ End(h, b) <= ARENA /\ b % ALIGN = 0
    BY BlockAt DEF HeapInv
  <1>4. p \in Nat /\ p > 0 /\ p <= ARENA
    BY <1>1, <1>2, <1>3
  <1>5. p % ALIGN = 0
    BY <1>1, <1>2, <1>3, Multiples
  <1>6. PICK q \in Nat : q = p \div ALIGN /\ p = ALIGN * q + (p % ALIGN)
    BY <1>1, <1>4, DivParts
  <1>7. PICK c \in Nat, e \in Nat : c = ARENA \div ALIGN /\ ARENA = ALIGN * c + e /\ e < ALIGN
    BY <1>1, DivParts
  <1>8. p = q * ALIGN /\ p = ALIGN * q
    BY <1>1, <1>5, <1>6
  <1>9. q \in 1 .. c
    <2>1. q # 0
      BY <1>1, <1>4, <1>8
    <2>2. ASSUME q > c PROVE FALSE
      <3>1. PICK a \in Nat : a = q - (c + 1)
        BY <2>2
      <3>2. q = c + 1 + a
        BY <3>1
      <3>3. ALIGN * q = ALIGN * c + ALIGN + ALIGN * a /\ ALIGN * a \in Nat /\ ALIGN * c \in Nat
        BY <1>1, <3>2
      <3>4. PICK u \in Nat, v \in Nat : u = ALIGN * a /\ v = ALIGN * c
        BY <3>3
      <3>5. p = v + ALIGN + u
        BY <1>8, <3>3, <3>4
      <3>6. ARENA = v + e /\ e < ALIGN
        BY <1>7, <3>4
      <3> QED BY <1>1, <1>4, <3>5, <3>6
    <2> QED BY <2>1, <2>2
  <1> QED BY <1>7, <1>8, <1>9

\* A stream that is opened holds s.
LEMMA OpensStep ==
    ASSUME StdioInv, NEW f, NEW d, NEW h, NEW capacity, NEW s, NEW w, NEW n, NEW out,
           OpensWell(f, d, h, capacity, s, w, n, out)
    PROVE  /\ Opened' = Bound(Opened, f, [bytes |-> s, pos |-> 0, writable |-> w, name |-> n, out |-> out])
           /\ Returns(0) /\ f \in {k * ALIGN : k \in 1 .. ARENA \div ALIGN} \ DOMAIN streams
  <1>0. /\ Opens(f, d, h, capacity, s, w, n, out)
        /\ capacity \in Nat /\ s \in Seq(Cell) /\ w \in BOOLEAN /\ n \in Names \cup {NoName} /\ out \in BOOLEAN
        /\ Becomes(heap, h, {}, {f, d}) /\ f # d /\ f \notin InUse(heap) /\ d \notin InUse(heap)
        /\ Len(s) < capacity /\ capacity <= Room(h, d)
    BY DEF OpensWell
  <1> USE <1>0
  <1> DEFINE x == [data |-> d, size |-> Len(s), capacity |-> capacity,
                   pos |-> 0, writable |-> w, name |-> n, out |-> out]
             bytes == Copied(Raw(h, d), 0, s \o <<0>>)
  <1>1. streams' = Set(streams, f, x) /\ mem' = Set(mem, d, bytes) /\ Returns(0)
    BY DEF Opens
  <1>2. HeapInv(h) /\ d \in InUse(h) /\ f \in InUse(h)
    BY DEF Becomes
  <1>3. d \in Nat /\ Room(h, d) \in Nat /\ Len(s) \in Nat
    BY <1>2, RoomIs, LenProperties
  <1>4. Len(s) < Room(h, d)
    BY <1>3
  <1>5. bytes \in Seq(Cell) /\ Len(bytes) = Room(h, d) /\ \A k \in 1 .. Len(s) : bytes[k] = s[k]
    BY <1>2, <1>4, FreshBytes
  <1> HIDE DEF bytes
  <1>6. SubSeq(bytes, 1, Len(s)) = s
    <2>1. PICK l \in Nat, m \in Nat : l = Len(s) /\ m = Len(bytes) /\ l <= m
      BY <1>3, <1>4, <1>5
    <2>2. SubSeq(bytes, 1, l) = [k \in 1 .. l |-> bytes[k]]
      BY <1>5, <2>1
    <2>3. s = [k \in 1 .. l |-> s[k]]
      BY <2>1
    <2> QED BY <1>5, <2>1, <2>2, <2>3
  <1>7. f \notin DOMAIN streams /\ \A e \in DOMAIN streams : streams[e].data # d /\ streams[e].data \in DOMAIN mem
    BY DEF StdioInv, Owned, Data, StreamOK
  <1>8. /\ mem'[d] = bytes /\ \A e \in DOMAIN streams \ {f} : mem'[streams[e].data] = mem[streams[e].data]
        /\ DOMAIN streams' = DOMAIN streams \cup {f} /\ streams'[f] = x
        /\ \A e \in DOMAIN streams \ {f} : streams'[e] = streams[e]
    BY <1>1, <1>7 DEF Set
  <1>9. ViewOf(mem', x) = [bytes |-> s, pos |-> 0, writable |-> w, name |-> n, out |-> out]
    BY <1>6, <1>8 DEF ViewOf
  <1> HIDE DEF x
  <1>10. OthersKept(mem, streams, f, mem', streams')
    BY <1>8 DEF OthersKept
  <1>11. Views(mem', streams') = Bound(Views(mem, streams), f, ViewOf(mem', streams'[f]))
    BY <1>10, ViewsBound
  <1> QED BY <1>1, <1>2, <1>7, <1>8, <1>9, <1>11, Identifies DEF Opened
LEMMA OpeningStep ==
    ASSUME StdioInv, Opening
    PROVE  Abstract!SNext
  <1> DEFINE Ids == {k * ALIGN : k \in 1 .. ARENA \div ALIGN}
  <1>0. DOMAIN Opened = DOMAIN streams
    BY DEF Opened, Views
  <1>1. ASSUME NEW h, FailsWell(h) PROVE Abstract!SNext
    <2>1. Abstract!Fail
      BY <1>1, NotOpenedStep DEF FailsWell
    <2> QED BY <2>1 DEF Abstract!SNext
  <1>2. ASSUME NEW f, NEW d, NEW h, OpensWell(f, d, h, 1, <<>>, TRUE, NoName, TRUE) PROVE Abstract!SNext
    <2>1. /\ Opened' = Bound(Opened, f, [bytes |-> <<>>, pos |-> 0, writable |-> TRUE, name |-> NoName, out |-> TRUE])
          /\ Returns(0) /\ f \in Ids \ DOMAIN streams
      BY <1>2, OpensStep
    <2>2. Abstract!OpenMemory(f)
      BY <2>1, AbstractOpenMemory
    <2> QED BY <1>0, <2>1, <2>2 DEF Abstract!SNext, Opened, Views
  <1>3. ASSUME NEW n \in Names \cup {NoName}, NEW w \in BOOLEAN, w \/ n \in DOMAIN files, NEW f, NEW d, NEW h,
               OpensWell(f, d, h, MAX_FILE_SIZE + 1, IF w THEN <<>> ELSE files[n], w, n, FALSE)
        PROVE  Abstract!SNext
    <2>1. PICK s : s = IF w THEN <<>> ELSE files[n]
      OBVIOUS
    <2>2. PICK cap : cap = MAX_FILE_SIZE + 1
      OBVIOUS
    <2>3. OpensWell(f, d, h, cap, s, w, n, FALSE)
      BY <1>3, <2>1, <2>2
    <2>4. /\ Opened' = Bound(Opened, f, [bytes |-> s, pos |-> 0, writable |-> w, name |-> n, out |-> FALSE])
          /\ Returns(0) /\ f \in Ids \ DOMAIN streams
      BY <2>3, OpensStep
    <2>5. Abstract!Open(f, n, w)
      BY <1>3, <2>1, <2>4, AbstractOpen
    <2> QED BY <1>0, <2>4, <2>5 DEF Abstract!SNext, Opened, Views
  <1>4. CASE OpenMemstream
    BY <1>1, <1>2, <1>4, OpenMemstreamCases
  <1>5. ASSUME NEW n \in Names \cup LongNames \cup {NoName}, NEW w \in BOOLEAN, Fopen(n, w) PROVE Abstract!SNext
    BY <1>1, <1>3, <1>5, FopenCases
  <1> QED BY <1>4, <1>5 DEF Opening

\* The position moves: the bytes and the other streams stay.
LEMMA ToStep ==
    ASSUME StdioInv, NEW f \in DOMAIN streams, NEW pos, To(f, pos), UNCHANGED mem
    PROVE  Opened' = Bound(Opened, f, [Opened[f] EXCEPT !.pos = pos])
  <1> DEFINE old == streams[f]
             x == [data |-> old.data, size |-> old.size, capacity |-> old.capacity, pos |-> pos,
                   writable |-> old.writable, name |-> old.name, out |-> old.out]
  <1>1. streams' = [streams EXCEPT ![f] = x]
    BY Updated DEF To
  <1>2. streams = [e \in DOMAIN streams |-> streams[e]]
    BY DEF StdioInv, Owned
  <1>3. DOMAIN streams' = DOMAIN streams /\ streams'[f] = x /\ \A e \in DOMAIN streams \ {f} : streams'[e] = streams[e]
    BY <1>1, <1>2
  <1>4. OthersKept(mem, streams, f, mem', streams')
    BY <1>3 DEF OthersKept
  <1>5. Views(mem', streams') = Bound(Views(mem, streams), f, ViewOf(mem', streams'[f]))
    BY <1>4, ViewsBound
  <1>6. ViewOf(mem, x) = [ViewOf(mem, old) EXCEPT !.pos = pos]
    <2>1. PICK b, p, w, n, o : b = SubSeq(mem[old.data], 1, old.size) /\ p = old.pos /\ w = old.writable
            /\ n = old.name /\ o = old.out
      OBVIOUS
    <2>2. ViewOf(mem, x) = [bytes |-> b, pos |-> pos, writable |-> w, name |-> n, out |-> o]
      BY <2>1 DEF ViewOf
    <2>3. ViewOf(mem, old) = [bytes |-> b, pos |-> p, writable |-> w, name |-> n, out |-> o]
      BY <2>1 DEF ViewOf
    <2>4. [[bytes |-> b, pos |-> p, writable |-> w, name |-> n, out |-> o] EXCEPT !.pos = pos]
            = [bytes |-> b, pos |-> pos, writable |-> w, name |-> n, out |-> o]
      OBVIOUS
    <2> QED BY <2>2, <2>3, <2>4
  <1>7. Opened[f] = ViewOf(mem, old)
    BY ViewIs
  <1> HIDE DEF x
  <1> QED BY <1>3, <1>5, <1>6, <1>7 DEF Opened

LEMMA FseekStep ==
    ASSUME StdioInv, NEW f \in DOMAIN streams, NEW offset \in {-1, 0, 1},
           NEW origin \in {"SET", "CUR", "END"}, Fseek(f, offset, origin)
    PROVE  Abstract!Fail \/ \E pos \in 0 .. Len(Opened[f].bytes) : Abstract!Seek(f, pos)
  <1> DEFINE pos == Base(f, origin) + offset
  <1>1. pos \in Int /\ streams[f].size \in Nat
    BY OldStream DEF Base
  <1>2. /\ IF pos < 0 \/ pos > streams[f].size THEN Returns(-1) /\ UNCHANGED streams
           ELSE Returns(0) /\ To(f, pos)
        /\ Keeps
    BY DEF Fseek
  <1> HIDE DEF pos
  <1>3. CASE pos < 0 \/ pos > streams[f].size
    <2>1. Opened' = Opened /\ Returns(-1)
      BY <1>2, <1>3, SameOpened DEF Keeps
    <2> QED BY <2>1, AbstractFail
  <1>4. CASE ~ (pos < 0 \/ pos > streams[f].size)
    <2>1. PICK q \in 0 .. Len(Opened[f].bytes) : q = pos
      BY <1>1, <1>4, ViewIs
    <2>2. To(f, q) /\ Returns(0) /\ UNCHANGED mem
      BY <1>2, <1>4, <2>1 DEF Keeps
    <2>3. Opened' = Bound(Opened, f, [Opened[f] EXCEPT !.pos = q])
      BY <2>2, ToStep
    <2>4. Abstract!Seek(f, q)
      BY <2>2, <2>3, AbstractSeek
    <2> QED BY <2>4
  <1> QED BY <1>3, <1>4

\* The bytes that a read returns are the stream's.
LEMMA TakesStep ==
    ASSUME StdioInv, NEW f \in DOMAIN streams, NEW k \in Nat, NEW e, k <= streams[f].size - streams[f].pos, Takes(f, k, e)
    PROVE  Abstract!Get(f, k, e)
  <1>1. PICK p \in Nat, n \in Nat : p = streams[f].pos /\ n = streams[f].size /\ p + k <= n
    BY OldStream
  <1>2. Opened[f].pos = p /\ Len(Opened[f].bytes) = n /\ Opened[f].bytes = Bytes(f)
    BY <1>1, ViewIs
  <1>3. Opened' = Bound(Opened, f, [Opened[f] EXCEPT !.pos = p + k])
    BY <1>1, ToStep DEF Takes, Keeps
  <1>4. buf' = SubSeq(Bytes(f), p + 1, p + k)
    <2>1. PICK b \in Seq(Cell) : b = Bytes(f) /\ Len(b) = n
      BY <1>1, BytesIs
    <2>2. SubSeq(b, p + 1, p + k) = [j \in 1 .. k |-> b[p + j]]
      <3>1. PICK u \in Int, v \in Int : u = p + 1 /\ v = p + k
        OBVIOUS
      <3>2. \A j \in u .. v : b[j] \in Cell
        <4> TAKE j \in u .. v
        <4>1. j \in 1 .. Len(b)
          BY <1>1, <2>1, <3>1
        <4> QED BY <4>1, ElementOfSeq
      <3>3. PICK c : c = SubSeq(b, u, v)
        OBVIOUS
      <3>4. /\ c \in Seq(Cell) /\ Len(c) = (IF u <= v THEN v - u + 1 ELSE 0)
            /\ \A j \in 1 .. v - u + 1 : c[j] = b[u + j - 1]
        BY <3>2, <3>3, SubSeqProperties
      <3>5. Len(c) = k /\ v - u + 1 = k /\ \A j \in 1 .. k : u + j - 1 = p + j
        BY <3>1, <3>4
      <3>6. c = [j \in 1 .. k |-> c[j]]
        BY <3>4, <3>5
      <3>7. \A j \in 1 .. k : c[j] = b[p + j]
        BY <3>4, <3>5
      <3> QED BY <3>1, <3>3, <3>6, <3>7
    <2>3. \A j \in 1 .. k : p + j \in 1 .. n
      BY <1>1
    <2>4. \A j \in 1 .. k : b[p + j] = mem[streams[f].data][p + j]
      BY <1>1, <2>1, <2>3, BytesIs
    <2>5. buf' = [j \in 1 .. k |-> mem[streams[f].data][p + j]]
      BY <1>1 DEF Takes
    <2> QED BY <2>1, <2>2, <2>4, <2>5
  <1>5. ret' = e /\ UNCHANGED files
    BY DEF Takes
  <1> QED BY <1>1, <1>2, <1>3, <1>4, <1>5, AbstractGet

LEMMA FflushStep ==
    ASSUME StdioInv, NEW f \in DOMAIN streams, Fflush(f)
    PROVE  Abstract!Flush(f)
  <1>1. Opened' = Opened /\ ret' = 0 /\ UNCHANGED files /\ buf' = (IF InMemory(f) THEN Bytes(f) ELSE buf)
    BY SameOpened DEF Fflush, Keeps
  <1>2. Opened[f].out = InMemory(f) /\ Opened[f].bytes = Bytes(f)
    BY ViewIs DEF InMemory
  <1> QED BY <1>1, <1>2, AbstractFlush
LEMMA FreadStep ==
    ASSUME StdioInv, NEW f \in DOMAIN streams, NEW size \in 1 .. 2, NEW count \in Buffers, Fread(f, size, count)
    PROVE  Abstract!GetElements(f, size, count)
  <1>1. count \in Nat
    BY StdioAssumption
  <1>2. PICK q \in Nat, m \in Nat : m = streams[f].size - streams[f].pos /\ q = Elements(f, size) /\ q = m \div size
    <2>1. PICK m \in Nat : m = streams[f].size - streams[f].pos
      BY OldStream
    <2>2. m \div size \in Nat
      OBVIOUS
    <2> QED BY <2>1, <2>2 DEF Elements
  <1>3. PICK k \in Nat, l \in Nat : k = (IF count > q THEN q ELSE count) /\ l = k * size /\ l <= m
    BY <1>1, <1>2, FreadTakes
  <1>4. Takes(f, l, k)
    BY <1>2, <1>3 DEF Fread
  <1>5. Abstract!Get(f, l, k)
    BY <1>2, <1>3, <1>4, TakesStep
  <1>6. (Len(Opened[f].bytes) - Opened[f].pos) \div size = q
    BY <1>2, ViewIs
  <1>7. k = (IF count < q THEN count ELSE q)
    BY <1>1, <1>3
  <1> QED BY <1>3, <1>5, <1>6, <1>7
          DEF Abstract!GetElements, Abstract!Get, Abstract!Moved, Abstract!With, Opened, Views, ViewOf, Bytes

\* fgets takes the bytes up to the first newline, if there is one in reach.
LEMMA FgetsStep ==
    ASSUME StdioInv, NEW f \in DOMAIN streams, NEW n \in Buffers, Fgets(f, n)
    PROVE  Abstract!Fail \/ Abstract!GetLine(f, n)
  <1>1. n \in Nat
    BY StdioAssumption
  <1>2. CASE n < 2
    <2>1. Opened' = Opened /\ Returns(-1)
      BY <1>2, SameOpened DEF Fgets, Keeps
    <2> QED BY <2>1, AbstractFail
  <1>3. CASE ~ (n < 2)
    <2> DEFINE whole(j) == \/ j = n - 1 \/ Opened[f].pos + j = Len(Opened[f].bytes)
                           \/ j > 0 /\ Opened[f].bytes[Opened[f].pos + j] = NEWLINE
    <2>1. PICK p \in Nat, z \in Nat : p = streams[f].pos /\ z = streams[f].size /\ p <= z
            /\ Opened[f].pos = p /\ Len(Opened[f].bytes) = z
      BY OldStream, ViewIs
    <2>2. PICK k \in Nat, t \in Nat :
            /\ k = LineEnd(f, n) /\ t = Most(f, n)
            /\ k <= t /\ t <= n - 1 /\ t <= z - p /\ t \in {n - 1, z - p}
            /\ Lines(f, n) # {} => k \in Lines(f, n) /\ \A j \in Lines(f, n) : k <= j
      <3>1. n >= 2
        BY <1>1, <1>3
      <3>2. PICK k \in Nat, t \in Nat : k = LineEnd(f, n) /\ t = Most(f, n)
        BY <1>1, <3>1, FgetsTakes
      <3>3. k <= t /\ t <= n - 1 /\ t <= streams[f].size - streams[f].pos /\ t \in {n - 1, streams[f].size - streams[f].pos}
        BY <1>1, <3>1, <3>2, FgetsTakes
      <3>4. Lines(f, n) # {} => k \in Lines(f, n) /\ \A j \in Lines(f, n) : k <= j
        BY <1>1, <3>1, <3>2, FgetsTakes
      <3> QED BY <2>1, <3>2, <3>3, <3>4
    <2>3. Takes(f, k, IF k = 0 THEN -1 ELSE 0)
      BY <1>3, <2>2 DEF Fgets, LineEnd, Lines, Most
    <2>4. PICK e : e = IF k = 0 THEN -1 ELSE 0
      OBVIOUS
    <2>5. Abstract!Get(f, k, e)
      BY <2>1, <2>2, <2>3, <2>4, TakesStep
    <2>6. \A j \in 1 .. t : j \in Lines(f, n) <=> Opened[f].bytes[p + j] = NEWLINE
      <3> TAKE j \in 1 .. t
      <3>1. p + j \in 1 .. z
        BY <2>1, <2>2
      <3>2. Opened[f].bytes[p + j] = mem[streams[f].data][p + j]
        BY <2>1, <3>1, ViewIs, BytesIs
      <3> QED BY <2>1, <2>2, <3>2 DEF Lines
    <2>7. whole(k)
      <3>1. CASE Lines(f, n) = {}
        <4>1. k = t
          BY <2>2, <3>1 DEF LineEnd
        <4> QED BY <2>1, <2>2, <4>1
      <3>2. CASE Lines(f, n) # {}
        <4>1. k \in Lines(f, n) /\ k \in 1 .. t
          BY <2>2, <3>2 DEF Lines
        <4>2. Opened[f].bytes[p + k] = NEWLINE /\ k > 0
          BY <2>6, <4>1
        <4> QED BY <2>1, <4>2
      <3> QED BY <3>1, <3>2
    <2>8. \A j \in 0 .. k - 1 : ~ whole(j)
      <3> TAKE j \in 0 .. k - 1
      <3>1. j # n - 1 /\ p + j # z
        BY <1>1, <2>1, <2>2
      <3>2. ASSUME j > 0, Opened[f].bytes[p + j] = NEWLINE PROVE FALSE
        <4>1. j \in 1 .. t
          BY <2>2, <3>2
        <4>2. j \in Lines(f, n)
          BY <2>6, <3>2, <4>1
        <4>3. k <= j
          BY <2>2, <4>2
        <4> QED BY <4>3
      <3> QED BY <2>1, <3>1, <3>2
    <2>9. k \in 0 .. n - 1 /\ Opened[f].pos + k <= Len(Opened[f].bytes)
      <3>1. k <= t /\ t <= n - 1 /\ t <= z - p
        BY <2>2
      <3>2. k \in 0 .. n - 1 /\ p + k <= z
        BY <1>1, <3>1
      <3> QED BY <2>1, <3>2
    <2>10. \E j \in 0 .. n - 1 :
             /\ Opened[f].pos + j <= Len(Opened[f].bytes) /\ whole(j)
             /\ \A i \in 0 .. j - 1 : ~ whole(i)
             /\ Abstract!Get(f, j, IF j = 0 THEN -1 ELSE 0)
      BY <2>4, <2>5, <2>7, <2>8, <2>9
    <2>11. Abstract!GetLine(f, n)
      BY <2>10 DEF Abstract!GetLine, Opened, Views, ViewOf, Bytes
    <2> QED BY <2>11
  <1> QED BY <1>2, <1>3

LEMMA FwriteStep ==
    ASSUME StdioInv, NEW f \in DOMAIN streams, NEW s \in Contents, Fwrite(f, s)
    PROVE  Abstract!Put(f, s)
  <1>1. s \in Seq(Cell)
    <2>1. s \in Seq(Byte)
      BY StdioAssumption
    <2> QED BY <2>1 DEF Cell
  <1> DEFINE old == streams[f]
             new == Place(f, s)
             w == Written(f, s, new)
             x == [data |-> new.p, size |-> NewSize(f, s), capacity |-> Cap(f, s), pos |-> Behind(f, s),
                   writable |-> old.writable, name |-> old.name, out |-> old.out]
  <1>2. CASE Returns(0) /\ Keeps /\ UNCHANGED streams
    <2>1. Opened' = Opened /\ Returns(0)
      BY <1>2, SameOpened DEF Keeps
    <2> QED BY <2>1, AbstractNotPut
  <1>3. CASE FwriteDone(f, s, new)
    <2>1. /\ mem' = Set(Unset(mem, old.data), new.p, w) /\ new.p # NULL /\ Returns(Len(s))
          /\ old.writable = TRUE
      BY <1>3, OldStream DEF FwriteDone
    <2>2. streams' = [streams EXCEPT ![f] = x]
      BY <1>3, Updated DEF FwriteDone
    <2>3. PlaceCases(f, s, new) /\ new.moved \in BOOLEAN
      BY <1>1, PlaceIs, PlaceMoved
    <2> HIDE DEF new
    <2>4. WrittenOK(f, s, new, w)
      BY <1>1, <2>1, <2>3, WrittenIs
    <2> HIDE DEF w
    <2>5. \A e \in DOMAIN streams \ {f} : streams[e].data # old.data /\ streams[e].data # new.p
                                          /\ streams[e].data \in DOMAIN mem
      <3>1. Relocates(heap, new.h, old.data, new.p)
        BY <2>1, <2>3 DEF PlaceCases
      <3>2. \A e \in DOMAIN streams : streams[e].data \in InUse(heap) /\ streams[e].data \in DOMAIN mem
        BY DEF StdioInv, Owned, Data, StreamOK
      <3>3. \A e \in DOMAIN streams \ {f} : streams[e].data # old.data
        BY DEF StdioInv, Owned, Disjoint
      <3> QED BY <3>1, <3>2, <3>3 DEF Relocates
    <2>6. streams = [e \in DOMAIN streams |-> streams[e]]
      BY DEF StdioInv, Owned
    <2>7. streams'[f] = x
      BY <2>2, <2>6
    <2>8. OthersKept(mem, streams, f, mem', streams')
      <3>1. DOMAIN streams' = DOMAIN streams /\ \A e \in DOMAIN streams \ {f} : streams'[e] = streams[e]
        BY <2>2, <2>6
      <3>2. \A e \in DOMAIN streams \ {f} : mem'[streams[e].data] = mem[streams[e].data]
        BY <2>1, <2>5 DEF Set, Unset
      <3> QED BY <3>1, <3>2 DEF OthersKept
    <2>9. mem'[new.p] = w
      BY <2>1 DEF Set
    <2>10. Opened' = Bound(Opened, f, ViewOf(mem', streams'[f]))
      BY <2>8, ViewsBound DEF Opened
    <2>11. PICK p \in Nat, z \in Nat, l \in Nat, b \in Nat, n \in Nat :
              /\ p = old.pos /\ z = old.size /\ l = Len(s) /\ b = Behind(f, s) /\ b = p + l
              /\ n = NewSize(f, s) /\ n = (IF p + l > z THEN p + l ELSE z)
      <3>1. PICK p \in Nat, z \in Nat, l \in Nat : p = old.pos /\ z = old.size /\ l = Len(s)
        BY <1>1, OldStream, LenProperties
      <3>2. Behind(f, s) = p + l
        BY <3>1 DEF Behind
      <3>3. NewSize(f, s) = (IF p + l > z THEN p + l ELSE z)
        BY <3>1, <3>2 DEF NewSize
      <3>4. p + l \in Nat /\ (IF p + l > z THEN p + l ELSE z) \in Nat
        OBVIOUS
      <3> QED BY <3>1, <3>2, <3>3, <3>4
    <2>12. /\ Opened[f].pos = p /\ Opened[f].bytes = Bytes(f) /\ Len(Opened[f].bytes) = z
           /\ Opened[f].writable = TRUE /\ Opened[f].name = old.name /\ Opened[f].out = old.out
      BY <2>1, <2>11, ViewIs
    <2>13. SubSeq(w, 1, n) = Abstract!Over(Bytes(f), p, s)
      <3>1. SubSeq(w, 1, n) = [k \in 1 .. n |-> w[k]]
        <4>1. w \in Seq(Cell) /\ Len(w) = Room(new.h, new.p)
          BY <2>4 DEF WrittenOK
        <4>2. PICK m \in Nat : m = Len(w) /\ n <= m
          <5>1. PICK c \in Nat, m \in Nat : c = Cap(f, s) /\ m = Room(new.h, new.p) /\ n < c /\ c <= m
            BY <1>1, <2>1, <2>3, <2>11, CapIs DEF PlaceCases
          <5> QED BY <4>1, <5>1
        <4> QED BY <4>1, <4>2
      <3>2. \A k \in 1 .. n : w[k] = IF p < k /\ k <= p + l THEN s[k - p] ELSE mem[old.data][k]
        BY <2>4, <2>11 DEF WrittenOK
      <3>3. \A k \in 1 .. n : ~ (p < k /\ k <= p + l) => k \in 1 .. z
        BY <2>11, OldStream
      <3>4. \A k \in 1 .. z : Bytes(f)[k] = mem[old.data][k]
        BY <2>11, BytesIs
      <3>5. \A k \in 1 .. n : w[k] = IF p < k /\ k <= p + l THEN s[k - p] ELSE Bytes(f)[k]
        BY <3>2, <3>3, <3>4
      <3>6. Len(Bytes(f)) = z
        BY <2>12
      <3> QED BY <2>11, <3>1, <3>5, <3>6 DEF Abstract!Over
    <2>14. PICK y : y = [bytes |-> Abstract!Over(Opened[f].bytes, Opened[f].pos, s), pos |-> Opened[f].pos + Len(s),
                         writable |-> TRUE, name |-> Opened[f].name, out |-> Opened[f].out]
      OBVIOUS
    <2>15. ViewOf(mem', streams'[f]) = y
      <3>1. /\ x.data = new.p /\ x.size = n /\ x.pos = b /\ x.writable = TRUE
            /\ x.name = old.name /\ x.out = old.out
        BY <2>1, <2>11
      <3> HIDE DEF x
      <3>2. ViewOf(mem', x) = [bytes |-> SubSeq(w, 1, n), pos |-> b, writable |-> TRUE,
                               name |-> old.name, out |-> old.out]
        BY <2>9, <3>1 DEF ViewOf
      <3> QED BY <2>7, <2>11, <2>12, <2>13, <2>14, <3>2
    <2> QED BY <2>1, <2>10, <2>12, <2>14, <2>15, AbstractPut
  <1> QED BY <1>1, <1>2, <1>3, FwriteCases
LEMMA FcloseStep ==
    ASSUME StdioInv, NEW f \in DOMAIN streams, Fclose(f)
    PROVE  Abstract!Close(f)
  <1> DEFINE d == streams[f].data
  <1>1. /\ streams' = Unset(streams, f) /\ mem' = Unset(mem, d)
        /\ \/ Saved(f) /\ FS!Write(streams[f].name, Bytes(f))
           \/ ~ Saved(f) /\ ~ InMemory(f) /\ Returns(0)
           \/ ~ Saved(f) /\ InMemory(f) /\ buf' = Bytes(f) /\ ret' = 0 /\ UNCHANGED files
    BY DEF Fclose
  <1>2. \A e \in DOMAIN streams \ {f} : streams[e].data # d /\ streams[e].data \in DOMAIN mem
    BY DEF StdioInv, Owned, Disjoint, StreamOK
  <1>3. BytesKept(mem, streams, f, mem')
    BY <1>1, <1>2 DEF Unset, BytesKept
  <1>4. Views(mem', Unset(streams, f)) = Unset(Views(mem, streams), f)
    BY <1>3, ViewsUnset
  <1>5. Opened' = [e \in DOMAIN Opened \ {f} |-> Opened[e]]
    BY <1>1, <1>4 DEF Opened, Unset
  <1>6. /\ Opened[f].name = streams[f].name /\ Opened[f].writable = streams[f].writable
        /\ Opened[f].out = streams[f].out /\ Opened[f].bytes = Bytes(f)
    BY ViewIs
  <1>8. \/ Opened[f].name # NoName /\ Opened[f].writable /\ FS!Write(Opened[f].name, Opened[f].bytes)
        \/ (Opened[f].name = NoName \/ ~ Opened[f].writable) /\ ~ Opened[f].out /\ Returns(0)
        \/ Opened[f].out /\ buf' = Opened[f].bytes /\ ret' = 0 /\ UNCHANGED files
    BY <1>1, <1>6 DEF Saved, InMemory, FS!Write, FS!Fails, FS!Bind
  <1> QED BY <1>5, <1>8, AbstractClose

LEMMA RemoveStep ==
    ASSUME NEW n, Remove(n)
    PROVE  Abstract!Remove(n)
  <1>1. Opened' = Opened /\ FS!Delete(n)
    BY SameOpened DEF Remove
  <1>2. Abstract!Delete(n)
    BY <1>1 DEF FS!Delete, FS!Fails, FS!Unbind, Abstract!Delete, Abstract!Fails, Abstract!Unbind
  <1> QED BY <1>1, <1>2 DEF Abstract!Remove, Opened, Views, ViewOf, Bytes

LEMMA UsingStep ==
    ASSUME StdioInv, Using
    PROVE  Abstract!SNext
  <1>0. DOMAIN Opened = DOMAIN streams
    BY DEF Opened, Views
  <1>1. PICK f \in DOMAIN streams :
        \/ Fflush(f) \/ Fclose(f)
        \/ \E offset \in {-1, 0, 1}, origin \in {"SET", "CUR", "END"} : Fseek(f, offset, origin)
        \/ \E size \in 1 .. 2, count \in Buffers : Fread(f, size, count)
        \/ \E n \in Buffers : Fgets(f, n)
        \/ \E s \in Contents : Fwrite(f, s)
    BY DEF Using
  <1>2. \/ Abstract!Flush(f) \/ Abstract!Close(f) \/ Abstract!Fail
        \/ \E pos \in 0 .. Len(Opened[f].bytes) : Abstract!Seek(f, pos)
        \/ \E size \in 1 .. 2, count \in Buffers : Abstract!GetElements(f, size, count)
        \/ \E n \in Buffers : Abstract!GetLine(f, n)
        \/ \E s \in Contents : Abstract!Put(f, s)
    BY <1>1, FflushStep, FcloseStep, FseekStep, FreadStep, FgetsStep, FwriteStep
  <1> QED BY <1>0, <1>2 DEF Abstract!SNext, Opened, Views, ViewOf, Bytes

LEMMA StdioStep == StdioInv /\ [StdioNext]_stdioVars => [Abstract!SNext]_(Abstract!svars)
  <1> SUFFICES ASSUME StdioInv, [StdioNext]_stdioVars PROVE Abstract!SNext \/ UNCHANGED Abstract!svars
    OBVIOUS
  <1>1. ASSUME NEW n \in Requests, Allocates(n) PROVE UNCHANGED Abstract!svars
    BY <1>1, AllocatesStep
  <1>2. ASSUME NEW p \in client, Frees(p) PROVE UNCHANGED Abstract!svars
    BY <1>2, FreesStep
  <1>3. ASSUME NEW p \in client, NEW n \in Requests, Resizes(p, n) PROVE UNCHANGED Abstract!svars
    BY <1>3, ResizesStep
  <1>4. CASE Opening
    BY <1>4, OpeningStep
  <1>5. CASE Using
    BY <1>5, UsingStep
  <1>6. ASSUME NEW n \in Names \cup LongNames, Remove(n) PROVE Abstract!SNext
    <2>1. Abstract!Remove(n)
      BY <1>6, RemoveStep
    <2> QED BY <2>1 DEF Abstract!SNext
  <1>7. CASE UNCHANGED stdioVars
    <2>1. UNCHANGED <<mem, streams>> /\ UNCHANGED <<files, ret, buf>>
      BY <1>7 DEF stdioVars
    <2> QED BY <2>1, SameOpened, AbstractStutter
  <1> QED BY <1>1, <1>2, <1>3, <1>4, <1>5, <1>6, <1>7 DEF StdioNext

\* The FILE layer implements streams: every call maps to a call on a sequence of
\* bytes with a position, or is invisible, whatever blocks move or fail to grow.
THEOREM FileLayerImplementsStreams == StdioSpec => ImplementsStreams
  BY AbstractInit, StdioAlways, StdioStep, PTL DEF StdioSpec, ImplementsStreams, Abstract!SSpec
=============================================================================
