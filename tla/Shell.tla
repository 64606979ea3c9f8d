-------------------------------- MODULE Shell ---------------------------------
(***************************************************************************)
(* The cooperative tasks, the console and the shell of jordyOS/kernel.c.   *)
(*                                                                         *)
(* There are two programs, the shell and the application (app_ape), each   *)
(* with one stack for all its instances.  A task is a slot with a saved    *)
(* stack pointer; only a call of yield changes the task that runs.  A step *)
(* is one pass of the loop the running task is in.  Every pass calls       *)
(* rtl_poll, at the place where the code does; polls alternates with it.   *)
(*                                                                         *)
(* Keys come from the keyboard as scan codes and from the serial line as   *)
(* characters, at any time and whoever runs.  What the keyboard sends to a *)
(* full controller is lost.  A command that is not an                      *)
(* application runs within the shell and is over in one step: Firewall,    *)
(* TcpTransfer and Isolation model what those do.  Left out: output and    *)
(* drawing, and the halt of kmain on a processor without long mode.        *)
(*                                                                         *)
(* D_bug is definition D with a slip in it; see README.md.                 *)
(***************************************************************************)
EXTENDS Integers, Sequences, FiniteSets, FiniteSetsExt

CONSTANTS
    MAX_TASKS,       \* task slots (6)
    LINE_MAX,        \* size of shell_cmd_buffer (96)
    Kind(_),         \* of a line: "app", "desktop", or "other"
    ScanCodes,       \* what the keyboard sends besides codes of shift keys
    SerialChars,     \* what the serial line sends
    KbdCap           \* scan codes the keyboard controller holds

ASSUME ShellAssumption ==
    /\ MAX_TASKS \in Nat /\ MAX_TASKS >= 2 /\ LINE_MAX \in Nat \ {0} /\ KbdCap \in Nat
    /\ ScanCodes \subseteq 0 .. 255 /\ ScanCodes \cap {42, 170, 54, 182} = {}
    /\ SerialChars \subseteq 1 .. 255

VARIABLES
    tasks, cur,                  \* the task table
    at,                          \* where each task is
    stack,                       \* whose frames lie on a program's stack
    desktop_mode,                \* the shell's locals: launcher or prompt,
    selected, line,              \* the choice and the command so far
    left_shift, right_shift,     \* statics of poll_ch
    kbd, serial,                 \* what the two devices hold
    held,                        \* the shift keys that are down
    astray,                      \* history: those whose last code was lost, or
                                 \* was sent on behalf of another key
    polls                        \* alternates with every rtl_poll

table == <<tasks, cur, at, stack>>
console == <<desktop_mode, selected, line>>
shifts == <<left_shift, right_shift>>
devices == <<kbd, serial, held, astray>>
vars == <<table, console, shifts, devices, polls>>

TaskIds == 0 .. MAX_TASKS - 1
Nobody == -1
Programs == {"shell", "app"}
Places == {"none", "desktop", "line", "wait", "run", "resumed"}

Task(sp, entry) == [sp |-> sp, entry |-> entry]

Init ==
    /\ tasks = [i \in TaskIds |-> Task("null", "null")]
    /\ cur = Nobody /\ at = [i \in TaskIds |-> "none"]
    /\ stack = [p \in Programs |-> Nobody]
    /\ desktop_mode = TRUE /\ selected = 0 /\ line = <<>>
    /\ left_shift = FALSE /\ right_shift = FALSE
    /\ kbd = <<>> /\ serial = <<>> /\ held = {} /\ astray = {} /\ polls = 0
-----------------------------------------------------------------------------
(* Tasks.                                                                  *)

Live == {i \in TaskIds : tasks[i].sp # "null"}
Free == TaskIds \ Live

\* The slot task_create takes: the first that was never used or ran the same
\* program, else the first free one.
SlotFor(fn) ==
    LET preferred == {i \in Free : tasks[i].entry \in {"null", fn}}
    IN Min(IF preferred # {} THEN preferred ELSE Free)

\* task_create: a frame that starts fn, at the top of its stack.
Create(fn) ==
    /\ Free # {}
    /\ tasks' = [tasks EXCEPT ![SlotFor(fn)] = Task("start", fn)]
    /\ stack' = [stack EXCEPT ![fn] = SlotFor(fn)]

\* yield's choice in table t: the next live task after cur, cyclically.
Ahead(t) == {d \in 1 .. MAX_TASKS - 1 : t[(cur + d) % MAX_TASKS].sp # "null"}
NextTask(t) == (cur + Min(Ahead(t))) % MAX_TASKS

First(fn) == IF fn = "shell" THEN "desktop" ELSE "run"

\* A call of rtl_poll.
Beat == polls' = 1 - polls

\* yield, with the table t: the running task is saved unless it has exited, and
\* the next one starts or goes on.  If there is none, yield returns and the
\* running task goes on at place here.
Yield(t, here) ==
    /\ Beat
    /\ IF Ahead(t) = {} THEN tasks' = t /\ at' = [at EXCEPT ![cur] = here] /\ UNCHANGED cur
       ELSE LET n == NextTask(t) IN
            /\ tasks' = [t EXCEPT ![cur] =
                           Task(IF t[cur].sp = "null" THEN "null" ELSE "saved", t[cur].entry)]
            /\ cur' = n
            /\ at' = [at EXCEPT ![cur] = here,
                                ![n] = IF t[n].sp = "start" THEN First(t[n].entry) ELSE at[n]]
    /\ UNCHANGED stack

\* kmain: the shell is created and entered.
Boot ==
    /\ cur = Nobody
    /\ Create("shell")
    /\ cur' = SlotFor("shell") /\ at' = [at EXCEPT ![SlotFor("shell")] = "desktop"]
    /\ UNCHANGED <<console, shifts, devices, polls>>
-----------------------------------------------------------------------------
(* The console.                                                            *)

\* The tables of poll_ch, from scan code 0 on; 0 is no character.
map == <<0, 27, 49, 50, 51, 52, 53, 54, 55, 56, 57, 48,
         45, 61, 8, 9, 113, 119, 101, 114, 116, 121, 117, 105,
         111, 112, 91, 93, 10, 0, 97, 115, 100, 102, 103, 104,
         106, 107, 108, 59, 39, 96, 0, 92, 122, 120, 99, 118,
         98, 110, 109, 44, 46, 47, 0, 42, 0, 32>>
shifted == <<0, 0, 33, 64, 35, 36, 37, 94, 38, 42, 40, 41,
             95, 43, 0, 0, 0, 0, 0, 0, 0, 0, 0, 0,
             0, 0, 123, 125, 0, 0, 0, 0, 0, 0, 0, 0,
             0, 0, 0, 58, 34, 126, 0, 124, 0, 0, 0, 0,
             0, 0, 0, 60, 62, 63, 0, 0, 0, 0>>

Arrow == [sc \in {75, 77, 72, 80} |->
            CASE sc = 75 -> 17 [] sc = 77 -> 18 [] sc = 72 -> 19 [] sc = 80 -> 20]

\* The character of a scan code that is not a shift key's.
Decoded(sc) ==
    LET plain == IF sc < 58 THEN map[sc + 1] ELSE 0
        shift == left_shift \/ right_shift
    IN IF sc >= 128 THEN 0
       ELSE IF sc \in DOMAIN Arrow THEN Arrow[sc]
       ELSE IF plain # 0 /\ shift /\ plain \in 97 .. 122 THEN plain - 32
       ELSE IF plain # 0 /\ shift /\ shifted[sc + 1] # 0 THEN shifted[sc + 1]
       ELSE plain

\* The two flags after scan code sc, for the codes of the left and right key.
LeftAfter(sc, flag) == IF sc \in {42, 170} THEN sc = 42 ELSE flag
RightAfter_Both(sc, flag) == IF sc \in {42, 170, 54, 182} THEN sc \in {42, 54} ELSE flag
RightAfter(sc, flag) == IF sc \in {54, 182} THEN sc = 54 ELSE flag

\* What poll_ch returns, from the serial line first, then from the keyboard; 0
\* is no character.
Polled ==
    IF serial # <<>> THEN IF Head(serial) = 13 THEN 10 ELSE Head(serial)
    ELSE IF kbd = <<>> \/ Head(kbd) \in {42, 170, 54, 182} THEN 0
    ELSE Decoded(Head(kbd))

\* What it takes from the devices.
KeyTaken ==
    /\ UNCHANGED <<held, astray>>
    /\ \/ serial # <<>> /\ serial' = Tail(serial) /\ UNCHANGED <<kbd, shifts>>
       \/ /\ serial = <<>> /\ kbd # <<>>
          /\ left_shift' = LeftAfter(Head(kbd), left_shift)
          /\ right_shift' = RightAfter(Head(kbd), right_shift)
          /\ kbd' = Tail(kbd) /\ UNCHANGED serial
       \/ serial = <<>> /\ kbd = <<>> /\ UNCHANGED <<kbd, serial, shifts>>
PollCh_KeysOnly == KeyTaken /\ UNCHANGED polls
PollCh == Beat /\ KeyTaken
-----------------------------------------------------------------------------
(* The shell.                                                              *)

Runs(place) == cur # Nobody /\ at[cur] = place
Moves(place) == at' = [at EXCEPT ![cur] = place]

\* gui_desktop: what a key does to the selection, or the action it returns.
Chosen(c) == IF c \in 49 .. 54 THEN {c - 49} ELSE IF c = 10 THEN {selected}
             ELSE IF c = 27 THEN {3} ELSE {}
SelectedAfter(c) ==
    CASE c = 9 \/ c = 18 -> (selected + 1) % 6
      [] c = 17 -> (selected + 5) % 6
      [] c = 19 \/ c = 20 -> IF selected < 3 THEN selected + 3 ELSE selected - 3
      [] OTHER -> selected

\* Action 3 opens the prompt, every other one is the command of an application.
Desktop ==
    /\ Runs("desktop") /\ PollCh
    /\ \/ /\ Chosen(Polled) = {} /\ selected' = SelectedAfter(Polled)
          /\ UNCHANGED <<table, desktop_mode, line>>
       \/ /\ Chosen(Polled) = {3} /\ desktop_mode' = FALSE
          /\ Moves("line") /\ selected' = 0 /\ UNCHANGED <<tasks, cur, stack, line>>
       \/ /\ Chosen(Polled) \notin {{}, {3}} /\ Create("app")
          /\ Moves("wait") /\ selected' = 0 /\ UNCHANGED <<cur, desktop_mode, line>>

\* read_line.
LineAfter(c) ==
    IF c \in {8, 127} /\ line # <<>> THEN SubSeq(line, 1, Len(line) - 1)
    ELSE IF c \in 32 .. 126 /\ Len(line) < LINE_MAX - 1 THEN Append(line, c)
    ELSE line
ReadLine ==
    /\ Runs("line") /\ Polled # 10 /\ PollCh
    /\ line' = LineAfter(Polled)
    /\ UNCHANGED <<table, desktop_mode, selected>>

\* The end of the line, and its command.
Dispatch ==
    /\ Runs("line") /\ Polled = 10 /\ PollCh
    /\ IF Kind(line) = "app" THEN Create("app") ELSE UNCHANGED <<tasks, stack>>
    /\ desktop_mode' = (Kind(line) = "desktop")
    /\ Moves("wait") /\ line' = <<>> /\ UNCHANGED <<cur, selected>>

\* The loop behind every command: it yields while another task lives.
Foreground_OrSelf == Live # {}
Foreground == Live \ {cur} # {}
Waits ==
    /\ Runs("wait") /\ Foreground
    /\ Yield(tasks, "wait") /\ UNCHANGED <<console, shifts, devices>>
Continues ==
    /\ Runs("wait") /\ ~ Foreground
    /\ Moves(IF desktop_mode THEN "desktop" ELSE "line")
    /\ UNCHANGED <<tasks, cur, stack, console, shifts, devices, polls>>
-----------------------------------------------------------------------------
(* The application: system calls that read a key or only poll the network, *)
(* and its end, by exit or by a fault, in sys_exit_task.                   *)

AppReads == Runs("run") /\ PollCh /\ UNCHANGED <<table, console>>
AppCalls ==
    /\ Runs("run") /\ Beat
    /\ UNCHANGED <<table, console, shifts, devices>>

Exited_Keeps == tasks
Exited == [tasks EXCEPT ![cur] = Task("null", tasks[cur].entry)]
AppExits ==
    /\ Runs("run")
    /\ Yield(Exited, "resumed") /\ UNCHANGED <<console, shifts, devices>>
-----------------------------------------------------------------------------
(* The devices.                                                            *)

\* A full controller loses the code.
Full == Len(kbd) >= KbdCap
Sends(sc) == kbd' = IF Full THEN kbd ELSE Append(kbd, sc)

\* The code of a shift key that goes down, or goes on repeating, or up.
Keys == {"left", "right"}
ShiftCode(key, down) == (IF key = "left" THEN 42 ELSE 54) + (IF down THEN 0 ELSE 128)

KeyPressed(sc) == Sends(sc) /\ UNCHANGED <<held, astray>>
ShiftPressed(key) ==
    /\ Sends(ShiftCode(key, TRUE)) /\ held' = held \cup {key}
    /\ astray' = IF Full THEN astray \cup {key} ELSE astray \ {key}
ShiftReleased(key) ==
    /\ key \in held
    /\ Sends(ShiftCode(key, FALSE)) /\ held' = held \ {key}
    /\ astray' = IF Full THEN astray \cup {key} ELSE astray \ {key}

\* Around the code of an extended key a keyboard may send those of shift keys, to
\* undo or feign a shift: E0 2A, E0 AA, E0 36, E0 B6.  Here each may come at any
\* time; the E0 in front, which poll_ch ignores, is one of ScanCodes.
FeignedShift(key, down) ==
    /\ Sends(ShiftCode(key, down)) /\ UNCHANGED held
    /\ astray' = IF Full THEN astray
                 ELSE IF down = (key \in held) THEN astray \ {key} ELSE astray \cup {key}
SerialReceives(c) == serial = <<>> /\ serial' = <<c>> /\ UNCHANGED <<kbd, held, astray>>

Devices ==
    /\ \/ /\ \/ \E sc \in ScanCodes : KeyPressed(sc)
             \/ \E key \in Keys : ShiftPressed(key) \/ ShiftReleased(key)
             \/ \E key \in Keys, down \in BOOLEAN : FeignedShift(key, down)
          /\ UNCHANGED serial
       \/ \E c \in SerialChars : SerialReceives(c)
    /\ UNCHANGED <<table, console, shifts, polls>>

Kernel == Boot \/ Desktop \/ ReadLine \/ Dispatch \/ Waits \/ Continues \/ AppReads \/ AppCalls
          \/ AppExits

Next == Kernel \/ Devices

Spec == Init /\ [][Next]_vars

\* The processor runs, and an application ends.
FairSpec == Spec /\ WF_vars(Kernel) /\ WF_vars(AppExits)
-----------------------------------------------------------------------------
(* Properties.                                                             *)

\* "A single console belongs to the foreground app until it exits": the shell
\* reads no key and takes no command while another task lives, one shell and at
\* most one application live, no frame was laid over those of a task that will
\* run again, and sys_exit_task never returns.
OneForeground ==
    cur # Nobody =>
        /\ cur \in Live /\ at[cur] # "resumed"
        /\ at[cur] \in {"desktop", "line"} => Live = {cur}
        /\ \A p \in Programs : Cardinality({i \in Live : tasks[i].entry = p}) <= 1
        /\ \A i \in Live : stack[tasks[i].entry] = i

\* The flags that the codes in the controller will leave, from code i on.
Settled(after(_, _), flag) ==
    LET f[i \in 0 .. Len(kbd)] == IF i = 0 THEN flag ELSE after(kbd[i], f[i - 1])
    IN f[Len(kbd)]

\* Once the waiting scan codes are read, a shift flag of poll_ch is set exactly
\* while its key is down, whichever task or wait loop reads them and whatever the
\* serial line sends in between, unless the key's last code was lost in a full
\* controller or a feigned one contradicts it.  These are the only ways in which a
\* shift sticks, and the next code of the key that is not lost ends it.
ShiftTracksKeys ==
    /\ "left" \in astray \/ Settled(LeftAfter, left_shift) = ("left" \in held)
    /\ "right" \in astray \/ Settled(RightAfter, right_shift) = ("right" \in held)

\* The console comes back to the shell after every command and application.
PromptReturns == (cur # Nobody) ~> (cur # Nobody /\ at[cur] \in {"desktop", "line"})

\* The network is polled again and again, in every loop in which the kernel
\* waits and whichever task runs.
NetworkPolled == []<><<polls' # polls>>_vars
=============================================================================
