--------------------------------- MODULE Link ---------------------------------
(***************************************************************************)
(* What a network card and its driver promise the protocol code: frames    *)
(* are handed over whole, in the order in which they arrived and once      *)
(* each, and frames that were accepted for sending leave the same way,     *)
(* short ones padded with zeros.  A damaged frame is only counted.  A      *)
(* restart of the interface discards what is on its way, in both           *)
(* directions.  Rtl8139 implements it.                                     *)
(***************************************************************************)
EXTENDS Integers, Sequences

CONSTANTS
    Frames,      \* what may arrive: [data, ok]
    Packets,     \* what may be sent
    MIN_WIRE     \* the shortest frame on the wire (60)

NoFrame == [data |-> <<>>, ok |-> TRUE]
Damaged == [data |-> <<>>, ok |-> FALSE]

VARIABLES
    arriving,    \* frames that have arrived and were not taken yet
    taken,       \* the frame taken in the last step, or NoFrame
    leaving,     \* packets that were accepted and have not left yet
    wire         \* what was put on the wire in the last step, or <<>>

link == <<arriving, taken, leaving, wire>>

Init == arriving = <<>> /\ taken = NoFrame /\ leaving = <<>> /\ wire = <<>>

Padded(p) == p \o [k \in 1 .. (IF Len(p) < MIN_WIRE THEN MIN_WIRE - Len(p) ELSE 0) |-> 0]
Quiet == taken' = NoFrame /\ wire' = <<>>

Arrive(f) == arriving' = Append(arriving, f) /\ Quiet /\ UNCHANGED leaving
Take ==
    /\ arriving # <<>>
    /\ taken' = IF Head(arriving).ok THEN Head(arriving) ELSE Damaged
    /\ arriving' = Tail(arriving) /\ wire' = <<>> /\ UNCHANGED leaving
Accept(p) == leaving' = Append(leaving, p) /\ Quiet /\ UNCHANGED arriving
Leave ==
    /\ leaving # <<>>
    /\ wire' = Padded(Head(leaving))
    /\ leaving' = Tail(leaving) /\ taken' = NoFrame /\ UNCHANGED arriving
Restart == arriving' = <<>> /\ leaving' = <<>> /\ Quiet
Rest == Quiet /\ UNCHANGED <<arriving, leaving>>

Next ==
    \/ \E f \in Frames : Arrive(f)
    \/ \E p \in Packets : Accept(p)
    \/ Take \/ Leave \/ Restart \/ Rest

Spec == Init /\ [][Next]_link
=============================================================================
