------------------------------ MODULE Follower ------------------------------
(***************************************************************************)
(* What a decision log promises those who follow it by 'change': they see  *)
(* the entries as they were at one moment, never a mixture of two, never a *)
(* moment before the one they saw last, and once a reading is over without *)
(* an error, as they were when it was taken.                               *)
(***************************************************************************)
CONSTANTS Keys, Values, None

VARIABLES
    now,    \* the entries
    taken,  \* as they were when they were last read
    seen,   \* as followers saw them
    told    \* followers were told of what was taken

vars == <<now, taken, seen, told>>

Init ==
    /\ now = [k \in Keys |-> None]
    /\ taken = now
    /\ seen = now
    /\ told = FALSE

Decide ==
    /\ now' \in [Keys -> Values \cup {None}]
    /\ UNCHANGED <<taken, seen, told>>

Take ==
    /\ taken' = now
    /\ told' = FALSE
    /\ UNCHANGED <<now, seen>>

Look ==
    /\ seen' = taken
    /\ told' = TRUE
    /\ UNCHANGED <<now, taken>>

Next == Decide \/ Take \/ Look

Spec == Init /\ [][Next]_vars
=============================================================================
