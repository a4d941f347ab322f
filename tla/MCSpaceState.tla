--------------------------- MODULE MCSpaceState ---------------------------
(***************************************************************************)
(* Small instances of SpaceState: people decide about a device log l1 of   *)
(* the others.  A person's first device goes by the person's name.         *)
(***************************************************************************)
EXTENDS SpaceState

CONSTANTS o, ann, l1

PersonOf == [d \in Devices |-> d]
NoCuts == {[l \in {} |-> 0]}
\* The lengths deciders held of l1.
Held == {[l \in Logs |-> n] : n \in {1, 2}}
Unset == [policy |-> None, limited |-> None, helpers |-> None, public |-> FALSE]
MadePublic == {[Unset EXCEPT !.public = TRUE]}
AnySetting == MadePublic \cup
    {[Unset EXCEPT !.policy = "everything", !.limited = TRUE], [Unset EXCEPT !.helpers = <<o, o>>],
     [Unset EXCEPT !.limited = FALSE, !.helpers = <<o>>]}
=============================================================================
