----------------------------- MODULE MCOwnLogs -----------------------------
(***************************************************************************)
(* The owner o decides about ann, whose device writes in l1, l2 and l3.    *)
(***************************************************************************)
EXTENDS OwnLogs, TLC

CONSTANTS o, ann, l1, l2, l3, w1

PersonOf == [d \in Devices |-> d]
OneAfterAnother == <<l1, l2, l3>>
\* What the owner holds of them when it decides.
Held == {[l \in Logs |-> IF l \in held THEN 1 ELSE Inf] : held \in {{l1}, {l1, l2}}}
=============================================================================
