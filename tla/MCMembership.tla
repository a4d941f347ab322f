--------------------------- MODULE MCMembership ---------------------------
(***************************************************************************)
(* Small instances of Membership: the owner o, two more people, one or two *)
(* sub-spaces, one custom role.  A person's first device goes by the       *)
(* person's name, so that people can be permuted with their devices; o2 is *)
(* the owner's second device.                                              *)
(***************************************************************************)
EXTENDS Membership, TLC

CONSTANTS o, ann, bob, o2

PersonOf == [d \in Devices |-> IF d = o2 THEN o ELSE d]
CrewInvites == {[id |-> 1, space |-> Top, maker |-> ann, role |-> "crew", uses |-> 1, sub |-> None]}
NoCuts == {[l \in {} |-> 0]}
Others == Permutations({ann, bob})
=============================================================================
