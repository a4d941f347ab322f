---------------------------- MODULE SpaceState ----------------------------
(***************************************************************************)
(* What every member reads from the decision log's view                    *)
(* (lib/decisions/state.js, State and SubState; lib/space.js limitOf): who *)
(* is a member, who may write, and how much of each device log counts.     *)
(***************************************************************************)
EXTENDS SpaceDecisions

-----------------------------------------------------------------------------
(* Readers of one scope s.  SubState asks its own entries first, then its  *)
(* parent's state, which does the same.                                    *)

stateBanned(s, id) == bannedIn(banned, s, id)

\* Mutant: a ban in the sub-space itself is not looked at.
stateMember_unbanned(s, id) ==
    IF s # Top /\ member[s][id] = NoEntry THEN member[Top][id] ELSE member[s][id]

stateMember(s, id) ==
    LET c == chainOf(s)
        n == Len(c)
        _member[i \in 1..n] ==
            IF i = n THEN member[Top][id]
            ELSE IF stateBanned(c[i], id) THEN NoEntry
            ELSE IF member[c[i]][id] # NoEntry THEN member[c[i]][id]
            ELSE IF space[c[i]].private /\ _member[i + 1].role \notin {"owner", "admin"}
                 THEN NoEntry
            ELSE _member[i + 1]
    IN  _member[1]

\* The lowest length any cut in s or above names a log with.
stateCut(s, id) ==
    LET cuts == {cut[chainOf(s)[i]][id] : i \in DOMAIN chainOf(s)}
    IN  [on   |-> \E t \in cuts : t.on,
         logs |-> [l \in Logs |-> CHOOSE n \in Lengths : /\ \E t \in cuts : t.logs[l] = n
                                                         /\ \A t \in cuts : n <= t.logs[l]]]

\* The code that counts for id in s: its own scope's, else its parent's.
admission(s, id) ==
    LET c == chainOf(s)
        at == {i \in DOMAIN c : admit[c[i]][id] # None}
    IN  IF at = {} THEN None
        ELSE admit[c[CHOOSE i \in at : \A j \in at : i <= j]][id]

\* The recorded role; in a public space, anyone else not banned is a member.
stateRole(s, id) ==
    IF stateMember(s, id) # NoEntry THEN stateMember(s, id).role
    ELSE IF settings[s].public /\ ~ stateBanned(s, id) THEN "member"
    ELSE None

canWrite(s, id) ==
    /\ can(stateRole(s, id), "post", roles)
    /\ \/ space[s].writeRoles = {}
       \/ stateRole(s, id) \in {"owner", "admin"} \cup space[s].writeRoles

\* How much of a log counts, by the decisions alone.
limitOf(s, id, l) ==
    IF stateCut(s, id).logs[l] # Inf THEN stateCut(s, id).logs[l]
    ELSE IF canWrite(s, id) THEN Inf
    ELSE 0

\* Mutant: only while out.
mustAdmit_out(s, id, l) == stateCut(s, id).on /\ ~ canWrite(s, id)

mustAdmit(s, id, l) ==
    /\ ~ (stateMember(s, id) = NoEntry /\ settings[s].public)
    /\ stateCut(s, id).on /\ stateCut(s, id).logs[l] = Inf

\* The lowest length any cut in s or above names a log with, for what takes p.
stateEditCut(s, id, p, l) ==
    LET cuts == {editcut[chainOf(s)[i]][id][p][l] : i \in DOMAIN chainOf(s)}
    IN  CHOOSE n \in cuts : \A m \in cuts : n <= m

\* How much of a log counts for what takes a permission.
editLimit(s, id, p, l) ==
    IF stateEditCut(s, id, p, l) # Inf THEN stateEditCut(s, id, p, l)
    ELSE IF can(stateRole(s, id), p, roles) THEN Inf
    ELSE 0

-----------------------------------------------------------------------------
(* Properties.                                                             *)

\* What members read is what apply decided by: the recorded role of the state
\* they hold is, in every scope, the role apply lets people decide with.
\* (The top space's reader looks at no ban: no one banned there has an entry.)
ReadersAgree ==
    \A s \in Scopes, id \in Ids : IsScope(s) => stateMember(s, id).role = roleOf(s, id)

\* A log once cut never counts for more again, here or below, whatever roles,
\* bans and cuts follow: those who dropped its tail never need it back.  So too
\* of what relies on a permission: cut when its writer lost it, it counts for no
\* more when they hold it again.
CutIsFinal ==
    [][\A s \in Scopes, id \in Ids, l \in Logs : IsScope(s) =>
        /\ stateCut(s, id).logs[l] # Inf => limitOf(s, id, l)' <= limitOf(s, id, l)
        /\ \A p \in Permissions :
            editLimit(s, id, p, l) \notin {0, Inf} =>
                editLimit(s, id, p, l)' <= editLimit(s, id, p, l)]_vars

\* What someone wrote in the top space while they could, and the decider
\* held, stays when they lose the right to write there, unless a ban says
\* drop: 'all' of them.
KeptInTop ==
    [][\A id \in Ids, l \in Logs :
        limitOf(Top, id, l) > 0 => limitOf(Top, id, l)' > 0 \/ cut'[Top][id].logs[l] = 0]_vars

\* Nothing of someone banned with drop: 'all' counts there while they are,
\* whatever was cut before or is dropped again, but what a cut above names.
DropHolds ==
    \A s \in Scopes, id \in Ids, l \in Logs :
        /\ banned[s][id].drop
        /\ \A i \in 2..Len(chainOf(s)) : cut[chainOf(s)[i]][id].logs[l] = Inf
        => limitOf(s, id, l) = 0
=============================================================================
