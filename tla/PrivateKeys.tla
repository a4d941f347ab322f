---------------------------- MODULE PrivateKeys ----------------------------
(***************************************************************************)
(* The keys of one private space (lib/space.js #keyWork to #rotate,        *)
(* #sealer; lib/private/grants.js).  Records are sealed with the key of an *)
(* epoch.  Whoever holds the current key grants it to the devices of       *)
(* members, in records of its own log; whoever may decide changes it when  *)
(* someone who lost access holds it, and links the keys before it to it.   *)
(* Devices hear of each other's decisions and records at any time, apart   *)
(* or not, and decisions made apart are put in one order afterwards: a key *)
(* that was current may turn out to have lost a race.  Key work, a         *)
(* rotation and a write run on a device at the same time, and meet at      *)
(* every await.                                                            *)
(*                                                                         *)
(* Every identity has one device.  A key is the number of the decision     *)
(* that recorded its commitment.  A log is heard from its start.           *)
(***************************************************************************)
EXTENDS Integers, FiniteSets, Sequences, SequencesExt

CONSTANTS
  Devices,       \* one per identity
  Founder,       \* the owner
  Rank,          \* of a device: where Autobase puts its decisions among others made at once
  Scenes,        \* inputs: who is in, who of them may decide or moderate, what may
                 \* happen, and a bound on decisions
  None

Scene == [online : SUBSET Devices, members : SUBSET Devices, new : SUBSET Devices,
          deciders : SUBSET Devices, most : Nat, may : SUBSET (Devices \X {"admit", "remove"} \X Devices),
          posts : SUBSET Devices, crashes : SUBSET Devices, hidden : BOOLEAN]

ASSUME KeysAssumption ==
    /\ IsFiniteSet(Devices) /\ Founder \in Devices
    /\ Rank \in [Devices -> Int] /\ \A d, e \in Devices : Rank[d] = Rank[e] => d = e
    /\ Scenes \subseteq Scene

VARIABLES
  scene,   \* the scene, with what of it is left to happen
  made,    \* every decision, in the order they were made
  known,   \* device: the decisions it has
  state,   \* device: what they make, in the order that counts
  log,     \* device: its log
  got,     \* device: of every log, how much is indexed, -1 if not accepted yet
  held,    \* device: #epochKeys
  due,     \* device: key work was asked for (#keysLater)
  work,    \* device: its key work
  rot,     \* device: its rotation
  seal     \* device: its write

heard == <<made, known, state>>
vars == <<scene, heard, log, got, held, due, work, rot, seal>>

-----------------------------------------------------------------------------
(* Decisions.                                                              *)

First == 0
epochOf(k) == IF k = First THEN 0 ELSE made[k].epoch
Inf == 1000

current(s) == Len(s.commits) - 1
currentKey(s) == s.commits[Len(s.commits)]

\* Mutant: of two rotations at once the last counts.
keyRotate_last(s, x) == [s EXCEPT !.commits = Append(@, x.key)]

\* Of two rotations at once the first in the order counts, the other's key is known.
keyRotate(s, x) ==
    IF x.epoch = current(s) + 1 THEN [s EXCEPT !.commits = Append(@, x.key)]
    ELSE IF x.epoch <= current(s) THEN [s EXCEPT !.others = @ \cup {x.key}] ELSE s

\* What a decision makes of the state, if its author may still decide.
apply(s, x) ==
    IF x.by \notin s.members \cap scene.deciders THEN s
    ELSE CASE x.op = "admit"  -> [s EXCEPT !.members = @ \cup {x.on}]
           [] x.op = "remove" -> IF x.on \in s.members
                                 THEN [s EXCEPT !.members = @ \ {x.on}, !.cut[x.on] = x.kept] ELSE s
           [] OTHER           -> keyRotate(s, x)

Start(members) ==
    [members |-> members, commits |-> <<First>>, others |-> {}, cut |-> [d \in Devices |-> Inf]]

\* The order that counts: what came before in it, and a fixed choice.
before(x, y) ==
    LET m == Cardinality(x.past)
        n == Cardinality(y.past)
    IN  m < n \/ (m = n /\ Rank[x.by] < Rank[y.by])
last(all, S) == CHOOSE n \in S : \A m \in S \ {n} : before(all[m], all[n])
viewOf(all, ns) ==
    LET upTo[S \in SUBSET ns] == IF S = {} THEN Start(scene.members)
                                ELSE apply(upTo[S \ {last(all, S)}], all[last(all, S)])
    IN  upTo[ns]

\* d records a decision; it counts here at once.
decide(d, x) ==
    LET all == Append(made, [x EXCEPT !.past = known[d]])
    IN  /\ Len(made) < scene.most
        /\ made' = all
        /\ known' = [known EXCEPT ![d] = @ \cup {Len(all)}]
        /\ state' = [state EXCEPT ![d] = viewOf(all, known[d] \cup {Len(all)})]

Decision(d, op, on) ==
    [op |-> op, by |-> d, on |-> on, epoch |-> -1, key |-> -1, kept |-> -1, past |-> {}]

isMember(d, e) == e \in state[d].members
decider(d) == d \in scene.deciders /\ isMember(d, d)

\* A decision the scene allows: someone let in, or removed with what d holds of theirs.
People(d, op, e) ==
    /\ d \in scene.online /\ <<d, op, e>> \in scene.may /\ decider(d)
    /\ \/ op = "admit" /\ ~isMember(d, e)
       \/ op = "remove" /\ isMember(d, e) /\ e # Founder
    /\ decide(d, [Decision(d, op, e) EXCEPT !.kept = IF got[d][e] > 0 THEN got[d][e] ELSE 0])
    /\ scene' = [scene EXCEPT !.may = @ \ {<<d, op, e>>}]
    /\ due' = [due EXCEPT ![d] = TRUE]
    /\ UNCHANGED <<log, got, held, work, rot, seal>>

\* d gets what e has of the decisions.
Sync(d, e) ==
    /\ d \in scene.online /\ known[e] \ known[d] # {}
    /\ known' = [known EXCEPT ![d] = @ \cup known[e]]
    /\ state' = [state EXCEPT ![d] = viewOf(made, known[d] \cup known[e])]
    /\ due' = [due EXCEPT ![d] = TRUE]
    /\ UNCHANGED <<scene, made, log, got, held, work, rot, seal>>

-----------------------------------------------------------------------------
(* Records.                                                                *)

Grant(k, to) == [op |-> "grant", key |-> k, to |-> to]
Link(k, to) == [op |-> "link", key |-> k, to |-> to]
Post(k) == [op |-> "post", key |-> k, to |-> None]

\* What counts of e's log at d.
upto(d, e) == LET n == IF d = e THEN Len(log[d]) ELSE got[d][e]
              IN  IF n < state[d].cut[e] THEN n ELSE state[d].cut[e]
indexed(d) == UNION {{log[e][n] : n \in 1 .. upto(d, e)} : e \in Devices}
grantsTo(d, e) == {r.key : r \in {r \in indexed(d) : r.op = "grant" /\ r.to = e}}
links(d) == {r \in indexed(d) : r.op = "link"}

\* Mutant: only a new log asks for key work.
Hear_accepted(d, e) ==
    /\ d \in scene.online /\ d # e /\ got[d][e] < Len(log[e])
    /\ got[d][e] >= 0 \/ isMember(d, e)
    /\ got' = [got EXCEPT ![d][e] = Len(log[e])]
    /\ due' = [due EXCEPT ![d] = @ \/ got[d][e] < 0]
    /\ UNCHANGED <<scene, heard, log, held, work, rot, seal>>

\* d gets e's log, as long as it is: a log accepted, or a grant in it, asks for
\* key work; a link does not.
Hear(d, e) ==
    /\ d \in scene.online /\ d # e /\ got[d][e] < Len(log[e])
    /\ got[d][e] >= 0 \/ isMember(d, e)
    /\ got' = [got EXCEPT ![d][e] = Len(log[e])]
    /\ due' = [due EXCEPT ![d] = @ \/ got[d][e] < 0
                  \/ \E n \in got[d][e] + 1 .. Len(log[e]) : log[e][n].op = "grant" /\ n <= state[d].cut[e]]
    /\ UNCHANGED <<scene, heard, log, held, work, rot, seal>>

append(d, rs) == log' = [log EXCEPT ![d] = @ \o rs]

-----------------------------------------------------------------------------
(* Keys held, granted and due.                                             *)

recorded(s) == ToSet(s.commits) \cup s.others
currentHeld(d) == currentKey(state[d]) \in held[d]

\* Keys the ones in ks unlock: from a later epoch only.
follow(d, ks) ==
    {r.to : r \in {r \in links(d) : r.key \in ks /\ epochOf(r.key) > epochOf(r.to)}} \cap recorded(state[d])

\* #refreshKeys: granted to d, or unlocked by a key it holds.
refreshed(d) ==
    LET mine == held[d] \cup (grantsTo(d, d) \cap recorded(state[d]))
        reach[n \in Nat] == IF n = 0 THEN mine ELSE reach[n - 1] \cup follow(d, reach[n - 1])
    IN  IF scene.hidden THEN mine ELSE reach[Len(made)]

\* #grantState: the devices granted the current key, and those that may have it.
granted(d) == LET k == currentKey(state[d])
              IN  {r.to : r \in {r \in indexed(d) : r.op = "grant" /\ r.key = k}}
\* Mutant: grants count once they are indexed.
counted_indexed(d, w) == w.granted

\* What d granted itself counts at once (#granting), with what it had read.
counted(d, w) == w.granted \cup {r.to : r \in {r \in ToSet(log[d]) : r.op = "grant" /\ r.key = currentKey(w.keys)}}

entitled(d) == {e \in Devices : isMember(d, e) /\ (e = d \/ got[d][e] >= 0)}

\* #change, of the keys and grants read before and who may read now.
change(d, s, gs) ==
    IF ~(gs \subseteq entitled(d)) THEN "now"
    ELSE IF \/ scene.hidden /\ ~(entitled(d) \subseteq gs)
            \/ \E k \in s.others \cap held[d] : epochOf(k) = current(s)
         THEN "soon" ELSE "no"

-----------------------------------------------------------------------------
(* Key work.                                                               *)

Idle == [pc |-> "idle", keys |-> None, granted |-> {}, todo |-> <<>>]
idle(d, f) == [f EXCEPT ![d] = Idle]

\* Keys are refreshed; with the current one held, grants are read.
WorkStart(d) ==
    /\ d \in scene.online /\ due[d] /\ work[d].pc = "idle"
    /\ due' = [due EXCEPT ![d] = FALSE]
    /\ held' = [held EXCEPT ![d] = refreshed(d)]
    /\ work' = IF currentKey(state[d]) \in held'[d]
               THEN [work EXCEPT ![d] = [Idle EXCEPT !.pc = "judge", !.keys = state[d], !.granted = granted(d)]]
               ELSE work
    /\ UNCHANGED <<scene, heard, log, got, rot, seal>>

\* One rotation at a time from a device (#rotateOnce).
rotateOnce(d) == rot' = IF rot[d].pc = "idle" THEN [rot EXCEPT ![d].pc = "decide"] ELSE rot

\* Who may read by now: the key is changed, by who may, or granted to who lacks it.
WorkJudge(d) ==
    LET w == work[d]
        c == change(d, w.keys, counted(d, w))
    IN  /\ w.pc = "judge"
        /\ \/ /\ c # "no" /\ decider(d)
              /\ rotateOnce(d)
              /\ work' = [work EXCEPT ![d].pc = "rotating"]
           \/ /\ ~(c # "no" /\ decider(d))
              /\ work' = IF c = "now" \/ scene.hidden THEN idle(d, work)
                         ELSE [work EXCEPT ![d].pc = "grant", ![d].todo = SetToSeq(entitled(d) \ counted(d, w))]
              /\ UNCHANGED rot
        /\ UNCHANGED <<scene, heard, log, got, held, due, seal>>

\* Mutant: a grant is not judged again.
grant_listed(d, e) == IF currentHeld(d) THEN <<Grant(currentKey(state[d]), e)>> ELSE <<>>

\* #grant: judged again at the moment of granting.
grant(d, e) == IF isMember(d, e) /\ currentHeld(d) THEN <<Grant(currentKey(state[d]), e)>> ELSE <<>>

WorkGrant(d) ==
    /\ work[d].pc = "grant" /\ work[d].todo # <<>>
    /\ append(d, grant(d, Head(work[d].todo)))
    /\ work' = [work EXCEPT ![d].todo = Tail(@)]
    /\ due' = [due EXCEPT ![d] = @ \/ grant(d, Head(work[d].todo)) # <<>>]
    /\ UNCHANGED <<scene, heard, got, held, rot, seal>>

\* Keys of an earlier epoch.
linkable(d, s) == {k \in recorded(s) \cap held[d] : epochOf(k) < current(s)}

\* #link: those the key of the keys read before does not reach yet are linked to it.
WorkLink(d) ==
    LET s == work[d].keys
        reach[n \in Nat] == IF n = 0 THEN {currentKey(s)}
                           ELSE reach[n - 1] \cup {r.to : r \in {r \in links(d) : r.key \in reach[n - 1]}}
    IN  /\ work[d].pc = "grant" /\ work[d].todo = <<>>
        /\ append(d, SetToSeq({Link(currentKey(s), k) : k \in
                        IF currentKey(s) \in held[d] THEN linkable(d, s) \ reach[Len(made)] ELSE {}}))
        /\ work' = idle(d, work)
        /\ UNCHANGED <<scene, heard, got, held, due, rot, seal>>

WorkRotated(d) ==
    /\ work[d].pc = "rotating" /\ rot[d].pc = "idle"
    /\ work' = idle(d, work)
    /\ UNCHANGED <<scene, heard, log, got, held, due, rot, seal>>

-----------------------------------------------------------------------------
(* A rotation (#rotate).                                                   *)

RotateDecide(d) ==
    /\ rot[d].pc = "decide"
    /\ decide(d, [Decision(d, "rotate", None) EXCEPT !.epoch = current(state[d]) + 1, !.key = Len(made) + 1])
    /\ rot' = [rot EXCEPT ![d] = [Idle EXCEPT !.pc = "decided", !.keys = Len(made) + 1]]
    /\ due' = [due EXCEPT ![d] = TRUE]
    /\ UNCHANGED <<scene, log, got, held, work, seal>>

\* Another rotation came first in the order: its key comes by a grant instead.
RotateKeep(d) ==
    LET k == rot[d].keys
        won == k \in ToSet(state[d].commits)
    IN  /\ rot[d].pc = "decided"
        /\ held' = IF won THEN [held EXCEPT ![d] = @ \cup {k}] ELSE held
        /\ rot' = IF won THEN [rot EXCEPT ![d] = [Idle EXCEPT !.pc = "grant", !.todo = SetToSeq(entitled(d))]]
                  ELSE idle(d, rot)
        /\ UNCHANGED <<scene, heard, log, got, due, work, seal>>

RotateGrant(d) ==
    /\ rot[d].pc = "grant" /\ rot[d].todo # <<>>
    /\ append(d, grant(d, Head(rot[d].todo)))
    /\ rot' = [rot EXCEPT ![d].todo = Tail(@)]
    /\ due' = [due EXCEPT ![d] = @ \/ grant(d, Head(rot[d].todo)) # <<>>]
    /\ UNCHANGED <<scene, heard, got, held, work, seal>>

RotateEnd(d) ==
    /\ rot[d].pc = "grant" /\ rot[d].todo = <<>>
    /\ rot' = idle(d, rot)
    /\ due' = [due EXCEPT ![d] = TRUE]
    /\ UNCHANGED <<scene, heard, log, got, held, work, seal>>

-----------------------------------------------------------------------------
(* A write (#sealer, then the append).                                     *)

SealStart(d) ==
    /\ d \in scene.online /\ d \in scene.posts /\ seal[d].pc = "idle" /\ currentHeld(d) /\ isMember(d, d)
    /\ seal' = [seal EXCEPT ![d] = [Idle EXCEPT !.pc = "judge", !.keys = state[d], !.granted = granted(d)]]
    /\ UNCHANGED <<scene, heard, log, got, held, due, work, rot>>

safeToSeal(d, c) == currentHeld(d) /\ (c = "no" \/ (c = "soon" /\ ~decider(d)))

\* Sealed with the key that is current by now, or changed first by who may, or
\* later: the write waits.
SealJudge(d) ==
    LET c == change(d, seal[d].keys, counted(d, seal[d]))
    IN  /\ seal[d].pc = "judge"
        /\ \/ /\ safeToSeal(d, c)
              /\ append(d, <<Post(currentKey(state[d]))>>)
              /\ scene' = [scene EXCEPT !.posts = @ \ {d}]
              /\ seal' = idle(d, seal)
              /\ UNCHANGED rot
           \/ /\ ~safeToSeal(d, c)
              /\ IF currentHeld(d) /\ decider(d)
                 THEN rotateOnce(d) /\ seal' = [seal EXCEPT ![d].pc = "rotating"]
                 ELSE seal' = idle(d, seal) /\ UNCHANGED rot
              /\ UNCHANGED <<scene, log>>
        /\ UNCHANGED <<heard, got, held, due, work>>

SealRotated(d) ==
    /\ seal[d].pc = "rotating" /\ rot[d].pc = "idle"
    /\ seal' = idle(d, seal)
    /\ UNCHANGED <<scene, heard, log, got, held, due, work, rot>>

\* The app dies and opens the space again: keys are in memory only.
Crash(d) ==
    /\ d \in scene.online /\ d \in scene.crashes
    /\ scene' = [scene EXCEPT !.crashes = @ \ {d}]
    /\ held' = [held EXCEPT ![d] = {}]
    /\ work' = idle(d, work) /\ rot' = idle(d, rot) /\ seal' = idle(d, seal)
    /\ due' = [due EXCEPT ![d] = TRUE]
    /\ UNCHANGED <<heard, log, got>>

-----------------------------------------------------------------------------
\* The founder made the space, wrote a record, and granted its first key to who
\* is in, save those who just came.
Init ==
    /\ scene \in Scenes
    /\ made = <<>> /\ known = [d \in Devices |-> {}]
    /\ state = [d \in Devices |-> Start(scene.members)]
    /\ log = [d \in Devices |-> IF d = Founder THEN <<Post(First)>> \o SetToSeq({Grant(First, e) : e \in scene.members \ scene.new})
                               ELSE <<>>]
    /\ got = [d \in Devices |-> [e \in Devices |-> IF e \in scene.members THEN Len(log[e]) ELSE -1]]
    /\ held = [d \in Devices |-> IF d \in scene.members \ scene.new THEN {First} ELSE {}]
    /\ due = [d \in Devices |-> scene.new # {}]
    /\ work = [d \in Devices |-> Idle] /\ rot = work /\ seal = work

KeyWork(d) == WorkStart(d) \/ WorkJudge(d) \/ WorkGrant(d) \/ WorkLink(d) \/ WorkRotated(d)
Rotation(d) == RotateDecide(d) \/ RotateKeep(d) \/ RotateGrant(d) \/ RotateEnd(d)
Write(d) == SealStart(d) \/ SealJudge(d) \/ SealRotated(d)

Next ==
    \E d \in Devices :
        \/ KeyWork(d) \/ Rotation(d) \/ Write(d) \/ Crash(d)
        \/ \E e \in Devices : Sync(d, e) \/ Hear(d, e) \/ \E op \in {"admit", "remove"} : People(d, op, e)

\* Devices are connected in the end, and their event loops run.
Fairness ==
    \A d \in Devices : /\ WF_vars(KeyWork(d)) /\ WF_vars(Rotation(d))
                       /\ \A e \in Devices : WF_vars(Sync(d, e)) /\ WF_vars(Hear(d, e))

Spec == Init /\ [][Next]_vars /\ Fairness

-----------------------------------------------------------------------------
(* Properties.                                                             *)

Keys == {First} \cup {made[n].key : n \in {n \in DOMAIN made : made[n].op = "rotate"}}

\* What a device holds and finds recorded are keys of the space, in the order of
\* their epochs.
KeysTypeOK ==
    /\ Len(made) <= scene.most
    /\ \A d \in Devices : /\ known[d] \subseteq DOMAIN made
                          /\ held[d] \subseteq Keys /\ recorded(state[d]) \subseteq Keys
                          /\ \A n \in DOMAIN state[d].commits : epochOf(state[d].commits[n]) = n - 1
                          /\ \A n \in DOMAIN log[d] : log[d][n].key \in Keys

\* While the key stays the one a write looked at, it is never sealed with one
\* that someone out of the space holds, by a grant its author had read then or
\* wrote itself since, however key work, decisions and changes of the key
\* come in between.
SealedForMembers ==
    [][\A d \in Devices : \A e \in Devices :
         LET k == log'[d][Len(log'[d])].key
         IN  /\ Len(log'[d]) > Len(log[d]) /\ log'[d][Len(log'[d])].op = "post"
             /\ k = currentKey(seal[d].keys) /\ ~isMember(d, e)
             => e \notin seal[d].granted /\ Grant(k, e) \notin ToSet(log[d])]_vars

\* Who a decision's author knew to be removed, and nobody let in since.
Removed(x) ==
    {made[m].on : m \in {m \in x.past : /\ made[m].op = "remove"
                                        /\ \A n \in DOMAIN made : made[n].op = "admit" /\ made[n].on = made[m].on
                                             => n \in made[m].past}}
Records == UNION {ToSet(log[d]) : d \in Devices}
\* The keys d could open of all that was ever written.
Openable(d) ==
    LET reach[n \in Nat] ==
            IF n = 0 THEN {r.key : r \in {r \in Records : r.op = "grant" /\ r.to = d}}
            ELSE reach[n - 1] \cup {r.to : r \in {r \in Records : r.op = "link" /\ r.key \in reach[n - 1]}}
    IN  reach[Len(made)]

\* A key made by someone who knew of a removal never reaches who was removed,
\* by a grant, whoever writes it and whatever changed since it was decided on,
\* or by links from the keys they have of either side of a race.  (As long as
\* who makes the keys after it knew of the removal too.)
NewKeysStayIn ==
    \A n \in {n \in DOMAIN made : made[n].op = "rotate"} :
        \A e \in Removed(made[n]) :
            (\A m \in DOMAIN made : made[m].op = "rotate" /\ made[m].epoch > made[n].epoch => e \in Removed(made[m]))
            => made[n].key \notin Openable(e)

Final == viewOf(made, DOMAIN made)
\* The bound on decisions keeps a rotation waiting.
AtBound == Len(made) = scene.most /\ \E d \in Devices : rot[d].pc = "decide"
\* Once nobody is let in or removed any more, every member's device gets the
\* current key and keeps it: changes come to an end.
KeyReachesMembers ==
    <>[](AtBound \/ \A d \in Final.members \cap scene.online : currentKey(Final) \in held[d])

Counting(e) == {log[e][n] : n \in {n \in DOMAIN log[e] : n <= Final.cut[e]}}
\* Every post stays readable for every member.
EveryPostReadable ==
    <>[](\A d \in Final.members \cap scene.online, e \in Devices : \A r \in Counting(e) : r.op = "post" => r.key \in held[d])
=============================================================================
