------------------------------ MODULE Indexer ------------------------------
(***************************************************************************)
(* One device's index of one space (lib/index/indexer.js, lib/gate.js,     *)
(* _bounded and #cut of lib/space.js).  Device logs are scanned in runs,   *)
(* one per log at a time; what a run found is applied to the rows by a     *)
(* task of the one write queue, which also carries the tasks of decisions  *)
(* (cuts, moderation, edit rights).  Blocks are downloaded in any order, a *)
(* run sees other steps between its awaits, and the process may die        *)
(* between any two steps.                                                  *)
(*                                                                         *)
(* The space has no write limit, app rules or tags and is not personal;    *)
(* what those add is not modelled.                                         *)
(***************************************************************************)
EXTENDS Integers, FiniteSets, Sequences, SequencesExt

CONSTANTS
  Logs,           \* device logs the gate accepted
  Author,         \* of a log: the identity it belongs to
  Rank,           \* of a log: where its device key sorts
  OnePerMember,   \* types of which a member's latest put on a target counts
  Editable,       \* of a type: who may edit, "author", "members" or "permission"
  MaxLen,         \* bound: blocks of a log, its header included
  Batch,          \* code: BATCH, blocks per transaction
  Scenes,         \* inputs: what the logs hold and what may happen
  None

ASSUME IndexAssumption ==
    /\ Batch \in Nat \ {0} /\ MaxLen \in Nat /\ None \notin {"hidden", "shown", "removed"}
    /\ IsFiniteSet(Logs) /\ Rank \in [Logs -> Int] /\ None \notin [Logs -> Nat] \cup [changes : BOOLEAN, records : BOOLEAN]

Inf == MaxLen + 1
Ids == Logs \X (1 .. MaxLen - 1)
Places == 1 .. MaxLen

\* A block is a put, or a change of the record `on`.
BlockType == [kind : {"put", "edit", "delete"}, type : DOMAIN Editable, on : Logs \X (0 .. MaxLen - 1), stamp : Nat]
Decision ==
    [op : {"moderate"}, on : Ids, as : {"hidden", "shown", "removed"}]
    \cup [op : {"cut"}, on : Logs, as : Places] \cup [op : {"rights"}, on : Logs, as : Nat]

\* start, held: of a log, its length and the blocks held at first; gone: deleted
\* everywhere; locked: sealed with a key this device does not have; decide:
\* decisions that may come, moves of them; editor: what editLimit is at first.
Scene == [content : [Logs -> Seq(BlockType)], start : [Logs -> Places], held : [Logs -> SUBSET (1 .. MaxLen - 1)],
          grows : BOOLEAN, gone : SUBSET Ids, locked : SUBSET Ids, decide : SUBSET Decision, moves : Nat,
          crashes : Nat, reads : BOOLEAN, editor : [Logs -> Nat]]

\* A change names a block; no two blocks have the same stamp and device (lib/stamp.js).
SceneOK(s) ==
    /\ s \in Scene
    /\ \A l \in Logs : Len(s.content[l]) < MaxLen /\ s.start[l] <= Len(s.content[l]) + 1
    /\ \A l \in Logs : \A n \in DOMAIN s.content[l] :
          /\ s.content[l][n].kind # "put" => s.content[l][n].on \in Ids
          /\ \A k \in Logs : \A m \in DOMAIN s.content[k] :
                s.content[l][n].stamp = s.content[k][m].stamp /\ Rank[l] = Rank[k] => l = k /\ n = m

ASSUME SceneAssumption == \A s \in Scenes : SceneOK(s)

VARIABLES
  scene,    \* the scene, with what of it is left to happen
  length,   \* log: its length, the header included
  held,     \* log: blocks held
  rows,     \* on disk, record id: its row
  changes,  \* on disk: ids of the edits and deletes kept
  saved,    \* on disk, log: `indexed` and `cut` of its row
  limit,    \* decided, log: the length its cut leaves
  elimit,   \* decided, log: below it, edits by permission count
  mods,     \* decided, record id: its moderation
  log,      \* in memory, log: the directory's entry
  run,      \* in memory, log: its run
  queue,    \* in memory: the write queue
  after,    \* in memory: committed tasks whose blocks are still to clear
  hearing,  \* in memory: runs of #onDecisions
  memo,     \* in memory: what the indexer remembers (had, targets, applied, rights)
  reader    \* a bounded read

disk == <<rows, changes, saved>>
decided == <<limit, elimit, mods>>
vars == <<scene, length, held, disk, decided, log, run, queue, after, hearing, memo, reader>>

Block(i) == scene.content[i[1]][i[2]]
Target(i) == Block(i).on
Known(l) == 1 .. length[l] - 1
Entry(indexed, cut) ==
    [scanned |-> indexed, indexed |-> indexed, limit |-> cut, cut |-> cut, holes |-> {},
     arrived |-> {}, again |-> FALSE, uncommitted |-> FALSE, timer |-> FALSE]
Idle == [pc |-> "idle", batch |-> <<>>, end |-> 1, look |-> 0]
lowest(S) == CHOOSE n \in S : \A m \in S : n <= m
Indexed(e) == IF e.holes # {} THEN lowest(e.holes) ELSE e.scanned

-----------------------------------------------------------------------------
(* The gate and "latest wins" (lib/gate.js, lib/stamp.js).                 *)

\* Does block i win over block j?  Ties go to the lower device key.
compare(i, j) ==
    \/ Block(i).stamp > Block(j).stamp
    \/ Block(i).stamp = Block(j).stamp /\ Rank[i[1]] < Rank[j[1]]

latest(S) == CHOOSE i \in S : \A j \in S \ {i} : compare(i, j)

mayEdit(c, i) ==
    \/ Author[c[1]] = Author[i[1]]
    \/ Editable[Block(i).type] = "members"
    \/ Editable[Block(i).type] = "permission" /\ c[2] < elimit[c[1]]

mayChange(c, i) ==
    /\ Block(c).type = Block(i).type
    /\ IF Block(c).kind = "delete" THEN Author[c[1]] = Author[i[1]] ELSE mayEdit(c, i)

-----------------------------------------------------------------------------
(* Tasks on the rows.  A task folds steps over ix, what the transaction    *)
(* wrote so far.                                                           *)

Drop(f, i) == [j \in DOMAIN f \ {i} |-> f[j]]
Put(f, i, r) == [j \in DOMAIN f \cup {i} |-> IF j = i THEN r ELSE f[j]]
Of(ix, i) == {c \in ix.changes : Target(c) = i}
Group(i) == <<Author[i[1]], Block(i).type, Target(i)>>
Rivals(ix, i) == IF Block(i).type \in OnePerMember
                 THEN {j \in DOMAIN ix.rows : Group(j) = Group(i) /\ j # i} ELSE {}

\* A group lost row i: the latest of the others counts again.
regroup(ix, i) ==
    LET others == Rivals(ix, i)
    IN  [ix EXCEPT !.rows = [j \in DOMAIN @ \ {i} |->
            IF j \in others THEN [@[j] EXCEPT !.superseded = (j # latest(others))] ELSE @[j]]]

\* Mutant: the last edit to arrive wins.
settle_arrival(ix, i, r, cs) ==
    LET allowed == {c \in cs : mayChange(c, i)}
        dels == {c \in allowed : Block(c).kind = "delete"}
    IN  IF dels # {} THEN [ix EXCEPT !.rows = Drop(@, i), !.clears = @ \cup {i}]
        ELSE [ix EXCEPT !.rows = Put(@, i, IF allowed = {} THEN r ELSE [r EXCEPT !.v = latest(allowed)])]

\* The allowed changes among cs applied to the row r of i: a delete takes it
\* away (without a look at its group), the latest edit becomes its version.
settle(ix, i, r, cs) ==
    LET allowed == {c \in cs : mayChange(c, i)}
        dels == {c \in allowed : Block(c).kind = "delete"}
    IN  IF dels # {}
        THEN [ix EXCEPT !.rows = Drop(@, i),
                        !.clears = @ \cup {i} \cup {c \in Of(ix, i) : Block(c).kind = "edit"}]
        ELSE [ix EXCEPT !.rows = Put(@, i, IF allowed # {} /\ compare(latest(allowed), r.v)
                                           THEN [r EXCEPT !.v = latest(allowed)] ELSE r)]

\* An edit or a delete: kept by its target, applied if the target is here.
takeChange(ix, c) ==
    LET i == Target(c)
        kept == [ix EXCEPT !.changes = @ \cup {c}, !.targets = @ \cup {i}]
    IN  IF mods[i] = "removed" THEN [ix EXCEPT !.clears = @ \cup {c}]
        ELSE IF i \in DOMAIN ix.rows THEN settle(kept, i, ix.rows[i], {c})
        ELSE [kept EXCEPT !.wiped = @ \cup (IF Block(c).kind = "delete" THEN {c} ELSE {})]

\* A put: a row, with the changes that came before it.
takePut(ix, i) ==
    LET row == [v |-> i, superseded |-> FALSE, hidden |-> mods[i] = "hidden"]
        pending == IF memo.had.changes \/ i \in ix.targets THEN Of(ix, i) ELSE {}
        settled == settle(ix, i, row, pending)
        active == {j \in Rivals(ix, i) : ~ix.rows[j].superseded}
    IN  IF memo.had.records /\ i \in DOMAIN ix.rows THEN ix
        ELSE IF mods[i] = "removed" THEN [ix EXCEPT !.clears = @ \cup {i}]
        ELSE IF i \notin DOMAIN settled.rows THEN settled
        ELSE [settled EXCEPT !.rows = [j \in DOMAIN @ |->
                IF j \in active /\ compare(i, j) THEN [@[j] EXCEPT !.superseded = TRUE]
                ELSE IF j = i /\ \E k \in active : ~compare(i, k) THEN [@[j] EXCEPT !.superseded = TRUE]
                ELSE @[j]]]

one(ix, i) ==
    IF i[2] >= log[i[1]].limit THEN ix   \* cut while this batch waited
    ELSE IF Block(i).kind = "put" THEN takePut(ix, i) ELSE takeChange(ix, i)

\* A record's version again from its put and the changes left.
resettle(ix, i) == settle(ix, i, [ix.rows[i] EXCEPT !.v = i], Of(ix, i))

\* Undoes what block i did.
uncount(ix, i) ==
    LET left == [ix EXCEPT !.changes = @ \ {i}]
    IN  IF i \in DOMAIN ix.rows THEN regroup(ix, i)
        ELSE IF i \in ix.changes /\ Target(i) \in DOMAIN ix.rows THEN resettle(left, Target(i))
        ELSE left

\* A record taken down goes, with the blocks of its edits.
takeDown(ix, i) ==
    IF i \in DOMAIN ix.rows
    THEN [regroup(ix, i) EXCEPT !.clears = @ \cup {i} \cup Of(ix, i)]
    ELSE [ix EXCEPT !.clears = @ \cup {i}]

moderateOne(ix, i, m) ==
    IF m = "removed" THEN takeDown(ix, i)
    ELSE IF i \in DOMAIN ix.rows THEN [ix EXCEPT !.rows[i].hidden = (m = "hidden")] ELSE ix

Shared(i) == Editable[Block(i).type] = "permission"

step(t, ix, i) ==
    CASE t.op = "batch"    -> one(ix, i)
      [] t.op = "cut"      -> uncount(ix, i)
      [] t.op = "moderate" -> moderateOne(ix, i, t.mods[i])
      [] t.op = "rights"   -> IF i \in DOMAIN ix.rows /\ Shared(i) THEN resettle(ix, i) ELSE ix

\* What a task makes of the index; t.blocks is the order it takes them in.
Effect(t) ==
    LET upTo[n \in 0 .. Len(t.blocks)] ==
            IF n = 0 THEN [rows |-> rows, changes |-> changes, targets |-> memo.targets, clears |-> {}, wiped |-> {}]
            ELSE step(t, upTo[n - 1], t.blocks[n])
    IN  upTo[Len(t.blocks)]

\* The blocks of q, of log l, at the places P, in order.
those(l, q, P) ==
    [n \in 1 .. Cardinality(P) |-> <<l, q[CHOOSE p \in P : Cardinality({o \in P : o <= p}) = n]>>]

-----------------------------------------------------------------------------
\* No step comes between a task's last await and its end: a committed task
\* with no block left to clear is finished first.
Prompt == \A a \in after : a.clears # {}

(* Runs: index(), #run and what its end leaves.                            *)

\* index(l): starts a run, or makes the one there is go round again.
Called(l, e) == IF run[l].pc = "idle" THEN e ELSE [e EXCEPT !.again = TRUE]
Started(l) == IF run[l].pc = "idle" THEN [Idle EXCEPT !.pc = "start"] ELSE run[l]
Index(l, e) == log' = [log EXCEPT ![l] = Called(l, e)] /\ run' = [run EXCEPT ![l] = Started(l)]
IndexAll(f) == log' = [l \in Logs |-> Called(l, f[l])] /\ run' = [l \in Logs |-> Started(l)]

\* The author appends, or a peer tells of a longer log.
Grow(l) ==
    /\ Prompt /\ length[l] <= Len(scene.content[l])
    /\ length' = [length EXCEPT ![l] = @ + 1]
    /\ Index(l, log[l])
    /\ UNCHANGED <<scene, held, disk, decided, queue, after, hearing, memo, reader>>

\* A block arrives: below `scanned` it may be a hole, or about to become one.
arrived(e, s) == IF s < e.scanned THEN [e EXCEPT !.arrived = @ \cup {s}] ELSE e

Download(l, s) ==
    /\ Prompt /\ s \in Known(l) \ held[l] /\ <<l, s>> \notin scene.gone
    /\ s >= log[l].indexed /\ s < log[l].limit   \* the range of the download
    /\ held' = [held EXCEPT ![l] = @ \cup {s}]
    /\ Index(l, arrived(log[l], s))
    /\ UNCHANGED <<scene, length, disk, decided, queue, after, hearing, memo, reader>>

\* Mutant: a batch is not missing anything while it waits.
RunTake_committed(l) ==
    /\ Prompt /\ run[l].pc \in {"start", "take"}
    /\ memo' = [memo EXCEPT !.had = IF @ # None THEN @ ELSE [changes |-> changes # {}, records |-> DOMAIN rows # {}]]
    /\ log' = [log EXCEPT ![l].arrived = {}, ![l].again = IF run[l].pc = "start" THEN FALSE ELSE @]
    /\ run' = [run EXCEPT ![l] = [@ EXCEPT !.pc = "scan", !.batch = SetToSeq(log[l].arrived \cap log[l].holes \cap held[l]),
                    !.end = IF length[l] < log[l].limit THEN length[l] ELSE log[l].limit]]
    /\ UNCHANGED <<scene, length, held, disk, decided, queue, after, hearing, reader>>

\* A round, then a batch: it begins with the holes that arrived; a block
\* announced again while it is read waits for the next one.
RunTake(l) ==
    /\ Prompt /\ run[l].pc \in {"start", "take"}
    /\ memo' = [memo EXCEPT !.had = IF @ # None THEN @ ELSE [changes |-> changes # {}, records |-> DOMAIN rows # {}]]
    /\ \E S \in SUBSET log[l].arrived :
         LET taken == S \cap log[l].holes \cap held[l]
         IN  /\ Cardinality(taken) <= Batch
             /\ S = log[l].arrived \/ Cardinality(taken) = Batch
             /\ log' = [log EXCEPT ![l].arrived = @ \ S, ![l].uncommitted = TRUE,
                                   ![l].again = IF run[l].pc = "start" THEN FALSE ELSE @]
             /\ run' = [run EXCEPT ![l] = [@ EXCEPT !.pc = "scan", !.batch = SetToSeq(taken),
                            !.end = IF length[l] < log[l].limit THEN length[l] ELSE log[l].limit]]
    /\ UNCHANGED <<scene, length, held, disk, decided, queue, after, hearing, reader>>

MoreToScan(l) == Len(run[l].batch) < Batch /\ log[l].scanned < run[l].end

\* The next block: in the batch if held, else a hole unless known to be wiped,
\* which is looked up after.
RunScan(l) ==
    LET s == log[l].scanned
    IN  /\ Prompt /\ run[l].pc = "scan" /\ MoreToScan(l)
        /\ log' = [log EXCEPT ![l].scanned = @ + 1]
        /\ run' = [run EXCEPT ![l] = IF s \in held[l] THEN [@ EXCEPT !.batch = Append(run[l].batch, s)]
                                     ELSE [@ EXCEPT !.pc = "note", !.look = s]]
        /\ UNCHANGED <<scene, length, held, disk, decided, queue, after, hearing, memo, reader>>

wipedByAuthor(i) ==
    \/ mods[i] = "removed"
    \/ \E c \in changes : Target(c) = i /\ Block(c).kind = "delete" /\ Author[c[1]] = Author[i[1]]

RunNote(l) ==
    /\ Prompt /\ run[l].pc = "note"
    /\ log' = [log EXCEPT ![l].holes = IF wipedByAuthor(<<l, run[l].look>>) THEN @ ELSE @ \cup {run[l].look}]
    /\ run' = [run EXCEPT ![l].pc = "scan"]
    /\ UNCHANGED <<scene, length, held, disk, decided, queue, after, hearing, memo, reader>>

\* The batch is full or the log ends: locked records go back to the holes, and
\* what is left, or a new place to start from, becomes a task.
RunBatch(l) ==
    LET open == {s \in ToSet(run[l].batch) : <<l, s>> \notin scene.locked}
        e == [log[l] EXCEPT !.holes = (@ \cup ToSet(run[l].batch)) \ open]
        nothing == open = {} /\ Indexed(e) = e.indexed
    IN  /\ Prompt /\ run[l].pc = "scan" /\ ~MoreToScan(l)
        /\ \/ /\ nothing
              /\ log' = [log EXCEPT ![l] = [e EXCEPT !.uncommitted = FALSE]]
              /\ run' = [run EXCEPT ![l] = [Idle EXCEPT !.pc =
                    IF e.scanned < run[l].end \/ e.arrived # {} THEN "take"
                    ELSE IF e.again THEN "start" ELSE "leaving"]]
              /\ UNCHANGED queue
           \/ /\ ~nothing
              /\ log' = [log EXCEPT ![l] = e]
              /\ run' = [run EXCEPT ![l].pc = "queued"]
              /\ queue' = Append(queue, [op |-> "batch", of |-> l, indexed |-> Indexed(e),
                    blocks |-> those(l, run[l].batch, {p \in DOMAIN run[l].batch : run[l].batch[p] \in open})])
        /\ UNCHANGED <<scene, length, held, disk, decided, after, hearing, memo, reader>>

\* Mutant: holes are not looked at again.
RunEnd_once(l) ==
    /\ Prompt /\ run[l].pc = "leaving"
    /\ run' = [run EXCEPT ![l] = Idle]
    /\ log' = [log EXCEPT ![l].uncommitted = FALSE]
    /\ UNCHANGED <<scene, length, held, disk, decided, queue, after, hearing, memo, reader>>

\* The run's promise settles: the log may run again; holes are looked at again
\* after a wait.  A call since the run left its loop only set `again`.
RunEnd(l) ==
    /\ Prompt /\ run[l].pc = "leaving"
    /\ run' = [run EXCEPT ![l] = Idle]
    /\ log' = [log EXCEPT ![l].uncommitted = FALSE, ![l].timer = @ \/ log[l].holes # {}]
    /\ UNCHANGED <<scene, length, held, disk, decided, queue, after, hearing, memo, reader>>

HoleTimer(l) ==
    /\ Prompt /\ log[l].timer
    /\ Index(l, [log[l] EXCEPT !.timer = FALSE, !.arrived = @ \cup log[l].holes])
    /\ UNCHANGED <<scene, length, held, disk, decided, queue, after, hearing, memo, reader>>

\* A grant brings the key of locked records (lib/space.js #refreshKeys).
Unlock ==
    /\ Prompt /\ scene.locked # {}
    /\ scene' = [scene EXCEPT !.locked = {}]
    /\ IndexAll([l \in Logs |-> [log[l] EXCEPT !.arrived = @ \cup log[l].holes]])
    /\ UNCHANGED <<length, held, disk, decided, queue, after, hearing, memo, reader>>

-----------------------------------------------------------------------------
(* The write queue.                                                        *)

\* What the head task writes, whatever it is for.
Apply(t, ix) ==
    /\ Prompt /\ t = Head(queue)
    /\ queue' = Tail(queue)
    /\ rows' = ix.rows /\ changes' = ix.changes
    /\ after' = after \cup {[op |-> t.op, of |-> t.of, clears |-> ix.clears, wiped |-> ix.wiped,
                             noted |-> ix.rows # rows]}
    /\ UNCHANGED <<scene, length, held, decided, hearing, reader>>

CommitBatch ==
    \E t \in ToSet(queue) :
      LET ix == Effect(t)
      IN  /\ t.op = "batch"
          /\ Apply(t, ix)
          /\ saved' = [saved EXCEPT ![t.of] = [indexed |-> t.indexed, cut |-> log[t.of].cut]]
          /\ log' = [log EXCEPT ![t.of].indexed = t.indexed, ![t.of].uncommitted = FALSE]
          /\ memo' = [memo EXCEPT !.targets = ix.targets]
          /\ UNCHANGED run

\* A cut's task takes the log's place from memory, as the scan left it.
CommitCut ==
    \E t \in ToSet(queue) :
      LET e == [log[t.of] EXCEPT !.indexed = Indexed(log[t.of]), !.cut = t.limit]
      IN  /\ t.op = "cut"
          /\ Apply(t, Effect(t))
          /\ log' = [log EXCEPT ![t.of] = e]
          /\ saved' = [saved EXCEPT ![t.of] = [indexed |-> e.indexed, cut |-> e.cut]]
          /\ UNCHANGED <<run, memo>>

\* Holes of records taken down are done (wiped()).
CommitModeration ==
    \E t \in ToSet(queue) :
      LET gone(l) == {s \in log[l].holes : <<l, s>> \in ToSet(t.blocks) /\ t.mods[<<l, s>>] = "removed"}
      IN  /\ t.op = "moderate"
          /\ Apply(t, Effect(t))
          /\ memo' = [memo EXCEPT !.applied = [i \in Ids |-> IF i \in ToSet(t.blocks) THEN t.mods[i] ELSE @[i]]]
          /\ log' = [l \in Logs |-> IF gone(l) = {} THEN log[l]
                                    ELSE Called(l, [log[l] EXCEPT !.holes = @ \ gone(l)])]
          /\ run' = [l \in Logs |-> IF gone(l) = {} THEN run[l] ELSE Started(l)]
          /\ UNCHANGED saved

CommitRights ==
    \E t \in ToSet(queue) :
      /\ t.op = "rights"
      /\ Apply(t, Effect([t EXCEPT !.blocks = SetToSeq({Target(c) : c \in changes})]))
      /\ UNCHANGED <<saved, log, run, memo>>

\* Blocks a committed task leaves to clear, one after the other.
Clear(a, i) ==
    /\ Prompt /\ i \in a.clears
    /\ held' = [held EXCEPT ![i[1]] = @ \ {i[2]}]
    /\ after' = (after \ {a}) \cup {[a EXCEPT !.clears = @ \ {i}]}
    /\ UNCHANGED <<scene, length, disk, decided, log, run, queue, hearing, memo, reader>>

\* Only then do readers hear that the index changed.
Finish(a) ==
    /\ a.clears = {}
    /\ after' = after \ {a}
    /\ reader' = IF a.noted THEN [reader EXCEPT !.fresh = FALSE] ELSE reader
    /\ UNCHANGED <<scene, length, disk, decided, queue, memo>>

\* Mutant: a delete says nothing of the hole its record left.
FinishBatch_holes(a) ==
    /\ a.op = "batch" /\ Finish(a)
    /\ run' = [run EXCEPT ![a.of] = [Idle EXCEPT !.pc = "take"]]
    /\ UNCHANGED <<held, hearing, log>>

\* A batch's run goes on; holes its deletes name are done.
FinishBatch(a) ==
    LET gone(l) == {s \in log[l].holes : \E c \in a.wiped : Target(c) = <<l, s>> /\ Author[c[1]] = Author[l]}
    IN  /\ a.op = "batch" /\ Finish(a)
        /\ log' = [l \in Logs |-> IF gone(l) = {} THEN log[l]
                                  ELSE Called(l, [log[l] EXCEPT !.holes = @ \ gone(l)])]
        /\ run' = [l \in Logs |-> IF l = a.of THEN [Idle EXCEPT !.pc = "take"]
                                  ELSE IF gone(l) # {} THEN Started(l) ELSE run[l]]
        /\ UNCHANGED <<held, hearing>>

\* A cut log's blocks past its limit are not kept.
FinishCut(a) ==
    /\ a.op = "cut" /\ Finish(a)
    /\ held' = [held EXCEPT ![a.of] = {s \in @ : s < log[a.of].limit}]
    /\ UNCHANGED <<log, run, hearing>>

\* A run of #onDecisions goes on: moderation, then edit rights, then done.
FinishDecision(a) ==
    /\ a.op \in {"moderate", "rights"} /\ Finish(a)
    /\ hearing' = {IF h.n = a.of THEN [h EXCEPT !.stage = "rights"] ELSE h :
                    h \in {h \in hearing : h.n # a.of \/ a.op = "moderate"}}
    /\ UNCHANGED <<held, log, run>>

-----------------------------------------------------------------------------
(* Decisions (lib/space.js #onDecisions, #cut).                            *)

\* A decision reaches this device: one of the scene's.
Decide(d) ==
    /\ Prompt /\ d \in scene.decide /\ scene.moves > 0
    /\ \/ d.op = "moderate" /\ mods[d.on] # "removed" /\ mods[d.on] # d.as
          /\ mods' = [mods EXCEPT ![d.on] = d.as] /\ UNCHANGED <<limit, elimit>>
       \/ d.op = "cut" /\ d.as < limit[d.on]
          /\ limit' = [limit EXCEPT ![d.on] = d.as] /\ UNCHANGED <<mods, elimit>>
       \/ d.op = "rights" /\ elimit[d.on] # d.as
          /\ elimit' = [elimit EXCEPT ![d.on] = d.as] /\ UNCHANGED <<mods, limit>>
    /\ scene' = [scene EXCEPT !.moves = @ - 1]
    /\ hearing' = hearing \cup {[n |-> scene.moves, stage |-> "moderate",
                                 touched |-> IF d.op = "moderate" THEN {d.on} ELSE {}]}
    /\ UNCHANGED <<length, held, disk, log, run, queue, after, memo, reader>>

\* Mutant: holes past the cut stay.
CutBegin_holes(l) ==
    LET e == log[l]
    IN  /\ Prompt /\ limit[l] # Inf /\ (e.cut # limit[l] \/ e.limit > limit[l])
        /\ run[l].pc = "idle"
        /\ \A t \in ToSet(queue) \cup after : t.op = "cut" => t.of # l
        /\ log' = [log EXCEPT ![l] = [e EXCEPT !.limit = limit[l], !.scanned = IF @ > limit[l] THEN limit[l] ELSE @]]
        /\ queue' = Append(queue, [op |-> "cut", of |-> l, limit |-> limit[l],
                                   blocks |-> [k \in 1 .. e.scanned - limit[l] |-> <<l, limit[l] + k - 1>>]])
        /\ UNCHANGED <<scene, length, held, disk, decided, run, after, hearing, memo, reader>>

\* #cut: serialised per log, once its run is over.  The limit holds at once,
\* the rows past it go in a task.
CutBegin(l) ==
    LET e == log[l]
        upto == IF e.scanned > e.indexed THEN e.scanned ELSE e.indexed
    IN  /\ Prompt /\ limit[l] # Inf /\ (e.cut # limit[l] \/ e.limit > limit[l])
        /\ run[l].pc = "idle"
        /\ \A t \in ToSet(queue) \cup after : t.op = "cut" => t.of # l
        /\ log' = [log EXCEPT ![l] = [e EXCEPT !.limit = limit[l], !.holes = {s \in e.holes : s < limit[l]},
                                               !.scanned = IF e.scanned > limit[l] THEN limit[l] ELSE e.scanned]]
        /\ queue' = Append(queue, [op |-> "cut", of |-> l, limit |-> limit[l],
                                   blocks |-> [k \in 1 .. upto - limit[l] |-> <<l, limit[l] + k - 1>>]])
        /\ UNCHANGED <<scene, length, held, disk, decided, run, after, hearing, memo, reader>>

\* moderate(): what the rows do not have yet.
Moderate(h) ==
    LET todo == {i \in h.touched : mods[i] # None /\ memo.applied[i] # mods[i]}
    IN  /\ Prompt /\ h.stage = "moderate"
        /\ \/ /\ todo = {}
              /\ hearing' = (hearing \ {h}) \cup {[h EXCEPT !.stage = "rights"]}
              /\ UNCHANGED queue
           \/ /\ todo # {}
              /\ queue' = Append(queue, [op |-> "moderate", of |-> h.n, mods |-> mods, blocks |-> SetToSeq(todo)])
              /\ hearing' = (hearing \ {h}) \cup {[h EXCEPT !.stage = "queued"]}
        /\ UNCHANGED <<scene, length, held, disk, decided, log, run, after, memo, reader>>

\* reauthorize(): edits by permission are judged again if rights moved.
Reauthorize(h) ==
    /\ Prompt /\ h.stage = "rights"
    /\ \/ /\ memo.rights = elimit
          /\ hearing' = hearing \ {h}
          /\ UNCHANGED <<queue, memo>>
       \/ /\ memo.rights # elimit
          /\ queue' = Append(queue, [op |-> "rights", of |-> h.n, blocks |-> <<>>])
          /\ hearing' = (hearing \ {h}) \cup {[h EXCEPT !.stage = "queued"]}
          /\ memo' = [memo EXCEPT !.rights = elimit]
    /\ UNCHANGED <<scene, length, held, disk, decided, log, run, after, reader>>

-----------------------------------------------------------------------------
(* A read, and a crash.                                                    *)

missing(l) ==
    Cardinality(log[l].holes)
    + (IF log[l].uncommitted THEN 1 ELSE 0)
    + (LET n == IF length[l] < log[l].limit THEN length[l] ELSE log[l].limit
       IN  IF n > log[l].scanned THEN n - log[l].scanned ELSE 0)
isComplete == \A l \in Logs : missing(l) = 0

\* _bounded: reads the rows, then says whether the answer is complete.
ReadRows ==
    /\ Prompt /\ reader.pc = "idle" /\ scene.reads
    /\ reader' = [pc |-> "read", answer |-> DOMAIN rows, fresh |-> TRUE]
    /\ UNCHANGED <<scene, length, held, disk, decided, log, run, queue, after, hearing, memo>>

ReadEnd ==
    /\ Prompt /\ reader.pc = "read"
    /\ reader' = [pc |-> "idle", answer |-> {}, fresh |-> TRUE]
    /\ UNCHANGED <<scene, length, held, disk, decided, log, run, queue, after, hearing, memo>>

NoReader == [pc |-> "idle", answer |-> {}, fresh |-> TRUE]
NoMemo == [had |-> None, targets |-> {}, applied |-> [i \in Ids |-> None], rights |-> None]
Opening == {[n |-> 0, stage |-> "moderate", touched |-> Ids]}

\* The process dies and opens the space again: memory is gone, every log is
\* scanned from where its row says.
Crash ==
    /\ Prompt /\ scene.crashes > 0
    /\ scene' = [scene EXCEPT !.crashes = @ - 1]
    /\ log' = [l \in Logs |-> Entry(saved[l].indexed, saved[l].cut)]
    /\ run' = [l \in Logs |-> [Idle EXCEPT !.pc = IF length[l] > 1 THEN "start" ELSE "idle"]]
    /\ queue' = <<>> /\ after' = {} /\ hearing' = Opening
    /\ memo' = NoMemo /\ reader' = NoReader
    /\ UNCHANGED <<length, held, disk, decided>>

Init ==
    /\ scene \in Scenes
    /\ length = [l \in Logs |-> scene.start[l]]
    /\ held = [l \in Logs |-> scene.held[l]]
    /\ rows = [i \in {} |-> None] /\ changes = {}
    /\ saved = [l \in Logs |-> [indexed |-> 1, cut |-> Inf]]
    /\ limit = [l \in Logs |-> Inf] /\ elimit = [l \in Logs |-> scene.editor[l]]
    /\ mods = [i \in Ids |-> None]
    /\ log = [l \in Logs |-> Entry(1, Inf)]
    /\ run = [l \in Logs |-> [Idle EXCEPT !.pc = IF length[l] > 1 THEN "start" ELSE "idle"]]
    /\ queue = <<>> /\ after = {} /\ hearing = {} /\ reader = NoReader
    /\ memo = [NoMemo EXCEPT !.rights = elimit]

Run(l) == RunTake(l) \/ RunScan(l) \/ RunNote(l) \/ RunBatch(l) \/ RunEnd(l)
Commit == CommitBatch \/ CommitCut \/ CommitModeration \/ CommitRights
After(a) == FinishBatch(a) \/ FinishCut(a) \/ FinishDecision(a) \/ \E i \in a.clears : Clear(a, i)

Next ==
    \/ \E l \in Logs : Grow(l) \/ Run(l) \/ HoleTimer(l) \/ CutBegin(l) \/ \E s \in Known(l) : Download(l, s)
    \/ Unlock \/ Commit
    \/ \E a \in after : After(a)
    \/ \E d \in scene.decide : Decide(d)
    \/ \E h \in hearing : Moderate(h) \/ Reauthorize(h)
    \/ ReadRows \/ ReadEnd \/ Crash

\* The scheduler runs what is queued; timers fire; a block some connected peer
\* serves arrives.
Fairness ==
    /\ \A l \in Logs : /\ WF_vars(Run(l)) /\ WF_vars(HoleTimer(l)) /\ WF_vars(CutBegin(l))
                       /\ WF_vars(\E s \in Known(l) : Download(l, s))
    /\ WF_vars(Commit) /\ WF_vars(\E a \in after : After(a))
    /\ WF_vars(\E h \in hearing : Moderate(h) \/ Reauthorize(h))

Spec == Init /\ [][Next]_vars /\ Fairness

-----------------------------------------------------------------------------
(* Properties.                                                             *)

Row == [v : Ids, superseded : BOOLEAN, hidden : BOOLEAN]

\* Every variable holds a value of its kind, and a log's place in memory never
\* falls below a hole.
IndexTypeOK ==
    /\ DOMAIN rows \subseteq Ids /\ \A i \in DOMAIN rows : rows[i] \in Row
    /\ changes \subseteq Ids
    /\ saved \in [Logs -> [indexed : Places, cut : Places \cup {Inf}]]
    /\ \A l \in Logs : /\ log[l].scanned \in Places /\ log[l].indexed \in Places
                       /\ \A s \in log[l].holes \cup log[l].arrived : s \in 1 .. MaxLen - 1
                       /\ \A s \in log[l].holes : s < log[l].scanned

Quiet ==
    /\ queue = <<>> /\ after = {} /\ hearing = {}
    /\ \A l \in Logs : run[l].pc = "idle" /\ log[l].limit = limit[l] /\ log[l].cut = limit[l]

\* The blocks looked at that count, and the rows they make in whatever order.
Counting == {i \in Ids : i[2] < log[i[1]].scanned /\ i[2] < limit[i[1]] /\ i[2] \notin log[i[1]].holes}
Allowed(i) == {c \in Counting : Block(c).kind # "put" /\ Target(c) = i /\ mayChange(c, i)}
Standing ==
    {i \in Counting : /\ Block(i).kind = "put" /\ mods[i] # "removed"
                      /\ \A c \in Allowed(i) : Block(c).kind # "delete"}
RowOf(i) ==
    [v |-> latest({i} \cup Allowed(i)), hidden |-> mods[i] = "hidden",
     superseded |-> Block(i).type \in OnePerMember /\ \E j \in Standing : Group(j) = Group(i) /\ compare(j, i)]
\* A record a delete took away before the delete itself was cut off.
Unrestored == {Target(c) : c \in {c \in Ids : c[2] <= Len(scene.content[c[1]]) /\ c[2] >= limit[c[1]]
                                              /\ Block(c).kind = "delete"}}

\* Once nothing is under way, the rows are what the blocks looked at make of
\* the records, whatever the order they arrived, were batched, decided about
\* or read again in: the records standing, at their latest allowed version,
\* with one vote per member.
RowsMatchBlocks ==
    Quiet => /\ DOMAIN rows \subseteq Standing
             /\ Standing \ DOMAIN rows \subseteq Unrestored
             /\ \A i \in DOMAIN rows : rows[i] = RowOf(i)

\* A read that answers `complete` holds every record this device knew of.
HonestComplete ==
    [][ReadEnd /\ isComplete /\ reader.fresh => Standing \ Unrestored \subseteq reader.answer]_vars

\* No arrival is lost: a hole whose block is held and can be opened, however
\* its arrival raced the scan, a clear or a restart, has a run or a timer that
\* will look at it.
HolesWatched ==
    \A l \in Logs : \A s \in log[l].holes \cap held[l] :
        <<l, s>> \in scene.locked \/ run[l].pc # "idle" \/ log[l].timer

\* What is known of logs that stopped growing is all indexed in the end: the
\* space becomes complete, and stays so.
BecomesComplete == ~scene.grows => <>[]isComplete

=============================================================================
