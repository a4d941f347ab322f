----------------------------- MODULE Directory -----------------------------
(***************************************************************************)
(* The log directory of a space (lib/directory.js, lib/ranges.js and the   *)
(* part of lib/replication.js that opens and releases logs).  Members tell *)
(* each other which device logs they hold and how long, by summaries, and  *)
(* settle a difference by key ranges.  A log a member hears of is checked  *)
(* by its header before it is kept: kept, waiting for a membership, or     *)
(* refused.  A log a peer holds more of is a claim, which opens the log to *)
(* download it; unused, it closes.                                         *)
(*                                                                         *)
(* A digest is the set it is the digest of, so its count is known.  A      *)
(* connection delivers in order until it breaks.  Timers fire at any time. *)
(* Blocks are counted, not told apart (module Indexer has them), and       *)
(* indexing keeps up.                                                      *)
(***************************************************************************)
EXTENDS Integers, FiniteSets, Sequences, SequencesExt

CONSTANTS
  Members,       \* a device each
  Keys,          \* device logs
  Path,          \* of a log: the digits of its key
  PARTS,         \* sub-ranges of a range, one per digit
  FEW,           \* keys sent rather than sub-ranges
  FETCHES,       \* headers fetched at once, and as many for notices of members
  MAX_QUEUE,     \* headers waiting to be fetched
  MAX_PENDING,   \* logs waiting for a membership
  Scenes,        \* inputs: who holds what, whose logs are whose, and what may happen
  None

ASSUME DirectoryAssumption ==
    /\ PARTS \in Nat \ {0} /\ FEW \in Nat \ {0} /\ FETCHES \in Nat \ {0}
    /\ MAX_QUEUE \in Nat /\ MAX_PENDING \in Nat \ {0}
    /\ IsFiniteSet(Keys) /\ \A k, l \in Keys : Path[k] = Path[l] => k = l

\* grows: how long an author makes a log; course: what counts of it, decision by
\* decision, and stage: how far a member has them; initiates: of two, who opens
\* the connection; slow, breaks: headers too late, connections lost.
Scene == [own : [Keys -> Members \cup {None}], grows : [Keys -> Nat], course : [Keys -> Seq(Nat)], bad : SUBSET Keys,
          holds : [Members -> [Keys -> Nat]], stage : [Members -> [Keys -> Nat]],
          initiates : SUBSET (Members \X Members), slow : Nat, breaks : Nat, crashes : SUBSET Members,
          reads : SUBSET (Members \X Keys), idle : SUBSET Keys, known : SUBSET Members]

ASSUME SceneAssumption ==
    /\ Scenes \subseteq Scene
    /\ \A s \in Scenes, m \in Members, k \in Keys : s.stage[m][k] \in 1 .. Len(s.course[k])

\* A log with its length, and an exchange: the summary it settles, the answers it
\* waits for, the logs it brought that are looked at, was one dropped.
Item == Keys \X Int
Exchange == [theirs : {None} \cup SUBSET Item, waiting : Nat, checks : SUBSET Keys, dropped : BOOLEAN]

ASSUME ExchangeAssumption == None \notin Exchange

VARIABLES
  scene,     \* the scene, with what of it is left to happen
  stage,     \* member: log: how far it has the decisions about its author
  logs,      \* member: log: what it has of it
  pending,   \* member: logs waiting for a membership, in order
  refused,   \* member: logs never looked at again
  fetch,     \* member: header fetches, waiting and under way
  known,     \* member: it looked at a peer's whole directory since opening
  chan,      \* <<member, peer>>: its end of the channel, None if not connected
  wire,      \* <<member, peer>>: what is on its way from it
  reader     \* member: log: a read of it

\* The elements of q at the places I, in order.
those(q, I) ==
    [n \in 1 .. Cardinality(I) |-> q[CHOOSE i \in I : Cardinality({j \in I : j <= i}) = n]]

net == <<chan, wire>>
vars == <<scene, stage, logs, pending, refused, fetch, known, net, reader>>

Links == {e \in Members \X Members : e[1] # e[2]}
Inf == 99
least(a, b) == IF a < b THEN a ELSE b
own(m, k) == scene.own[k] = m
up(m, p) == m # p /\ chan[<<m, p>>] # None
peers(m) == {p \in Members : up(m, p)}

\* What counts of a log by the decisions m has, and whether that may change.
limitOf(m, k) == scene.course[k][stage[m][k]]
mayRetry(m, k) == \E n \in stage[m][k] + 1 .. Len(scene.course[k]) : scene.course[k][n] > 1

-----------------------------------------------------------------------------
(* A log: cores are open while used.                                       *)

\* listed: its length in the summary; saved: its length on disk (-1: none).
NoLog == [held |-> FALSE, length |-> 0, listed |-> -1, limit |-> Inf, claim |-> 0, saved |-> -1, core |-> FALSE,
          opening |-> FALSE, closing |-> FALSE, uses |-> 0, timer |-> FALSE, busy |-> FALSE, look |-> FALSE]

counted(l) == least(l.length, l.limit)

\* Its length counts in the summary; a claim met is forgotten.
measure(l) ==
    [l EXCEPT !.listed = IF l.held THEN counted(l) ELSE @,
              !.claim = IF counted(l) >= least(@, l.limit) THEN 0 ELSE @]

\* A session is there, opening one, or closing one first.
open(l) == [l EXCEPT !.uses = @ + 1, !.timer = FALSE, !.opening = @ \/ ~l.core]

idle(m, k, l) == [l EXCEPT !.timer = @ \/ (l.uses = 0 /\ l.core /\ ~own(m, k))]
release(m, k, l) == idle(m, k, [l EXCEPT !.uses = @ - 1])

\* Blocks known of by a claim, and by peers of an open core.
behind(l) == LET n == least(l.claim, l.limit) - l.length IN IF n > 0 THEN n ELSE 0
peersAhead(m, k, l) ==
    l.core /\ \E p \in peers(m) : logs[p][k].held /\ least(logs[p][k].length, l.limit) > l.length

\* Replicator.check: open while behind, released once caught up.
check(m, k, l) ==
    IF ~l.held \/ own(m, k) THEN l
    ELSE IF behind(l) > 0 \/ peersAhead(m, k, l)
         THEN IF l.busy THEN l ELSE open([l EXCEPT !.busy = TRUE])
         ELSE IF l.busy THEN release(m, k, [l EXCEPT !.busy = FALSE]) ELSE l

set(m, k, l) == logs' = [logs EXCEPT ![m][k] = l]

\* #attach: followed from now on; what it holds is looked at.
attach(l) == measure([l EXCEPT !.core = TRUE, !.look = l.busy])

\* Mutant: a core opens though its last session closes.
OpenCore_closing(m, k) ==
    LET l == logs[m][k]
    IN  /\ l.opening
        /\ set(m, k, IF l.held THEN idle(m, k, [attach(l) EXCEPT !.opening = FALSE])
                     ELSE [l EXCEPT !.opening = FALSE, !.uses = 0, !.busy = FALSE])
        /\ reader' = [reader EXCEPT ![m][k] = IF @ = "waits" THEN IF l.held THEN "reads" ELSE "no" ELSE @]
        /\ UNCHANGED <<scene, stage, pending, refused, fetch, known, net>>

\* #openCore, past a session closing: everyone waiting goes on, or fails
\* together if the log was dropped meanwhile.
OpenCore(m, k) ==
    LET l == logs[m][k]
    IN  /\ l.opening /\ ~l.closing
        /\ set(m, k, IF l.held THEN idle(m, k, [attach(l) EXCEPT !.opening = FALSE])
                     ELSE [l EXCEPT !.opening = FALSE, !.uses = 0, !.busy = FALSE])
        /\ reader' = [reader EXCEPT ![m][k] = IF @ = "waits" THEN IF l.held THEN "reads" ELSE "no" ELSE @]
        /\ UNCHANGED <<scene, stage, pending, refused, fetch, known, net>>

\* The idle delay is over: #closeCore.  (It is long: the core follows what its
\* peers have of it by then.)
CloseCore(m, k) ==
    LET l == [logs[m][k] EXCEPT !.timer = FALSE]
    IN  /\ logs[m][k].timer /\ k \in scene.idle /\ ~peersAhead(m, k, l)
        /\ set(m, k, IF l.uses > 0 \/ ~l.core \/ l.opening THEN l
                     ELSE [measure(l) EXCEPT !.core = FALSE, !.closing = TRUE])
        /\ UNCHANGED <<scene, stage, pending, refused, fetch, known, net, reader>>

\* Closed; its length is saved.
CoreClosed(m, k) ==
    /\ logs[m][k].closing
    /\ set(m, k, [logs[m][k] EXCEPT !.closing = FALSE, !.saved = logs[m][k].length])
    /\ UNCHANGED <<scene, stage, pending, refused, fetch, known, net, reader>>

\* directory.use: a read of a log, and its end.
Use(m, k) ==
    /\ logs[m][k].held /\ <<m, k>> \in scene.reads /\ reader[m][k] = "no"
    /\ scene' = [scene EXCEPT !.reads = @ \ {<<m, k>>}]
    /\ set(m, k, open(logs[m][k]))
    /\ reader' = [reader EXCEPT ![m][k] = IF logs[m][k].core THEN "reads" ELSE "waits"]
    /\ UNCHANGED <<stage, pending, refused, fetch, known, net>>
Release(m, k) ==
    /\ reader[m][k] = "reads"
    /\ set(m, k, release(m, k, logs[m][k]))
    /\ reader' = [reader EXCEPT ![m][k] = "no"]
    /\ UNCHANGED <<scene, stage, pending, refused, fetch, known, net>>

\* What an open log brought is indexed, or its peers say they have more.
Check(m, k) ==
    LET l == logs[m][k]
    IN  /\ l.look \/ (l.core /\ (behind(l) > 0 \/ peersAhead(m, k, l)) /\ ~l.busy)
        /\ set(m, k, check(m, k, [l EXCEPT !.look = FALSE]))
        /\ UNCHANGED <<scene, stage, pending, refused, fetch, known, net, reader>>

\* Hypercore: an open log follows a connected peer's.
Download(m, p, k) ==
    LET l == logs[m][k]
    IN  /\ up(m, p) /\ l.held /\ l.core /\ ~own(m, k) /\ logs[p][k].held
        /\ least(logs[p][k].length, l.limit) > l.length
        /\ set(m, k, measure([l EXCEPT !.length = logs[p][k].length, !.look = l.busy]))
        /\ UNCHANGED <<scene, stage, pending, refused, fetch, known, net, reader>>

\* A claim nobody serves is dropped (expire, then check).
Expire(m, k) ==
    LET l == logs[m][k]
    IN  /\ l.held /\ l.claim > 0 /\ l.core
        /\ \A p \in peers(m) : logs[p][k].held => logs[p][k].length < l.claim
        /\ set(m, k, check(m, k, [l EXCEPT !.claim = 0]))
        /\ UNCHANGED <<scene, stage, pending, refused, fetch, known, net, reader>>

-----------------------------------------------------------------------------
(* Settling two lists by key ranges (lib/ranges.js).                       *)

\* The entries of the summary, and those of a range.
itemsOf(ls) == {<<k, ls[k].listed>> : k \in {k \in Keys : ls[k].held}}
items(m) == itemsOf(logs[m])
within(k, prefix) == SubSeq(Path[k], 1, Len(prefix)) = prefix
inRange(m, prefix) == {i \in items(m) : within(i[1], prefix)}
parts(m, prefix) == [d \in 1 .. PARTS |-> inRange(m, Append(prefix, d))]
lengthOf(m, k) == IF logs[m][k].held THEN logs[m][k].listed ELSE -1

Summary(m) == [type |-> "summary", digest |-> items(m)]
Ranges(m, prefix) == [type |-> "ranges", prefix |-> prefix, parts |-> parts(m, prefix)]
KeysOf(prefix, kind, S) == [type |-> "keys", prefix |-> prefix, kind |-> kind, items |-> S]
Done(prefix) == KeysOf(prefix, "done", {})
Notice(k) == [type |-> "notice", key |-> k]
answered(x) == x.type = "ranges" \/ (x.type = "keys" /\ x.kind \in {"mine", "send"})
toAnswer(q) == Cardinality({n \in DOMAIN q : answered(q[n])})

\* Session.onRanges, for one sub-range that differs.
settleRange(m, prefix, theirs) ==
    LET mine == inRange(m, prefix)
    IN  IF Cardinality(theirs) <= FEW THEN KeysOf(prefix, "send", {})
        ELSE IF Cardinality(mine) <= FEW THEN KeysOf(prefix, "mine", mine)
        ELSE Ranges(m, prefix)

\* The sub-ranges of x that differ, in order.
differing(m, x) == those([d \in 1 .. PARTS |-> d], {d \in 1 .. PARTS : x.parts[d] # inRange(m, Append(x.prefix, d))})
onRanges(m, x) ==
    LET ds == differing(m, x)
    IN  [n \in 1 .. Len(ds) |-> settleRange(m, Append(x.prefix, ds[n]), x.parts[ds[n]])] \o <<Done(x.prefix)>>

\* What the peer gave for the ranges whose keys it is asked for.
expecting(m, x, out) ==
    {[prefix |-> out[n].prefix, items |-> x.parts[Last(out[n].prefix)]] :
        n \in {n \in DOMAIN out : out[n].type = "keys" /\ out[n].kind = "send"}}

\* Keys that are not the ones announced, or more than were to be sent.
ignored(x, expected) ==
    x.kind = "mine" /\ IF expected = {} THEN Cardinality(x.items) > FEW ELSE x.items \notin expected

\* Mutant: keys that are not the ones announced get no answer.
onMine_silent(m, x, expected) ==
    IF ignored(x, expected) THEN <<>>
    ELSE LET lack == {i \in inRange(m, x.prefix) : \A j \in x.items : j[1] = i[1] => j[2] < i[2]}
         IN  (IF lack = {} THEN <<>> ELSE <<KeysOf(x.prefix, "lack", lack)>>) \o <<Done(x.prefix)>>

\* Answers to a peer's keys of a range: what it lacks, unless its keys are not
\* the ones it announced.
onMine(m, x, expected) ==
    IF ignored(x, expected) THEN <<Done(x.prefix)>>
    ELSE LET lack == {i \in inRange(m, x.prefix) : \A j \in x.items : j[1] = i[1] => j[2] < i[2]}
         IN  (IF lack = {} THEN <<>> ELSE <<KeysOf(x.prefix, "lack", lack)>>) \o <<Done(x.prefix)>>

\* Session.onKeys: what is sent back, and what is learnt.
onKeys(m, x, expected) ==
    CASE x.kind = "send" -> IF Cardinality(inRange(m, x.prefix)) > FEW
                            THEN <<Ranges(m, x.prefix), Done(x.prefix)>>
                            ELSE <<KeysOf(x.prefix, "mine", inRange(m, x.prefix)), Done(x.prefix)>>
      [] x.kind = "mine" -> onMine(m, x, expected)
      [] OTHER           -> <<>>
learnt(m, x, expected) == IF ignored(x, expected) THEN {} ELSE {i \in x.items : i[2] > lengthOf(m, i[1])}

-----------------------------------------------------------------------------
(* Headers are fetched a few at a time.                                    *)

NoFetch == [queue |-> <<>>, run |-> [k \in Keys |-> "no"], dropped |-> FALSE]
running(f, how) == {k \in Keys : f.run[k] = how}
active(f) == {k \in Keys : f.run[k] # "no"} \cup ToSet(f.queue)
except(q, k) == those(q, {n \in DOMAIN q : q[n] # k})

\* Mutant: the queue has no bound.
start_any(f, k, urgent) ==
    LET queued == k \in ToSet(f.queue)
        now == urgent /\ Cardinality(running(f, "urgent")) < FETCHES
    IN  IF queued /\ ~urgent THEN f
        ELSE IF ~now /\ Cardinality(running(f, "plain")) >= FETCHES
        THEN [f EXCEPT !.queue = IF queued THEN @ ELSE Append(@, k)]
        ELSE [f EXCEPT !.queue = except(@, k), !.run[k] = IF now THEN "urgent" ELSE "plain"]

\* #fetch, where a member's notice does not wait behind others.
start(f, k, urgent) ==
    LET queued == k \in ToSet(f.queue)
        now == urgent /\ Cardinality(running(f, "urgent")) < FETCHES
    IN  IF queued /\ ~urgent THEN f
        ELSE IF ~now /\ Cardinality(running(f, "plain")) >= FETCHES
        THEN IF Len(f.queue) >= MAX_QUEUE THEN [f EXCEPT !.dropped = TRUE]
             ELSE [f EXCEPT !.queue = IF queued THEN @ ELSE Append(@, k)]
        ELSE [f EXCEPT !.queue = except(@, k), !.run[k] = IF now THEN "urgent" ELSE "plain"]

consider(m, f, k, urgent) ==
    IF \/ logs[m][k].held \/ k \in refused[m] \/ f.run[k] # "no"
       \/ (k \in ToSet(pending[m]) /\ limitOf(m, k) <= 1)
    THEN f ELSE start(f, k, urgent)

considerAll(m, f, ks) ==
    LET s == SetToSeq(ks)
        upTo[n \in 0 .. Len(s)] == IF n = 0 THEN f ELSE consider(m, upTo[n - 1], s[n], FALSE)
    IN  upTo[Len(s)]

\* #nextFetch: those waiting take the turns left.
nextFetch(m, f) ==
    LET go[n \in Nat] ==
            IF n = 0 THEN f
            ELSE LET g == go[n - 1]
                 IN  IF g.queue = <<>> \/ Cardinality(running(g, "plain")) >= FETCHES THEN g
                     ELSE consider(m, [g EXCEPT !.queue = Tail(@)], Head(g.queue), FALSE)
    IN  go[Len(f.queue)]

-----------------------------------------------------------------------------
(* A channel.                                                              *)

\* x: an exchange, None if none is under way; ending: exchanges over, but for the
\* logs they brought; second: the responder will start one if none comes.
Channel == [theirs |-> None, settledOn |-> None, settledMine |-> None, expect |-> {}, x |-> None,
            ending |-> <<>>, second |-> FALSE]

\* Mutant: an exchange settles the newest summary, which came after it began.
exchange_newest(c) ==
    IF c.x = None THEN [theirs |-> c.theirs, waiting |-> 0, checks |-> {}, dropped |-> FALSE]
    ELSE [c.x EXCEPT !.theirs = c.theirs]

\* #exchange: the peer's summary it settles.
exchange(c) ==
    IF c.x = None THEN [theirs |-> c.theirs, waiting |-> 0, checks |-> {}, dropped |-> FALSE]
    ELSE IF c.x.waiting = 0 THEN [c.x EXCEPT !.theirs = c.theirs] ELSE c.x
sent(c, out) ==
    [c EXCEPT !.x = [exchange(c) EXCEPT !.waiting = @ + toAnswer(out)]]
busy(c) == c.x # None /\ c.x.waiting > 0

first(m, p, type) == up(m, p) /\ wire[<<p, m>>] # <<>> /\ Head(wire[<<p, m>>]).type = type
msg(m, p) == Head(wire[<<p, m>>])
answer(m, p, out) == wire' = [wire EXCEPT ![<<p, m>>] = Tail(@), ![<<m, p>>] = @ \o out]
toAll(m, w, x) == [e \in Links |-> IF e[1] = m /\ up(m, e[2]) THEN Append(w[e], x) ELSE w[e]]

\* Is a summary of m to p due?  It is one soon after a change, and now and then: the
\* period is longer than an exchange and the fetches of its headers.  (One that
\* would say and settle nothing is left out.)
due(m, p) ==
    LET c == chan[<<p, m>>]
        settledBoth == c.settledOn = items(m) /\ (items(m) = items(p) \/ c.settledMine = items(p))
    IN  \/ c.theirs # items(m)
        \/ ~settledBoth /\ c.ending = <<>> /\ ~c.second /\ wire[<<p, m>>] = <<>>

SendSummary(m) ==
    /\ \E p \in peers(m) : due(m, p)
    /\ \A p \in peers(m) : wire[<<m, p>>] = <<>>
    /\ wire' = toAll(m, wire, Summary(m))
    /\ UNCHANGED <<scene, stage, logs, pending, refused, fetch, known, chan, reader>>

begin(m, c) == sent(c, <<Ranges(m, <<>>)>>)

\* #onSummary
OnSummary(m, p) ==
    LET d == msg(m, p).digest
        c == [chan[<<m, p>>] EXCEPT !.theirs = d]
        differs == d # items(m) /\ ~(c.settledOn = d /\ c.settledMine = items(m))
        starts == differs /\ (<<m, p>> \in scene.initiates \/ ~known[m])
    IN  /\ first(m, p, "summary")
        /\ chan' = [chan EXCEPT ![<<m, p>>] =
                       IF d = items(m) THEN [c EXCEPT !.settledOn = d, !.settledMine = d]
                       ELSE IF starts /\ ~busy(c) THEN begin(m, c)
                       ELSE [c EXCEPT !.second = @ \/ (differs /\ ~starts)]]
        /\ answer(m, p, IF starts /\ ~busy(c) THEN <<Ranges(m, <<>>)>> ELSE <<>>)
        /\ known' = [known EXCEPT ![m] = @ \/ d = items(m)]
        /\ UNCHANGED <<scene, stage, logs, pending, refused, fetch, reader>>

\* The responder starts one, if none came.
Second(m, p) ==
    /\ up(m, p) /\ chan[<<m, p>>].second
    /\ LET c == [chan[<<m, p>>] EXCEPT !.second = FALSE]
       IN  /\ chan' = [chan EXCEPT ![<<m, p>>] = IF busy(c) THEN c ELSE begin(m, c)]
           /\ wire' = [wire EXCEPT ![<<m, p>>] = IF busy(c) THEN @ ELSE Append(@, Ranges(m, <<>>))]
    /\ UNCHANGED <<scene, stage, logs, pending, refused, fetch, known, reader>>

OnRanges(m, p) ==
    LET x == msg(m, p)
        c == [chan[<<m, p>>] EXCEPT !.second = FALSE]
        out == onRanges(m, x)
        new == expecting(m, x, out)
    IN  /\ first(m, p, "ranges")
        /\ chan' = [chan EXCEPT ![<<m, p>>] =
                       sent([c EXCEPT !.expect = {e \in @ : \A n \in new : n.prefix # e.prefix} \cup new], out)]
        /\ answer(m, p, out)
        /\ UNCHANGED <<scene, stage, logs, pending, refused, fetch, known, reader>>

\* #claim
claim(m, k, l, length) ==
    IF own(m, k) \/ length <= counted(l) \/ length <= l.claim THEN l
    ELSE check(m, k, [l EXCEPT !.claim = length])

\* The answers to one of ours are all here.
answeredOnce(c) ==
    IF c.x.waiting > 1 THEN [c EXCEPT !.x.waiting = @ - 1]
    ELSE [c EXCEPT !.x = None,
                   !.ending = Append(@, [theirs |-> c.x.theirs, checks |-> c.x.checks, dropped |-> c.x.dropped])]

\* Mutant: settled though a log was dropped for want of room.
over_dropped(c) == SelectSeq(c.ending, LAMBDA e : e.checks = {})

\* Exchanges every log of which was looked at: settled with their summaries.
over(c) == SelectSeq(c.ending, LAMBDA e : e.checks = {} /\ ~e.dropped)
settle(c, mine) ==
    [c EXCEPT !.ending = SelectSeq(@, LAMBDA e : e.checks # {}),
              !.settledMine = IF over(c) = <<>> THEN @ ELSE mine,
              !.settledOn = IF over(c) = <<>> THEN @ ELSE Last(over(c)).theirs]

\* An exchange goes on, or its answers are all here.
goesOn(c, done) ==
    IF c.x.waiting = 0 THEN [c EXCEPT !.x = None] ELSE IF done THEN answeredOnce(c) ELSE c

\* Of the logs of learn, those not held here.
newIn(m, learn) == {i[1] : i \in {i \in learn : ~logs[m][i[1]].held}}

\* Logs held here shorter are claimed, others considered (f); now: the channel.
hear(m, p, learn, f, now) ==
    /\ logs' = [logs EXCEPT ![m] = [k \in Keys |->
                   IF @[k].held /\ \E i \in learn : i[1] = k
                   THEN claim(m, k, @[k], (CHOOSE i \in learn : i[1] = k)[2]) ELSE @[k]]]
    /\ fetch' = [fetch EXCEPT ![m] = [f EXCEPT !.dropped = FALSE]]
    /\ chan' = [chan EXCEPT ![<<m, p>>] = settle(now, items(m))]
    /\ known' = [known EXCEPT ![m] = @ \/ over(now) # <<>>]

\* #onKeys: what is considered is waited for.
OnKeys(m, p) ==
    LET x == msg(m, p)
        c == chan[<<m, p>>]
        mine == x.kind = "mine"
        expected == {e.items : e \in {e \in c.expect : mine /\ e.prefix = x.prefix}}
        left == {e \in c.expect : ~mine \/ e.prefix # x.prefix}
        waits(f, new) == [exchange(c) EXCEPT !.checks = @ \cup (new \cap active(f)), !.dropped = @ \/ f.dropped]
        heard(f, new) == [c EXCEPT !.x = waits(f, new), !.expect = left, !.second = FALSE]
    IN  /\ first(m, p, "keys")
        /\ answer(m, p, onKeys(m, x, expected))
        /\ \E learn \in {learnt(m, x, expected)} :
           \E f \in {considerAll(m, fetch[m], newIn(m, learn))} :
           \E after \in {sent(heard(f, newIn(m, learn)), onKeys(m, x, expected))} :
               hear(m, p, learn, f, goesOn(after, x.kind = "done"))
        /\ UNCHANGED <<scene, stage, pending, refused, reader>>

\* A notice of a log, from a member.  (One that finds it queued and every turn
\* taken makes the queue forget who waited for it.)
OnNotice(m, p) ==
    LET k == msg(m, p).key
        f == consider(m, fetch[m], k, TRUE)
        lost == k \in ToSet(fetch[m].queue) /\ k \in ToSet(f.queue) /\ ~f.dropped
        forget(e) == IF lost /\ k \in e.checks THEN [e EXCEPT !.checks = @ \ {k}, !.dropped = TRUE] ELSE e
    IN  /\ first(m, p, "notice")
        /\ fetch' = [fetch EXCEPT ![m] = [f EXCEPT !.dropped = FALSE]]
        /\ chan' = [e \in Links |-> IF e[1] # m \/ chan[e] = None THEN chan[e]
                       ELSE [chan[e] EXCEPT !.x = IF @ = None THEN None ELSE forget(@),
                                            !.ending = SelectSeq(@, LAMBDA o : forget(o) = o)]]
        /\ answer(m, p, <<>>)
        /\ UNCHANGED <<scene, stage, logs, pending, refused, known, reader>>

-----------------------------------------------------------------------------
(* A log passes the gate, or not.                                          *)

\* Directory.accept, with a core that holds the header.
accept(m, k, l) ==
    idle(m, k, attach([l EXCEPT !.held = TRUE, !.length = IF @ = 0 THEN 1 ELSE @,
                                !.limit = IF own(m, k) THEN Inf ELSE limitOf(m, k), !.claim = 0]))

\* Waiting for a membership: the oldest makes room.
keepWaiting(q, k) ==
    LET room == IF Len(q) >= MAX_PENDING THEN Tail(q) ELSE q
    IN  IF k \in ToSet(room) THEN room ELSE Append(room, k)

\* A header fetch ends: the next ones start, and whoever waited for it goes on.
ended(m, k, ls) ==
    LET f == nextFetch(m, [fetch[m] EXCEPT !.run[k] = "no"])
        looked(e) == [e EXCEPT !.checks = @ \cap active(f)]
        after(c) == [c EXCEPT !.x = IF @ = None THEN None ELSE looked(@),
                              !.ending = [n \in DOMAIN @ |-> looked(@[n])]]
        mine == {p \in peers(m) : over(after(chan[<<m, p>>])) # <<>>}
    IN  /\ fetch' = [fetch EXCEPT ![m] = f]
        /\ chan' = [e \in Links |-> IF e[1] # m \/ chan[e] = None THEN chan[e]
                       ELSE settle(after(chan[e]), itemsOf(ls))]
        /\ known' = [known EXCEPT ![m] = @ \/ mine # {}]

\* #fetchOnce, and gate.checkLog.
FetchHeader(m, k) ==
    LET good == k \notin scene.bad
        ok == good /\ limitOf(m, k) > 1
    IN  /\ fetch[m].run[k] # "no" /\ \E p \in peers(m) : logs[p][k].held
        /\ \/ /\ ok
              /\ set(m, k, IF logs[m][k].held THEN logs[m][k] ELSE accept(m, k, logs[m][k]))
              /\ ended(m, k, [logs[m] EXCEPT ![k] = IF @.held THEN @ ELSE accept(m, k, @)])
              /\ wire' = IF logs[m][k].held THEN wire ELSE toAll(m, wire, Notice(k))
              /\ pending' = [pending EXCEPT ![m] = except(@, k)]
              /\ UNCHANGED refused
           \/ /\ ~ok /\ good /\ mayRetry(m, k)
              /\ pending' = [pending EXCEPT ![m] = keepWaiting(@, k)] /\ ended(m, k, logs[m])
              /\ UNCHANGED <<logs, wire, refused>>
           \/ /\ ~ok /\ ~(good /\ mayRetry(m, k))
              /\ refused' = [refused EXCEPT ![m] = @ \cup {k}] /\ ended(m, k, logs[m])
              /\ UNCHANGED <<logs, wire, pending>>
        /\ UNCHANGED <<scene, stage, reader>>

\* No header in time: nobody who holds it is there, or they are slow.
FetchTimeout(m, k) ==
    LET served == \E p \in peers(m) : logs[p][k].held
    IN  /\ fetch[m].run[k] # "no" /\ (served => scene.slow > 0)
        /\ scene' = [scene EXCEPT !.slow = IF served THEN @ - 1 ELSE @]
        /\ ended(m, k, logs[m])
        /\ UNCHANGED <<stage, logs, pending, refused, wire, reader>>

\* A cut: what is past it no longer counts, and is cleared from an open core; a
\* log nothing of which counts is dropped.
cut(m, k, l, limit) ==
    LET c == [l EXCEPT !.limit = limit, !.opening = @ \/ (~l.core /\ l.length > limit)]
        d == [c EXCEPT !.held = FALSE, !.listed = -1, !.busy = FALSE]
    IN  IF limit > 1 THEN c ELSE IF l.busy THEN release(m, k, d) ELSE d

\* m gets the next decision about the author of k: recheck.
Decide(m, k) ==
    LET limit == scene.course[k][stage[m][k] + 1]
        l == logs[m][k]
        cuts == l.held /\ limit # l.limit /\ limit # Inf
    IN  /\ stage[m][k] < Len(scene.course[k])
        /\ stage' = [stage EXCEPT ![m][k] = @ + 1]
        /\ set(m, k, IF cuts THEN cut(m, k, l, limit) ELSE l)
        /\ refused' = [refused EXCEPT ![m] = IF cuts /\ limit <= 1 THEN @ \cup {k} ELSE @]
        /\ fetch' = [fetch EXCEPT ![m] = IF k \in ToSet(pending[m]) /\ limit > 1 /\ k \notin active(@)
                                        THEN [start(@, k, FALSE) EXCEPT !.dropped = FALSE] ELSE @]
        /\ UNCHANGED <<scene, pending, known, net, reader>>

\* A record written in an own log, which no decision cuts here, announced at its
\* first one.
Write(m, k) ==
    LET l == logs[m][k]
    IN  /\ own(m, k) /\ l.length < scene.grows[k] /\ limitOf(m, k) = Inf
        /\ set(m, k, IF l.held THEN measure([l EXCEPT !.length = @ + 1]) ELSE accept(m, k, l))
        /\ wire' = IF l.held THEN wire ELSE toAll(m, wire, Notice(k))
        /\ pending' = IF l.held THEN pending ELSE [pending EXCEPT ![m] = except(@, k)]
        /\ UNCHANGED <<scene, stage, refused, fetch, known, chan, reader>>

-----------------------------------------------------------------------------
(* Connections and restarts.                                               *)

\* Both ends send their summary.
Connect(m, p) ==
    /\ <<m, p>> \in scene.initiates /\ ~up(m, p)
    /\ chan' = [chan EXCEPT ![<<m, p>>] = Channel, ![<<p, m>>] = Channel]
    /\ wire' = [wire EXCEPT ![<<m, p>>] = <<Summary(m)>>, ![<<p, m>>] = <<Summary(p)>>]
    /\ UNCHANGED <<scene, stage, logs, pending, refused, fetch, known, reader>>

apart(gone) ==
    /\ chan' = [e \in Links |-> IF e \in gone THEN None ELSE chan[e]]
    /\ wire' = [e \in Links |-> IF e \in gone THEN <<>> ELSE wire[e]]

Disconnect(m, p) ==
    /\ <<m, p>> \in scene.initiates /\ up(m, p) /\ scene.breaks > 0
    /\ scene' = [scene EXCEPT !.breaks = @ - 1]
    /\ apart({<<m, p>>, <<p, m>>})
    /\ UNCHANGED <<stage, logs, pending, refused, fetch, known, reader>>

\* A log as it is opened again: closed, as long as was saved, or opened to see;
\* one with nothing indexed is forgotten.
reopened(m, k, l) ==
    LET fresh == [NoLog EXCEPT !.held = TRUE, !.length = l.length, !.limit = l.limit, !.saved = l.saved]
    IN  IF ~l.held \/ l.length <= 1 THEN [NoLog EXCEPT !.length = IF own(m, k) THEN 0 ELSE @]
        ELSE IF own(m, k) THEN attach(fresh)
        ELSE IF l.saved >= 0 THEN measure([fresh EXCEPT !.length = l.saved])
        ELSE idle(m, k, attach(fresh))

\* The app dies, and opens the space again.
Crash(m) ==
    /\ m \in scene.crashes
    /\ scene' = [scene EXCEPT !.crashes = @ \ {m}]
    /\ logs' = [logs EXCEPT ![m] = [k \in Keys |-> reopened(m, k, @[k])]]
    /\ pending' = [pending EXCEPT ![m] = <<>>]
    /\ refused' = [refused EXCEPT ![m] = {}]
    /\ fetch' = [fetch EXCEPT ![m] = NoFetch]
    /\ known' = [known EXCEPT ![m] = FALSE]
    /\ reader' = [reader EXCEPT ![m] = [k \in Keys |-> "no"]]
    /\ apart({e \in Links : m \in {e[1], e[2]}})
    /\ UNCHANGED stage

-----------------------------------------------------------------------------
Init ==
    /\ scene \in Scenes
    /\ stage = scene.stage
    /\ logs = [m \in Members |-> [k \in Keys |->
                  LET n == scene.holds[m][k]
                      l == [NoLog EXCEPT !.held = TRUE, !.length = n, !.saved = n, !.listed = n]
                  IN  IF n = 0 THEN NoLog ELSE IF own(m, k) THEN [l EXCEPT !.core = TRUE] ELSE l]]
    /\ pending = [m \in Members |-> <<>>] /\ refused = [m \in Members |-> {}]
    /\ fetch = [m \in Members |-> NoFetch] /\ known = [m \in Members |-> m \in scene.known]
    /\ chan = [e \in Links |-> None] /\ wire = [e \in Links |-> <<>>]
    /\ reader = [m \in Members |-> [k \in Keys |-> "no"]]

Receive == \E m, p \in Members : OnSummary(m, p) \/ OnRanges(m, p) \/ OnKeys(m, p) \/ OnNotice(m, p)
Tell == \E m \in Members : SendSummary(m) \/ \E p \in Members : Connect(m, p) \/ Second(m, p)
Fetching == \E m \in Members, k \in Keys : FetchHeader(m, k) \/ FetchTimeout(m, k)
Cores ==
    \E m \in Members, k \in Keys :
        \/ OpenCore(m, k) \/ CoreClosed(m, k) \/ Check(m, k) \/ Release(m, k) \/ Decide(m, k)
        \/ \E p \in Members : Download(m, p, k)
Chance ==
    \E m \in Members :
        \/ Crash(m) \/ \E p \in Members : Disconnect(m, p)
        \/ \E k \in Keys : CloseCore(m, k) \/ Use(m, k) \/ Expire(m, k) \/ Write(m, k)

Duty == Receive \/ Tell \/ Fetching \/ Cores
Next == Duty \/ Chance

\* Event loops run, summaries are sent again, connections come back, who is
\* connected serves, and decisions arrive.
Fairness == WF_vars(Duty)

Spec == Init /\ [][Next]_vars /\ Fairness

-----------------------------------------------------------------------------
(* Properties.                                                             *)

\* A member keeps to its bounds, whatever it is told of: headers fetched at
\* once and waiting, logs waiting for a membership.  It keeps no log of another
\* that it refused.
DirectoryTypeOK ==
    \A m \in Members :
        /\ Cardinality(running(fetch[m], "plain")) <= FETCHES /\ Cardinality(running(fetch[m], "urgent")) <= FETCHES
        /\ Len(fetch[m].queue) <= MAX_QUEUE /\ Len(pending[m]) <= MAX_PENDING
        /\ \A k \in Keys : logs[m][k].listed <= logs[m][k].length 
                          /\ (logs[m][k].held => own(m, k) \/ k \notin refused[m])

waitingOf(c) == IF c.x = None THEN 0 ELSE c.x.waiting
answers(q) == Cardinality({n \in DOMAIN q : q[n].type = "keys" /\ q[n].kind = "done"})

\* The answers an exchange waits for are on their way: it never waits for one
\* that will not come, nor ends before the last.
WaitingCounted ==
    \A m \in Members : \A p \in peers(m) :
        waitingOf(chan[<<m, p>>]) = toAnswer(wire[<<m, p>>]) + answers(wire[<<p, m>>])

\* Whoever uses a log has its core, and its uses are those it has: a core closes
\* under nobody, is never opened twice, and is not kept open by a use forgotten.
UsesKeepCore ==
    \A m \in Members, k \in Keys :
        LET l == logs[m][k]
        IN  /\ reader[m][k] = "reads" => l.core
            /\ ~(l.core /\ l.closing)
            /\ l.uses = (IF l.busy THEN 1 ELSE 0) + (IF reader[m][k] = "no" THEN 0 ELSE 1)

\* Connected members end up with the same logs, as long as the decisions they
\* have let them: whatever was announced while they were apart, restarting,
\* full, or before an author was let in.
Converges ==
    <>[](\A m \in Members : \A p \in peers(m) : \A k \in Keys \ scene.bad :
           logs[p][k].held /\ limitOf(m, k) > 1 =>
               logs[m][k].held /\ counted(logs[m][k]) >= least(counted(logs[p][k]), logs[m][k].limit))

\* Has every connected peer's last summary been settled with m?
settled(m) == \A p \in peers(m) : LET c == chan[<<m, p>>] IN c.theirs # None /\ c.theirs = c.settledOn

\* Once every peer's last summary was settled with a member, a log it keeps closed
\* has nothing more at a peer that changed nothing since: it is as long as the
\* peer's, or claimed.
SettledHeard ==
    \A m \in Members : settled(m) =>
        \A p \in peers(m) : items(p) = chan[<<m, p>>].theirs =>
            \A i \in items(p) :
                LET l == logs[m][i[1]]
                IN  l.held /\ ~l.core => least(i[2], l.limit) <= l.length \/ l.claim > 0
=============================================================================
