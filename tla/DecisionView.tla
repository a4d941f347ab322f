---------------------------- MODULE DecisionView ----------------------------
(***************************************************************************)
(* How a member's state follows the view of its decision log               *)
(* (lib/decisions/log.js).  Autobase moves the view whenever decisions     *)
(* arrive, and truncates it when it orders them anew; reload() brings the  *)
(* state to it, one run at a time, applying only the entries that changed  *)
(* where it can, and tells listeners which ones did.  Every await of the   *)
(* code is a point where Autobase, callers and close() step in.            *)
(***************************************************************************)
EXTENDS Integers, Sequences, FiniteSets, FiniteSetsExt

CONSTANTS
    Keys,       \* the view's entries
    Values,     \* and what they hold
    None,       \* no entry; also: the state was not read yet
    Blocks,     \* inputs: what a decision puts and deletes
    Callers,    \* who awaits update(): ready(), append(), catchUp()
    MaxLen,     \* bound: the view's length
    MaxMoves,   \* bound: times the view moves
    MaxFails    \* bound: reads of a snapshot that fail

\* Above every length: nothing was truncated.
Infinity == MaxLen + 1
Entries == [Keys -> Values \cup {None}]
\* The entries a decision touches, None for one it deletes.
Block == UNION {[K -> Values \cup {None}] : K \in SUBSET Keys}

Version == [fork : Nat, version : 0..MaxLen]

ASSUME ViewAssumption ==
    /\ MaxLen \in Nat /\ MaxMoves \in Nat /\ MaxFails \in Nat
    /\ Blocks \subseteq Block
    /\ None \notin Values /\ None \notin Version

VARIABLES
    view,       \* base.view: a block per decision
    fork,       \* base.view.core.fork
    moves,      \* how often the view moved
    owed,       \* it moved, and Autobase will emit 'update'
    state,      \* this.state
    readAt,     \* this._read_at
    truncated,  \* this._truncated
    again,      \* this._again
    pc,         \* where the run of reload() is; "idle": this._reloading is null
    snap,       \* the run's snapshot of the view
    since,      \* the truncation it started from
    at,         \* the version it reads
    todo,       \* keys of the diff still to apply
    keys,       \* keys the run changed; after a full read, any may have
    seen,       \* the state as the listeners of 'change' looked at it
    waiting,    \* of each caller: not waiting, or has the view been looked at since it called?
    fails,
    closed,     \* this.closed
    baseClosed  \* base.close() was called

baseVars == <<view, fork, moves, owed>>
runVars == <<snap, since, at, todo, keys>>
viewVars == <<baseVars, state, readAt, truncated, again, pc, runVars, seen, waiting, fails,
              closed, baseClosed>>

Reading == {"ready", "diff", "full"}

ViewTypeOK ==
    /\ view \in Seq(Block) /\ Len(view) <= MaxLen
    /\ fork \in Nat /\ moves \in 0..MaxMoves /\ owed \in BOOLEAN
    /\ state \in Entries /\ seen \in Entries
    /\ readAt \in Version \cup {None}
    /\ truncated \in 0..Infinity /\ since \in 0..Infinity
    /\ again \in BOOLEAN
    /\ pc \in Reading \cup {"idle", "closing", "failing", "done"}
    /\ snap \in Seq(Block) /\ Len(snap) <= MaxLen
    /\ at \in Version \cup {None}
    /\ todo \in SUBSET Keys
    /\ keys \in SUBSET Keys
    /\ waiting \in [Callers -> {"no", "stale", "fresh"}]
    /\ fails \in 0..MaxFails
    /\ closed \in BOOLEAN /\ baseClosed \in BOOLEAN

\* What the blocks of s say.
content(s) ==
    [k \in Keys |->
        LET named == {i \in DOMAIN s : k \in DOMAIN s[i]}
        IN  IF named = {} THEN None ELSE s[Max(named)][k]]

Init ==
    /\ view = <<>> /\ fork = 0 /\ moves = 0 /\ owed = FALSE
    /\ state = [k \in Keys |-> None] /\ seen = [k \in Keys |-> None]
    /\ readAt = None /\ truncated = Infinity /\ again = FALSE
    /\ pc = "idle"
    /\ snap = <<>> /\ since = Infinity /\ at = None /\ todo = {} /\ keys = {}
    /\ waiting = [c \in Callers |-> "no"]
    /\ fails = 0 /\ closed = FALSE /\ baseClosed = FALSE

-----------------------------------------------------------------------------
(* Autobase.                                                               *)

\* A decision is applied.
Apply(b) ==
    /\ ~ baseClosed /\ moves < MaxMoves /\ Len(view) < MaxLen
    /\ view' = Append(view, b)
    /\ moves' = moves + 1
    /\ owed' = TRUE
    /\ UNCHANGED <<fork, state, readAt, truncated, again, pc, runVars, seen, waiting, fails,
                   closed, baseClosed>>

\* Decisions found to come earlier: the view goes back to n blocks, and the
\* listener on its core notes it.  The fork may move with it.
Reorder(n, f) ==
    /\ ~ baseClosed /\ moves < MaxMoves /\ n < Len(view)
    /\ view' = SubSeq(view, 1, n)
    /\ fork' = fork + f
    /\ moves' = moves + 1
    /\ owed' = TRUE
    /\ truncated' = IF n < truncated THEN n ELSE truncated
    /\ UNCHANGED <<state, readAt, again, pc, runVars, seen, waiting, fails, closed, baseClosed>>

-----------------------------------------------------------------------------
(* reload().                                                               *)

\* Mutant: the flag stays up.
ReadOnce_again == again' = again

ReadOnce == again' = FALSE

\* _read() up to its first await; it serves every call so far, those of w.
StartRead(w) ==
    /\ ReadOnce
    /\ snap' = view
    /\ since' = truncated /\ truncated' = Infinity
    /\ pc' = "ready"
    /\ waiting' = [c \in Callers |-> IF w[c] = "no" THEN "no" ELSE "fresh"]
    /\ UNCHANGED <<at, todo>>

\* A call while a run is under way asks it to go round again.
Reload(w) ==
    IF pc = "idle"
    THEN StartRead(w) /\ keys' = {}
    ELSE again' = TRUE /\ waiting' = w /\ UNCHANGED <<pc, runVars, truncated>>

\* Autobase's 'update', whose listener waits for nothing.
Update ==
    /\ owed /\ ~ closed
    /\ owed' = FALSE
    /\ Reload(waiting)
    /\ UNCHANGED <<view, fork, moves, state, readAt, seen, fails, closed, baseClosed>>

\* update(): the caller waits for the run there is, or for its own.
Call(c) ==
    /\ ~ closed /\ waiting[c] = "no"
    /\ Reload([waiting EXCEPT ![c] = "stale"])
    /\ UNCHANGED <<baseVars, state, readAt, seen, fails, closed, baseClosed>>

\* Mutant: only the fork tells of a reordered view.
continues_fork(v) == readAt # None /\ readAt.fork = v.fork /\ v.version >= readAt.version

\* The state was read from an earlier version of what is being read.
continues(v) ==
    /\ readAt # None /\ readAt.fork = v.fork
    /\ since >= readAt.version /\ v.version >= readAt.version

\* The snapshot is open: from where the state was read on, or the whole of it.
SnapReady ==
    LET v == [fork |-> fork, version |-> Len(snap)]
        old == content(SubSeq(snap, 1, readAt.version))
    IN  /\ pc = "ready"
        /\ at' = v
        /\ IF continues(v)
           THEN /\ pc' = "diff"
                /\ todo' = {k \in Keys : content(snap)[k] # old[k]}
           ELSE pc' = "full" /\ UNCHANGED todo
        /\ UNCHANGED <<baseVars, state, readAt, truncated, again, snap, since, keys, seen,
                       waiting, fails, closed, baseClosed>>

\* Mutant: a run tells only of the keys of its last read.
noted_last(k) == {k}

\* The keys the run changed so far, with k.
noted(k) == keys \cup {k}

\* One entry of the diff, applied to the state in place.
ApplyEntry(k) ==
    /\ pc = "diff" /\ k \in todo
    /\ state' = [state EXCEPT ![k] = content(snap)[k]]
    /\ todo' = todo \ {k}
    /\ keys' = noted(k)
    /\ UNCHANGED <<baseVars, readAt, truncated, again, pc, snap, since, at, seen, waiting, fails,
                   closed, baseClosed>>

DiffDone ==
    /\ pc = "diff" /\ todo = {}
    /\ readAt' = at
    /\ pc' = "closing"
    /\ UNCHANGED <<baseVars, state, truncated, again, runVars, seen, waiting, fails, closed,
                   baseClosed>>

FullRead ==
    /\ pc = "full"
    /\ state' = content(snap)
    /\ readAt' = at
    /\ keys' = Keys
    /\ pc' = "closing"
    /\ UNCHANGED <<baseVars, truncated, again, snap, since, at, todo, seen, waiting, fails, closed,
                   baseClosed>>

\* Mutant: a version before the first, for none.
Forgotten_before == readAt' = [fork |-> fork, version |-> -1]

\* Half applied, or a truncation missed: read whole next time.
Forgotten == readAt' = None

ReadFails ==
    /\ pc \in Reading /\ fails < MaxFails
    /\ fails' = fails + 1
    /\ Forgotten
    /\ pc' = "failing"
    /\ UNCHANGED <<baseVars, state, truncated, again, runVars, seen, waiting, closed, baseClosed>>

\* The snapshot is closed: the run goes round again if it was asked to, which
\* reads nothing once closed.
SnapClosed ==
    /\ pc = "closing"
    /\ IF again /\ ~ closed
       THEN StartRead(waiting) /\ UNCHANGED keys
       ELSE pc' = "done" /\ again' = FALSE /\ UNCHANGED <<runVars, truncated, waiting>>
    /\ UNCHANGED <<baseVars, state, readAt, seen, fails, closed, baseClosed>>

\* The run's promise is settled and its continuation runs, a microtask later:
\* listeners look at what changed, callers go on.
Finish ==
    /\ pc = "done"
    /\ pc' = "idle"
    /\ seen' = [k \in Keys |-> IF k \in keys THEN state[k] ELSE seen[k]]
    /\ waiting' = [c \in Callers |-> "no"]
    /\ UNCHANGED <<baseVars, state, readAt, truncated, again, runVars, fails, closed, baseClosed>>

\* The run's promise is rejected: nobody is told, callers get the error.
FinishFailed ==
    /\ pc = "failing"
    /\ pc' = "idle"
    /\ waiting' = [c \in Callers |-> "no"]
    /\ UNCHANGED <<baseVars, state, readAt, truncated, again, runVars, seen, fails, closed,
                   baseClosed>>

-----------------------------------------------------------------------------
Close ==
    /\ ~ closed
    /\ closed' = TRUE
    /\ UNCHANGED <<baseVars, state, readAt, truncated, again, pc, runVars, seen, waiting, fails,
                   baseClosed>>

\* Mutant: without waiting for the run.
runOver_no == TRUE

runOver == pc = "idle"

\* close() waits for the run, then closes the base.
CloseBase ==
    /\ closed /\ ~ baseClosed /\ runOver
    /\ baseClosed' = TRUE
    /\ UNCHANGED <<baseVars, state, readAt, truncated, again, pc, runVars, seen, waiting, fails,
                   closed>>

RunStep ==
    \/ SnapReady
    \/ \E k \in Keys : ApplyEntry(k)
    \/ DiffDone
    \/ FullRead
    \/ SnapClosed
    \/ Finish
    \/ FinishFailed

Next ==
    \/ \E b \in Blocks : Apply(b)
    \/ \E n \in 0..MaxLen, f \in {0, 1} : Reorder(n, f)
    \/ Update
    \/ \E c \in Callers : Call(c)
    \/ RunStep
    \/ ReadFails
    \/ Close
    \/ CloseBase

\* Every await of a run settles, and Autobase emits the 'update' it owes.
ViewSpec == Init /\ [][Next]_viewVars /\ WF_viewVars(RunStep) /\ WF_viewVars(Update)

-----------------------------------------------------------------------------
(* Properties.                                                             *)

\* Applying only what changed gives what reading the whole view would: however
\* the view was reordered, before a run, between its steps or during an earlier
\* one, and whichever reads failed half way, a read ends with the state its
\* snapshot holds.
IncrementalIsWhole ==
    pc \in {"closing", "done"} => state = content(snap)

\* The base is closed only with no read of its view under way, whatever called
\* reload() while close() waited.
ClosedQuiet == baseClosed => pc = "idle"

\* Whoever awaits update() goes on: a run asked again and again ends, because
\* callers wait for it.
CallersAnswered == \A c \in Callers : waiting[c] # "no" ~> waiting[c] = "no"

\* The detailed log implements what Follower promises: whatever is read in
\* place, entry by entry, over several rounds and with reads that fail, those
\* who listen to 'change' see the view as it was at one moment, and then only
\* as it was at later ones; and when a run ends without an error, as it was
\* when the run last looked.
Abstract ==
    INSTANCE Follower WITH
        now <- content(view), taken <- content(snap), told <- pc = "idle" /\ readAt # None

FollowsView == Abstract!Spec
=============================================================================
