----------------------------- MODULE ViewProofs -----------------------------
(***************************************************************************)
(* The state follows the view, for any entries, decisions, callers and     *)
(* bounds: applying what changed gives what a whole read would             *)
(* (IncrementalIsWhole), the base closes with no read under way            *)
(* (ClosedQuiet), and listeners see what Follower promises (FollowsView).  *)
(***************************************************************************)
EXTENDS DecisionView, SequenceTheorems, WellFoundedInduction, TLAPS

\* The first n blocks of the view.
Prefix(s, n) == SubSeq(s, 1, n)

Shape ==
    /\ view \in Seq(Block) /\ snap \in Seq(Block)
    /\ truncated \in Int /\ since \in Int
    /\ readAt # None => readAt.version \in Nat
    /\ state = [k \in Keys |-> state[k]] /\ seen = [k \in Keys |-> seen[k]]
    /\ keys \subseteq Keys /\ todo \subseteq Keys

\* Between reads, a view not truncated below where the state was read still
\* begins with what was read.
ReadSound ==
    pc \in {"idle", "closing", "done"} /\ readAt # None /\ truncated >= readAt.version =>
        /\ readAt.version <= Len(view)
        /\ state = content(Prefix(view, readAt.version))

\* Before the snapshot is looked at, the same of the snapshot and the
\* truncation noted when it was taken.
ReadySound ==
    pc = "ready" /\ readAt # None /\ since >= readAt.version =>
        /\ readAt.version <= Len(snap)
        /\ state = content(Prefix(snap, readAt.version))

\* A view not truncated below the snapshot since it was taken begins with it.
SnapSound ==
    pc \in Reading /\ truncated >= Len(snap) => Len(snap) <= Len(view) /\ Prefix(view, Len(snap)) = snap

\* What a read has done so far.
RunSound ==
    /\ pc \in {"diff", "full"} => at.version = Len(snap)
    /\ pc = "diff" => \A k \in Keys \ todo : state[k] = content(snap)[k]
    /\ pc = "diff" => readAt # None
    /\ pc = "failing" => readAt = None

\* Keys the run didn't touch are as listeners saw them.
Told ==
    readAt # None =>
        /\ pc = "idle" => seen = state
        /\ pc \in {"ready", "diff", "closing", "done"} => \A k \in Keys \ keys : seen[k] = state[k]

ViewInv == Shape /\ ReadSound /\ ReadySound /\ SnapSound /\ RunSound /\ Told /\ IncrementalIsWhole

-----------------------------------------------------------------------------
(* Prefixes.                                                               *)

\* Decisions applied later change no prefix.
LEMMA PrefixAppend ==
    ASSUME NEW s \in Seq(Block), NEW b \in Block, NEW n \in Nat, n <= Len(s)
    PROVE  Prefix(Append(s, b), n) = Prefix(s, n)
<1>1. Append(s, b) \in Seq(Block) /\ \A i \in 1..n : Append(s, b)[i] = s[i] /\ s[i] \in Block
  OBVIOUS
<1>2. /\ Prefix(s, n) \in Seq(Block) /\ Len(Prefix(s, n)) = n
      /\ \A i \in 1..n : Prefix(s, n)[i] = s[i]
  BY <1>1, SubSeqProperties DEF Prefix
<1>3. /\ Prefix(Append(s, b), n) \in Seq(Block) /\ Len(Prefix(Append(s, b), n)) = n
      /\ \A i \in 1..n : Prefix(Append(s, b), n)[i] = Append(s, b)[i]
  BY <1>1, SubSeqProperties DEF Prefix
<1> HIDE DEF Prefix
<1> QED
  BY <1>1, <1>2, <1>3, SeqEqual

\* Truncating at n changes no prefix up to n.
LEMMA PrefixPrefix ==
    ASSUME NEW s \in Seq(Block), NEW m \in Nat, m <= Len(s), NEW n \in Nat, n <= m
    PROVE  /\ Prefix(s, m) \in Seq(Block) /\ Len(Prefix(s, m)) = m
           /\ Prefix(Prefix(s, m), n) = Prefix(s, n)
<1> DEFINE t == Prefix(s, m)
<1>1. \A i \in 1..m : s[i] \in Block
  OBVIOUS
<1>2. t \in Seq(Block) /\ Len(t) = m /\ \A i \in 1..m : t[i] = s[i]
  BY <1>1, SubSeqProperties DEF Prefix
<1>3. /\ Prefix(s, n) \in Seq(Block) /\ Len(Prefix(s, n)) = n
      /\ \A i \in 1..n : Prefix(s, n)[i] = s[i]
  BY <1>1, SubSeqProperties DEF Prefix
<1> HIDE DEF t
<1>4. \A i \in 1..n : t[i] \in Block /\ t[i] = s[i]
  BY <1>1, <1>2
<1>5. /\ Prefix(t, n) \in Seq(Block) /\ Len(Prefix(t, n)) = n
      /\ \A i \in 1..n : Prefix(t, n)[i] = t[i]
  BY <1>4, SubSeqProperties DEF Prefix
<1>6. Prefix(t, n) = Prefix(s, n)
  BY <1>3, <1>4, <1>5, SeqEqual
<1> QED
  BY <1>2, <1>6 DEF t

\* The whole.
LEMMA PrefixAll ==
    ASSUME NEW s \in Seq(Block)
    PROVE  Prefix(s, Len(s)) = s
BY SubSeqFull DEF Prefix

-----------------------------------------------------------------------------
(* What a view says.                                                       *)

\* Of the blocks that name a key there is a last one.
LEMMA LastIsOne ==
    ASSUME NEW n \in Nat, NEW S \in SUBSET (1..n), S # {}
    PROVE  Max(S) \in S
<1> DEFINE before == OpToRel(<, Nat)
           left == {n - i : i \in S}
<1>1. left \subseteq Nat /\ left # {}
  <2>1. \A i \in S : i \in Int /\ i <= n /\ n - i \in Nat
    OBVIOUS
  <2>2. PICK i : i \in S
    OBVIOUS
  <2> QED
    BY <2>1, <2>2
<1>2. before = {p \in Nat \X Nat : p[1] < p[2]}
  BY DEF OpToRel
<1> HIDE DEF before, left
<1>3. PICK m \in left : \A y \in left : <<y, m>> \notin before
  BY <1>1, NatLessThanWellFounded, WFMin DEF before
<1>4. \A y \in left : ~ (y < m)
  BY <1>1, <1>2, <1>3
<1>5. PICK i \in S : m = n - i
  BY DEF left
<1>6. \A j \in S : n - j \in left
  BY DEF left
<1>7. \A j \in S : i >= j
  BY <1>4, <1>5, <1>6
<1> QED
  BY <1>5, <1>7 DEF Max

\* What the blocks say is an entry or none for each key.
LEMMA ContentType ==
    ASSUME NEW s \in Seq(Block)
    PROVE  content(s) \in Entries
<1> DEFINE named(k) == {i \in DOMAIN s : k \in DOMAIN s[i]}
<1>1. ASSUME NEW k \in Keys, named(k) # {}
      PROVE  s[Max(named(k))][k] \in Values \cup {None}
  <2>1. Len(s) \in Nat /\ DOMAIN s = 1..Len(s)
    OBVIOUS
  <2>2. named(k) \in SUBSET (1..Len(s))
    BY <2>1
  <2>3. Max(named(k)) \in named(k)
    <3> HIDE DEF named
    <3> QED
      BY <1>1, <2>1, <2>2, LastIsOne
  <2>4. PICK b \in Block : b = s[Max(named(k))] /\ k \in DOMAIN b
    <3>1. PICK i \in DOMAIN s : i = Max(named(k)) /\ k \in DOMAIN s[i]
      BY <2>3
    <3>2. s[i] \in Block
      BY <2>1, <3>1
    <3> QED
      BY <3>1, <3>2
  <2>5. PICK K \in SUBSET Keys : b \in [K -> Values \cup {None}]
    BY DEF Block
  <2>6. b[k] \in Values \cup {None}
    BY <2>4, <2>5
  <2> QED
    BY <2>4, <2>6
<1> QED
  BY <1>1 DEF content, Entries

-----------------------------------------------------------------------------
(* The invariant holds at first, and every step keeps it.                  *)

LEMMA ViewInit == Init => ViewInv
<1> SUFFICES ASSUME Init PROVE ViewInv
  OBVIOUS
<1>1. Shape
  BY ViewAssumption DEF Init, Shape, Infinity
<1>2. RunSound /\ Told /\ IncrementalIsWhole
  BY DEF Init, RunSound, Told, IncrementalIsWhole
<1>3. ReadSound /\ ReadySound /\ SnapSound
  BY DEF Init, ReadSound, ReadySound, SnapSound, Reading
<1> QED
  BY <1>1, <1>2, <1>3 DEF ViewInv

\* Autobase moves the view.
LEMMA ViewMoves ==
    ASSUME ViewInv, (\E b \in Blocks : Apply(b)) \/ (\E n \in 0..MaxLen, f \in {0, 1} : Reorder(n, f))
    PROVE  ViewInv'
<1>1. UNCHANGED <<state, readAt, pc, snap, since, at, todo, keys, seen>>
  BY DEF Apply, Reorder, runVars
<1>2. ReadySound' /\ RunSound' /\ Told' /\ IncrementalIsWhole'
  BY <1>1 DEF ViewInv, ReadySound, RunSound, Told, IncrementalIsWhole, Prefix
<1>3. ASSUME NEW b \in Blocks, Apply(b) PROVE Shape' /\ ReadSound' /\ SnapSound'
  <2>1. b \in Block /\ view \in Seq(Block) /\ view' = Append(view, b) /\ UNCHANGED truncated
    BY <1>3, ViewAssumption DEF Apply, ViewInv, Shape
  <2>2. view' \in Seq(Block) /\ Len(view') = Len(view) + 1 /\ Len(view) \in Nat
    BY <2>1
  <2>3. \A n \in Nat : n <= Len(view) => Prefix(view', n) = Prefix(view, n)
    BY <2>1, PrefixAppend
  <2>4. Shape'
    BY <1>1, <2>1, <2>2 DEF ViewInv, Shape
  <2>5. ReadSound'
    BY <1>1, <2>1, <2>2, <2>3 DEF ViewInv, Shape, ReadSound
  <2>6. Len(snap) \in Nat
    BY DEF ViewInv, Shape
  <2>7. SnapSound'
    BY <1>1, <2>1, <2>2, <2>3, <2>6 DEF ViewInv, SnapSound
  <2> QED
    BY <2>4, <2>5, <2>7
<1>4. ASSUME NEW n \in 0..MaxLen, NEW f \in {0, 1}, Reorder(n, f)
      PROVE  Shape' /\ ReadSound' /\ SnapSound'
  <2>1. /\ view \in Seq(Block) /\ view' = Prefix(view, n) /\ n \in Nat /\ n < Len(view)
        /\ truncated \in Int
        /\ truncated' = IF n < truncated THEN n ELSE truncated
    BY <1>4, ViewAssumption DEF Reorder, ViewInv, Shape, Prefix
  <2>2. /\ view' \in Seq(Block) /\ Len(view') = n
        /\ \A m \in Nat : m <= n => Prefix(view', m) = Prefix(view, m)
    BY <2>1, PrefixPrefix
  <2>3. truncated' \in Int /\ truncated' <= n /\ truncated' <= truncated
    BY <2>1
  <2>4. Shape'
    BY <1>1, <2>2, <2>3 DEF ViewInv, Shape
  <2>5. ReadSound'
    BY <1>1, <2>1, <2>2, <2>3 DEF ViewInv, Shape, ReadSound
  <2>6. Len(snap) \in Nat
    BY DEF ViewInv, Shape
  <2>7. SnapSound'
    BY <1>1, <2>1, <2>2, <2>3, <2>6 DEF ViewInv, SnapSound
  <2> QED
    BY <2>4, <2>5, <2>7
<1> QED
  BY <1>2, <1>3, <1>4 DEF ViewInv

\* A read starts: what was sound of the view is of the snapshot.
LEMMA ViewStarts ==
    ASSUME ViewInv, pc \in {"idle", "closing"}, NEW w, StartRead(w),
           keys' \in {{}, keys}, pc = "idle" \/ keys' = keys,
           UNCHANGED <<view, state, readAt, seen>>
    PROVE  ViewInv'
<1>1. /\ snap' = view /\ since' = truncated /\ truncated' = Infinity /\ pc' = "ready"
      /\ UNCHANGED todo
  BY DEF StartRead
<1>2. view \in Seq(Block) /\ Len(view) \in Nat
  BY DEF ViewInv, Shape
<1>3. Shape'
  BY <1>1, <1>2, ViewAssumption DEF ViewInv, Shape, Infinity
<1>4. ReadySound'
  BY <1>1 DEF ViewInv, ReadSound, ReadySound
<1>5. SnapSound'
  BY <1>1, <1>2, PrefixAll DEF SnapSound
<1>6. ReadSound' /\ RunSound' /\ IncrementalIsWhole'
  BY <1>1 DEF ReadSound, RunSound, IncrementalIsWhole
<1>7. Told'
  BY <1>1 DEF ViewInv, Told
<1> QED
  BY <1>3, <1>4, <1>5, <1>6, <1>7 DEF ViewInv

\* A call, of Autobase's listener or of someone waiting.
LEMMA ViewCalls ==
    ASSUME ViewInv, Update \/ \E c \in Callers : Call(c)
    PROVE  ViewInv'
<1>1. PICK w : Reload(w)
  BY DEF Update, Call
<1>2. UNCHANGED <<view, state, readAt, seen>>
  BY DEF Update, Call, baseVars
<1>3. CASE pc = "idle"
  BY <1>1, <1>2, <1>3, ViewStarts DEF Reload
<1>4. CASE pc # "idle"
  <2>1. UNCHANGED <<pc, snap, since, at, todo, keys, truncated>>
    BY <1>1, <1>4 DEF Reload, runVars
  <2>2. Shape' /\ RunSound' /\ Told' /\ IncrementalIsWhole'
    BY <1>2, <2>1 DEF ViewInv, Shape, RunSound, Told, IncrementalIsWhole
  <2>3. ReadSound' /\ ReadySound' /\ SnapSound'
    BY <1>2, <2>1 DEF ViewInv, ReadSound, ReadySound, SnapSound, Prefix
  <2> QED
    BY <2>2, <2>3 DEF ViewInv
<1> QED
  BY <1>3, <1>4

\* The snapshot is ready: a diff from what the state holds, or a full read.
LEMMA ViewReady ==
    ASSUME ViewInv, SnapReady
    PROVE  ViewInv'
<1> DEFINE v == [fork |-> fork, version |-> Len(snap)]
<1>1. /\ pc = "ready" /\ at' = v /\ pc' \in {"diff", "full"} /\ todo' \subseteq Keys
      /\ UNCHANGED <<view, state, readAt, truncated, snap, since, keys, seen>>
  BY DEF SnapReady, baseVars, ViewInv, Shape
<1>2. RunSound'
  <2>1. CASE continues(v)
    <3>1. pc' = "diff" /\ todo' = {k \in Keys : content(snap)[k] # content(Prefix(snap, readAt.version))[k]}
      BY <2>1 DEF SnapReady, Prefix
    <3>2. state = content(Prefix(snap, readAt.version))
      BY <1>1, <2>1 DEF ViewInv, ReadySound, continues
    <3>3. at'.version = Len(snap)
      BY <1>1
    <3>4. readAt # None
      BY <2>1 DEF continues
    <3> QED
      BY <1>1, <3>1, <3>2, <3>3, <3>4 DEF RunSound
  <2>2. CASE ~ continues(v)
    <3>1. pc' = "full"
      BY <2>2 DEF SnapReady
    <3> QED
      BY <1>1, <3>1 DEF RunSound
  <2> QED
    BY <2>1, <2>2
<1>3. Shape'
  BY <1>1 DEF ViewInv, Shape
<1>4. ReadSound' /\ ReadySound' /\ SnapSound' /\ IncrementalIsWhole'
  BY <1>1 DEF ViewInv, ReadSound, ReadySound, SnapSound, IncrementalIsWhole, Reading, Prefix
<1>5. Told'
  BY <1>1 DEF ViewInv, Told
<1> QED
  BY <1>2, <1>3, <1>4, <1>5 DEF ViewInv

\* The steps of a read.
LEMMA ViewReads ==
    ASSUME ViewInv, (\E k \in Keys : ApplyEntry(k)) \/ DiffDone \/ FullRead \/ ReadFails
    PROVE  ViewInv'
<1>1. view \in Seq(Block) /\ snap \in Seq(Block) /\ Len(snap) \in Nat
  BY DEF ViewInv, Shape
<1>2. content(snap) = [k \in Keys |-> content(snap)[k]]
  BY DEF content
<1>3. ASSUME NEW j \in Keys, ApplyEntry(j) PROVE ViewInv'
  <2>1. /\ pc = "diff" /\ pc' = "diff" /\ todo' = todo \ {j} /\ keys' = keys \cup {j}
        /\ state' = [state EXCEPT ![j] = content(snap)[j]]
        /\ UNCHANGED <<view, readAt, truncated, snap, since, at, seen>>
    BY <1>3 DEF ApplyEntry, noted, baseVars
  <2>2. state = [k \in Keys |-> state[k]]
    BY DEF ViewInv, Shape
  <2>3. /\ state' = [k \in Keys |-> state'[k]] /\ state'[j] = content(snap)[j]
        /\ \A k \in Keys \ {j} : state'[k] = state[k]
    BY <2>1, <2>2
  <2>4. Shape'
    BY <2>1, <2>3 DEF ViewInv, Shape
  <2>5. RunSound' /\ Told'
    BY <2>1, <2>3 DEF ViewInv, RunSound, Told
  <2>6. ReadSound' /\ ReadySound' /\ SnapSound' /\ IncrementalIsWhole'
    BY <2>1 DEF ViewInv, ReadSound, ReadySound, SnapSound, IncrementalIsWhole, Reading, Prefix
  <2> QED
    BY <2>4, <2>5, <2>6 DEF ViewInv
<1>4. ASSUME DiffDone \/ FullRead PROVE ViewInv'
  <2>1. /\ pc \in {"diff", "full"} /\ pc' = "closing" /\ readAt' = at
        /\ keys' \subseteq Keys
        /\ UNCHANGED <<view, truncated, snap, since, at, todo, seen>>
    BY <1>4 DEF DiffDone, FullRead, baseVars, runVars, ViewInv, Shape
  <2>2. state' = content(snap)
    <3>1. CASE FullRead
      BY <3>1 DEF FullRead
    <3>2. CASE DiffDone
      <4>1. UNCHANGED state /\ \A k \in Keys : state[k] = content(snap)[k]
        BY <3>2 DEF DiffDone, ViewInv, RunSound
      <4>2. state = [k \in Keys |-> state[k]]
        BY DEF ViewInv, Shape
      <4> QED
        BY <1>2, <4>1, <4>2
    <3> QED
      BY <1>4, <3>1, <3>2
  <2>3. readAt'.version = Len(snap)
    BY <2>1 DEF ViewInv, RunSound
  <2>4. Shape'
    BY <1>1, <1>2, <2>1, <2>2, <2>3 DEF ViewInv, Shape
  <2>5. ReadSound'
    <3>1. truncated >= Len(snap) => Len(snap) <= Len(view) /\ Prefix(view, Len(snap)) = snap
      BY <2>1 DEF ViewInv, SnapSound, Reading
    <3> QED
      BY <2>1, <2>2, <2>3, <3>1 DEF ReadSound
  <2>6. ReadySound' /\ SnapSound' /\ RunSound'
    BY <2>1 DEF ReadySound, SnapSound, RunSound, Reading
  <2>7. IncrementalIsWhole'
    BY <2>1, <2>2 DEF IncrementalIsWhole
  <2>8. Told'
    <3>1. CASE FullRead
      BY <2>1, <3>1 DEF FullRead, Told
    <3>2. CASE DiffDone
      <4>1. UNCHANGED <<state, seen, keys>> /\ pc = "diff" /\ pc' = "closing"
        BY <3>2 DEF DiffDone, runVars
      <4>2. readAt # None
        BY <4>1 DEF ViewInv, RunSound
      <4> QED
        BY <4>1, <4>2 DEF ViewInv, Told
    <3> QED
      BY <1>4, <3>1, <3>2
  <2> QED
    BY <2>4, <2>5, <2>6, <2>7, <2>8 DEF ViewInv
<1>5. ASSUME ReadFails PROVE ViewInv'
  <2>1. /\ readAt' = None /\ pc' = "failing"
        /\ UNCHANGED <<view, state, truncated, snap, since, at, todo, keys, seen>>
    BY <1>5 DEF ReadFails, Forgotten, baseVars, runVars
  <2>2. Shape'
    BY <2>1 DEF ViewInv, Shape
  <2>3. ReadSound' /\ ReadySound' /\ SnapSound' /\ RunSound' /\ Told' /\ IncrementalIsWhole'
    BY <2>1 DEF ReadSound, ReadySound, SnapSound, RunSound, Told, IncrementalIsWhole, Reading
  <2> QED
    BY <2>2, <2>3 DEF ViewInv
<1> QED
  BY <1>3, <1>4, <1>5

\* A run goes round again or ends, and the log closes.
LEMMA ViewEnds ==
    ASSUME ViewInv, SnapClosed \/ Finish \/ FinishFailed \/ Close \/ CloseBase \/ UNCHANGED viewVars
    PROVE  ViewInv'
<1>1. UNCHANGED <<view, state, readAt>>
  BY DEF SnapClosed, Finish, FinishFailed, Close, CloseBase, viewVars, baseVars
<1>2. ASSUME SnapClosed, again /\ ~ closed PROVE ViewInv'
  <2>1. pc = "closing" /\ StartRead(waiting) /\ UNCHANGED <<keys, seen>>
    BY <1>2 DEF SnapClosed
  <2> QED
    BY <1>1, <2>1, ViewStarts
<1>3. ASSUME UNCHANGED <<truncated, snap, since, at, todo, keys>>,
             \/ pc' = pc /\ UNCHANGED seen
             \/ pc = "closing" /\ pc' = "done" /\ UNCHANGED seen
             \/ pc = "failing" /\ pc' = "idle" /\ UNCHANGED seen
             \/ /\ pc = "done" /\ pc' = "idle"
                /\ seen' = [k \in Keys |-> IF k \in keys THEN state[k] ELSE seen[k]]
      PROVE  ViewInv'
  <2>1. Shape'
    <3>1. seen' = [k \in Keys |-> seen'[k]]
      BY <1>3 DEF ViewInv, Shape
    <3> QED
      BY <1>1, <1>3, <3>1 DEF ViewInv, Shape
  <2>2. pc = "failing" => readAt = None
    BY DEF ViewInv, RunSound
  <2>3. ReadSound' /\ ReadySound' /\ SnapSound' /\ RunSound' /\ IncrementalIsWhole'
    BY <1>1, <1>3, <2>2 DEF ViewInv, ReadSound, ReadySound, SnapSound, RunSound,
       IncrementalIsWhole, Reading, Prefix
  <2>4. Told'
    <3>1. CASE pc = "done" /\ pc' = "idle"
      <4>1. seen' = [k \in Keys |-> IF k \in keys THEN state[k] ELSE seen[k]]
        BY <1>3, <3>1
      <4>2. readAt # None => \A k \in Keys : seen'[k] = state[k]
        BY <3>1, <4>1 DEF ViewInv, Told
      <4>3. state = [k \in Keys |-> state[k]]
        BY DEF ViewInv, Shape
      <4>4. readAt # None => seen' = state
        BY <4>1, <4>2, <4>3
      <4> QED
        BY <1>1, <3>1, <4>4 DEF Told
    <3>2. CASE ~ (pc = "done" /\ pc' = "idle")
      BY <1>1, <1>3, <2>2, <3>2 DEF ViewInv, Told
    <3> QED
      BY <3>1, <3>2
  <2> QED
    BY <2>1, <2>3, <2>4 DEF ViewInv
<1>4. CASE SnapClosed /\ ~ (again /\ ~ closed)
  BY <1>3, <1>4 DEF SnapClosed, runVars
<1>5. CASE Finish
  BY <1>3, <1>5 DEF Finish, runVars
<1>6. CASE FinishFailed \/ Close \/ CloseBase \/ UNCHANGED viewVars
  BY <1>3, <1>6 DEF FinishFailed, Close, CloseBase, viewVars, runVars
<1> QED
  BY <1>2, <1>4, <1>5, <1>6

LEMMA ViewStep == ViewInv /\ [Next]_viewVars => ViewInv'
BY ViewMoves, ViewCalls, ViewReady, ViewReads, ViewEnds DEF Next, RunStep

-----------------------------------------------------------------------------
\* Applying only what changed since the last read gives what a whole read
\* would, however the view is reordered meanwhile and whichever reads fail.
THEOREM IncrementalSafe == ViewSpec => []IncrementalIsWhole
<1>1. ViewInv => IncrementalIsWhole
  BY DEF ViewInv
<1> QED
  BY <1>1, ViewInit, ViewStep, PTL DEF ViewSpec

\* The base is closed with no read of its view under way: once the log is
\* closed no run starts.
THEOREM ClosedSafe == ViewSpec => []ClosedQuiet
<1> DEFINE Inv == baseClosed => closed /\ pc = "idle"
<1>1. Init => Inv
  BY DEF Init
<1>2. Inv /\ [Next]_viewVars => Inv'
  <2> SUFFICES ASSUME Inv, [Next]_viewVars PROVE Inv'
    OBVIOUS
  <2>1. CASE \E b \in Blocks : Apply(b)
    BY <2>1 DEF Apply
  <2>2. CASE \E n \in 0..MaxLen, f \in {0, 1} : Reorder(n, f)
    BY <2>2 DEF Reorder
  <2>3. CASE Update \/ \E c \in Callers : Call(c)
    BY <2>3 DEF Update, Call
  <2>4. CASE RunStep
    BY <2>4 DEF RunStep, SnapReady, ApplyEntry, DiffDone, FullRead, SnapClosed, Finish, FinishFailed
  <2>5. CASE ReadFails
    BY <2>5 DEF ReadFails, Reading
  <2>6. CASE Close \/ CloseBase \/ UNCHANGED viewVars
    BY <2>6 DEF Close, CloseBase, runOver, viewVars
  <2> QED
    BY <2>1, <2>2, <2>3, <2>4, <2>5, <2>6 DEF Next
<1>3. Inv => ClosedQuiet
  BY DEF ClosedQuiet
<1> QED
  BY <1>1, <1>2, <1>3, PTL DEF ViewSpec

-----------------------------------------------------------------------------
(* Types.                                                                  *)

LEMMA TypeInit == Init => ViewTypeOK
<1> SUFFICES ASSUME Init PROVE ViewTypeOK
  OBVIOUS
<1>1. view \in Seq(Block) /\ snap \in Seq(Block) /\ Len(view) = 0 /\ Len(snap) = 0
  BY DEF Init
<1>2. state \in Entries /\ seen \in Entries
  BY DEF Init, Entries
<1>3. truncated \in 0..Infinity /\ since \in 0..Infinity /\ moves \in 0..MaxMoves /\ fails \in 0..MaxFails
  BY ViewAssumption DEF Init, Infinity
<1>4. waiting \in [Callers -> {"no", "stale", "fresh"}]
  BY DEF Init
<1>5. fork \in Nat /\ todo \in SUBSET Keys /\ keys \in SUBSET Keys /\ Len(view) <= MaxLen
  BY <1>1, ViewAssumption DEF Init
<1> QED
  BY <1>1, <1>2, <1>3, <1>4, <1>5 DEF Init, ViewTypeOK

\* Autobase's steps, and the ends of the log.
LEMMA TypeBase ==
    ASSUME ViewTypeOK,
           \/ \E b \in Blocks : Apply(b)
           \/ \E n \in 0..MaxLen, f \in {0, 1} : Reorder(n, f)
           \/ Close \/ CloseBase \/ UNCHANGED viewVars
    PROVE  ViewTypeOK'
<1>1. ASSUME NEW b \in Blocks, Apply(b) PROVE ViewTypeOK'
  <2>1. b \in Block /\ view \in Seq(Block)
    BY ViewAssumption DEF ViewTypeOK
  <2>2. view' \in Seq(Block) /\ Len(view') <= MaxLen /\ moves' \in 0..MaxMoves
    BY <1>1, <2>1, ViewAssumption DEF Apply, ViewTypeOK
  <2> QED
    BY <1>1, <2>2 DEF Apply, ViewTypeOK, runVars
<1>2. ASSUME NEW n \in 0..MaxLen, NEW f \in {0, 1}, Reorder(n, f) PROVE ViewTypeOK'
  <2>1. view \in Seq(Block) /\ n \in Nat /\ n <= Len(view) /\ view' = Prefix(view, n)
    BY <1>2, ViewAssumption DEF Reorder, ViewTypeOK, Prefix
  <2>2. view' \in Seq(Block) /\ Len(view') <= MaxLen
    BY <2>1, PrefixPrefix, ViewAssumption
  <2>3. moves' \in 0..MaxMoves /\ fork' \in Nat /\ truncated' \in 0..Infinity
    BY <1>2, ViewAssumption DEF Reorder, ViewTypeOK, Infinity
  <2> QED
    BY <1>2, <2>2, <2>3 DEF Reorder, ViewTypeOK, runVars
<1>3. CASE Close \/ CloseBase \/ UNCHANGED viewVars
  BY <1>3 DEF Close, CloseBase, ViewTypeOK, viewVars, baseVars, runVars
<1> QED
  BY <1>1, <1>2, <1>3

\* Calls, and another round.
LEMMA TypeStarts ==
    ASSUME ViewTypeOK, Update \/ (\E c \in Callers : Call(c)) \/ SnapClosed
    PROVE  ViewTypeOK'
<1>1. PICK w \in [Callers -> {"no", "stale", "fresh"}] :
        \/ StartRead(w) /\ keys' \in {{}, keys}
        \/ /\ again' \in BOOLEAN /\ waiting' = w /\ pc' \in {pc, "done"}
           /\ UNCHANGED <<snap, since, at, todo, keys, truncated>>
  BY DEF Update, Call, SnapClosed, Reload, ViewTypeOK, runVars
<1>2. /\ owed' \in BOOLEAN
      /\ UNCHANGED <<view, fork, moves, state, readAt, seen, fails, closed, baseClosed>>
  BY DEF Update, Call, SnapClosed, ViewTypeOK, baseVars
<1>3. CASE StartRead(w) /\ keys' \in {{}, keys}
  <2>1. /\ again' = FALSE /\ snap' = view /\ since' = truncated /\ truncated' = Infinity
        /\ pc' = "ready" /\ UNCHANGED <<at, todo>>
        /\ waiting' \in [Callers -> {"no", "stale", "fresh"}]
    BY <1>3 DEF StartRead, ReadOnce
  <2>2. truncated' \in 0..Infinity /\ keys' \in SUBSET Keys /\ pc' \in Reading
    BY <1>3, <2>1, ViewAssumption DEF Infinity, ViewTypeOK, Reading
  <2> QED
    BY <1>2, <2>1, <2>2 DEF ViewTypeOK
<1> QED
  BY <1>1, <1>2, <1>3 DEF ViewTypeOK

\* The steps of a read, and what follows it.
LEMMA TypeReads ==
    ASSUME ViewTypeOK,
           \/ SnapReady \/ (\E k \in Keys : ApplyEntry(k)) \/ DiffDone \/ FullRead
           \/ ReadFails \/ Finish \/ FinishFailed
    PROVE  ViewTypeOK'
<1>1. content(snap) \in Entries
  BY ContentType DEF ViewTypeOK
<1>2. CASE SnapReady
  <2>1. at' \in Version
    BY <1>2, ViewAssumption DEF SnapReady, ViewTypeOK, Version
  <2>2. pc' \in Reading /\ todo' \in SUBSET Keys
    BY <1>2 DEF SnapReady, ViewTypeOK, Reading
  <2> QED
    BY <1>2, <2>1, <2>2 DEF SnapReady, ViewTypeOK, baseVars
<1>3. ASSUME NEW k \in Keys, ApplyEntry(k) PROVE ViewTypeOK'
  <2>1. state' \in Entries
    BY <1>1, <1>3 DEF ApplyEntry, ViewTypeOK, Entries
  <2> QED
    BY <1>3, <2>1 DEF ApplyEntry, noted, ViewTypeOK, baseVars
<1>4. CASE DiffDone
  BY <1>4 DEF DiffDone, ViewTypeOK, baseVars, runVars
<1>5. CASE FullRead
  BY <1>1, <1>5 DEF FullRead, ViewTypeOK, baseVars
<1>6. CASE ReadFails
  BY <1>6, ViewAssumption DEF ReadFails, Forgotten, ViewTypeOK, baseVars, runVars
<1>7. CASE Finish
  <2>1. seen' \in Entries
    BY <1>7 DEF Finish, ViewTypeOK, Entries
  <2> QED
    BY <1>7, <2>1 DEF Finish, ViewTypeOK, baseVars, runVars
<1>8. CASE FinishFailed
  BY <1>8 DEF FinishFailed, ViewTypeOK, baseVars, runVars
<1> QED
  BY <1>2, <1>3, <1>4, <1>5, <1>6, <1>7, <1>8

LEMMA TypeStep == ViewTypeOK /\ [Next]_viewVars => ViewTypeOK'
BY TypeBase, TypeStarts, TypeReads DEF Next, RunStep

\* What reload() keeps is well formed at each of its awaits: lengths within the
\* view's, versions for what was read, and an entry or none for each key.
THEOREM ViewTypeCorrect == ViewSpec => []ViewTypeOK
BY TypeInit, TypeStep, PTL DEF ViewSpec

-----------------------------------------------------------------------------
(* Refinement.                                                             *)

\* A read under way knows its version, and one that ended left it.
Versioned ==
    /\ pc \in {"diff", "full"} => at # None
    /\ pc \in {"closing", "done"} => readAt # None

LEMMA VersionedStep ==
    ViewTypeOK /\ Versioned /\ [Next]_viewVars => Versioned'
<1> SUFFICES ASSUME ViewTypeOK, Versioned, [Next]_viewVars PROVE Versioned'
  OBVIOUS
<1>1. CASE (\E b \in Blocks : Apply(b)) \/ (\E n \in 0..MaxLen, f \in {0, 1} : Reorder(n, f))
  BY <1>1 DEF Apply, Reorder, Versioned, runVars
<1>2. CASE Update \/ \E c \in Callers : Call(c)
  BY <1>2 DEF Update, Call, Reload, StartRead, Versioned, runVars
<1>3. CASE SnapReady
  <2>1. at' \in Version
    BY <1>3, ViewAssumption DEF SnapReady, ViewTypeOK, Version
  <2>2. pc' \in {"diff", "full"}
    BY <1>3 DEF SnapReady
  <2> QED
    BY <2>1, <2>2, ViewAssumption DEF Versioned
<1>4. CASE (\E k \in Keys : ApplyEntry(k)) \/ DiffDone \/ FullRead
  BY <1>4 DEF ApplyEntry, DiffDone, FullRead, Versioned, runVars
<1>5. CASE SnapClosed
  BY <1>5 DEF SnapClosed, StartRead, Versioned, runVars
<1>6. CASE ReadFails \/ Finish \/ FinishFailed \/ Close \/ CloseBase \/ UNCHANGED viewVars
  BY <1>6 DEF ReadFails, Finish, FinishFailed, Close, CloseBase, viewVars, Versioned, runVars
<1> QED
  BY <1>1, <1>2, <1>3, <1>4, <1>5, <1>6 DEF Next, RunStep

LEMMA FollowsInit == Init => Abstract!Init
BY DEF Init, Abstract!Init, content

\* Every step is one of Follower's, or none: decisions and reorderings move the
\* entries, a read begun takes them, a run's end shows them.
LEMMA FollowsStep ==
    ASSUME ViewInv, ViewTypeOK, Versioned, [Next]_viewVars
    PROVE  [Abstract!Next]_(Abstract!vars)
<1> DEFINE over == pc = "idle" /\ readAt # None
<1>1. CASE (\E b \in Blocks : Apply(b)) \/ (\E n \in 0..MaxLen, f \in {0, 1} : Reorder(n, f))
  <2>1. view' \in Seq(Block)
    BY <1>1, TypeBase DEF ViewTypeOK
  <2>2. content(view') \in Entries
    BY <2>1, ContentType
  <2>3. UNCHANGED <<snap, seen, pc, readAt>>
    BY <1>1 DEF Apply, Reorder, runVars
  <2>4. Abstract!Decide
    BY <2>2, <2>3 DEF Abstract!Decide, Entries, content
  <2> QED
    BY <2>4 DEF Abstract!Next
<1>2. ASSUME snap' = view, pc' = "ready", UNCHANGED <<view, seen>> PROVE Abstract!Take
  BY <1>2 DEF Abstract!Take, content
<1>3. ASSUME UNCHANGED <<view, snap, seen>>, over' = over PROVE UNCHANGED Abstract!vars
  BY <1>3 DEF Abstract!vars, content
<1>4. CASE Update \/ \E c \in Callers : Call(c)
  <2>1. /\ UNCHANGED <<view, seen, readAt>>
        /\ \/ snap' = view /\ pc' = "ready"
           \/ snap' = snap /\ pc' = pc
    BY <1>4 DEF Update, Call, Reload, StartRead, baseVars, runVars
  <2> QED
    BY <1>2, <1>3, <2>1 DEF Abstract!Next
<1>5. CASE SnapClosed
  <2>1. /\ UNCHANGED <<view, seen>> /\ pc = "closing"
        /\ \/ snap' = view /\ pc' = "ready"
           \/ snap' = snap /\ pc' = "done"
    BY <1>5 DEF SnapClosed, StartRead, baseVars, runVars
  <2> QED
    BY <1>2, <1>3, <2>1 DEF Abstract!Next
<1>6. CASE Finish
  <2>1. /\ pc = "done" /\ pc' = "idle" /\ UNCHANGED <<view, snap, readAt>>
        /\ seen' = [k \in Keys |-> IF k \in keys THEN state[k] ELSE seen[k]]
    BY <1>6 DEF Finish, baseVars, runVars
  <2>2. readAt # None
    BY <2>1 DEF Versioned
  <2>3. \A k \in Keys \ keys : seen[k] = state[k]
    BY <2>1, <2>2 DEF ViewInv, Told
  <2>4. state = content(snap) /\ state = [k \in Keys |-> state[k]]
    BY <2>1 DEF ViewInv, IncrementalIsWhole, Shape
  <2>5. seen' = state
    BY <2>1, <2>3, <2>4
  <2>6. Abstract!Look
    BY <2>1, <2>2, <2>4, <2>5 DEF Abstract!Look, content
  <2> QED
    BY <2>6 DEF Abstract!Next
<1>7. CASE SnapReady \/ (\E k \in Keys : ApplyEntry(k)) \/ DiffDone \/ FullRead \/ ReadFails
  <2>1. UNCHANGED <<view, snap, seen>> /\ pc # "idle" /\ pc' # "idle"
    BY <1>7 DEF SnapReady, ApplyEntry, DiffDone, FullRead, ReadFails, Reading, baseVars, runVars
  <2> QED
    BY <1>3, <2>1
<1>8. CASE FinishFailed
  <2>1. pc = "failing" /\ UNCHANGED <<view, snap, seen, readAt>>
    BY <1>8 DEF FinishFailed, baseVars, runVars
  <2>2. readAt = None
    BY <2>1 DEF ViewInv, RunSound
  <2> QED
    BY <1>3, <2>1, <2>2
<1>9. CASE Close \/ CloseBase \/ UNCHANGED viewVars
  <2>1. UNCHANGED <<view, snap, seen, pc, readAt>>
    BY <1>9 DEF Close, CloseBase, viewVars, baseVars, runVars
  <2> QED
    BY <1>3, <2>1
<1> QED
  BY <1>1, <1>4, <1>5, <1>6, <1>7, <1>8, <1>9 DEF Next, RunStep

\* reload() implements Follower: listeners of 'change' see the view as it was at
\* one moment and then at later ones, and after a run without an error as it was
\* when the run last looked, for any entries, decisions and failures.
THEOREM ViewRefines == ViewSpec => FollowsView
<1>1. Init => Versioned
  BY DEF Init, Versioned
<1> QED
  BY <1>1, ViewInit, ViewStep, TypeInit, TypeStep, VersionedStep, FollowsInit, FollowsStep, PTL
     DEF ViewSpec, FollowsView, Abstract!Spec
=============================================================================
