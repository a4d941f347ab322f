--------------------------- MODULE PrivateProofs ---------------------------
(***************************************************************************)
(* The keys of a private space, for any devices and scenes: what a device  *)
(* holds and finds recorded are keys of the space (KeysTypeOK), a write is *)
(* not sealed with a key it knows someone out to hold (SealedForMembers),  *)
(* and a key made after a removal never reaches who was removed            *)
(* (NewKeysStayIn).                                                        *)
(***************************************************************************)
EXTENDS PrivateKeys, FiniteSetTheorems, WellFoundedInduction, TLAPS

Dec == [op : {"admit", "remove", "rotate"}, by : Devices, on : Devices \cup {None},
        epoch : Int, key : Int, kept : Int, past : SUBSET Nat]

\* Decisions, each made by who knew what it rests on and their own.
Order(all) ==
    /\ all \in Seq(Dec)
    /\ \A n \in DOMAIN all : all[n].past \subseteq 1 .. n - 1
    /\ \A n \in DOMAIN all : \A m \in all[n].past : all[m].past \subseteq all[n].past
    /\ \A m, n \in DOMAIN all : m < n /\ all[m].by = all[n].by => m \in all[n].past
    /\ \A n \in DOMAIN all : all[n].op = "rotate" => all[n].key = n /\ all[n].epoch \in Nat \ {0}
    /\ \A n \in DOMAIN all : all[n].op # "rotate" => all[n].on \in Devices

\* What decisions make.
State == [members : SUBSET Devices, commits : Seq(Int), others : SUBSET Int, cut : [Devices -> Int]]

epochIn(all, k) == IF k = First THEN 0 ELSE all[k].epoch
Rotations(all, T) == {n \in T : all[n].op = "rotate"}

\* Of the decisions T: their keys, those of the epochs in order.
View(all, T, s) ==
    /\ s \in State /\ s.commits # <<>>
    /\ recorded(s) \subseteq {First} \cup Rotations(all, T)
    /\ \A i \in DOMAIN s.commits : epochIn(all, s.commits[i]) = i - 1

\* Whoever decides is in from the start, and nobody removes them.
Lasting(all) ==
    /\ scene.deciders \subseteq scene.members
    /\ \A n \in DOMAIN all : all[n].by \in scene.deciders
    /\ \A n \in DOMAIN all : all[n].op = "remove" => all[n].on \notin scene.deciders

\* Removal m is of someone whom, of the decisions T, none let in since.
Out(all, T, m) ==
    /\ m \in T /\ all[m].op = "remove"
    /\ \A n \in T : all[n].op = "admit" /\ all[n].on = all[m].on => n \in all[m].past

\* Who decides is in, and who was removed is not.
Members(all, T, s) ==
    /\ scene.deciders \subseteq s.members
    /\ \A m \in T : Out(all, T, m) => all[m].on \notin s.members

-----------------------------------------------------------------------------
(* The invariant.                                                          *)

\* A device knows what its decisions rest on, and its own.
KnownOK ==
    /\ known \in [Devices -> SUBSET (DOMAIN made)]
    /\ \A d \in Devices : \A n \in known[d] : made[n].past \subseteq known[d]
    /\ \A n \in DOMAIN made : n \in known[made[n].by]

\* Of all the decisions made.
Known(s) == View(made, DOMAIN made, s)

Decided ==
    /\ scene \in Scene /\ Len(made) <= scene.most /\ Order(made) /\ KnownOK
    /\ state \in [Devices -> State] /\ \A d \in Devices : View(made, known[d], state[d])

\* A link goes from a later epoch's key to an earlier one's.
Record == [op : {"grant", "link", "post"}, key : Int, to : Devices \cup Int \cup {None}]
RecordOK(r) ==
    /\ r \in Record /\ r.key \in Keys
    /\ r.op = "grant" => r.to \in Devices
    /\ r.op = "link" => r.to \in Keys /\ epochOf(r.key) > epochOf(r.to)
Logged ==
    /\ log \in [Devices -> Seq(Record)]
    /\ \A d \in Devices : \A r \in ToSet(log[d]) : RecordOK(r)
    /\ got \in [Devices -> [Devices -> Int]]
    /\ \A d, e \in Devices : got[d][e] <= Len(log[e])

Holding == held \in [Devices -> SUBSET Int] /\ \A d \in Devices : held[d] \subseteq Keys

Task == [pc : {"idle", "judge", "grant", "rotating", "decide", "decided"},
         keys : {None} \cup Int \cup State, granted : SUBSET Devices, todo : Seq(Devices)]
Working ==
    /\ work \in [Devices -> Task] /\ rot \in [Devices -> Task] /\ seal \in [Devices -> Task]
    /\ \A d \in Devices : work[d].pc \in {"judge", "grant"} => Known(work[d].keys)

KeysInv == Decided /\ Logged /\ Holding /\ Working

-----------------------------------------------------------------------------
(* Numbers, and the order of decisions.                                    *)

LEMMA Induct ==
    ASSUME NEW T, 0 \in T, \A n \in Nat : n \in T => n + 1 \in T
    PROVE  \A n \in Nat : n \in T
<1> DEFINE Bad == {n \in Nat : n \notin T}
           less == OpToRel(<, Nat)
<1> SUFFICES ASSUME Bad # {} PROVE FALSE
  OBVIOUS
<1>1. less = {p \in Nat \X Nat : p[1] < p[2]}
  BY DEF OpToRel
<1> HIDE DEF less
<1>2. PICK m \in Bad : \A y \in Bad : <<y, m>> \notin less
  BY NatLessThanWellFounded, WFMin DEF less
<1>3. m \in Nat /\ m \notin T /\ m # 0
  BY <1>2
<1>4. m - 1 \in Nat /\ m - 1 < m /\ (m - 1) + 1 = m
  BY <1>3
<1>5. m - 1 \in T
  BY <1>1, <1>2, <1>3, <1>4
<1> QED
  BY <1>3, <1>4, <1>5

\* What came before a decision is finitely many.
LEMMA PastCounted ==
    ASSUME NEW all, Order(all), NEW n \in DOMAIN all
    PROVE  /\ IsFiniteSet(all[n].past) /\ Cardinality(all[n].past) \in Nat
           /\ all[n].past \subseteq DOMAIN all /\ n \notin all[n].past /\ n \in Nat
           /\ \A m \in all[n].past : m < n
<1>1. DOMAIN all = 1 .. Len(all) /\ Len(all) \in Nat /\ n \in Nat /\ all[n].past \subseteq 1 .. n - 1
  BY DEF Order
<1>2. IsFiniteSet(1 .. n - 1)
  <2>1. 1 \in Int /\ n - 1 \in Int
    BY <1>1
  <2> QED
    BY <2>1, FS_Interval
<1>3. IsFiniteSet(all[n].past)
  BY <1>1, <1>2, FS_Subset
<1> QED
  BY <1>1, <1>3, FS_CardinalityType

\* What a decision rests on comes before it in the order.
LEMMA PastBefore ==
    ASSUME NEW all, Order(all), NEW n \in DOMAIN all, NEW m \in all[n].past
    PROVE  before(all[m], all[n]) /\ ~ before(all[n], all[m])
<1>1. m \in DOMAIN all
  BY PastCounted
<1>2. all[m].past \subseteq all[n].past /\ m \notin all[m].past
  BY <1>1, PastCounted DEF Order
<1>3. /\ IsFiniteSet(all[n].past) /\ Cardinality(all[n].past) \in Nat
      /\ Cardinality(all[m].past) \in Nat
  BY <1>1, PastCounted
<1>4. /\ Cardinality(all[m].past) <= Cardinality(all[n].past)
      /\ Cardinality(all[m].past) # Cardinality(all[n].past)
  BY <1>2, <1>3, FS_Subset
<1> QED
  BY <1>3, <1>4 DEF before

\* The order is total, and a strict one.
LEMMA BeforeTotal ==
    ASSUME NEW all, Order(all)
    PROVE  /\ \A m, n \in DOMAIN all : m # n => before(all[m], all[n]) \/ before(all[n], all[m])
           /\ \A k, m, n \in DOMAIN all : before(all[k], all[m]) /\ before(all[m], all[n]) => before(all[k], all[n])
           /\ \A m, n \in DOMAIN all : ~ (before(all[m], all[n]) /\ before(all[n], all[m]))
<1> DEFINE c(n) == Cardinality(all[n].past)
           r(n) == Rank[all[n].by]
<1>1. \A n \in DOMAIN all : c(n) \in Nat /\ r(n) \in Int /\ all[n].by \in Devices
  <2>1. \A n \in DOMAIN all : all[n] \in Dec
    BY DEF Order
  <2>2. \A n \in DOMAIN all : all[n].by \in Devices
    BY <2>1 DEF Dec
  <2>3. \A n \in DOMAIN all : c(n) \in Nat
    BY PastCounted
  <2> QED
    BY <2>2, <2>3, KeysAssumption
<1>2. \A m, n \in DOMAIN all : before(all[m], all[n]) <=> c(m) < c(n) \/ (c(m) = c(n) /\ r(m) < r(n))
  BY DEF before
<1>3. ASSUME NEW m \in DOMAIN all, NEW n \in DOMAIN all, m < n, c(m) = c(n) PROVE r(m) # r(n)
  <2>1. ASSUME m \in all[n].past PROVE FALSE
    <3>1. ~ before(all[n], all[m]) /\ before(all[m], all[n])
      BY <2>1, PastBefore
    <3>2. all[m].past \subseteq all[n].past /\ m \notin all[m].past
      BY <1>3, <2>1, PastCounted DEF Order
    <3>3. IsFiniteSet(all[n].past)
      BY PastCounted
    <3>4. all[m].past = all[n].past
      BY <1>3, <3>2, <3>3, FS_Subset
    <3> QED
      BY <2>1, <3>2, <3>4
  <2>2. all[m].by # all[n].by
    BY <1>3, <2>1 DEF Order
  <2> QED
    BY <1>1, <2>2, KeysAssumption
<1> HIDE DEF c, r
<1>4. \A m, n \in DOMAIN all : m # n => m < n \/ n < m
  <2>1. DOMAIN all = 1 .. Len(all) /\ Len(all) \in Nat
    BY DEF Order
  <2> QED
    BY <2>1
<1>5. \A m, n \in DOMAIN all : m # n => before(all[m], all[n]) \/ before(all[n], all[m])
  BY <1>1, <1>2, <1>3, <1>4
<1> QED
  BY <1>1, <1>2, <1>5

\* There is a last one of some decisions.
LEMMA LastIs ==
    ASSUME NEW all, Order(all), NEW S \in SUBSET (DOMAIN all), S # {}
    PROVE  /\ last(all, S) \in S
           /\ \A m \in S \ {last(all, S)} : before(all[m], all[last(all, S)])
<1> DEFINE Best(U, n) == \A m \in U \ {n} : before(all[m], all[n])
           T == {k \in Nat : \A U \in SUBSET (DOMAIN all) : Cardinality(U) = k /\ U # {} => \E n \in U : Best(U, n)}
<1>1. ASSUME NEW U \in SUBSET (DOMAIN all) PROVE IsFiniteSet(U) /\ Cardinality(U) \in Nat
  <2>1. DOMAIN all = 1 .. Len(all) /\ Len(all) \in Int /\ 1 \in Int
    BY DEF Order
  <2>2. IsFiniteSet(DOMAIN all)
    BY <2>1, FS_Interval
  <2> QED
    BY <2>2, FS_Subset, FS_CardinalityType
<1>2. 0 \in T
  BY <1>1, FS_EmptySet
<1>3. ASSUME NEW k \in Nat, k \in T PROVE k + 1 \in T
  <2>1. ASSUME NEW U \in SUBSET (DOMAIN all), Cardinality(U) = k + 1, U # {} PROVE \E n \in U : Best(U, n)
    <3>1. PICK x \in U : TRUE
      BY <2>1
    <3>2. U \ {x} \in SUBSET (DOMAIN all) /\ Cardinality(U \ {x}) = k
      BY <1>1, <2>1, FS_RemoveElement
    <3>3. CASE U \ {x} = {}
      <4>1. Best(U, x)
        BY <3>3
      <4> QED
        BY <4>1
    <3>4. CASE U \ {x} # {}
      <4>1. PICK y \in U \ {x} : Best(U \ {x}, y)
        BY <1>3, <3>2, <3>4
      <4>2. x \in DOMAIN all /\ y \in DOMAIN all /\ x # y
        OBVIOUS
      <4>3. CASE before(all[x], all[y])
        BY <4>1, <4>3
      <4>4. CASE before(all[y], all[x])
        <5>1. ASSUME NEW m \in U \ {x} PROVE before(all[m], all[x])
          <6>1. m = y \/ before(all[m], all[y])
            BY <4>1
          <6> QED
            BY <4>2, <4>4, <6>1, BeforeTotal
        <5> QED
          BY <5>1
      <4> QED
        BY <4>2, <4>3, <4>4, BeforeTotal
    <3> QED
      BY <3>3, <3>4
  <2> QED
    BY <2>1
<1>4. \A k \in Nat : k \in T
  <2> HIDE DEF T
  <2> QED
    BY <1>2, <1>3, Induct
<1>5. \E n \in S : Best(S, n)
  BY <1>1, <1>4
<1> QED
  BY <1>5 DEF last

-----------------------------------------------------------------------------
(* Recursion.                                                              *)

\* A function of subsets that takes one element off after the other.
Peeling(ns, a, L, G, f) ==
    f = [S \in SUBSET ns |-> IF S = {} THEN a ELSE G[L[S]][f[S \ {L[S]}]]]

\* There is one, and it stays in V.
LEMMA PeelingExists ==
    ASSUME NEW ns, IsFiniteSet(ns), NEW V, NEW a \in V, NEW G \in [ns -> [V -> V]],
           NEW L \in [SUBSET ns -> ns \cup {None}], \A S \in SUBSET ns : S # {} => L[S] \in S
    PROVE  \E f \in [SUBSET ns -> V] : Peeling(ns, a, L, G, f)
<1> DEFINE step(f, S) == IF S = {} THEN a ELSE G[L[S]][f[S \ {L[S]}]]
           Right(k, f) == \A S \in SUBSET ns : Cardinality(S) <= k => f[S] = step(f, S)
           T == {k \in Nat : \E f \in [SUBSET ns -> V] : Right(k, f)}
<1>1. ASSUME NEW S \in SUBSET ns
      PROVE  /\ IsFiniteSet(S) /\ Cardinality(S) \in Nat /\ (Cardinality(S) = 0 <=> S = {})
             /\ Cardinality(S) <= Cardinality(ns)
             /\ S # {} => Cardinality(S \ {L[S]}) = Cardinality(S) - 1
  <2>1. IsFiniteSet(S) /\ Cardinality(S) <= Cardinality(ns)
    BY FS_Subset
  <2> QED
    BY <2>1, FS_CardinalityType, FS_EmptySet, FS_RemoveElement
<1>2. ASSUME NEW f \in [SUBSET ns -> V], NEW S \in SUBSET ns PROVE step(f, S) \in V
  <2>1. CASE S = {}
    BY <2>1
  <2>2. CASE S # {}
    <3>1. L[S] \in ns /\ S \ {L[S]} \in SUBSET ns
      BY <2>2
    <3>2. G[L[S]] \in [V -> V] /\ f[S \ {L[S]}] \in V
      BY <3>1
    <3> QED
      BY <2>2, <3>2
  <2> QED
    BY <2>1, <2>2
<1>3. 0 \in T
  <2> DEFINE f == [S \in SUBSET ns |-> a]
  <2>1. f \in [SUBSET ns -> V]
    OBVIOUS
  <2>2. ASSUME NEW S \in SUBSET ns, Cardinality(S) <= 0 PROVE f[S] = step(f, S)
    <3>1. S = {}
      <4>1. Cardinality(S) \in Nat /\ (Cardinality(S) = 0 <=> S = {})
        BY <1>1
      <4> HIDE DEF f, step
      <4> QED
        BY <2>2, <4>1
    <3>2. step(f, S) = a
      BY <3>1
    <3>3. f[S] = a
      OBVIOUS
    <3> QED
      BY <3>2, <3>3
  <2>3. Right(0, f)
    BY <2>2
  <2> HIDE DEF Right, f
  <2> QED
    BY <2>1, <2>3
<1>4. ASSUME NEW k \in Nat, k \in T PROVE k + 1 \in T
  <2>1. PICK f \in [SUBSET ns -> V] : Right(k, f)
    BY <1>4
  <2> DEFINE g == [S \in SUBSET ns |-> IF Cardinality(S) <= k THEN f[S] ELSE step(f, S)]
  <2>2. g \in [SUBSET ns -> V]
    <3> HIDE DEF step
    <3> QED
      BY <1>2
  <2>3. \A S \in SUBSET ns : g[S] = step(f, S)
    <3> HIDE DEF step
    <3> QED
      BY <2>1
  <2>4. \A S \in SUBSET ns : Cardinality(S) <= k => g[S] = f[S]
    OBVIOUS
  <2> HIDE DEF g
  <2>5. ASSUME NEW S \in SUBSET ns, Cardinality(S) <= k + 1 PROVE g[S] = step(g, S)
    <3>1. CASE S = {}
      BY <2>3, <3>1
    <3>2. CASE S # {}
      <4>1. S \ {L[S]} \in SUBSET ns /\ Cardinality(S \ {L[S]}) <= k
        BY <1>1, <2>5, <3>2
      <4>2. g[S \ {L[S]}] = f[S \ {L[S]}]
        BY <2>4, <4>1
      <4> QED
        BY <2>3, <3>2, <4>2
    <3> QED
      BY <3>1, <3>2
  <2>6. Right(k + 1, g)
    <3> HIDE DEF step
    <3> QED
      BY <2>5
  <2> HIDE DEF Right
  <2> QED
    BY <2>2, <2>6
<1>5. \A k \in Nat : k \in T
  <2> HIDE DEF T
  <2> QED
    BY <1>3, <1>4, Induct
<1>6. Cardinality(ns) \in Nat
  BY FS_CardinalityType
<1>7. PICK f \in [SUBSET ns -> V] : Right(Cardinality(ns), f)
  BY <1>5, <1>6
<1>8. \A S \in SUBSET ns : f[S] = step(f, S)
  <2> HIDE DEF step
  <2> QED
    BY <1>1, <1>7
<1>9. f = [S \in SUBSET ns |-> step(f, S)]
  <2> HIDE DEF step
  <2> QED
    BY <1>8
<1> QED
  BY <1>9 DEF Peeling

-----------------------------------------------------------------------------
(* What decisions make.                                                    *)

LEMMA Appended ==
    ASSUME NEW S, NEW q \in Seq(S), NEW x \in S
    PROVE  /\ Append(q, x) \in Seq(S) /\ Append(q, x) # <<>>
           /\ DOMAIN Append(q, x) = DOMAIN q \cup {Len(q) + 1}
           /\ Len(q) + 1 \notin DOMAIN q /\ Len(q) \in Nat
           /\ \A i \in DOMAIN q : Append(q, x)[i] = q[i]
           /\ Append(q, x)[Len(q) + 1] = x
           /\ ToSet(Append(q, x)) = ToSet(q) \cup {x}
<1>1. /\ Append(q, x) \in Seq(S) /\ Append(q, x) # <<>> /\ Len(q) \in Nat
      /\ DOMAIN q = 1 .. Len(q) /\ DOMAIN Append(q, x) = 1 .. Len(q) + 1
      /\ \A i \in DOMAIN q : Append(q, x)[i] = q[i]
      /\ Append(q, x)[Len(q) + 1] = x
  OBVIOUS
<1>2. DOMAIN Append(q, x) = DOMAIN q \cup {Len(q) + 1} /\ Len(q) + 1 \notin DOMAIN q
  BY <1>1
<1> QED
  BY <1>1, <1>2 DEF ToSet

LEMMA RotateView ==
    ASSUME NEW all, Order(all), NEW T \in SUBSET (DOMAIN all), NEW n \in DOMAIN all,
           NEW s, View(all, T, s), all[n].op = "rotate"
    PROVE  View(all, T \cup {n}, keyRotate(s, all[n])) /\ keyRotate(s, all[n]).members = s.members
<1>1. /\ s \in State /\ s.commits \in Seq(Int) /\ s.others \in SUBSET Int /\ s.commits # <<>>
      /\ ToSet(s.commits) \subseteq {First} \cup Rotations(all, T) /\ s.others \subseteq {First} \cup Rotations(all, T)
      /\ \A i \in DOMAIN s.commits : epochIn(all, s.commits[i]) = i - 1
  BY DEF View, State, recorded
<1>2. n \in Nat \ {0} /\ all[n].key = n /\ all[n].epoch \in Nat /\ n \in Int
  BY DEF Order
<1>3. {First} \cup Rotations(all, T) \subseteq {First} \cup Rotations(all, T \cup {n}) /\ n \in Rotations(all, T \cup {n})
  BY DEF Rotations
<1>4. ASSUME NEW r, r = [s EXCEPT !.commits = Append(@, n)], all[n].epoch = Len(s.commits)
      PROVE  View(all, T \cup {n}, r) /\ r.members = s.members
  <2>0. Append(s.commits, n) \in Seq(Int)
    BY <1>1, <1>2
  <2>1. r \in State /\ r.commits = Append(s.commits, n) /\ r.others = s.others /\ r.members = s.members
    BY <1>1, <1>4, <2>0 DEF State
  <2>2. /\ DOMAIN r.commits = DOMAIN s.commits \cup {Len(s.commits) + 1} /\ Len(s.commits) \in Nat
        /\ \A i \in DOMAIN s.commits : r.commits[i] = s.commits[i]
        /\ r.commits[Len(s.commits) + 1] = n
        /\ ToSet(r.commits) = ToSet(s.commits) \cup {n}
        /\ r.commits # <<>>
    BY <1>1, <1>2, <2>1, Appended
  <2>3. epochIn(all, n) = Len(s.commits)
    BY <1>2, <1>4 DEF epochIn, First
  <2>4. ASSUME NEW i \in DOMAIN r.commits PROVE epochIn(all, r.commits[i]) = i - 1
    <3>1. CASE i \in DOMAIN s.commits
      BY <1>1, <2>2, <3>1
    <3>2. CASE i = Len(s.commits) + 1
      BY <2>2, <2>3, <3>2
    <3> QED
      BY <2>2, <3>1, <3>2
  <2>5. recorded(r) \subseteq {First} \cup Rotations(all, T \cup {n})
    BY <1>1, <1>3, <2>1, <2>2 DEF recorded
  <2> QED
    BY <2>1, <2>2, <2>4, <2>5 DEF View
<1>5. ASSUME NEW r, r = [s EXCEPT !.others = @ \cup {n}]
      PROVE  View(all, T \cup {n}, r) /\ r.members = s.members
  <2>1. r \in State /\ r.commits = s.commits /\ r.others = s.others \cup {n} /\ r.members = s.members
    BY <1>1, <1>2, <1>5 DEF State
  <2>2. recorded(r) \subseteq {First} \cup Rotations(all, T \cup {n})
    BY <1>1, <1>3, <2>1 DEF recorded
  <2> QED
    BY <1>1, <2>1, <2>2 DEF View
<1>6. View(all, T \cup {n}, s)
  BY <1>1, <1>3 DEF View, recorded
<1>7. current(s) + 1 = Len(s.commits)
  BY <1>1 DEF current
<1> QED
  BY <1>2, <1>4, <1>5, <1>6, <1>7 DEF keyRotate

\* One more decision.
LEMMA ApplyView ==
    ASSUME NEW all, Order(all), NEW T \in SUBSET (DOMAIN all), NEW n \in DOMAIN all,
           NEW s, View(all, T, s)
    PROVE  /\ View(all, T \cup {n}, apply(s, all[n]))
           /\ apply(s, all[n]).members \subseteq s.members \cup (IF all[n].op = "admit" THEN {all[n].on} ELSE {})
           /\ s.members \subseteq apply(s, all[n]).members \cup (IF all[n].op = "remove" THEN {all[n].on} ELSE {})
           /\ all[n].by \in s.members \cap scene.deciders /\ all[n].op = "remove" => all[n].on \notin apply(s, all[n]).members
<1>1. /\ s \in State /\ s.commits \in Seq(Int) /\ s.members \in SUBSET Devices /\ s.cut \in [Devices -> Int]
      /\ recorded(s) \subseteq {First} \cup Rotations(all, T) /\ s.commits # <<>>
      /\ \A i \in DOMAIN s.commits : epochIn(all, s.commits[i]) = i - 1
  BY DEF View, State
<1>2. all[n] \in Dec /\ all[n].op \in {"admit", "remove", "rotate"} /\ all[n].kept \in Int
  <2>1. all[n] \in Dec
    BY DEF Order
  <2> QED
    BY <2>1 DEF Dec
<1>3. all[n].op # "rotate" => all[n].on \in Devices
  BY DEF Order
<1>4. Rotations(all, T) \subseteq Rotations(all, T \cup {n})
  BY DEF Rotations
<1>5. ASSUME NEW r \in State, r.commits = s.commits, r.others = s.others
      PROVE  View(all, T \cup {n}, r)
  BY <1>1, <1>4, <1>5 DEF View, recorded
<1>6. CASE all[n].by \notin s.members \cap scene.deciders
  <2>1. apply(s, all[n]) = s
    BY <1>6 DEF apply
  <2> QED
    BY <1>1, <1>5, <1>6, <2>1
<1>7. CASE all[n].by \in s.members \cap scene.deciders /\ all[n].op = "admit"
  <2>1. PICK r : r = [s EXCEPT !.members = @ \cup {all[n].on}]
    OBVIOUS
  <2>2. r \in State /\ r.commits = s.commits /\ r.others = s.others /\ r.members = s.members \cup {all[n].on}
    BY <1>1, <1>3, <1>7, <2>1 DEF State
  <2>3. apply(s, all[n]) = r
    BY <1>7, <2>1 DEF apply
  <2> QED
    BY <1>5, <1>7, <2>2, <2>3
<1>8. CASE all[n].by \in s.members \cap scene.deciders /\ all[n].op = "remove"
  <2>1. PICK r : r = [s EXCEPT !.members = @ \ {all[n].on}, !.cut[all[n].on] = all[n].kept]
    OBVIOUS
  <2>2. r \in State /\ r.commits = s.commits /\ r.others = s.others /\ r.members = s.members \ {all[n].on}
    BY <1>1, <1>2, <1>3, <1>8, <2>1 DEF State
  <2>3. apply(s, all[n]) = IF all[n].on \in s.members THEN r ELSE s
    BY <1>8, <2>1 DEF apply
  <2> QED
    BY <1>1, <1>5, <1>8, <2>2, <2>3
<1>9. CASE all[n].by \in s.members \cap scene.deciders /\ all[n].op = "rotate"
  <2>1. apply(s, all[n]) = keyRotate(s, all[n])
    BY <1>9 DEF apply
  <2>2. /\ View(all, T \cup {n}, keyRotate(s, all[n])) /\ keyRotate(s, all[n]).members = s.members
    BY <1>9, RotateView
  <2> QED
    BY <1>9, <2>1, <2>2
<1> QED
  BY <1>2, <1>6, <1>7, <1>8, <1>9

\* The view of some decisions, made of one after the other.
ViewBy(all, ns, f) ==
    f = [S \in SUBSET ns |-> IF S = {} THEN Start(scene.members)
                             ELSE apply(f[S \ {last(all, S)}], all[last(all, S)])]

LEMMA AllFinite ==
    ASSUME NEW all, Order(all), NEW S \in SUBSET (DOMAIN all)
    PROVE  IsFiniteSet(S) /\ Cardinality(S) \in Nat
<1>1. DOMAIN all = 1 .. Len(all) /\ Len(all) \in Int /\ 1 \in Int
  BY DEF Order
<1>2. IsFiniteSet(DOMAIN all)
  BY <1>1, FS_Interval
<1> QED
  BY <1>2, FS_Subset, FS_CardinalityType

LEMMA ApplyType ==
    ASSUME NEW all, Order(all), NEW n \in DOMAIN all, NEW s \in State
    PROVE  apply(s, all[n]) \in State
<1>1. /\ s.commits \in Seq(Int) /\ s.members \in SUBSET Devices /\ s.cut \in [Devices -> Int]
      /\ s.others \in SUBSET Int
  BY DEF State
<1>2. all[n] \in Dec /\ all[n].op \in {"admit", "remove", "rotate"} /\ all[n].kept \in Int /\ all[n].key \in Int
  <2>1. all[n] \in Dec
    BY DEF Order
  <2> QED
    BY <2>1 DEF Dec
<1>3. all[n].op # "rotate" => all[n].on \in Devices
  BY DEF Order
<1>4. all[n].op # "rotate" => [s EXCEPT !.members = @ \cup {all[n].on}] \in State
  BY <1>1, <1>3 DEF State
<1>5. all[n].op # "rotate" => [s EXCEPT !.members = @ \ {all[n].on}, !.cut[all[n].on] = all[n].kept] \in State
  BY <1>1, <1>2, <1>3 DEF State
<1>6. keyRotate(s, all[n]) \in State
  <2>1. Append(s.commits, all[n].key) \in Seq(Int)
    BY <1>1, <1>2
  <2>2. [s EXCEPT !.commits = Append(@, all[n].key)] \in State
    BY <1>1, <2>1 DEF State
  <2>3. [s EXCEPT !.others = @ \cup {all[n].key}] \in State
    BY <1>1, <1>2 DEF State
  <2> QED
    BY <2>2, <2>3 DEF keyRotate
<1>7. CASE all[n].op = "rotate"
  BY <1>6, <1>7 DEF apply
<1>8. CASE all[n].op = "admit"
  BY <1>4, <1>8 DEF apply
<1>9. CASE all[n].op = "remove"
  BY <1>5, <1>9 DEF apply
<1> QED
  BY <1>2, <1>7, <1>8, <1>9

LEMMA StartView ==
    ASSUME NEW all, scene \in Scene
    PROVE  View(all, {}, Start(scene.members))
<1> DEFINE s == Start(scene.members)
<1>1. scene.members \in SUBSET Devices
  BY DEF Scene
<1>2. <<First>> \in Seq(Int) /\ First \in Int /\ Inf \in Int
  BY DEF First, Inf
<1>3. /\ s \in State /\ s.commits = <<First>> /\ s.others = {}
  BY <1>1, <1>2 DEF Start, State
<1> HIDE DEF s
<1>4. ToSet(<<First>>) = {First} /\ <<First>> # <<>> /\ DOMAIN <<First>> = {1} /\ <<First>>[1] = First
  BY DEF ToSet
<1>5. epochIn(all, First) = 1 - 1
  BY DEF epochIn
<1> QED
  BY <1>3, <1>4, <1>5 DEF View, recorded, s

LEMMA ViewExists ==
    ASSUME scene \in Scene, NEW all, Order(all), NEW ns \in SUBSET (DOMAIN all)
    PROVE  \E f : ViewBy(all, ns, f) /\ viewOf(all, ns) = f[ns]
<1> DEFINE a == Start(scene.members)
           L == [S \in SUBSET ns |-> IF S = {} THEN None ELSE last(all, S)]
           G == [n \in ns |-> [s \in State |-> apply(s, all[n])]]
<1>1. IsFiniteSet(ns)
  BY AllFinite
<1>2. a \in State
  BY StartView DEF View
<1>3. G \in [ns -> [State -> State]]
  BY ApplyType
<1>4. \A S \in SUBSET ns : S # {} => last(all, S) \in S /\ last(all, S) \in ns
  BY LastIs
<1>5. L \in [SUBSET ns -> ns \cup {None}] /\ \A S \in SUBSET ns : S # {} => L[S] \in S /\ L[S] = last(all, S)
  BY <1>4
<1>6. \A n \in ns : \A s \in State : G[n][s] = apply(s, all[n])
  OBVIOUS
<1> HIDE DEF a, L, G
<1>7. PICK f \in [SUBSET ns -> State] : Peeling(ns, a, L, G, f)
  BY <1>1, <1>2, <1>3, <1>5, PeelingExists
<1>8. ASSUME NEW S \in SUBSET ns
      PROVE  f[S] = IF S = {} THEN Start(scene.members)
                    ELSE apply(f[S \ {last(all, S)}], all[last(all, S)])
  <2>1. f[S] = IF S = {} THEN a ELSE G[L[S]][f[S \ {L[S]}]]
    BY <1>7 DEF Peeling
  <2>2. CASE S = {}
    BY <2>1, <2>2 DEF a
  <2>3. CASE S # {}
    <3>1. L[S] = last(all, S) /\ L[S] \in ns /\ S \ {L[S]} \in SUBSET ns
      BY <1>4, <1>5, <2>3
    <3>2. f[S \ {L[S]}] \in State
      BY <3>1
    <3>3. f[S] = apply(f[S \ {L[S]}], all[L[S]])
      BY <1>6, <2>1, <2>3, <3>1, <3>2
    <3> QED
      BY <2>3, <3>1, <3>3
  <2> QED
    BY <2>2, <2>3
<1>9. f = [S \in SUBSET ns |-> f[S]]
  OBVIOUS
<1>10. ViewBy(all, ns, f)
  BY <1>8, <1>9 DEF ViewBy
<1> QED
  BY <1>10 DEF viewOf, ViewBy

\* What a view of decisions is.
LEMMA ViewIs ==
    ASSUME scene \in Scene, NEW all, Order(all), NEW ns \in SUBSET (DOMAIN all)
    PROVE  /\ View(all, ns, viewOf(all, ns))
           /\ Lasting(all) => Members(all, ns, viewOf(all, ns))
<1>1. PICK f : ViewBy(all, ns, f) /\ viewOf(all, ns) = f[ns]
  BY ViewExists
<1>2. \A S \in SUBSET ns : f[S] = IF S = {} THEN Start(scene.members)
                                  ELSE apply(f[S \ {last(all, S)}], all[last(all, S)])
  BY <1>1 DEF ViewBy
<1> DEFINE Good(S) == View(all, S, f[S]) /\ (Lasting(all) => Members(all, S, f[S]))
           T == {k \in Nat : \A S \in SUBSET ns : Cardinality(S) = k => Good(S)}
<1>3. 0 \in T
  <2>1. ASSUME NEW S \in SUBSET ns, Cardinality(S) = 0 PROVE Good(S)
    <3>1. S = {}
      BY <2>1, AllFinite, FS_EmptySet
    <3>2. f[S] = Start(scene.members)
      BY <1>2, <3>1
    <3>3. Start(scene.members).members = scene.members
      BY DEF Start
    <3>4. View(all, S, f[S])
      BY <3>1, <3>2, StartView
    <3>5. Lasting(all) => Members(all, S, f[S])
      BY <3>1, <3>2, <3>3 DEF Members, Lasting
    <3> QED
      BY <3>4, <3>5
  <2> HIDE DEF Good
  <2> QED
    BY <2>1
<1>4. ASSUME NEW k \in Nat, k \in T PROVE k + 1 \in T
  <2>1. ASSUME NEW S \in SUBSET ns, Cardinality(S) = k + 1 PROVE Good(S)
    <3> DEFINE n == last(all, S)
               R == S \ {n}
    <3>1. S # {} /\ IsFiniteSet(S) /\ S \in SUBSET (DOMAIN all)
      BY <2>1, AllFinite, FS_EmptySet
    <3>2. n \in S /\ \A m \in R : before(all[m], all[n])
      BY <3>1, LastIs
    <3>3. f[S] = apply(f[R], all[n])
      BY <1>2, <3>1
    <3> HIDE DEF n
    <3> HIDE DEF T, Good
    <3>10. R \in SUBSET ns /\ R \in SUBSET (DOMAIN all) /\ n \in DOMAIN all /\ S = R \cup {n}
      BY <3>1, <3>2
    <3>11. Cardinality(S \ {n}) = Cardinality(S) - 1
      BY <3>1, <3>2, FS_RemoveElement
    <3>12. Cardinality(R) = k
      BY <2>1, <3>11
    <3>4. R \in SUBSET ns /\ R \in SUBSET (DOMAIN all) /\ n \in DOMAIN all /\ S = R \cup {n} /\ Cardinality(R) = k
      BY <3>10, <3>12
    <3> HIDE DEF R
    <3>5. Good(R)
      BY <1>4, <3>4 DEF T
    <3>13. View(all, R, f[R]) /\ (Lasting(all) => Members(all, R, f[R]))
      BY <3>5 DEF Good
    <3>6. View(all, S, f[S])
      <4>1. View(all, R \cup {n}, apply(f[R], all[n]))
        BY <3>4, <3>13, ApplyView
      <4> QED
        BY <3>3, <3>4, <4>1
    <3>7. ASSUME Lasting(all) PROVE Members(all, S, f[S])
      <4>1. Members(all, R, f[R]) /\ View(all, R, f[R])
        BY <3>13, <3>7
      <4>2. /\ f[S].members \subseteq f[R].members \cup (IF all[n].op = "admit" THEN {all[n].on} ELSE {})
            /\ f[R].members \subseteq f[S].members \cup (IF all[n].op = "remove" THEN {all[n].on} ELSE {})
            /\ all[n].by \in f[R].members \cap scene.deciders /\ all[n].op = "remove" => all[n].on \notin f[S].members
        BY <3>3, <3>4, <4>1, ApplyView
      <4>3. /\ scene.deciders \subseteq f[R].members /\ all[n].by \in scene.deciders
            /\ all[n].op = "remove" => all[n].on \notin scene.deciders
        BY <3>4, <3>7, <4>1 DEF Lasting, Members
      <4>4. scene.deciders \subseteq f[S].members
        BY <4>2, <4>3
      <4>5. ASSUME NEW m \in S, Out(all, S, m) PROVE all[m].on \notin f[S].members
        <5>1. CASE m = n
          BY <4>2, <4>3, <4>5, <5>1 DEF Out
        <5>2. CASE m \in R
          <6>1. Out(all, R, m)
            BY <3>4, <4>5, <5>2 DEF Out
          <6>2. all[m].on \notin f[R].members
            BY <4>1, <5>2, <6>1 DEF Members
          <6>3. ASSUME all[n].op = "admit", all[n].on = all[m].on PROVE FALSE
            <7>1. n \in all[m].past /\ m \in DOMAIN all
              BY <3>2, <3>4, <4>5, <5>2, <6>3 DEF Out
            <7>2. before(all[m], all[n])
              BY <3>2, <5>2
            <7> QED
              BY <7>1, <7>2, PastBefore
          <6> QED
            BY <4>2, <6>2, <6>3
        <5> QED
          BY <3>4, <5>1, <5>2
      <4> QED
        BY <4>4, <4>5 DEF Members
    <3> QED
      BY <3>6, <3>7 DEF Good
  <2> HIDE DEF Good
  <2> QED
    BY <2>1
<1>5. \A k \in Nat : k \in T
  <2> HIDE DEF T
  <2> QED
    BY <1>3, <1>4, Induct
<1>6. Good(ns)
  <2> HIDE DEF Good
  <2> QED
    BY <1>5, AllFinite
<1> QED
  BY <1>1, <1>6

-----------------------------------------------------------------------------
(* One more decision made.                                                 *)

LEMMA KeysIn ==
    ASSUME NEW all, Order(all)
    PROVE  /\ {all[n].key : n \in {n \in DOMAIN all : all[n].op = "rotate"}} = Rotations(all, DOMAIN all)
           /\ Rotations(all, DOMAIN all) \subseteq Int /\ First \in Int /\ First \notin DOMAIN all
           /\ \A k \in {First} \cup Rotations(all, DOMAIN all) : epochIn(all, k) \in Nat
<1>1. \A n \in DOMAIN all : n \in Nat \ {0} /\ (all[n].op = "rotate" => all[n].key = n /\ all[n].epoch \in Nat)
  BY DEF Order
<1>2. \A n \in Rotations(all, DOMAIN all) : n \in DOMAIN all /\ n \in Int /\ all[n].epoch \in Nat
  BY <1>1 DEF Rotations
<1> QED
  BY <1>1, <1>2 DEF epochIn, First, Rotations

LEMMA KeysAre ==
    ASSUME Order(made)
    PROVE  /\ Keys = {First} \cup Rotations(made, DOMAIN made) /\ Keys \subseteq Int /\ First \in Keys
           /\ \A k \in Keys : epochOf(k) = epochIn(made, k) /\ epochOf(k) \in Nat
           /\ First \notin DOMAIN made
<1>1. Keys = {First} \cup Rotations(made, DOMAIN made)
  BY KeysIn DEF Keys
<1> QED
  BY <1>1, KeysIn DEF epochOf, epochIn

\* Keys stay, with their epochs.
LEMMA Grows ==
    ASSUME Order(made), NEW x \in Dec, made' = Append(made, x), Order(made')
    PROVE  /\ DOMAIN made' = DOMAIN made \cup {Len(made) + 1} /\ Len(made) + 1 \notin DOMAIN made
           /\ Len(made') = Len(made) + 1 /\ Len(made) \in Nat
           /\ \A n \in DOMAIN made : made'[n] = made[n]
           /\ made'[Len(made) + 1] = x
           /\ Keys \subseteq Keys' /\ \A k \in Keys : epochOf(k)' = epochOf(k)
           /\ \A T \in SUBSET (DOMAIN made) : \A U, s : View(made, T, s) /\ T \subseteq U => View(made', U, s)
           /\ \A s : Known(s) => Known(s)'
<1>1. /\ DOMAIN made' = DOMAIN made \cup {Len(made) + 1} /\ Len(made) + 1 \notin DOMAIN made
      /\ Len(made') = Len(made) + 1 /\ Len(made) \in Nat
      /\ \A n \in DOMAIN made : made'[n] = made[n]
      /\ made'[Len(made) + 1] = x
  <2>1. made \in Seq(Dec)
    BY DEF Order
  <2>2. Len(Append(made, x)) = Len(made) + 1
    BY <2>1
  <2> QED
    BY <2>1, <2>2, Appended
<1>2. \A T \in SUBSET (DOMAIN made) : \A U : T \subseteq U => Rotations(made, T) \subseteq Rotations(made', U)
  BY <1>1 DEF Rotations
<1>3. /\ Keys = {First} \cup Rotations(made, DOMAIN made) /\ \A k \in Keys : epochOf(k) = epochIn(made, k)
      /\ Keys' = {First} \cup Rotations(made', DOMAIN made') /\ \A k \in Keys' : epochOf(k)' = epochIn(made', k)
  <2>1. /\ Keys' = {First} \cup Rotations(made', DOMAIN made') /\ \A k \in Keys' : epochOf(k)' = epochIn(made', k)
    BY KeysIn DEF Keys, epochOf, epochIn
  <2> QED
    BY <2>1, KeysAre
<1>4. Keys \subseteq Keys'
  <2>1. Rotations(made, DOMAIN made) \subseteq Rotations(made', DOMAIN made')
    BY <1>1, <1>2
  <2> QED
    BY <1>3, <2>1
<1>5. \A k \in Keys : epochIn(made', k) = epochIn(made, k)
  BY <1>1, <1>3 DEF epochIn, Rotations
<1>6. ASSUME NEW T \in SUBSET (DOMAIN made), NEW U, NEW s, View(made, T, s), T \subseteq U PROVE View(made', U, s)
  <2>1. recorded(s) \subseteq {First} \cup Rotations(made, T)
    BY <1>6 DEF View
  <2>2. Rotations(made, T) \subseteq Rotations(made, DOMAIN made) /\ Rotations(made, T) \subseteq Rotations(made', U)
    BY <1>2, <1>6 DEF Rotations
  <2>3. \A i \in DOMAIN s.commits : s.commits[i] \in Keys
    BY <1>3, <2>1, <2>2 DEF recorded, ToSet
  <2> QED
    BY <1>5, <1>6, <2>1, <2>2, <2>3 DEF View
<1>7. \A s : Known(s) => Known(s)'
  BY <1>1, <1>6 DEF Known
<1> QED
  BY <1>1, <1>3, <1>4, <1>5, <1>6, <1>7

\* What a decision says.
Right(d, x) ==
    /\ x \in Dec /\ x.by = d
    /\ x.op = "rotate" => x.key = Len(made) + 1 /\ x.epoch \in Nat \ {0}
    /\ x.op # "rotate" => x.on \in Devices

LEMMA OrderGrows ==
    ASSUME Decided, NEW d \in Devices, NEW y, Right(d, y), y.past = known[d], made' = Append(made, y)
    PROVE  Order(made')
<1>1. /\ Order(made) /\ known[d] \subseteq DOMAIN made /\ made \in Seq(Dec)
      /\ DOMAIN made = 1 .. Len(made) /\ Len(made) \in Nat
      /\ \A n \in known[d] : made[n].past \subseteq known[d]
      /\ \A n \in DOMAIN made : made[n].by = d => n \in known[d]
  BY DEF Decided, KnownOK, Order
<1>3. y \in Dec /\ y.past = known[d] /\ y.by = d
  BY DEF Right
<1> DEFINE N == Len(made) + 1
<1>4. /\ made' \in Seq(Dec) /\ DOMAIN made' = DOMAIN made \cup {N} /\ N \notin DOMAIN made
      /\ \A n \in DOMAIN made : made'[n] = made[n]
      /\ made'[N] = y
  BY <1>1, <1>3, Appended
<1>5. \A n \in DOMAIN made : n < N /\ n \in Nat
  BY <1>1
<1>6. \A n \in DOMAIN made' : made'[n].past \subseteq 1 .. n - 1
  <2>1. known[d] \subseteq 1 .. N - 1
    BY <1>1
  <2> QED
    BY <1>1, <1>3, <1>4, <2>1 DEF Order
<1>7. ASSUME NEW n \in DOMAIN made', NEW m \in made'[n].past PROVE made'[m].past \subseteq made'[n].past
  <2>1. CASE n \in DOMAIN made
    <3>1. m \in DOMAIN made
      BY <1>1, <1>4, <1>7, <2>1, PastCounted
    <3> QED
      BY <1>1, <1>4, <1>7, <2>1, <3>1 DEF Order
  <2>2. CASE n = N
    BY <1>1, <1>3, <1>4, <1>7, <2>2
  <2> QED
    BY <1>4, <2>1, <2>2
<1>8. ASSUME NEW m \in DOMAIN made', NEW n \in DOMAIN made', m < n, made'[m].by = made'[n].by PROVE m \in made'[n].past
  <2>1. m \in DOMAIN made
    BY <1>1, <1>4, <1>5, <1>8
  <2>2. CASE n \in DOMAIN made
    BY <1>1, <1>4, <1>8, <2>1, <2>2 DEF Order
  <2>3. CASE n = N
    BY <1>1, <1>3, <1>4, <1>8, <2>1, <2>3
  <2> QED
    BY <1>4, <2>2, <2>3
<1>9. /\ \A n \in DOMAIN made' : made'[n].op = "rotate" => made'[n].key = n /\ made'[n].epoch \in Nat \ {0}
      /\ \A n \in DOMAIN made' : made'[n].op # "rotate" => made'[n].on \in Devices
  BY <1>1, <1>3, <1>4 DEF Order, Right
<1>10. Order(made')
  BY <1>4, <1>6, <1>7, <1>8, <1>9 DEF Order
<1> QED
  BY <1>10

LEMMA DecideOK ==
    ASSUME Decided, NEW d \in Devices, NEW x, Right(d, x), decide(d, x),
           scene' \in Scene, scene'.most = scene.most
    PROVE  /\ Decided'
           /\ \E y \in Dec : /\ y.past = known[d] /\ y.by = d /\ y.op = x.op /\ y.on = x.on
                             /\ made' = Append(made, y) /\ Order(made')
           /\ known' = [known EXCEPT ![d] = @ \cup {Len(made')}]
           /\ state' = [state EXCEPT ![d] = viewOf(made', known'[d])]
<1>1. PICK y : y = [x EXCEPT !.past = known[d]]
  OBVIOUS
<1>2. /\ Len(made) < scene.most /\ made' = Append(made, y)
      /\ known' = [known EXCEPT ![d] = @ \cup {Len(made')}]
      /\ state' = [state EXCEPT ![d] = viewOf(made', known[d] \cup {Len(made')})]
  BY <1>1 DEF decide
<1>3. y \in Dec /\ y.past = known[d] /\ y.by = d /\ y.op = x.op /\ y.on = x.on /\ Order(made')
  <2>1. known[d] \in SUBSET Nat
    <3>1. known[d] \subseteq DOMAIN made /\ DOMAIN made = 1 .. Len(made)
      BY DEF Decided, KnownOK, Order
    <3> QED
      BY <3>1
  <2>2. /\ y \in Dec /\ y.past = known[d] /\ y.by = x.by /\ y.op = x.op /\ y.on = x.on
        /\ y.key = x.key /\ y.epoch = x.epoch
    BY <1>1, <2>1 DEF Right, Dec
  <2>3. Right(d, y)
    BY <2>2 DEF Right
  <2> QED
    BY <1>2, <2>2, <2>3, OrderGrows DEF Right
<1>4. /\ Order(made) /\ known \in [Devices -> SUBSET (DOMAIN made)] /\ scene \in Scene
      /\ \A e \in Devices : \A n \in known[e] : made[n].past \subseteq known[e]
      /\ \A n \in DOMAIN made : n \in known[made[n].by]
      /\ state \in [Devices -> State] /\ \A e \in Devices : View(made, known[e], state[e])
  BY DEF Decided, KnownOK
<1>5. /\ DOMAIN made' = DOMAIN made \cup {Len(made')} /\ Len(made') \notin DOMAIN made
      /\ Len(made') = Len(made) + 1 /\ Len(made) \in Nat
      /\ \A n \in DOMAIN made : made'[n] = made[n]
      /\ made'[Len(made')] = y
      /\ \A T \in SUBSET (DOMAIN made) : \A U, s : View(made, T, s) /\ T \subseteq U => View(made', U, s)
  BY <1>2, <1>3, <1>4, Grows
<1>6. known'[d] = known[d] \cup {Len(made')} /\ \A e \in Devices \ {d} : known'[e] = known[e]
  BY <1>2, <1>4
<1>7. \A e \in Devices : known[e] \in SUBSET (DOMAIN made)
  BY <1>4
<1>8. known' \in [Devices -> SUBSET (DOMAIN made')]
  <2>1. known[d] \cup {Len(made')} \in SUBSET (DOMAIN made')
    BY <1>5, <1>7
  <2>2. \A e \in Devices : known[e] \in SUBSET (DOMAIN made')
    BY <1>5, <1>7
  <2> QED
    BY <1>2, <1>4, <2>1, <2>2
<1>9. KnownOK'
  <2>1. ASSUME NEW e \in Devices, NEW n \in known'[e] PROVE made'[n].past \subseteq known'[e]
    <3>1. CASE n \in known[e]
      BY <1>4, <1>5, <1>6, <1>7, <3>1
    <3>2. CASE n \notin known[e]
      BY <1>3, <1>5, <1>6, <2>1, <3>2
    <3> QED
      BY <3>1, <3>2
  <2>2. ASSUME NEW n \in DOMAIN made' PROVE n \in known'[made'[n].by]
    <3>1. CASE n \in DOMAIN made
      <4>1. made[n].by \in Devices
        <5>1. made[n] \in Dec
          BY <1>4, <3>1 DEF Order
        <5> QED
          BY <5>1 DEF Dec
      <4> QED
        BY <1>4, <1>5, <1>6, <3>1, <4>1
    <3>2. CASE n = Len(made')
      BY <1>3, <1>5, <1>6, <3>2
    <3> QED
      BY <1>5, <3>1, <3>2
  <2> QED
    BY <1>8, <2>1, <2>2 DEF KnownOK
<1>10. viewOf(made', known'[d]) \in State /\ View(made', known'[d], viewOf(made', known'[d]))
  <2>1. known'[d] \in SUBSET (DOMAIN made')
    BY <1>8
  <2>2. View(made', known'[d], viewOf(made', known'[d]))
    BY <1>3, <1>4, <2>1, ViewIs
  <2> QED
    BY <2>2 DEF View
<1>11. state' = [state EXCEPT ![d] = viewOf(made', known'[d])]
  BY <1>2, <1>6
<1>12. state' \in [Devices -> State] /\ \A e \in Devices : View(made', known'[e], state'[e])
  <2>1. state' \in [Devices -> State] /\ state'[d] = viewOf(made', known'[d])
        /\ \A e \in Devices \ {d} : state'[e] = state[e]
    BY <1>4, <1>10, <1>11
  <2>2. ASSUME NEW e \in Devices \ {d} PROVE View(made', known'[e], state'[e])
    BY <1>4, <1>5, <1>6, <1>7, <2>1
  <2> QED
    BY <1>10, <2>1, <2>2
<1>13. Len(made') <= scene'.most
  <2>1. scene.most \in Nat
    BY <1>4 DEF Scene
  <2> QED
    BY <1>2, <1>5, <2>1
<1>14. Decided'
  BY <1>3, <1>9, <1>12, <1>13 DEF Decided
<1> QED
  BY <1>2, <1>3, <1>11, <1>14

-----------------------------------------------------------------------------
(* What a device reads of logs.                                            *)

\* Keys known by as many links as it takes.
Growing(a, G, f) == f = [n \in Nat |-> IF n = 0 THEN a ELSE G[f[n - 1]]]

LEMMA GrowingExists ==
    ASSUME NEW S, NEW a \in S, NEW G \in [S -> S]
    PROVE  \E f \in [Nat -> S] : Growing(a, G, f)
<1> DEFINE Upto(n, h) == /\ h[0] = a
                         /\ \A i \in Nat : i < n => h[i + 1] = G[h[i]]
           T == {n \in Nat : \E h \in [Nat -> S] : Upto(n, h)}
<1>1. 0 \in T
  <2>1. Upto(0, [n \in Nat |-> a])
    OBVIOUS
  <2> QED
    BY <2>1
<1>2. ASSUME NEW n \in Nat, n \in T PROVE n + 1 \in T
  <2>1. PICK h \in [Nat -> S] : Upto(n, h)
    BY <1>2
  <2> DEFINE g == [h EXCEPT ![n + 1] = G[h[n]]]
  <2>2. g \in [Nat -> S] /\ n + 1 \in Nat
    OBVIOUS
  <2>3. g[0] = a
    BY <2>1
  <2>4. ASSUME NEW i \in Nat, i < n + 1 PROVE g[i + 1] = G[g[i]]
    <3>1. g[i] = h[i]
      BY <2>4
    <3>2. CASE i = n
      BY <3>1, <3>2
    <3>3. CASE i < n
      <4>1. g[i + 1] = h[i + 1]
        BY <3>3
      <4> QED
        BY <2>1, <3>1, <3>3, <4>1
    <3> QED
      BY <2>4, <3>2, <3>3
  <2> HIDE DEF g
  <2> QED
    BY <2>2, <2>3, <2>4
<1>3. \A n \in Nat : \E h \in [Nat -> S] : Upto(n, h)
  <2> HIDE DEF Upto
  <2>1. \A n \in Nat : n \in T
    <3> HIDE DEF T
    <3> QED
      BY <1>1, <1>2, Induct
  <2> QED
    BY <2>1
<1>4. ASSUME NEW n \in Nat, NEW k \in Nat, n <= k, NEW g, NEW h, Upto(n, g), Upto(k, h)
      PROVE  \A i \in Nat : i <= n => g[i] = h[i]
  <2> DEFINE U == {i \in Nat : i <= n => g[i] = h[i]}
  <2>1. 0 \in U
    BY <1>4
  <2>2. ASSUME NEW i \in Nat, i \in U PROVE i + 1 \in U
    <3> SUFFICES ASSUME i + 1 <= n PROVE g[i + 1] = h[i + 1]
      OBVIOUS
    <3>1. i < n /\ i <= n /\ i < k
      BY <1>4
    <3> QED
      BY <1>4, <2>2, <3>1
  <2>3. \A i \in Nat : i \in U
    <3> HIDE DEF U
    <3> QED
      BY <2>1, <2>2, Induct
  <2> QED
    BY <2>3
<1> DEFINE H(n) == CHOOSE h \in [Nat -> S] : Upto(n, h)
           f == [n \in Nat |-> H(n)[n]]
<1>5. \A n \in Nat : H(n) \in [Nat -> S] /\ Upto(n, H(n))
  <2> HIDE DEF Upto
  <2> QED
    BY <1>3
<1> HIDE DEF H
<1>6. f \in [Nat -> S]
  BY <1>5
<1>7. ASSUME NEW n \in Nat PROVE f[n] = IF n = 0 THEN a ELSE G[f[n - 1]]
  <2>1. CASE n = 0
    BY <1>5, <2>1
  <2>2. CASE n # 0
    <3>1. n - 1 \in Nat /\ n - 1 < n /\ n - 1 <= n /\ (n - 1) + 1 = n
      BY <2>2
    <3>2. H(n)[n] = G[H(n)[n - 1]]
      BY <1>5, <3>1
    <3>3. H(n - 1)[n - 1] = H(n)[n - 1]
      <4>1. Upto(n, H(n)) /\ Upto(n - 1, H(n - 1))
        BY <1>5, <3>1
      <4>2. n - 1 <= n - 1
        BY <3>1
      <4> HIDE DEF Upto
      <4> QED
        BY <1>4, <3>1, <4>1, <4>2
    <3> QED
      BY <2>2, <3>1, <3>2, <3>3
  <2> QED
    BY <2>1, <2>2
<1>8. f = [n \in Nat |-> f[n]]
  OBVIOUS
<1> HIDE DEF f
<1> QED
  BY <1>6, <1>7, <1>8 DEF Growing

\* What grows within a set stays in it.
LEMMA GrowingStays ==
    ASSUME NEW S, NEW f, \A n \in Nat : n = 0 => f[n] \subseteq S,
           \A n \in Nat : n # 0 /\ f[n - 1] \subseteq S => f[n] \subseteq S
    PROVE  \A n \in Nat : f[n] \subseteq S
<1> DEFINE T == {n \in Nat : f[n] \subseteq S}
<1>1. 0 \in T
  OBVIOUS
<1>2. ASSUME NEW n \in Nat, n \in T PROVE n + 1 \in T
  <2>1. n + 1 # 0 /\ (n + 1) - 1 = n /\ n + 1 \in Nat
    OBVIOUS
  <2> QED
    BY <1>2, <2>1
<1>3. \A n \in Nat : n \in T
  <2> HIDE DEF T
  <2> QED
    BY <1>1, <1>2, Induct
<1> QED
  BY <1>3

LEMMA InOrder ==
    ASSUME NEW S, IsFiniteSet(S)
    PROVE  SetToSeq(S) \in Seq(S)
<1>1. Cardinality(S) \in Nat /\ ExistsBijection(1 .. Cardinality(S), S)
  BY FS_CardinalityType
<1>2. \E q \in [1 .. Cardinality(S) -> S] : IsInjective(q)
  BY <1>1 DEF ExistsBijection, Bijection, Injection
<1>3. SetToSeq(S) \in [1 .. Cardinality(S) -> S]
  BY <1>2 DEF SetToSeq
<1> QED
  BY <1>1, <1>3

\* Records indexed are records of logs.
LEMMA IndexedOK ==
    ASSUME KeysInv, NEW d \in Devices
    PROVE  /\ \A r \in indexed(d) : RecordOK(r) /\ \E e \in Devices : r \in ToSet(log[e])
           /\ granted(d) \subseteq Devices
           /\ entitled(d) \in SUBSET Devices
           /\ \A e : grantsTo(d, e) \subseteq Keys
           /\ links(d) \subseteq indexed(d) /\ \A r \in links(d) : r.key \in Keys /\ r.to \in Keys
<1>1. ASSUME NEW e \in Devices, NEW n \in 1 .. upto(d, e) PROVE n \in DOMAIN log[e]
  <2>1. got[d][e] \in Int /\ got[d][e] <= Len(log[e]) /\ log[e] \in Seq(Record) /\ log[d] \in Seq(Record)
    BY DEF KeysInv, Logged
  <2>2. state[d].cut[e] \in Int
    <3>1. state[d] \in State
      BY DEF KeysInv, Decided
    <3> QED
      BY <3>1 DEF State
  <2>3. upto(d, e) <= Len(log[e]) /\ upto(d, e) \in Int
    BY <2>1, <2>2 DEF upto
  <2> QED
    BY <2>1, <2>3
<1>2. \A r \in indexed(d) : RecordOK(r) /\ \E e \in Devices : r \in ToSet(log[e])
  <2>1. \A r \in indexed(d) : \E e \in Devices : \E n \in 1 .. upto(d, e) : r = log[e][n]
    BY DEF indexed
  <2> QED
    BY <1>1, <2>1 DEF KeysInv, Logged, ToSet
<1>3. granted(d) \subseteq Devices
  BY <1>2 DEF granted, RecordOK
<1>4. \A e : grantsTo(d, e) \subseteq Keys
  BY <1>2 DEF grantsTo, RecordOK
<1>5. links(d) \subseteq indexed(d) /\ \A r \in links(d) : r.key \in Keys /\ r.to \in Keys
  BY <1>2 DEF links, RecordOK
<1> QED
  BY <1>2, <1>3, <1>4, <1>5 DEF entitled

\* Keys refreshed are recorded ones, with those held before.
LEMMA RefreshedOK ==
    ASSUME KeysInv, NEW d \in Devices
    PROVE  refreshed(d) \in SUBSET Keys
<1>1. recorded(state[d]) \subseteq Keys /\ held[d] \subseteq Keys
  <2>1. View(made, known[d], state[d]) /\ known[d] \subseteq DOMAIN made /\ Order(made)
    BY DEF KeysInv, Decided, KnownOK
  <2>2. Rotations(made, known[d]) \subseteq Rotations(made, DOMAIN made)
    BY <2>1 DEF Rotations
  <2> QED
    BY <2>1, <2>2, KeysAre DEF View, KeysInv, Holding
<1> DEFINE mine == held[d] \cup (grantsTo(d, d) \cap recorded(state[d]))
           G == [X \in SUBSET Keys |-> X \cup follow(d, X)]
<1>2. mine \in SUBSET Keys
  BY <1>1
<1>3. \A X : follow(d, X) \subseteq recorded(state[d])
  BY DEF follow
<1>4. G \in [SUBSET Keys -> SUBSET Keys] /\ \A X \in SUBSET Keys : G[X] = X \cup follow(d, X)
  BY <1>1, <1>3
<1> HIDE DEF mine, G
<1>5. PICK f \in [Nat -> SUBSET Keys] : Growing(mine, G, f)
  BY <1>2, <1>4, GrowingExists
<1>6. f = [n \in Nat |-> IF n = 0 THEN mine ELSE f[n - 1] \cup follow(d, f[n - 1])]
  <2>1. ASSUME NEW n \in Nat PROVE f[n] = IF n = 0 THEN mine ELSE f[n - 1] \cup follow(d, f[n - 1])
    <3>1. f[n] = IF n = 0 THEN mine ELSE G[f[n - 1]]
      BY <1>5 DEF Growing
    <3>2. n # 0 => f[n - 1] \in SUBSET Keys
      <4>1. n # 0 => n - 1 \in Nat
        OBVIOUS
      <4> QED
        BY <4>1
    <3> QED
      BY <1>4, <3>1, <3>2
  <2>2. f = [n \in Nat |-> f[n]]
    OBVIOUS
  <2> QED
    BY <2>1, <2>2
<1>7. ASSUME NEW g, g = [n \in Nat |-> IF n = 0 THEN mine ELSE g[n - 1] \cup follow(d, g[n - 1])]
      PROVE  \A n \in Nat : g[n] \subseteq Keys
  <2>1. \A n \in Nat : g[n] = IF n = 0 THEN mine ELSE g[n - 1] \cup follow(d, g[n - 1])
    BY <1>7
  <2>2. \A n \in Nat : n = 0 => g[n] \subseteq Keys
    BY <1>2, <2>1
  <2>3. \A n \in Nat : n # 0 /\ g[n - 1] \subseteq Keys => g[n] \subseteq Keys
    BY <1>1, <1>3, <2>1
  <2> QED
    BY <2>2, <2>3, GrowingStays
<1>8. Len(made) \in Nat
  BY DEF KeysInv, Decided, Order
<1>9. \E g : /\ g = [n \in Nat |-> IF n = 0 THEN mine ELSE g[n - 1] \cup follow(d, g[n - 1])]
             /\ refreshed(d) = IF scene.hidden THEN mine ELSE g[Len(made)]
  BY <1>6 DEF refreshed, mine
<1> QED
  BY <1>2, <1>7, <1>8, <1>9

-----------------------------------------------------------------------------
(* What a step leaves as it was.                                           *)

\* Keys stay, with their epochs, and views stay right.
Kept ==
    /\ Keys \subseteq Keys' /\ \A k \in Keys : epochOf(k)' = epochOf(k)
    /\ \A s : Known(s) => Known(s)'

LEMMA MadeSame == made' = made => Kept
BY DEF Kept, Keys, epochOf, Known, View, epochIn, Rotations

LEMMA RecordKept ==
    ASSUME Kept, NEW r, RecordOK(r)
    PROVE  RecordOK(r)'
BY DEF Kept, RecordOK

LEMMA LoggedKept ==
    ASSUME KeysInv, Kept, log' = log, got' = got
    PROVE  Logged'
<1>1. /\ log \in [Devices -> Seq(Record)] /\ got \in [Devices -> [Devices -> Int]]
      /\ \A e \in Devices : \A r \in ToSet(log[e]) : RecordOK(r)
      /\ \A e, f \in Devices : got[e][f] <= Len(log[f])
  BY DEF KeysInv, Logged
<1>2. \A r : RecordOK(r) => RecordOK(r)'
  BY RecordKept
<1>3. \A e \in Devices : \A r \in ToSet(log'[e]) : RecordOK(r)'
  BY <1>1, <1>2
<1>4. log' \in [Devices -> Seq(Record)] /\ got' \in [Devices -> [Devices -> Int]]
      /\ \A e, f \in Devices : got'[e][f] <= Len(log'[f])
  BY <1>1
<1> QED
  BY <1>3, <1>4 DEF Logged

LEMMA HoldingKept == KeysInv /\ Kept /\ held' = held => Holding'
BY DEF KeysInv, Holding, Kept

LEMMA WorkingKept == KeysInv /\ Kept /\ UNCHANGED <<work, rot, seal>> => Working'
BY DEF KeysInv, Working, Kept

LEMMA DecidedKept == KeysInv /\ UNCHANGED <<scene, heard>> => Decided'
BY DEF KeysInv, Decided, KnownOK, heard

\* Idle, a task has nothing in hand.
LEMMA IdleTask == Idle \in Task
BY DEF Idle, Task

\* Records appended to a log.
LEMMA AppendOK ==
    ASSUME KeysInv, NEW d \in Devices, NEW rs, rs \in Seq(Record), \A r \in ToSet(rs) : RecordOK(r),
           made' = made, got' = got, append(d, rs)
    PROVE  /\ Logged'
           /\ ToSet(log'[d]) = ToSet(log[d]) \cup ToSet(rs) /\ \A e \in Devices \ {d} : log'[e] = log[e]
<1>1. /\ log \in [Devices -> Seq(Record)] /\ got \in [Devices -> [Devices -> Int]]
      /\ \A e \in Devices : \A r \in ToSet(log[e]) : RecordOK(r)
      /\ \A e, f \in Devices : got[e][f] <= Len(log[f])
  BY DEF KeysInv, Logged
<1>2. log' = [log EXCEPT ![d] = log[d] \o rs]
  BY DEF append
<1>3. /\ log[d] \o rs \in Seq(Record) /\ Len(log[d] \o rs) = Len(log[d]) + Len(rs)
      /\ Len(rs) \in Nat /\ Len(log[d]) \in Nat
      /\ DOMAIN (log[d] \o rs) = 1 .. Len(log[d]) + Len(rs)
      /\ DOMAIN log[d] = 1 .. Len(log[d]) /\ DOMAIN rs = 1 .. Len(rs)
      /\ \A n \in DOMAIN log[d] : (log[d] \o rs)[n] = log[d][n]
      /\ \A n \in DOMAIN rs : (log[d] \o rs)[n + Len(log[d])] = rs[n]
  <2>1. log[d] \in Seq(Record)
    BY <1>1
  <2> QED
    BY <2>1
<1>4. log' \in [Devices -> Seq(Record)] /\ log'[d] = log[d] \o rs /\ \A e \in Devices \ {d} : log'[e] = log[e]
  BY <1>1, <1>2, <1>3
<1>5. ToSet(log[d] \o rs) = ToSet(log[d]) \cup ToSet(rs)
  <2> DEFINE q == log[d]
             p == log[d] \o rs
  <2>1. ASSUME NEW n \in DOMAIN p PROVE p[n] \in ToSet(q) \cup ToSet(rs)
    <3>1. CASE n <= Len(q)
      <4>1. n \in DOMAIN q /\ p[n] = q[n]
        BY <1>3, <2>1, <3>1
      <4> QED
        BY <4>1 DEF ToSet
    <3>2. CASE n > Len(q)
      <4>1. n - Len(q) \in DOMAIN rs /\ (n - Len(q)) + Len(q) = n
        BY <1>3, <2>1, <3>2
      <4>2. p[n] = rs[n - Len(q)]
        BY <1>3, <4>1
      <4> QED
        BY <4>1, <4>2 DEF ToSet
    <3> QED
      BY <1>3, <2>1, <3>1, <3>2
  <2>2. ASSUME NEW n \in DOMAIN q PROVE q[n] \in ToSet(p)
    <3>1. n \in DOMAIN p /\ p[n] = q[n]
      BY <1>3
    <3> QED
      BY <3>1 DEF ToSet
  <2>3. ASSUME NEW n \in DOMAIN rs PROVE rs[n] \in ToSet(p)
    <3>1. n + Len(q) \in DOMAIN p /\ p[n + Len(q)] = rs[n]
      BY <1>3
    <3> QED
      BY <3>1 DEF ToSet
  <2> HIDE DEF p, q
  <2>4. ToSet(p) = ToSet(q) \cup ToSet(rs)
    BY <2>1, <2>2, <2>3 DEF ToSet
  <2> QED
    BY <2>4 DEF p, q
<1>6. Kept
  BY MadeSame
<1>7. \A r : RecordOK(r) => RecordOK(r)'
  BY <1>6, RecordKept
<1>8. ASSUME NEW e \in Devices, NEW r \in ToSet(log'[e]) PROVE RecordOK(r)'
  <2>1. CASE e = d
    BY <1>1, <1>4, <1>5, <1>7, <1>8, <2>1
  <2>2. CASE e # d
    BY <1>1, <1>4, <1>7, <1>8, <2>2
  <2> QED
    BY <2>1, <2>2
<1>9. ASSUME NEW e \in Devices, NEW f \in Devices PROVE got'[e][f] <= Len(log'[f])
  <2>1. got[e][f] \in Int /\ got[e][f] <= Len(log[f]) /\ Len(log[f]) \in Nat
    BY <1>1
  <2>2. CASE f = d
    BY <1>3, <1>4, <2>1, <2>2
  <2>3. CASE f # d
    BY <1>4, <2>1, <2>3
  <2> QED
    BY <2>2, <2>3
<1>10. got' \in [Devices -> [Devices -> Int]]
  BY <1>1
<1> QED
  BY <1>4, <1>5, <1>8, <1>9, <1>10 DEF Logged

\* A key granted is the current one, held.
LEMMA GrantOK ==
    ASSUME KeysInv, NEW d \in Devices, NEW e \in Devices
    PROVE  /\ grant(d, e) \in Seq(Record) /\ \A r \in ToSet(grant(d, e)) : RecordOK(r)
           /\ \A r \in ToSet(grant(d, e)) : /\ isMember(d, e) /\ r = Grant(currentKey(state[d]), e)
                                            /\ currentKey(state[d]) \in held[d]
<1>1. held[d] \subseteq Keys /\ held[d] \subseteq Int
  BY DEF KeysInv, Holding
<1>2. ASSUME currentHeld(d)
      PROVE  Grant(currentKey(state[d]), e) \in Record /\ RecordOK(Grant(currentKey(state[d]), e))
  <2>1. currentKey(state[d]) \in Keys /\ currentKey(state[d]) \in Int
    BY <1>1, <1>2 DEF currentHeld
  <2>2. PICK r : r = Grant(currentKey(state[d]), e)
    OBVIOUS
  <2>3. r \in Record /\ r.op = "grant" /\ r.key = currentKey(state[d]) /\ r.to = e
    BY <2>1, <2>2 DEF Grant, Record
  <2> QED
    BY <2>1, <2>2, <2>3 DEF RecordOK
<1>3. <<>> \in Seq(Record) /\ ToSet(<<>>) = {}
  BY DEF ToSet
<1>4. CASE isMember(d, e) /\ currentHeld(d)
  <2>1. grant(d, e) = <<Grant(currentKey(state[d]), e)>>
    BY <1>4 DEF grant
  <2> DEFINE r == Grant(currentKey(state[d]), e)
  <2>2. r \in Record /\ RecordOK(r)
    BY <1>2, <1>4
  <2> HIDE DEF r
  <2>3. <<r>> \in Seq(Record) /\ ToSet(<<r>>) = {r}
    BY <2>2 DEF ToSet
  <2>4. grant(d, e) = <<r>>
    BY <2>1 DEF r
  <2>5. r = Grant(currentKey(state[d]), e)
    BY DEF r
  <2> QED
    BY <1>4, <2>2, <2>3, <2>4, <2>5 DEF currentHeld
<1>5. CASE ~ (isMember(d, e) /\ currentHeld(d))
  BY <1>3, <1>5 DEF grant
<1> QED
  BY <1>4, <1>5

-----------------------------------------------------------------------------
(* Decisions, and who hears of them.                                       *)

LEMMA IdleStep ==
    ASSUME NEW f \in [Devices -> Task], NEW d \in Devices, NEW g, g = idle(d, f)
    PROVE  g \in [Devices -> Task] /\ g[d].pc = "idle" /\ \A e \in Devices \ {d} : g[e] = f[e]
<1>1. g = [f EXCEPT ![d] = Idle] /\ Idle \in Task /\ Idle.pc = "idle"
  BY IdleTask DEF idle, Idle
<1> HIDE DEF Idle
<1> QED
  BY <1>1

LEMMA PcStep ==
    ASSUME NEW f \in [Devices -> Task], NEW d \in Devices,
           NEW p \in {"idle", "judge", "grant", "rotating", "decide", "decided"}, NEW g, g = [f EXCEPT ![d].pc = p]
    PROVE  /\ g \in [Devices -> Task] /\ g[d].pc = p /\ g[d].keys = f[d].keys
           /\ \A e \in Devices \ {d} : g[e] = f[e]
<1>1. PICK t : t = [f[d] EXCEPT !.pc = p]
  OBVIOUS
<1>2. f[d] \in Task
  OBVIOUS
<1>3. t \in Task /\ t.pc = p /\ t.keys = f[d].keys
  BY <1>1, <1>2 DEF Task
<1> QED
  BY <1>1, <1>3

LEMMA TodoStep ==
    ASSUME NEW f \in [Devices -> Task], NEW d \in Devices, NEW q \in Seq(Devices), NEW g, g = [f EXCEPT ![d].todo = q]
    PROVE  /\ g \in [Devices -> Task] /\ g[d].pc = f[d].pc /\ g[d].keys = f[d].keys
           /\ \A e \in Devices \ {d} : g[e] = f[e]
<1>1. PICK t : t = [f[d] EXCEPT !.todo = q]
  OBVIOUS
<1>2. f[d] \in Task
  OBVIOUS
<1>3. t \in Task /\ t.pc = f[d].pc /\ t.keys = f[d].keys
  BY <1>1, <1>2 DEF Task
<1> QED
  BY <1>1, <1>3

\* A decision, whatever it is about.
LEMMA DecideKeeps ==
    ASSUME KeysInv, NEW d \in Devices, NEW x, Right(d, x), decide(d, x),
           scene' \in Scene, scene'.most = scene.most
    PROVE  Decided' /\ Kept
<1>1. Decided /\ Order(made)
  BY DEF KeysInv, Decided
<1>2. PICK y \in Dec : made' = Append(made, y) /\ Order(made')
  BY <1>1, DecideOK
<1> QED
  BY <1>1, <1>2, DecideOK, Grows DEF Kept

\* What a decision about someone says.
LEMMA PeopleRight ==
    ASSUME KeysInv, NEW d \in Devices, NEW e \in Devices, NEW op \in {"admit", "remove"}, People(d, op, e)
    PROVE  \E x : decide(d, x) /\ Right(d, x) /\ x.op = op /\ x.on = e
<1>1. got[d][e] \in Int
  BY DEF KeysInv, Logged
<1>2. (IF got[d][e] > 0 THEN got[d][e] ELSE 0) \in Int
  BY <1>1
<1>3. PICK x : x = [Decision(d, op, e) EXCEPT !.kept = IF got[d][e] > 0 THEN got[d][e] ELSE 0]
  OBVIOUS
<1>4. x \in Dec /\ x.by = d /\ x.op = op /\ x.on = e
  BY <1>2, <1>3 DEF Decision, Dec
<1>5. decide(d, x)
  BY <1>3 DEF People
<1> QED
  BY <1>4, <1>5 DEF Right

\* What a change of the key says.
LEMMA RotateRight ==
    ASSUME KeysInv, NEW d \in Devices,
           NEW x, x = [Decision(d, "rotate", None) EXCEPT !.epoch = current(state[d]) + 1, !.key = Len(made) + 1]
    PROVE  Right(d, x) /\ x.op = "rotate"
<1>1. state[d].commits \in Seq(Int) /\ state[d].commits # <<>> /\ made \in Seq(Dec)
  <2>1. View(made, known[d], state[d]) /\ Order(made)
    BY DEF KeysInv, Decided
  <2> QED
    BY <2>1 DEF View, State, Order
<1>2. current(state[d]) + 1 \in Nat \ {0} /\ Len(made) + 1 \in Int
  BY <1>1 DEF current
<1>3. PICK z : z = Decision(d, "rotate", None)
  OBVIOUS
<1>4. z \in Dec /\ z.by = d /\ z.op = "rotate"
  BY <1>3 DEF Decision, Dec
<1>5. PICK c : c = current(state[d]) + 1
  OBVIOUS
<1>6. x = [z EXCEPT !.epoch = c, !.key = Len(made) + 1] /\ c \in Int
  BY <1>2, <1>3, <1>5
<1>7. x \in Dec /\ x.by = d /\ x.op = "rotate" /\ x.key = Len(made) + 1 /\ x.epoch = c
  BY <1>2, <1>4, <1>6 DEF Dec
<1> QED
  BY <1>2, <1>5, <1>7 DEF Right

LEMMA PeopleStep ==
    ASSUME KeysInv, NEW d \in Devices, NEW e \in Devices, NEW op \in {"admit", "remove"}, People(d, op, e)
    PROVE  KeysInv'
<1>1. PICK x : decide(d, x) /\ Right(d, x)
  BY PeopleRight
<1>2. scene' \in Scene /\ scene'.most = scene.most
  <2>1. scene \in Scene
    BY DEF KeysInv, Decided
  <2>2. scene' = [scene EXCEPT !.may = @ \ {<<d, op, e>>}]
    BY DEF People
  <2> QED
    BY <2>1, <2>2 DEF Scene
<1>3. Decided' /\ Kept
  BY <1>1, <1>2, DecideKeeps
<1>4. UNCHANGED <<log, got, held, work, rot, seal>>
  BY DEF People
<1> QED
  BY <1>3, <1>4, LoggedKept, HoldingKept, WorkingKept DEF KeysInv

LEMMA RotateDecideStep ==
    ASSUME KeysInv, NEW d \in Devices, RotateDecide(d)
    PROVE  KeysInv'
<1>1. PICK x : x = [Decision(d, "rotate", None) EXCEPT !.epoch = current(state[d]) + 1, !.key = Len(made) + 1]
  OBVIOUS
<1>2. decide(d, x)
  BY <1>1 DEF RotateDecide
<1>3. Right(d, x)
  BY <1>1, RotateRight
<1>4. scene' = scene /\ scene \in Scene /\ UNCHANGED <<log, got, held, work, seal>>
  BY DEF RotateDecide, KeysInv, Decided
<1>5. Decided' /\ Kept
  BY <1>2, <1>3, <1>4, DecideKeeps
<1>6. Working'
  <2>1. rot' \in [Devices -> Task]
    <3>1. PICK t : t = [Idle EXCEPT !.pc = "decided", !.keys = Len(made) + 1]
      OBVIOUS
    <3>2. Len(made) + 1 \in Int
      BY DEF KeysInv, Decided, Order
    <3>3. t \in Task
      <4>1. PICK i : i = Idle
        OBVIOUS
      <4>2. i \in Task /\ t = [i EXCEPT !.pc = "decided", !.keys = Len(made) + 1]
        BY <3>1, <4>1, IdleTask
      <4> QED
        BY <3>2, <4>2 DEF Task
    <3>4. rot' = [rot EXCEPT ![d] = t] /\ rot \in [Devices -> Task]
      BY <3>1 DEF RotateDecide, KeysInv, Working
    <3> QED
      BY <3>3, <3>4
  <2> QED
    BY <1>4, <1>5, <2>1 DEF Working, KeysInv, Kept
<1> QED
  BY <1>4, <1>5, <1>6, LoggedKept, HoldingKept DEF KeysInv

LEMMA SyncStep ==
    ASSUME KeysInv, NEW d \in Devices, NEW e \in Devices, Sync(d, e)
    PROVE  KeysInv'
<1> DEFINE T == known[d] \cup known[e]
<1>1. /\ known' = [known EXCEPT ![d] = T] /\ state' = [state EXCEPT ![d] = viewOf(made, T)]
      /\ UNCHANGED <<scene, made, log, got, held, work, rot, seal>>
  BY DEF Sync
<1>2. /\ Order(made) /\ known \in [Devices -> SUBSET (DOMAIN made)] /\ scene \in Scene
      /\ \A f \in Devices : \A n \in known[f] : made[n].past \subseteq known[f]
      /\ \A n \in DOMAIN made : n \in known[made[n].by] /\ made[n].by \in Devices
      /\ state \in [Devices -> State] /\ \A f \in Devices : View(made, known[f], state[f])
  <2>1. \A n \in DOMAIN made : made[n] \in Dec
    BY DEF KeysInv, Decided, Order
  <2> QED
    BY <2>1 DEF KeysInv, Decided, KnownOK, Dec
<1>3. T \in SUBSET (DOMAIN made) /\ known[d] \subseteq T /\ \A n \in T : made[n].past \subseteq T
  BY <1>2
<1> HIDE DEF T
<1>4. View(made, T, viewOf(made, T)) /\ viewOf(made, T) \in State
  <2>1. View(made, T, viewOf(made, T))
    BY <1>2, <1>3, ViewIs
  <2> QED
    BY <2>1 DEF View
<1>5. KnownOK'
  BY <1>1, <1>2, <1>3 DEF KnownOK
<1>6. Decided'
  <2>1. state' \in [Devices -> State] /\ \A f \in Devices : View(made, known'[f], state'[f])
    BY <1>1, <1>2, <1>4
  <2>2. Len(made) <= scene.most
    BY DEF KeysInv, Decided
  <2> QED
    BY <1>1, <1>2, <1>5, <2>1, <2>2 DEF Decided
<1>7. Kept
  BY <1>1, MadeSame
<1> QED
  BY <1>1, <1>6, <1>7, LoggedKept, HoldingKept, WorkingKept DEF KeysInv

LEMMA HearStep ==
    ASSUME KeysInv, NEW d \in Devices, NEW e \in Devices, Hear(d, e)
    PROVE  KeysInv'
<1>1. got' = [got EXCEPT ![d][e] = Len(log[e])] /\ UNCHANGED <<scene, heard, log, held, work, rot, seal>>
  BY DEF Hear
<1>2. /\ log \in [Devices -> Seq(Record)] /\ got \in [Devices -> [Devices -> Int]]
      /\ \A f \in Devices : \A r \in ToSet(log[f]) : RecordOK(r)
      /\ \A f, g \in Devices : got[f][g] <= Len(log[g])
  BY DEF KeysInv, Logged
<1>3. Kept
  BY <1>1, MadeSame DEF heard
<1>4. /\ got' \in [Devices -> [Devices -> Int]]
      /\ \A f, g \in Devices : got'[f][g] = IF f = d /\ g = e THEN Len(log[e]) ELSE got[f][g]
  <2>1. Len(log[e]) \in Int
    BY <1>2
  <2> QED
    BY <1>1, <1>2, <2>1
<1>5. \A f, g \in Devices : got'[f][g] <= Len(log'[g])
  <2>1. Len(log[e]) \in Int
    BY <1>2
  <2> QED
    BY <1>1, <1>2, <1>4, <2>1
<1>6. \A f \in Devices : \A r \in ToSet(log'[f]) : RecordOK(r)'
  <2>1. \A r : RecordOK(r) => RecordOK(r)'
    BY <1>3, RecordKept
  <2> QED
    BY <1>1, <1>2, <2>1
<1>7. Logged'
  BY <1>1, <1>2, <1>4, <1>5, <1>6 DEF Logged
<1> QED
  BY <1>1, <1>3, <1>7, HoldingKept, WorkingKept, DecidedKept DEF KeysInv

-----------------------------------------------------------------------------
(* Key work.                                                               *)

LEMMA StateKnown ==
    ASSUME KeysInv, NEW d \in Devices
    PROVE  state[d] \in State /\ Known(state[d])
<1>1. View(made, known[d], state[d]) /\ known[d] \subseteq DOMAIN made
  BY DEF KeysInv, Decided, KnownOK
<1>2. Rotations(made, known[d]) \subseteq Rotations(made, DOMAIN made)
  BY <1>1 DEF Rotations
<1> QED
  BY <1>1, <1>2 DEF Known, View

\* What a device looks at when it starts.
LEMMA FreshTask ==
    ASSUME KeysInv, NEW d \in Devices,
           NEW t, t = [Idle EXCEPT !.pc = "judge", !.keys = state[d], !.granted = granted(d)]
    PROVE  t \in Task /\ t.keys = state[d] /\ t.granted = granted(d) /\ t.pc = "judge"
<1>1. PICK i : i = Idle
  OBVIOUS
<1>2. i \in Task /\ t = [i EXCEPT !.pc = "judge", !.keys = state[d], !.granted = granted(d)]
  BY <1>1, IdleTask
<1>3. state[d] \in State /\ granted(d) \in SUBSET Devices
  BY StateKnown, IndexedOK
<1> QED
  BY <1>2, <1>3 DEF Task

LEMMA WorkingSet ==
    ASSUME KeysInv, Kept, NEW d \in Devices,
           work' \in [Devices -> Task], rot' \in [Devices -> Task], seal' \in [Devices -> Task],
           \A e \in Devices \ {d} : work'[e] = work[e],
           work'[d].pc \in {"judge", "grant"} => Known(work'[d].keys)
    PROVE  Working'
<1>1. \A s : Known(s) => Known(s)'
  BY DEF Kept
<1>2. \A e \in Devices : work'[e].pc \in {"judge", "grant"} => Known(work'[e].keys)
  BY DEF KeysInv, Working
<1>3. \A e \in Devices : work'[e].pc \in {"judge", "grant"} => View(made', DOMAIN made', work'[e].keys)
  <2>1. \A s : Known(s) => View(made', DOMAIN made', s)
    BY <1>1 DEF Known
  <2> QED
    BY <1>2, <2>1
<1> QED
  BY <1>3 DEF Working, Known

LEMMA WorkStartStep ==
    ASSUME KeysInv, NEW d \in Devices, WorkStart(d)
    PROVE  KeysInv'
<1>1. /\ held' = [held EXCEPT ![d] = refreshed(d)] /\ UNCHANGED <<scene, heard, log, got, rot, seal>>
      /\ \/ work' = [work EXCEPT ![d] = [Idle EXCEPT !.pc = "judge", !.keys = state[d], !.granted = granted(d)]]
         \/ work' = work
  BY DEF WorkStart
<1>2. Kept
  BY <1>1, MadeSame DEF heard
<1>3. Holding'
  <2>1. refreshed(d) \in SUBSET Keys /\ Keys \subseteq Int
    BY RefreshedOK, KeysAre DEF KeysInv, Decided
  <2>2. held' \in [Devices -> SUBSET Int] /\ \A e \in Devices : held'[e] \subseteq Keys
    BY <1>1, <2>1 DEF KeysInv, Holding
  <2> QED
    BY <1>2, <2>2 DEF Holding, Kept
<1>4. work \in [Devices -> Task] /\ rot \in [Devices -> Task] /\ seal \in [Devices -> Task]
  BY DEF KeysInv, Working
<1>5. PICK t : t = [Idle EXCEPT !.pc = "judge", !.keys = state[d], !.granted = granted(d)]
  OBVIOUS
<1>6. t \in Task /\ Known(t.keys)
  BY <1>5, FreshTask, StateKnown
<1>7. CASE work' = work
  BY <1>1, <1>2, <1>3, <1>7, LoggedKept, WorkingKept, DecidedKept DEF KeysInv
<1>8. CASE work' = [work EXCEPT ![d] = t]
  <2>1. work' \in [Devices -> Task] /\ work'[d] = t /\ \A e \in Devices \ {d} : work'[e] = work[e]
    BY <1>4, <1>6, <1>8
  <2>2. Working'
    BY <1>1, <1>2, <1>4, <1>6, <2>1, WorkingSet
  <2> QED
    BY <1>1, <1>2, <1>3, <2>2, LoggedKept, DecidedKept DEF KeysInv
<1> QED
  BY <1>1, <1>5, <1>7, <1>8

LEMMA RotateOnceOK ==
    ASSUME KeysInv, NEW d \in Devices, rotateOnce(d)
    PROVE  rot' \in [Devices -> Task]
<1>1. rot \in [Devices -> Task] /\ <<>> \in Seq(Devices)
  BY DEF KeysInv, Working
<1>2. [rot EXCEPT ![d].pc = "decide"] \in [Devices -> Task]
  BY <1>1, PcStep
<1> QED
  BY <1>1, <1>2 DEF rotateOnce

\* Any steps of the three tasks that leave the rest as it was.
LEMMA TasksStep ==
    ASSUME KeysInv, NEW d \in Devices, UNCHANGED <<scene, heard, log, got, held>>,
           work' \in [Devices -> Task], rot' \in [Devices -> Task], seal' \in [Devices -> Task],
           \A e \in Devices \ {d} : work'[e] = work[e],
           work'[d].pc \in {"judge", "grant"} => Known(work'[d].keys)
    PROVE  KeysInv'
<1>1. Kept
  BY MadeSame DEF heard
<1>2. Working'
  BY <1>1, WorkingSet
<1> QED
  BY <1>1, <1>2, LoggedKept, HoldingKept, DecidedKept DEF KeysInv

LEMMA WorkJudgeStep ==
    ASSUME KeysInv, NEW d \in Devices, WorkJudge(d)
    PROVE  KeysInv'
<1>1. /\ UNCHANGED <<scene, heard, log, got, held, due, seal>> /\ work[d].pc = "judge"
      /\ rotateOnce(d) \/ rot' = rot
      /\ \/ work' = [work EXCEPT ![d].pc = "rotating"]
         \/ work' = idle(d, work)
         \/ work' = [work EXCEPT ![d].pc = "grant", ![d].todo = SetToSeq(entitled(d) \ counted(d, work[d]))]
  BY DEF WorkJudge
<1>2. work \in [Devices -> Task] /\ rot \in [Devices -> Task] /\ seal \in [Devices -> Task] /\ Known(work[d].keys)
  BY <1>1 DEF KeysInv, Working
<1>3. rot' \in [Devices -> Task] /\ seal' \in [Devices -> Task]
  BY <1>1, <1>2, RotateOnceOK
<1>4. PICK q : q = SetToSeq(entitled(d) \ counted(d, work[d]))
  OBVIOUS
<1>5. q \in Seq(Devices) /\ <<>> \in Seq(Devices)
  <2>1. PICK S : S = entitled(d) \ counted(d, work[d])
    OBVIOUS
  <2>2. S \subseteq Devices
    BY <2>1 DEF entitled
  <2>3. IsFiniteSet(S)
    BY <2>2, KeysAssumption, FS_Subset
  <2>4. SetToSeq(S) \in Seq(S)
    BY <2>3, InOrder
  <2> QED
    BY <1>4, <2>1, <2>2, <2>4
<1>6. CASE work' = [work EXCEPT ![d].pc = "rotating"]
  <2>1. work' \in [Devices -> Task] /\ work'[d].pc = "rotating" /\ \A e \in Devices \ {d} : work'[e] = work[e]
    BY <1>2, <1>6, PcStep
  <2> QED
    BY <1>1, <1>3, <2>1, TasksStep
<1>7. CASE work' = idle(d, work)
  <2>1. work' \in [Devices -> Task] /\ work'[d].pc = "idle" /\ \A e \in Devices \ {d} : work'[e] = work[e]
    BY <1>2, <1>7, IdleStep
  <2> QED
    BY <1>1, <1>3, <2>1, TasksStep
<1>8. CASE work' = [work EXCEPT ![d].pc = "grant", ![d].todo = q]
  <2>0. PICK p \in {"idle", "judge", "grant", "rotating", "decide", "decided"} : p = "grant"
    OBVIOUS
  <2>1. PICK f : f = [work EXCEPT ![d].pc = p]
    OBVIOUS
  <2>2. /\ f \in [Devices -> Task] /\ f[d].pc = "grant" /\ f[d].keys = work[d].keys
        /\ \A e \in Devices \ {d} : f[e] = work[e]
    BY <1>2, <2>0, <2>1, PcStep
  <2>3. work' = [f EXCEPT ![d].todo = q]
    BY <1>8, <2>0, <2>1
  <2>4. /\ work' \in [Devices -> Task] /\ work'[d].keys = work[d].keys
        /\ \A e \in Devices \ {d} : work'[e] = work[e]
    BY <1>5, <2>2, <2>3, TodoStep
  <2> QED
    BY <1>1, <1>2, <1>3, <2>4, TasksStep
<1> QED
  BY <1>1, <1>4, <1>6, <1>7, <1>8

LEMMA WorkRotatedStep ==
    ASSUME KeysInv, NEW d \in Devices, WorkRotated(d)
    PROVE  KeysInv'
<1>1. work' = idle(d, work) /\ UNCHANGED <<scene, heard, log, got, held, due, rot, seal>>
  BY DEF WorkRotated
<1>2. work \in [Devices -> Task] /\ rot' \in [Devices -> Task] /\ seal' \in [Devices -> Task]
  BY <1>1 DEF KeysInv, Working
<1>3. work' \in [Devices -> Task] /\ work'[d].pc = "idle" /\ \A e \in Devices \ {d} : work'[e] = work[e]
  BY <1>1, <1>2, IdleStep
<1> QED
  BY <1>1, <1>2, <1>3, TasksStep

\* The next of a list.
LEMMA NextOne ==
    ASSUME NEW q \in Seq(Devices), q # <<>>
    PROVE  Head(q) \in Devices /\ Tail(q) \in Seq(Devices)
OBVIOUS

LEMMA WorkGrantStep ==
    ASSUME KeysInv, NEW d \in Devices, WorkGrant(d)
    PROVE  KeysInv'
<1>1. /\ work[d].pc = "grant" /\ work[d].todo # <<>>
      /\ append(d, grant(d, Head(work[d].todo)))
      /\ work' = [work EXCEPT ![d].todo = Tail(@)]
      /\ UNCHANGED <<scene, heard, got, held, rot, seal>>
  BY DEF WorkGrant
<1>2. work \in [Devices -> Task] /\ rot' \in [Devices -> Task] /\ seal' \in [Devices -> Task] /\ Known(work[d].keys)
  BY <1>1 DEF KeysInv, Working
<1>3. work[d].todo \in Seq(Devices)
  BY <1>2 DEF Task
<1>4. PICK q : q = Tail(work[d].todo)
  OBVIOUS
<1>5. q \in Seq(Devices) /\ Head(work[d].todo) \in Devices /\ work' = [work EXCEPT ![d].todo = q]
  BY <1>1, <1>3, <1>4, NextOne
<1>6. PICK rs : rs = grant(d, Head(work[d].todo))
  OBVIOUS
<1>7. rs \in Seq(Record) /\ \A r \in ToSet(rs) : RecordOK(r)
  BY <1>5, <1>6, GrantOK
<1>8. made' = made
  BY <1>1 DEF heard
<1>9. Logged' /\ Kept
  BY <1>1, <1>6, <1>7, <1>8, AppendOK, MadeSame
<1>10. work' \in [Devices -> Task] /\ work'[d].keys = work[d].keys /\ \A e \in Devices \ {d} : work'[e] = work[e]
  BY <1>2, <1>5, TodoStep
<1>11. Working'
  BY <1>2, <1>9, <1>10, WorkingSet
<1> QED
  BY <1>1, <1>9, <1>11, HoldingKept, DecidedKept DEF KeysInv

LinksTo(s, X) == {Link(currentKey(s), k) : k \in X}

\* Keys linked are recorded ones, of earlier epochs.
LEMMA LinksOK ==
    ASSUME KeysInv, NEW s, Known(s), NEW X, X \subseteq {k \in recorded(s) : epochOf(k) < current(s)},
           NEW rs, rs = SetToSeq(LinksTo(s, X))
    PROVE  /\ rs \in Seq(Record) /\ \A r \in ToSet(rs) : RecordOK(r)
           /\ \A r \in ToSet(rs) : r.op = "link"
<1>1. Order(made) /\ View(made, DOMAIN made, s)
  BY DEF KeysInv, Decided, Known
<1>2. recorded(s) \subseteq Keys /\ Keys \subseteq Int
  BY <1>1, KeysAre DEF View
<1>3. currentKey(s) \in recorded(s) /\ epochIn(made, currentKey(s)) = current(s)
  <2>1. s.commits \in Seq(Int) /\ s.commits # <<>>
    BY <1>1 DEF View, State
  <2>2. Len(s.commits) \in DOMAIN s.commits
    BY <2>1
  <2> QED
    BY <1>1, <2>2 DEF View, recorded, currentKey, current, ToSet
<1>4. epochOf(currentKey(s)) = current(s)
  BY <1>1, <1>2, <1>3, KeysAre
<1>5. ASSUME NEW k \in X PROVE Link(currentKey(s), k) \in Record /\ RecordOK(Link(currentKey(s), k)) /\ Link(currentKey(s), k).op = "link"
  <2>1. PICK r : r = Link(currentKey(s), k)
    OBVIOUS
  <2>2. currentKey(s) \in Int /\ k \in Int /\ currentKey(s) \in Keys /\ k \in Keys
    BY <1>2, <1>3
  <2>3. r \in Record /\ r.op = "link" /\ r.key = currentKey(s) /\ r.to = k
    BY <2>1, <2>2 DEF Link, Record
  <2>4. epochOf(r.key) > epochOf(r.to)
    <3>1. epochOf(k) \in Nat /\ epochOf(currentKey(s)) \in Nat /\ epochOf(k) < current(s)
      BY <1>1, <2>2, KeysAre
    <3> QED
      BY <1>4, <2>3, <3>1
  <2> QED
    BY <2>1, <2>2, <2>3, <2>4 DEF RecordOK
<1> DEFINE S == {Link(currentKey(s), k) : k \in X}
<1>6. IsFiniteSet(S)
  <2>1. IsFiniteSet(DOMAIN made)
    BY <1>1, AllFinite
  <2>2. Keys \subseteq DOMAIN made \cup {First}
    BY <1>1, KeysAre DEF Rotations
  <2>3. IsFiniteSet(DOMAIN made \cup {First})
    BY <2>1, FS_AddElement
  <2>4. X \subseteq DOMAIN made \cup {First}
    BY <1>2, <2>2
  <2>5. IsFiniteSet(X)
    BY <2>3, <2>4, FS_Subset
  <2> DEFINE f == [k \in X |-> Link(currentKey(s), k)]
  <2>6. f \in Surjection(X, S)
    BY DEF Surjection
  <2> HIDE DEF f, S
  <2> QED
    BY <2>5, <2>6, FS_Surjection
<1>7. S \subseteq Record /\ \A r \in S : RecordOK(r) /\ r.op = "link"
  BY <1>5
<1>8. rs = SetToSeq(S)
  BY DEF LinksTo
<1> HIDE DEF S
<1>9. rs \in Seq(S)
  BY <1>6, <1>8, InOrder
<1>10. rs \in Seq(Record) /\ ToSet(rs) \subseteq S
  BY <1>7, <1>9 DEF ToSet
<1> QED
  BY <1>7, <1>10

LEMMA LinkedBy ==
    ASSUME KeysInv, NEW d \in Devices, WorkLink(d)
    PROVE  \E s, X : /\ X \subseteq linkable(d, s) /\ Known(s)
                     /\ append(d, SetToSeq(LinksTo(s, X)))
<1>1. PICK s : s = work[d].keys
  OBVIOUS
<1>2. Known(s)
  BY <1>1 DEF WorkLink, KeysInv, Working
<1>3. \E R : append(d, SetToSeq({Link(currentKey(s), k) : k \in
                        IF currentKey(s) \in held[d] THEN linkable(d, s) \ R ELSE {}}))
  BY <1>1 DEF WorkLink
<1>4. PICK R : append(d, SetToSeq({Link(currentKey(s), k) : k \in
                        IF currentKey(s) \in held[d] THEN linkable(d, s) \ R ELSE {}}))
  BY <1>3
<1>5. (IF currentKey(s) \in held[d] THEN linkable(d, s) \ R ELSE {}) \subseteq linkable(d, s)
  OBVIOUS
<1> QED
  BY <1>2, <1>4, <1>5 DEF LinksTo

LEMMA WorkLinkStep ==
    ASSUME KeysInv, NEW d \in Devices, WorkLink(d)
    PROVE  KeysInv'
<1>1. /\ work[d].pc = "grant" /\ work' = idle(d, work) /\ UNCHANGED <<scene, heard, got, held, due, rot, seal>>
  BY DEF WorkLink
<1>2. work \in [Devices -> Task] /\ rot' \in [Devices -> Task] /\ seal' \in [Devices -> Task]
  BY <1>1 DEF KeysInv, Working
<1>3. PICK s, X : /\ X \subseteq linkable(d, s) /\ Known(s)
                  /\ append(d, SetToSeq(LinksTo(s, X)))
  BY LinkedBy
<1>4. X \subseteq {k \in recorded(s) : epochOf(k) < current(s)}
  BY <1>3 DEF linkable
<1>5. PICK rs : rs = SetToSeq(LinksTo(s, X))
  OBVIOUS
<1>6. rs \in Seq(Record) /\ \A r \in ToSet(rs) : RecordOK(r)
  BY <1>3, <1>4, <1>5, LinksOK
<1>7. made' = made /\ append(d, rs)
  BY <1>1, <1>3, <1>5 DEF heard
<1>8. Logged' /\ Kept
  BY <1>1, <1>6, <1>7, AppendOK, MadeSame
<1>9. work' \in [Devices -> Task] /\ work'[d].pc = "idle" /\ \A e \in Devices \ {d} : work'[e] = work[e]
  BY <1>1, <1>2, IdleStep
<1>10. Working'
  BY <1>2, <1>8, <1>9, WorkingSet
<1> QED
  BY <1>1, <1>8, <1>10, HoldingKept, DecidedKept DEF KeysInv

-----------------------------------------------------------------------------
(* A rotation, a write and a crash.                                        *)

LEMMA RotateKeepStep ==
    ASSUME KeysInv, NEW d \in Devices, RotateKeep(d)
    PROVE  KeysInv'
<1>1. PICK k : k = rot[d].keys
  OBVIOUS
<1>2. PICK q : q = SetToSeq(entitled(d))
  OBVIOUS
<1>3. /\ UNCHANGED <<scene, heard, log, got, due, work, seal>>
      /\ \/ /\ k \in ToSet(state[d].commits) /\ held' = [held EXCEPT ![d] = @ \cup {k}]
            /\ rot' = [rot EXCEPT ![d] = [Idle EXCEPT !.pc = "grant", !.todo = q]]
         \/ held' = held /\ rot' = idle(d, rot)
  BY <1>1, <1>2 DEF RotateKeep
<1>4. work \in [Devices -> Task] /\ rot \in [Devices -> Task] /\ seal \in [Devices -> Task]
  BY DEF KeysInv, Working
<1>5. Kept
  BY <1>3, MadeSame DEF heard
<1>6. CASE held' = held /\ rot' = idle(d, rot)
  <2>1. rot' \in [Devices -> Task]
    BY <1>4, <1>6, IdleStep
  <2>2. Working'
    BY <1>3, <1>4, <1>5, <2>1 DEF KeysInv, Working, Kept
  <2> QED
    BY <1>3, <1>5, <1>6, <2>2, LoggedKept, HoldingKept, DecidedKept DEF KeysInv
<1>7. CASE /\ k \in ToSet(state[d].commits) /\ held' = [held EXCEPT ![d] = @ \cup {k}]
           /\ rot' = [rot EXCEPT ![d] = [Idle EXCEPT !.pc = "grant", !.todo = q]]
  <2>1. k \in Keys /\ Keys \subseteq Int
    <3>1. Known(state[d]) /\ Order(made)
      BY StateKnown DEF KeysInv, Decided
    <3> QED
      BY <1>7, <3>1, KeysAre DEF Known, View, recorded
  <2>2. held' \in [Devices -> SUBSET Int] /\ \A e \in Devices : held'[e] \subseteq Keys
    BY <1>7, <2>1 DEF KeysInv, Holding
  <2>3. Holding'
    BY <1>5, <2>2 DEF Holding, Kept
  <2>4. q \in Seq(Devices)
    <3>1. PICK S : S = entitled(d)
      OBVIOUS
    <3>2. S \subseteq Devices /\ IsFiniteSet(S)
      <4>1. S \subseteq Devices
        BY <3>1 DEF entitled
      <4> QED
        BY <4>1, KeysAssumption, FS_Subset
    <3>3. SetToSeq(S) \in Seq(S)
      BY <3>2, InOrder
    <3> QED
      BY <1>2, <3>1, <3>2, <3>3
  <2>5. PICK t : t = [Idle EXCEPT !.pc = "grant", !.todo = q]
    OBVIOUS
  <2>6. t \in Task
    <3>1. PICK i : i = Idle
      OBVIOUS
    <3>2. i \in Task /\ t = [i EXCEPT !.pc = "grant", !.todo = q]
      BY <2>5, <3>1, IdleTask
    <3> QED
      BY <2>4, <3>2 DEF Task
  <2>7. rot' \in [Devices -> Task]
    BY <1>4, <1>7, <2>5, <2>6
  <2>8. Working'
    BY <1>3, <1>4, <1>5, <2>7 DEF KeysInv, Working, Kept
  <2> QED
    BY <1>3, <1>5, <2>3, <2>8, LoggedKept, DecidedKept DEF KeysInv
<1> QED
  BY <1>3, <1>6, <1>7

LEMMA RotateGrantStep ==
    ASSUME KeysInv, NEW d \in Devices, RotateGrant(d)
    PROVE  KeysInv'
<1>1. /\ rot[d].pc = "grant" /\ rot[d].todo # <<>>
      /\ append(d, grant(d, Head(rot[d].todo)))
      /\ rot' = [rot EXCEPT ![d].todo = Tail(@)]
      /\ UNCHANGED <<scene, heard, got, held, work, seal>>
  BY DEF RotateGrant
<1>2. work \in [Devices -> Task] /\ rot \in [Devices -> Task] /\ seal \in [Devices -> Task]
  BY DEF KeysInv, Working
<1>3. rot[d].todo \in Seq(Devices)
  BY <1>2 DEF Task
<1>4. PICK q : q = Tail(rot[d].todo)
  OBVIOUS
<1>5. q \in Seq(Devices) /\ Head(rot[d].todo) \in Devices /\ rot' = [rot EXCEPT ![d].todo = q]
  BY <1>1, <1>3, <1>4, NextOne
<1>6. PICK rs : rs = grant(d, Head(rot[d].todo))
  OBVIOUS
<1>7. rs \in Seq(Record) /\ \A r \in ToSet(rs) : RecordOK(r)
  BY <1>5, <1>6, GrantOK
<1>8. made' = made
  BY <1>1 DEF heard
<1>9. Logged' /\ Kept
  BY <1>1, <1>6, <1>7, <1>8, AppendOK, MadeSame
<1>10. rot' \in [Devices -> Task]
  BY <1>2, <1>5, TodoStep
<1>11. Working'
  BY <1>1, <1>2, <1>9, <1>10 DEF KeysInv, Working, Kept
<1> QED
  BY <1>1, <1>9, <1>11, HoldingKept, DecidedKept DEF KeysInv

\* Steps of a rotation or a write alone.
LEMMA OthersStep ==
    ASSUME KeysInv, UNCHANGED <<scene, heard, log, got, held, work>>,
           rot' \in [Devices -> Task], seal' \in [Devices -> Task]
    PROVE  KeysInv'
<1>1. Kept
  BY MadeSame DEF heard
<1>2. Working'
  BY <1>1 DEF KeysInv, Working, Kept
<1> QED
  BY <1>1, <1>2, LoggedKept, HoldingKept, DecidedKept DEF KeysInv

LEMMA RotateEndStep ==
    ASSUME KeysInv, NEW d \in Devices, RotateEnd(d)
    PROVE  KeysInv'
<1>1. rot' = idle(d, rot) /\ UNCHANGED <<scene, heard, log, got, held, work, seal>>
  BY DEF RotateEnd
<1>2. rot \in [Devices -> Task] /\ seal' \in [Devices -> Task]
  BY <1>1 DEF KeysInv, Working
<1> QED
  BY <1>1, <1>2, IdleStep, OthersStep

LEMMA SealStartStep ==
    ASSUME KeysInv, NEW d \in Devices, SealStart(d)
    PROVE  KeysInv'
<1>1. PICK t : t = [Idle EXCEPT !.pc = "judge", !.keys = state[d], !.granted = granted(d)]
  OBVIOUS
<1>2. seal' = [seal EXCEPT ![d] = t] /\ UNCHANGED <<scene, heard, log, got, held, work, rot>>
  BY <1>1 DEF SealStart
<1>3. rot' \in [Devices -> Task] /\ seal \in [Devices -> Task] /\ t \in Task
  BY <1>1, <1>2, FreshTask DEF KeysInv, Working
<1>4. seal' \in [Devices -> Task]
  BY <1>2, <1>3
<1> QED
  BY <1>2, <1>3, <1>4, OthersStep

LEMMA SealRotatedStep ==
    ASSUME KeysInv, NEW d \in Devices, SealRotated(d)
    PROVE  KeysInv'
<1>1. seal' = idle(d, seal) /\ UNCHANGED <<scene, heard, log, got, held, work, rot>>
  BY DEF SealRotated
<1>2. seal \in [Devices -> Task] /\ rot' \in [Devices -> Task]
  BY <1>1 DEF KeysInv, Working
<1> QED
  BY <1>1, <1>2, IdleStep, OthersStep

\* The record a write seals.
LEMMA PostOK ==
    ASSUME KeysInv, NEW d \in Devices, currentHeld(d), NEW rs, rs = <<Post(currentKey(state[d]))>>
    PROVE  /\ rs \in Seq(Record) /\ \A r \in ToSet(rs) : RecordOK(r) /\ r.op = "post"
<1>1. currentKey(state[d]) \in Keys /\ currentKey(state[d]) \in Int
  BY DEF currentHeld, KeysInv, Holding
<1>2. PICK r : r = Post(currentKey(state[d]))
  OBVIOUS
<1>3. r \in Record /\ r.op = "post" /\ r.key = currentKey(state[d])
  BY <1>1, <1>2 DEF Post, Record
<1>4. RecordOK(r)
  BY <1>1, <1>3 DEF RecordOK
<1>5. rs = <<r>> /\ <<r>> \in Seq(Record) /\ ToSet(<<r>>) = {r}
  BY <1>2, <1>3 DEF ToSet
<1> QED
  BY <1>3, <1>4, <1>5

LEMMA SealJudgeStep ==
    ASSUME KeysInv, NEW d \in Devices, SealJudge(d)
    PROVE  KeysInv'
<1>1. UNCHANGED <<heard, got, held, due, work>>
  BY DEF SealJudge
<1>2. work \in [Devices -> Task] /\ rot \in [Devices -> Task] /\ seal \in [Devices -> Task]
  BY DEF KeysInv, Working
<1>3. CASE /\ currentHeld(d) /\ append(d, <<Post(currentKey(state[d]))>>)
           /\ scene' = [scene EXCEPT !.posts = @ \ {d}]
           /\ seal' = idle(d, seal) /\ UNCHANGED rot
  <2>1. PICK rs : rs = <<Post(currentKey(state[d]))>>
    OBVIOUS
  <2>2. rs \in Seq(Record) /\ \A r \in ToSet(rs) : RecordOK(r)
    BY <1>3, <2>1, PostOK
  <2>3. made' = made
    BY <1>1 DEF heard
  <2>4. Logged' /\ Kept
    BY <1>1, <1>3, <2>1, <2>2, <2>3, AppendOK, MadeSame
  <2>5. seal' \in [Devices -> Task]
    BY <1>2, <1>3, IdleStep
  <2>6. Working'
    BY <1>1, <1>2, <1>3, <2>4, <2>5 DEF KeysInv, Working, Kept
  <2>7. Decided'
    <3>1. scene' \in Scene /\ scene'.most = scene.most
      <4>1. scene \in Scene
        BY DEF KeysInv, Decided
      <4> QED
        BY <1>3, <4>1 DEF Scene
    <3> QED
      BY <1>1, <3>1 DEF KeysInv, Decided, KnownOK, heard
  <2> QED
    BY <1>1, <2>4, <2>6, <2>7, HoldingKept DEF KeysInv
<1>4. CASE /\ rotateOnce(d) \/ UNCHANGED rot
           /\ seal' = [seal EXCEPT ![d].pc = "rotating"] \/ seal' = idle(d, seal)
           /\ UNCHANGED <<scene, log>>
  <2>1. rot' \in [Devices -> Task]
    BY <1>2, <1>4, RotateOnceOK
  <2>2. seal' \in [Devices -> Task]
    <3>1. CASE seal' = [seal EXCEPT ![d].pc = "rotating"]
      BY <1>2, <3>1, PcStep
    <3>2. CASE seal' = idle(d, seal)
      BY <1>2, <3>2, IdleStep
    <3> QED
      BY <1>4, <3>1, <3>2
  <2> QED
    BY <1>1, <1>4, <2>1, <2>2, OthersStep
<1> QED
  BY <1>3, <1>4 DEF SealJudge, safeToSeal

LEMMA CrashStep ==
    ASSUME KeysInv, NEW d \in Devices, Crash(d)
    PROVE  KeysInv'
<1>1. /\ scene' = [scene EXCEPT !.crashes = @ \ {d}] /\ held' = [held EXCEPT ![d] = {}]
      /\ work' = idle(d, work) /\ rot' = idle(d, rot) /\ seal' = idle(d, seal)
      /\ UNCHANGED <<heard, log, got>>
  BY DEF Crash
<1>2. work \in [Devices -> Task] /\ rot \in [Devices -> Task] /\ seal \in [Devices -> Task]
  BY DEF KeysInv, Working
<1>3. Kept
  BY <1>1, MadeSame DEF heard
<1>4. /\ work' \in [Devices -> Task] /\ work'[d].pc = "idle" /\ \A e \in Devices \ {d} : work'[e] = work[e]
  BY <1>1, <1>2, IdleStep
<1>5. rot' \in [Devices -> Task] /\ seal' \in [Devices -> Task]
  BY <1>1, <1>2, IdleStep
<1>6. Working'
  BY <1>3, <1>4, <1>5, WorkingSet
<1>7. Holding'
  BY <1>1, <1>3 DEF KeysInv, Holding, Kept
<1>8. Decided'
  <2>1. scene' \in Scene /\ scene'.most = scene.most
    <3>1. scene \in Scene
      BY DEF KeysInv, Decided
    <3> QED
      BY <1>1, <3>1 DEF Scene
  <2> QED
    BY <1>1, <2>1 DEF KeysInv, Decided, KnownOK, heard
<1> QED
  BY <1>1, <1>3, <1>6, <1>7, <1>8, LoggedKept DEF KeysInv

-----------------------------------------------------------------------------
(* The start, and every step.                                              *)

LEMMA InitOK == Init => KeysInv
<1> SUFFICES ASSUME Init PROVE KeysInv
  OBVIOUS
<1>1. /\ scene \in Scene /\ scene.members \subseteq Devices /\ scene.most \in Nat
      /\ made = <<>> /\ known = [d \in Devices |-> {}]
      /\ state = [d \in Devices |-> Start(scene.members)]
  <2>1. scene \in Scene
    BY KeysAssumption DEF Init
  <2> QED
    BY <2>1 DEF Init, Scene
<1>2. Order(made) /\ DOMAIN made = {} /\ Len(made) = 0
  BY <1>1 DEF Order
<1>3. Keys = {First} /\ epochOf(First) = 0 /\ First \in Int
  BY <1>2, KeysAre DEF Rotations, epochOf, First
<1>4. Decided
  <2>1. KnownOK
    BY <1>1, <1>2 DEF KnownOK
  <2>2. \A d \in Devices : View(made, known[d], state[d])
    BY <1>1, StartView
  <2>3. state \in [Devices -> State]
    BY <1>1, <2>2 DEF View
  <2> QED
    BY <1>1, <1>2, <2>1, <2>2, <2>3 DEF Decided
<1> DEFINE G == {Grant(First, e) : e \in scene.members \ scene.new}
<1>5. ASSUME NEW rs, rs = <<Post(First)>> \o SetToSeq(G)
      PROVE  rs \in Seq(Record) /\ \A r \in ToSet(rs) : RecordOK(r)
  <2>1. IsFiniteSet(G)
    <3> DEFINE X == scene.members \ scene.new
               f == [e \in X |-> Grant(First, e)]
    <3>1. IsFiniteSet(X)
      BY <1>1, KeysAssumption, FS_Subset
    <3>2. f \in Surjection(X, G)
      BY DEF Surjection
    <3> HIDE DEF f, X, G
    <3> QED
      BY <3>1, <3>2, FS_Surjection
  <2>2. ASSUME NEW e \in Devices PROVE Grant(First, e) \in Record /\ RecordOK(Grant(First, e))
    <3>1. PICK r : r = Grant(First, e)
      OBVIOUS
    <3>2. r \in Record /\ r.op = "grant" /\ r.key = First /\ r.to = e
      BY <1>3, <3>1 DEF Grant, Record
    <3> QED
      BY <1>3, <3>1, <3>2 DEF RecordOK
  <2>3. G \subseteq Record /\ \A r \in G : RecordOK(r)
    BY <1>1, <2>2
  <2>4. PICK p : p = Post(First)
    OBVIOUS
  <2>5. p \in Record /\ RecordOK(p)
    <3>1. p \in Record /\ p.op = "post" /\ p.key = First
      BY <1>3, <2>4 DEF Post, Record
    <3> QED
      BY <1>3, <3>1 DEF RecordOK
  <2> HIDE DEF G
  <2>6. PICK q : q = SetToSeq(G)
    OBVIOUS
  <2>7. q \in Seq(G) /\ q \in Seq(Record) /\ \A n \in DOMAIN q : q[n] \in G
    <3>1. q \in Seq(G)
      BY <2>1, <2>6, InOrder
    <3> QED
      BY <2>3, <3>1
  <2>8. rs = <<p>> \o q /\ <<p>> \in Seq(Record)
    BY <1>5, <2>4, <2>5, <2>6
  <2>9. rs \in Seq(Record) /\ \A n \in DOMAIN rs : rs[n] = p \/ (n - 1 \in DOMAIN q /\ rs[n] = q[n - 1])
    BY <2>7, <2>8
  <2> QED
    BY <2>3, <2>5, <2>7, <2>9 DEF ToSet
<1>6. PICK rs : rs = <<Post(First)>> \o SetToSeq(G)
  OBVIOUS
<1>7. /\ log = [d \in Devices |-> IF d = Founder THEN rs ELSE <<>>]
      /\ got = [d \in Devices |-> [e \in Devices |-> IF e \in scene.members THEN Len(log[e]) ELSE -1]]
      /\ held = [d \in Devices |-> IF d \in scene.members \ scene.new THEN {First} ELSE {}]
      /\ work = [d \in Devices |-> Idle] /\ rot = work /\ seal = work
  BY <1>6 DEF Init
<1>8. Logged
  <2>1. rs \in Seq(Record) /\ \A r \in ToSet(rs) : RecordOK(r)
    BY <1>5, <1>6
  <2>2. <<>> \in Seq(Record) /\ ToSet(<<>>) = {}
    BY DEF ToSet
  <2>3. log \in [Devices -> Seq(Record)] /\ \A d \in Devices : \A r \in ToSet(log[d]) : RecordOK(r)
    BY <1>7, <2>1, <2>2
  <2>4. \A e \in Devices : Len(log[e]) \in Nat
    BY <2>3
  <2>5. got \in [Devices -> [Devices -> Int]] /\ \A d, e \in Devices : got[d][e] <= Len(log[e])
    BY <1>7, <2>4
  <2> QED
    BY <2>3, <2>5 DEF Logged
<1>9. Holding
  BY <1>3, <1>7 DEF Holding
<1>10. Working
  <2>1. Idle \in Task /\ Idle.pc = "idle"
    BY IdleTask DEF Idle
  <2> QED
    BY <1>7, <2>1 DEF Working
<1> QED
  BY <1>4, <1>8, <1>9, <1>10 DEF KeysInv

LEMMA NextOK == KeysInv /\ [Next]_vars => KeysInv'
<1> SUFFICES ASSUME KeysInv, [Next]_vars PROVE KeysInv'
  OBVIOUS
<1>1. CASE UNCHANGED vars
  <2>1. UNCHANGED <<scene, heard, log, got, held, work>> /\ rot' = rot /\ seal' = seal
    BY <1>1 DEF vars, heard
  <2>2. rot' \in [Devices -> Task] /\ seal' \in [Devices -> Task]
    BY <2>1 DEF KeysInv, Working
  <2> QED
    BY <2>1, <2>2, OthersStep
<1>2. ASSUME NEW d \in Devices, KeyWork(d) PROVE KeysInv'
  BY <1>2, WorkStartStep, WorkJudgeStep, WorkGrantStep, WorkLinkStep, WorkRotatedStep DEF KeyWork
<1>3. ASSUME NEW d \in Devices, Rotation(d) PROVE KeysInv'
  BY <1>3, RotateDecideStep, RotateKeepStep, RotateGrantStep, RotateEndStep DEF Rotation
<1>4. ASSUME NEW d \in Devices, Write(d) PROVE KeysInv'
  BY <1>4, SealStartStep, SealJudgeStep, SealRotatedStep DEF Write
<1>5. ASSUME NEW d \in Devices, Crash(d) PROVE KeysInv'
  BY <1>5, CrashStep
<1>6. ASSUME NEW d \in Devices, NEW e \in Devices, Sync(d, e) \/ Hear(d, e) PROVE KeysInv'
  BY <1>6, SyncStep, HearStep
<1>7. ASSUME NEW d \in Devices, NEW e \in Devices, NEW op \in {"admit", "remove"}, People(d, op, e) PROVE KeysInv'
  BY <1>7, PeopleStep
<1> QED
  BY <1>1, <1>2, <1>3, <1>4, <1>5, <1>6, <1>7 DEF Next

\* What devices know, log, hold and work on stays consistent (the inductive
\* invariant of a private space).
THEOREM KeysSound == Spec => []KeysInv
BY InitOK, NextOK, PTL DEF Spec

\* Keys held and recorded are keys of the space, in the order of their epochs.
THEOREM KeysTypeSafe == Spec => []KeysTypeOK
<1>1. KeysInv => KeysTypeOK
  <2> SUFFICES ASSUME KeysInv PROVE KeysTypeOK
    OBVIOUS
  <2>1. Len(made) <= scene.most /\ Order(made)
    BY DEF KeysInv, Decided
  <2>2. ASSUME NEW d \in Devices
        PROVE  /\ known[d] \subseteq DOMAIN made
               /\ held[d] \subseteq Keys /\ recorded(state[d]) \subseteq Keys
               /\ \A n \in DOMAIN state[d].commits : epochOf(state[d].commits[n]) = n - 1
               /\ \A n \in DOMAIN log[d] : log[d][n].key \in Keys
    <3>1. known[d] \subseteq DOMAIN made /\ held[d] \subseteq Keys
      BY DEF KeysInv, Decided, KnownOK, Holding
    <3>2. View(made, DOMAIN made, state[d])
      BY StateKnown DEF Known
    <3>3. recorded(state[d]) \subseteq Keys
      BY <2>1, <3>2, KeysAre DEF View
    <3>4. \A n \in DOMAIN state[d].commits : state[d].commits[n] \in Keys
      BY <3>3 DEF recorded, ToSet
    <3>5. \A n \in DOMAIN state[d].commits : epochOf(state[d].commits[n]) = n - 1
      BY <2>1, <3>2, <3>4, KeysAre DEF View
    <3>6. \A n \in DOMAIN log[d] : log[d][n].key \in Keys
      BY DEF KeysInv, Logged, RecordOK, ToSet
    <3> QED
      BY <3>1, <3>3, <3>5, <3>6
  <2> QED
    BY <2>1, <2>2 DEF KeysTypeOK
<1> QED
  BY <1>1, KeysSound, PTL

-----------------------------------------------------------------------------
(* What a write is sealed with.                                            *)

LEMMA LastOf ==
    ASSUME KeysInv, NEW d \in Devices, NEW rs, rs \in Seq(Record), append(d, rs)
    PROVE  /\ \A e \in Devices \ {d} : log'[e] = log[e]
           /\ Len(log'[d]) > Len(log[d]) => log'[d][Len(log'[d])] \in ToSet(rs)
<1>1. log \in [Devices -> Seq(Record)]
  BY DEF KeysInv, Logged
<1>2. log' = [log EXCEPT ![d] = log[d] \o rs]
  BY DEF append
<1>3. \A e \in Devices \ {d} : log'[e] = log[e]
  BY <1>1, <1>2
<1>4. PICK q : q = log[d]
  OBVIOUS
<1>5. q \in Seq(Record) /\ log'[d] = q \o rs
  BY <1>1, <1>2, <1>4
<1>6. ASSUME Len(q \o rs) > Len(q) PROVE (q \o rs)[Len(q \o rs)] \in ToSet(rs)
  <2>1. Len(q \o rs) = Len(q) + Len(rs) /\ Len(rs) \in Nat /\ Len(q) \in Nat
    BY <1>5
  <2>2. Len(rs) \in DOMAIN rs /\ (q \o rs)[Len(q) + Len(rs)] = rs[Len(rs)]
    BY <1>5, <1>6, <2>1
  <2> QED
    BY <2>1, <2>2 DEF ToSet
<1> QED
  BY <1>3, <1>4, <1>5, <1>6

\* The steps that append.
LEMMA AppendedBy ==
    ASSUME Next, log' # log
    PROVE  \E f \in Devices : WorkGrant(f) \/ RotateGrant(f) \/ WorkLink(f) \/ SealJudge(f)
<1>1. PICK d \in Devices : \/ KeyWork(d) \/ Rotation(d) \/ Write(d) \/ Crash(d)
                           \/ \E e \in Devices : Sync(d, e) \/ Hear(d, e) \/ \E op \in {"admit", "remove"} : People(d, op, e)
  BY DEF Next
<1>2. CASE KeyWork(d)
  BY <1>2 DEF KeyWork, WorkStart, WorkJudge, WorkRotated
<1>3. CASE Rotation(d)
  BY <1>3 DEF Rotation, RotateDecide, RotateKeep, RotateEnd
<1>4. CASE Write(d)
  BY <1>4 DEF Write, SealStart, SealRotated
<1>5. ~Crash(d)
  BY DEF Crash
<1>6. \A e \in Devices : ~Sync(d, e) /\ ~Hear(d, e) /\ \A op \in {"admit", "remove"} : ~People(d, op, e)
  BY DEF Sync, Hear, People
<1> QED
  BY <1>1, <1>2, <1>3, <1>4, <1>5, <1>6

\* Only a write adds a post, to the log of who writes.
LEMMA PostBy ==
    ASSUME KeysInv, Next, NEW d \in Devices, Len(log'[d]) > Len(log[d]), log'[d][Len(log'[d])].op = "post"
    PROVE  SealJudge(d) /\ log' # log
<1>0. log' # log
  <2>1. Len(log[d]) \in Nat
    BY DEF KeysInv, Logged
  <2> QED
    BY <2>1
<1>1. ASSUME NEW f \in Devices, NEW rs, rs \in Seq(Record), append(f, rs), \A r \in ToSet(rs) : r.op # "post"
      PROVE  FALSE
  <2>1. f = d
    BY <1>1, LastOf, <1>0 DEF KeysInv, Logged
  <2> QED
    BY <1>1, <2>1, LastOf
<1>2. ASSUME NEW f \in Devices, WorkGrant(f) \/ RotateGrant(f) PROVE FALSE
  <2>1. PICK e \in Devices : append(f, grant(f, e))
    <3>1. work[f].todo \in Seq(Devices) /\ rot[f].todo \in Seq(Devices)
      <4>1. work[f] \in Task /\ rot[f] \in Task
        BY DEF KeysInv, Working
      <4> QED
        BY <4>1 DEF Task
    <3> QED
      BY <1>2, <3>1, NextOne DEF WorkGrant, RotateGrant
  <2>2. PICK rs : rs = grant(f, e)
    OBVIOUS
  <2>3. rs \in Seq(Record) /\ \A r \in ToSet(rs) : r.op # "post"
    BY <2>2, GrantOK DEF Grant
  <2> QED
    BY <1>1, <2>1, <2>2, <2>3
<1>3. ASSUME NEW f \in Devices, WorkLink(f) PROVE FALSE
  <2>1. PICK s, X : /\ X \subseteq linkable(f, s) /\ Known(s)
                    /\ append(f, SetToSeq(LinksTo(s, X)))
    BY <1>3, LinkedBy
  <2>2. X \subseteq {k \in recorded(s) : epochOf(k) < current(s)}
    BY <2>1 DEF linkable
  <2>3. PICK rs : rs = SetToSeq(LinksTo(s, X))
    OBVIOUS
  <2>4. rs \in Seq(Record) /\ \A r \in ToSet(rs) : r.op = "link"
    BY <2>1, <2>2, <2>3, LinksOK
  <2> QED
    BY <1>1, <2>1, <2>3, <2>4
<1>4. ASSUME NEW f \in Devices, f # d, SealJudge(f) PROVE FALSE
  <2>1. PICK rs : rs = <<Post(currentKey(state[f]))>>
    OBVIOUS
  <2>2. append(f, rs) /\ currentHeld(f)
    BY <1>0, <1>4, <2>1 DEF SealJudge, safeToSeal
  <2>3. rs \in Seq(Record)
    BY <2>1, <2>2, PostOK
  <2>4. log'[d] = log[d]
    BY <1>4, <2>2, <2>3, LastOf
  <2>5. Len(log[d]) \in Nat
    BY DEF KeysInv, Logged
  <2> QED
    BY <2>4, <2>5
<1> QED
  BY <1>0, <1>2, <1>3, <1>4, AppendedBy

\* While the key stays the one a write looked at, the write is not sealed with
\* one that someone out of the space holds by a grant its author had read then
\* or wrote itself since.
THEOREM SealSafe == Spec => SealedForMembers
<1>1. ASSUME KeysInv, [Next]_vars, NEW d \in Devices, NEW e \in Devices, NEW k, k = log'[d][Len(log'[d])].key,
             Len(log'[d]) > Len(log[d]), log'[d][Len(log'[d])].op = "post",
             k = currentKey(seal[d].keys), ~isMember(d, e)
      PROVE  e \notin seal[d].granted /\ Grant(k, e) \notin ToSet(log[d])
  <2>1. Next
    <3>1. Len(log[d]) \in Nat
      BY <1>1 DEF KeysInv, Logged
    <3> QED
      BY <1>1, <3>1 DEF vars
  <2>2. SealJudge(d) /\ log' # log
    BY <1>1, <2>1, PostBy
  <2>3. PICK gs : gs = counted(d, seal[d])
    OBVIOUS
  <2>4. safeToSeal(d, change(d, seal[d].keys, gs))
    BY <2>2, <2>3 DEF SealJudge
  <2>5. gs \subseteq entitled(d)
    BY <2>4 DEF safeToSeal, change
  <2>6. e \notin gs
    BY <1>1, <2>5 DEF entitled
  <2>7. e \notin seal[d].granted
    BY <2>3, <2>6 DEF counted
  <2>8. ASSUME Grant(k, e) \in ToSet(log[d]) PROVE FALSE
    <3>1. PICK r \in ToSet(log[d]) : r = Grant(k, e)
      BY <2>8
    <3>2. r.op = "grant" /\ r.key = currentKey(seal[d].keys) /\ r.to = e
      BY <1>1, <3>1 DEF Grant
    <3>3. e \in gs
      BY <2>3, <3>1, <3>2 DEF counted
    <3> QED
      BY <2>6, <3>3
  <2> QED
    BY <2>7, <2>8
<1>2. KeysInv /\ [Next]_vars =>
        [\A d \in Devices : \A e \in Devices :
           LET k == log'[d][Len(log'[d])].key
           IN  /\ Len(log'[d]) > Len(log[d]) /\ log'[d][Len(log'[d])].op = "post"
               /\ k = currentKey(seal[d].keys) /\ ~isMember(d, e)
               => e \notin seal[d].granted /\ Grant(k, e) \notin ToSet(log[d])]_vars
  BY <1>1
<1> QED
  BY <1>2, KeysSound, PTL DEF Spec, SealedForMembers

-----------------------------------------------------------------------------
(* Keys made after a removal.                                              *)

\* Whoever may decide is in from the start, and not removed.
Stays(sc) == sc.deciders \subseteq sc.members /\ \A t \in sc.may : t[2] = "remove" => t[3] \notin sc.deciders
DecidersStay == \A sc \in Scenes : Stays(sc)

\* No grant gives a key to whom its maker knew to be removed.
KeptOut(r) == r.op = "grant" /\ r.key # First => r.to \notin Removed(made[r.key])

StayInv ==
    /\ Stays(scene) /\ Lasting(made)
    /\ \A d \in Devices : Members(made, known[d], state[d])
    /\ \A d \in Devices : rot[d].pc = "decide" => d \in scene.deciders
    /\ \A d \in Devices : \A r \in ToSet(log[d]) : KeptOut(r)

LEMMA RemovedIs ==
    ASSUME Order(made), NEW n \in DOMAIN made
    PROVE  /\ \A e : e \in Removed(made[n]) <=> \E m \in made[n].past : Out(made, DOMAIN made, m) /\ made[m].on = e
           /\ made[n].past \subseteq DOMAIN made
<1>1. made[n].past \subseteq DOMAIN made
  BY PastCounted
<1> QED
  BY <1>1 DEF Removed, Out

\* The scene keeps who is in it, and nothing more may happen.
LEMMA SceneSame ==
    ASSUME KeysInv, [Next]_vars
    PROVE  /\ scene'.deciders = scene.deciders /\ scene'.members = scene.members /\ scene'.may \subseteq scene.may
           /\ scene'.most = scene.most
<1>1. scene \in Scene
  BY DEF KeysInv, Decided
<1>2. \A d, e, op : People(d, op, e) => scene' = [scene EXCEPT !.may = @ \ {<<d, op, e>>}]
  BY DEF People
<1>3. \A d : SealJudge(d) => scene' = [scene EXCEPT !.posts = @ \ {d}] \/ scene' = scene
  BY DEF SealJudge
<1>4. \A d : Crash(d) => scene' = [scene EXCEPT !.crashes = @ \ {d}]
  BY DEF Crash
<1>5. ASSUME scene' # scene
      PROVE  \E d, e, op : \/ scene' = [scene EXCEPT !.may = @ \ {<<d, op, e>>}]
                           \/ scene' = [scene EXCEPT !.posts = @ \ {d}]
                           \/ scene' = [scene EXCEPT !.crashes = @ \ {d}]
  <2>1. PICK d \in Devices : \/ KeyWork(d) \/ Rotation(d) \/ Write(d) \/ Crash(d)
                             \/ \E e \in Devices : Sync(d, e) \/ Hear(d, e) \/ \E op \in {"admit", "remove"} : People(d, op, e)
    BY <1>5 DEF Next, vars
  <2>2. ~KeyWork(d)
    BY <1>5 DEF KeyWork, WorkStart, WorkJudge, WorkGrant, WorkLink, WorkRotated
  <2>3. ~Rotation(d)
    BY <1>5 DEF Rotation, RotateDecide, RotateKeep, RotateGrant, RotateEnd
  <2>4. Write(d) => SealJudge(d)
    BY <1>5 DEF Write, SealStart, SealRotated
  <2>5. \A e \in Devices : ~Sync(d, e) /\ ~Hear(d, e)
    BY <1>5 DEF Sync, Hear
  <2> QED
    BY <1>2, <1>3, <1>4, <1>5, <2>1, <2>2, <2>3, <2>4, <2>5
<1>6. CASE scene' = scene
  BY <1>6
<1>7. CASE scene' # scene
  <2>1. PICK d, e, op : \/ scene' = [scene EXCEPT !.may = @ \ {<<d, op, e>>}]
                        \/ scene' = [scene EXCEPT !.posts = @ \ {d}]
                        \/ scene' = [scene EXCEPT !.crashes = @ \ {d}]
    BY <1>5, <1>7
  <2> QED
    BY <1>1, <2>1 DEF Scene
<1> QED
  BY <1>6, <1>7

\* Only who may decide changes the key.
LEMMA RotSame ==
    ASSUME KeysInv, [Next]_vars, NEW e \in Devices, rot'[e].pc = "decide"
    PROVE  rot[e].pc = "decide" \/ e \in scene.deciders
<1>1. rot \in [Devices -> Task]
  BY DEF KeysInv, Working
<1>2. ASSUME NEW d \in Devices, rotateOnce(d), d \in scene.deciders
      PROVE  rot[e].pc = "decide" \/ e \in scene.deciders
  BY <1>1, <1>2 DEF rotateOnce
<1>3. ASSUME NEW d \in Devices, NEW t, rot' = [rot EXCEPT ![d] = t], t.pc # "decide" \/ t.pc = rot[d].pc
      PROVE  rot[e].pc = "decide"
  BY <1>1, <1>3
<1>4. ASSUME NEW d \in Devices, WorkJudge(d)
      PROVE  rot' = rot \/ (rotateOnce(d) /\ d \in scene.deciders)
  BY <1>4 DEF WorkJudge, decider
<1>5. ASSUME NEW d \in Devices, SealJudge(d)
      PROVE  rot' = rot \/ (rotateOnce(d) /\ d \in scene.deciders)
  BY <1>5 DEF SealJudge, decider
<1>6. ASSUME NEW d \in Devices, RotateDecide(d) \/ RotateKeep(d) \/ RotateGrant(d) \/ RotateEnd(d) \/ Crash(d)
      PROVE  rot' = rot \/ \E t : rot' = [rot EXCEPT ![d] = t] /\ (t.pc # "decide" \/ t.pc = rot[d].pc)
  <2>1. CASE RotateDecide(d)
    <3>1. PICK t : t = [Idle EXCEPT !.pc = "decided", !.keys = Len(made) + 1]
      OBVIOUS
    <3>2. t.pc = "decided"
      BY <3>1 DEF Idle
    <3> QED
      BY <2>1, <3>1, <3>2 DEF RotateDecide
  <2>2. CASE RotateKeep(d)
    <3>1. PICK t : t = [Idle EXCEPT !.pc = "grant", !.todo = SetToSeq(entitled(d))]
      OBVIOUS
    <3>2. t.pc = "grant"
      BY <3>1 DEF Idle
    <3>3. Idle.pc = "idle"
      BY DEF Idle
    <3>4. rot' = [rot EXCEPT ![d] = t] \/ rot' = [rot EXCEPT ![d] = Idle]
      BY <2>2, <3>1 DEF RotateKeep, idle
    <3> QED
      BY <3>2, <3>3, <3>4
  <2>3. CASE RotateGrant(d)
    <3>1. PICK t : t = [rot[d] EXCEPT !.todo = Tail(rot[d].todo)]
      OBVIOUS
    <3>2. t.pc = rot[d].pc
      BY <1>1, <3>1 DEF Task
    <3>3. rot' = [rot EXCEPT ![d] = t]
      BY <1>1, <2>3, <3>1 DEF RotateGrant
    <3> QED
      BY <3>2, <3>3
  <2>4. CASE RotateEnd(d) \/ Crash(d)
    <3>1. Idle.pc = "idle"
      BY DEF Idle
    <3> QED
      BY <2>4, <3>1 DEF RotateEnd, Crash, idle
  <2> QED
    BY <1>6, <2>1, <2>2, <2>3, <2>4
<1>7. CASE rot' = rot
  BY <1>7
<1>8. CASE rot' # rot
  <2>1. PICK d \in Devices : \/ KeyWork(d) \/ Rotation(d) \/ Write(d) \/ Crash(d)
                             \/ \E f \in Devices : Sync(d, f) \/ Hear(d, f) \/ \E op \in {"admit", "remove"} : People(d, op, f)
    BY <1>8 DEF Next, vars
  <2>2. \A f \in Devices : ~Sync(d, f) /\ ~Hear(d, f) /\ \A op \in {"admit", "remove"} : ~People(d, op, f)
    BY <1>8 DEF Sync, Hear, People
  <2>3. KeyWork(d) => WorkJudge(d)
    BY <1>8 DEF KeyWork, WorkStart, WorkGrant, WorkLink, WorkRotated
  <2>4. Write(d) => SealJudge(d)
    BY <1>8 DEF Write, SealStart, SealRotated
  <2> QED
    BY <1>2, <1>3, <1>4, <1>5, <1>6, <1>8, <2>1, <2>2, <2>3, <2>4 DEF Rotation
<1> QED
  BY <1>7, <1>8

\* The steps that bring decisions.
LEMMA HeardBy ==
    ASSUME Next, heard' # heard
    PROVE  \E d \in Devices : \/ RotateDecide(d)
                              \/ \E e \in Devices : Sync(d, e) \/ \E op \in {"admit", "remove"} : People(d, op, e)
<1>1. PICK d \in Devices : \/ KeyWork(d) \/ Rotation(d) \/ Write(d) \/ Crash(d)
                           \/ \E e \in Devices : Sync(d, e) \/ Hear(d, e) \/ \E op \in {"admit", "remove"} : People(d, op, e)
  BY DEF Next
<1>2. ~KeyWork(d)
  BY DEF KeyWork, WorkStart, WorkJudge, WorkGrant, WorkLink, WorkRotated
<1>3. ~Write(d) /\ ~Crash(d)
  BY DEF Write, SealStart, SealJudge, SealRotated, Crash
<1>4. Rotation(d) => RotateDecide(d)
  BY DEF Rotation, RotateKeep, RotateGrant, RotateEnd
<1>5. \A e \in Devices : ~Hear(d, e)
  BY DEF Hear
<1> QED
  BY <1>1, <1>2, <1>3, <1>4, <1>5

\* What is known, and who was removed, as one more decision is made.
LEMMA OutGrows ==
    ASSUME Decided, NEW x \in Dec, made' = Append(made, x), Order(made')
    PROVE  /\ \A e \in Devices : \A s : Members(made, known[e], s) => Members(made', known[e], s)
           /\ \A n \in DOMAIN made : \A e : e \in Removed(made[n])' => e \in Removed(made[n])
           /\ \A n \in DOMAIN made : made'[n] = made[n]
<1>1. Order(made) /\ \A e \in Devices : known[e] \subseteq DOMAIN made
  BY DEF Decided, KnownOK
<1>2. /\ DOMAIN made' = DOMAIN made \cup {Len(made) + 1} /\ \A n \in DOMAIN made : made'[n] = made[n]
  BY <1>1, Grows
<1>3. ASSUME NEW e \in Devices, NEW s, Members(made, known[e], s) PROVE Members(made', known[e], s)
  <2>1. ASSUME NEW m \in known[e], Out(made', known[e], m) PROVE made'[m].on \notin s.members
    <3>1. Out(made, known[e], m)
      BY <1>1, <1>2, <2>1 DEF Out
    <3> QED
      BY <1>1, <1>2, <1>3, <3>1 DEF Members
  <2> QED
    BY <1>3, <2>1 DEF Members
<1>4. ASSUME NEW n \in DOMAIN made, NEW e, e \in Removed(made[n])' PROVE e \in Removed(made[n])
  <2>1. PICK m \in made'[n].past :
            /\ made'[m].op = "remove" /\ made'[m].on = e
            /\ \A k \in DOMAIN made' : made'[k].op = "admit" /\ made'[k].on = made'[m].on => k \in made'[m].past
    BY <1>4 DEF Removed
  <2>2. m \in made[n].past /\ m \in DOMAIN made /\ made'[m] = made[m]
    BY <1>1, <1>2, <2>1, PastCounted
  <2>3. Out(made, DOMAIN made, m) /\ made[m].on = e
    BY <1>2, <2>1, <2>2 DEF Out
  <2> QED
    BY <1>1, <2>2, <2>3, RemovedIs
<1> QED
  BY <1>2, <1>3, <1>4

\* A decision of who may decide, about someone else.
LEMMA DecideStays ==
    ASSUME KeysInv, StayInv, NEW d \in Devices, NEW x, Right(d, x), decide(d, x),
           d \in scene.deciders, x.op = "remove" => x.on \notin scene.deciders,
           scene' \in Scene, scene'.most = scene.most
    PROVE  /\ Lasting(made') /\ \A e \in Devices : Members(made', known'[e], state'[e])
           /\ \E y \in Dec : made' = Append(made, y) /\ Order(made')
<1>1. Decided /\ Order(made) /\ Decided' /\ scene \in Scene
  BY DecideOK DEF KeysInv, Decided
<1>2. PICK y \in Dec : /\ y.past = known[d] /\ y.by = d /\ y.op = x.op /\ y.on = x.on
                       /\ made' = Append(made, y) /\ Order(made')
  BY <1>1, DecideOK
<1>3. /\ DOMAIN made' = DOMAIN made \cup {Len(made) + 1} /\ made'[Len(made) + 1] = y
      /\ \A n \in DOMAIN made : made'[n] = made[n]
  BY <1>1, <1>2, Grows
<1>4. Lasting(made')
  BY <1>2, <1>3 DEF StayInv, Lasting
<1>5. /\ known' = [known EXCEPT ![d] = @ \cup {Len(made')}] /\ state' = [state EXCEPT ![d] = viewOf(made', known'[d])]
      /\ known \in [Devices -> SUBSET (DOMAIN made)] /\ state \in [Devices -> State]
      /\ known'[d] \subseteq DOMAIN made'
  <2>1. known' \in [Devices -> SUBSET (DOMAIN made')]
    BY <1>1 DEF Decided, KnownOK
  <2> QED
    BY <1>1, <2>1, DecideOK DEF Decided, KnownOK
<1>6. ASSUME NEW e \in Devices PROVE Members(made', known'[e], state'[e])
  <2>1. CASE e = d
    <3>1. state'[d] = viewOf(made', known'[d])
      BY <1>5
    <3>2. Members(made', known'[d], viewOf(made', known'[d]))
      BY <1>1, <1>2, <1>4, <1>5, ViewIs
    <3> QED
      BY <2>1, <3>1, <3>2
  <2>2. CASE e # d
    <3>1. known'[e] = known[e] /\ state'[e] = state[e]
      BY <1>5, <2>2
    <3>2. Members(made, known[e], state[e])
      BY DEF StayInv
    <3> QED
      BY <1>1, <1>2, <3>1, <3>2, OutGrows
  <2> QED
    BY <2>1, <2>2
<1> QED
  BY <1>2, <1>4, <1>6

\* Who decides stays in, and who was removed stays out.
LEMMA MembersStay ==
    ASSUME KeysInv, StayInv, [Next]_vars
    PROVE  /\ Lasting(made') /\ \A e \in Devices : Members(made', known'[e], state'[e])
           /\ made' = made \/ \E y \in Dec : made' = Append(made, y) /\ Order(made')
<1>1. KeysInv' /\ Order(made) /\ scene' \in Scene /\ scene'.most = scene.most
  <2>1. KeysInv'
    BY NextOK
  <2>2. Decided' /\ scene \in Scene
    BY <2>1 DEF KeysInv, Decided
  <2>3. scene'.most = scene.most
    BY SceneSame
  <2> QED
    BY <2>1, <2>2, <2>3 DEF KeysInv, Decided
<1>2. CASE UNCHANGED heard
  BY <1>2 DEF heard, StayInv
<1>3. CASE heard' # heard
  <2>1. PICK d \in Devices : \/ RotateDecide(d)
                             \/ \E e \in Devices : Sync(d, e) \/ \E op \in {"admit", "remove"} : People(d, op, e)
    BY <1>3, HeardBy DEF vars
  <2>2. CASE RotateDecide(d)
    <3>1. PICK x : x = [Decision(d, "rotate", None) EXCEPT !.epoch = current(state[d]) + 1, !.key = Len(made) + 1]
      OBVIOUS
    <3>2. decide(d, x) /\ rot[d].pc = "decide"
      BY <2>2, <3>1 DEF RotateDecide
    <3>3. Right(d, x) /\ x.op = "rotate"
      BY <3>1, RotateRight
    <3>4. d \in scene.deciders
      BY <3>2 DEF StayInv
    <3> QED
      BY <1>1, <3>2, <3>3, <3>4, DecideStays
  <2>3. ASSUME NEW e \in Devices, NEW op \in {"admit", "remove"}, People(d, op, e)
        PROVE  /\ Lasting(made') /\ \A f \in Devices : Members(made', known'[f], state'[f])
               /\ made' = made \/ \E y \in Dec : made' = Append(made, y) /\ Order(made')
    <3>1. PICK x : decide(d, x) /\ Right(d, x) /\ x.op = op /\ x.on = e
      BY <2>3, PeopleRight
    <3>2. <<d, op, e>> \in scene.may /\ decider(d)
      BY <2>3 DEF People
    <3>3. op = "remove" => e \notin scene.deciders
      BY <3>2 DEF StayInv, Stays
    <3> QED
      BY <1>1, <3>1, <3>2, <3>3, DecideStays DEF decider
  <2>4. ASSUME NEW e \in Devices, Sync(d, e)
        PROVE  /\ Lasting(made') /\ \A f \in Devices : Members(made', known'[f], state'[f])
               /\ made' = made
    <3>1. /\ known' = [known EXCEPT ![d] = @ \cup known[e]] /\ made' = made
          /\ state' = [state EXCEPT ![d] = viewOf(made, known[d] \cup known[e])]
      BY <2>4 DEF Sync
    <3>2. /\ known \in [Devices -> SUBSET (DOMAIN made)] /\ state \in [Devices -> State] /\ scene \in Scene
      BY DEF KeysInv, Decided, KnownOK
    <3>3. Lasting(made)
      BY DEF StayInv
    <3>4. PICK T : T = known[d] \cup known[e]
      OBVIOUS
    <3>5. T \in SUBSET (DOMAIN made)
      BY <3>2, <3>4
    <3>6. Members(made, T, viewOf(made, T))
      BY <1>1, <3>2, <3>3, <3>5, ViewIs
    <3>7. ASSUME NEW f \in Devices PROVE Members(made, known'[f], state'[f])
      <4>1. CASE f = d
        <5>1. known'[f] = T /\ state'[f] = viewOf(made, T)
          BY <3>1, <3>2, <3>4, <4>1
        <5> QED
          BY <3>6, <5>1
      <4>2. CASE f # d
        <5>1. known'[f] = known[f] /\ state'[f] = state[f]
          BY <3>1, <3>2, <4>2
        <5> QED
          BY <5>1 DEF StayInv
      <4> QED
        BY <4>1, <4>2
    <3> QED
      BY <3>1, <3>3, <3>7
  <2> QED
    BY <2>1, <2>2, <2>3, <2>4
<1> QED
  BY <1>2, <1>3

\* A key is granted to none its maker knew to be removed: who grants it knows
\* of the change, and so of the removal.
LEMMA GrantOut ==
    ASSUME KeysInv, StayInv, NEW d \in Devices, NEW e \in Devices, NEW r \in ToSet(grant(d, e))
    PROVE  KeptOut(r)
<1>1. isMember(d, e) /\ r = Grant(currentKey(state[d]), e)
  BY GrantOK
<1>2. Order(made) /\ View(made, known[d], state[d]) /\ known[d] \subseteq DOMAIN made
      /\ \A n \in known[d] : made[n].past \subseteq known[d]
  BY DEF KeysInv, Decided, KnownOK
<1>3. PICK k : k = currentKey(state[d])
  OBVIOUS
<1>4. k \in recorded(state[d])
  <2>1. state[d].commits \in Seq(Int) /\ state[d].commits # <<>>
    BY <1>2 DEF View, State
  <2>2. Len(state[d].commits) \in DOMAIN state[d].commits
    BY <2>1
  <2> QED
    BY <1>3, <2>2 DEF recorded, currentKey, ToSet
<1>5. r.key = k /\ r.to = e
  BY <1>1, <1>3 DEF Grant
<1>6. ASSUME k # First, e \in Removed(made[k]) PROVE FALSE
  <2>1. k \in known[d] /\ k \in DOMAIN made
    BY <1>2, <1>4, <1>6 DEF View, Rotations
  <2>2. PICK m \in made[k].past : Out(made, DOMAIN made, m) /\ made[m].on = e
    BY <1>2, <1>6, <2>1, RemovedIs
  <2>3. m \in known[d] /\ Out(made, known[d], m)
    BY <1>2, <2>1, <2>2 DEF Out
  <2>4. made[m].on \notin state[d].members
    BY <2>3 DEF StayInv, Members
  <2> QED
    BY <1>1, <2>2, <2>4 DEF isMember
<1> QED
  BY <1>5, <1>6 DEF KeptOut

LEMMA KeptOutStays ==
    ASSUME KeysInv, StayInv, [Next]_vars
    PROVE  \A d \in Devices : \A r \in ToSet(log'[d]) : KeptOut(r)'
<1>1. Order(made) /\ \A d \in Devices : \A r \in ToSet(log[d]) : KeptOut(r) /\ RecordOK(r)
  BY DEF KeysInv, Decided, Logged, StayInv
<1>2. ASSUME made' = made, NEW r, KeptOut(r) PROVE KeptOut(r)'
  BY <1>2 DEF KeptOut, Removed
<1>3. CASE log' = log
  <2>1. CASE made' = made
    BY <1>1, <1>2, <1>3, <2>1
  <2>2. CASE made' # made
    <3>1. PICK y \in Dec : made' = Append(made, y) /\ Order(made')
      BY <2>2, MembersStay
    <3>2. /\ \A n \in DOMAIN made : \A e : e \in Removed(made[n])' => e \in Removed(made[n])
          /\ \A n \in DOMAIN made : made'[n] = made[n]
      BY <3>1, OutGrows DEF KeysInv
    <3>3. ASSUME NEW r, KeptOut(r), RecordOK(r) PROVE KeptOut(r)'
      <4>1. r.key # First => r.key \in DOMAIN made
        BY <1>1, <3>3, KeysAre DEF RecordOK, Rotations
      <4> QED
        BY <3>2, <3>3, <4>1 DEF KeptOut
    <3> QED
      BY <1>1, <1>3, <3>3
  <2> QED
    BY <2>1, <2>2
<1>4. CASE log' # log
  <2>1. PICK d \in Devices : WorkGrant(d) \/ RotateGrant(d) \/ WorkLink(d) \/ SealJudge(d)
    BY <1>4, AppendedBy DEF vars
  <2>2. made' = made /\ got' = got
    BY <2>1 DEF WorkGrant, RotateGrant, WorkLink, SealJudge, heard
  <2>3. PICK rs : rs \in Seq(Record) /\ append(d, rs) /\ \A r \in ToSet(rs) : RecordOK(r) /\ KeptOut(r)
    <3>1. CASE WorkGrant(d) \/ RotateGrant(d)
      <4>1. PICK e \in Devices : append(d, grant(d, e))
        <5>1. work[d].todo \in Seq(Devices) /\ rot[d].todo \in Seq(Devices)
          <6>1. work[d] \in Task /\ rot[d] \in Task
            BY DEF KeysInv, Working
          <6> QED
            BY <6>1 DEF Task
        <5> QED
          BY <3>1, <5>1, NextOne DEF WorkGrant, RotateGrant
      <4>2. PICK rs : rs = grant(d, e)
        OBVIOUS
      <4>3. rs \in Seq(Record) /\ \A r \in ToSet(rs) : RecordOK(r) /\ KeptOut(r)
        BY <4>2, GrantOK, GrantOut
      <4> QED
        BY <4>1, <4>2, <4>3
    <3>2. CASE WorkLink(d)
      <4>1. PICK s, X : /\ X \subseteq linkable(d, s) /\ Known(s)
                        /\ append(d, SetToSeq(LinksTo(s, X)))
        BY <3>2, LinkedBy
      <4>2. X \subseteq {k \in recorded(s) : epochOf(k) < current(s)}
        BY <4>1 DEF linkable
      <4>3. PICK rs : rs = SetToSeq(LinksTo(s, X))
        OBVIOUS
      <4>4. rs \in Seq(Record) /\ \A r \in ToSet(rs) : RecordOK(r) /\ r.op = "link"
        BY <4>1, <4>2, <4>3, LinksOK
      <4> QED
        BY <4>1, <4>3, <4>4 DEF KeptOut
    <3>3. CASE SealJudge(d)
      <4>1. PICK rs : rs = <<Post(currentKey(state[d]))>>
        OBVIOUS
      <4>2. append(d, rs) /\ currentHeld(d)
        BY <1>4, <3>3, <4>1 DEF SealJudge, safeToSeal
      <4>3. rs \in Seq(Record) /\ \A r \in ToSet(rs) : RecordOK(r) /\ r.op = "post"
        BY <4>1, <4>2, PostOK
      <4> QED
        BY <4>2, <4>3 DEF KeptOut
    <3> QED
      BY <2>1, <3>1, <3>2, <3>3
  <2>4. ToSet(log'[d]) = ToSet(log[d]) \cup ToSet(rs) /\ \A e \in Devices \ {d} : log'[e] = log[e]
    BY <2>2, <2>3, AppendOK
  <2>5. ASSUME NEW e \in Devices, NEW r \in ToSet(log'[e]) PROVE KeptOut(r)
    <3>1. CASE e = d
      BY <1>1, <2>3, <2>4, <2>5, <3>1
    <3>2. CASE e # d
      BY <1>1, <2>4, <2>5, <3>2
    <3> QED
      BY <3>1, <3>2
  <2> QED
    BY <1>2, <2>2, <2>5
<1> QED
  BY <1>3, <1>4

LEMMA StayNext == KeysInv /\ StayInv /\ [Next]_vars => StayInv'
<1> SUFFICES ASSUME KeysInv, StayInv, [Next]_vars PROVE StayInv'
  OBVIOUS
<1>1. /\ scene'.deciders = scene.deciders /\ scene'.members = scene.members /\ scene'.may \subseteq scene.may
  BY SceneSame
<1>2. Stays(scene)'
  BY <1>1 DEF StayInv, Stays
<1>3. /\ Lasting(made') /\ \A d \in Devices : Members(made', known'[d], state'[d])
  BY MembersStay
<1>4. Lasting(made)' /\ \A d \in Devices : Members(made, known[d], state[d])'
  BY <1>1, <1>3 DEF Lasting, Members, Out
<1>5. \A d \in Devices : rot'[d].pc = "decide" => d \in scene'.deciders
  BY <1>1, RotSame DEF StayInv
<1>6. \A d \in Devices : \A r \in ToSet(log'[d]) : KeptOut(r)'
  BY KeptOutStays
<1> QED
  BY <1>2, <1>4, <1>5, <1>6 DEF StayInv

LEMMA StayInit == DecidersStay /\ Init => StayInv
<1> SUFFICES ASSUME DecidersStay, Init PROVE StayInv
  OBVIOUS
<1>1. Stays(scene) /\ made = <<>> /\ DOMAIN made = {} /\ known = [d \in Devices |-> {}]
      /\ state = [d \in Devices |-> Start(scene.members)]
  BY DEF DecidersStay, Init
<1>2. Lasting(made)
  BY <1>1 DEF Lasting, Stays
<1>3. \A d \in Devices : Members(made, known[d], state[d])
  BY <1>1 DEF Members, Start, Stays
<1>4. \A d \in Devices : rot[d].pc # "decide"
  BY DEF Init, Idle
<1>5. KeysInv
  BY InitOK
<1>6. \A d \in Devices : \A r \in ToSet(log[d]) : KeptOut(r)
  <2>1. Keys = {First}
    BY <1>1, <1>5, KeysAre DEF KeysInv, Decided, Rotations
  <2>2. \A d \in Devices : \A r \in ToSet(log[d]) : r.key = First
    BY <1>5, <2>1 DEF KeysInv, Logged, RecordOK
  <2> QED
    BY <2>2 DEF KeptOut
<1> QED
  BY <1>1, <1>2, <1>3, <1>4, <1>6 DEF StayInv

\* What a device could open of all that was ever written.
LEMMA OpenableIn ==
    ASSUME KeysInv, NEW e, NEW S,
           \A r \in Records : r.op = "grant" /\ r.to = e => r.key \in S,
           \A r \in Records : r.op = "link" /\ r.key \in S => r.to \in S
    PROVE  Openable(e) \subseteq S
<1> DEFINE mine == {r.key : r \in {r \in Records : r.op = "grant" /\ r.to = e}}
           more(X) == {r.to : r \in {r \in Records : r.op = "link" /\ r.key \in X}}
           G == [X \in SUBSET Keys |-> X \cup more(X)]
<1>1. \A r \in Records : r.key \in Keys /\ (r.op = "link" => r.to \in Keys)
  BY DEF KeysInv, Logged, Records, RecordOK
<1>2. mine \in SUBSET Keys /\ \A X : more(X) \subseteq Keys
  BY <1>1
<1>3. mine \subseteq S /\ \A X : X \subseteq S => more(X) \subseteq S
  OBVIOUS
<1>4. G \in [SUBSET Keys -> SUBSET Keys] /\ \A X \in SUBSET Keys : G[X] = X \cup more(X)
  <2> HIDE DEF more
  <2> QED
    BY <1>2
<1> HIDE DEF mine, G, more
<1>5. PICK f \in [Nat -> SUBSET Keys] : Growing(mine, G, f)
  BY <1>2, <1>4, GrowingExists
<1>6. f = [n \in Nat |-> IF n = 0 THEN mine ELSE f[n - 1] \cup more(f[n - 1])]
  <2>1. ASSUME NEW n \in Nat PROVE f[n] = IF n = 0 THEN mine ELSE f[n - 1] \cup more(f[n - 1])
    <3>1. f[n] = IF n = 0 THEN mine ELSE G[f[n - 1]]
      BY <1>5 DEF Growing
    <3>2. n # 0 => f[n - 1] \in SUBSET Keys
      <4>1. n # 0 => n - 1 \in Nat
        OBVIOUS
      <4> QED
        BY <4>1
    <3> QED
      BY <1>4, <3>1, <3>2
  <2>2. f = [n \in Nat |-> f[n]]
    OBVIOUS
  <2> QED
    BY <2>1, <2>2
<1>7. ASSUME NEW g, g = [n \in Nat |-> IF n = 0 THEN mine ELSE g[n - 1] \cup more(g[n - 1])]
      PROVE  \A n \in Nat : g[n] \subseteq S
  <2>1. \A n \in Nat : g[n] = IF n = 0 THEN mine ELSE g[n - 1] \cup more(g[n - 1])
    BY <1>7
  <2>2. \A n \in Nat : n = 0 => g[n] \subseteq S
    BY <1>3, <2>1
  <2>3. \A n \in Nat : n # 0 /\ g[n - 1] \subseteq S => g[n] \subseteq S
    BY <1>3, <2>1
  <2> QED
    BY <2>2, <2>3, GrowingStays
<1>8. Len(made) \in Nat
  BY DEF KeysInv, Decided, Order
<1>9. \E g : /\ g = [n \in Nat |-> IF n = 0 THEN mine ELSE g[n - 1] \cup more(g[n - 1])]
             /\ Openable(e) = g[Len(made)]
  BY <1>6 DEF Openable, mine, more
<1>10. PICK g : /\ g = [n \in Nat |-> IF n = 0 THEN mine ELSE g[n - 1] \cup more(g[n - 1])]
                /\ Openable(e) = g[Len(made)]
  BY <1>9
<1>11. \A n \in Nat : g[n] \subseteq S
  BY <1>7, <1>10
<1> QED
  BY <1>8, <1>10, <1>11

\* A key made by someone who knew of a removal never reaches who was removed,
\* whatever is granted and linked.
THEOREM NewKeysSafe ==
    ASSUME DecidersStay
    PROVE  Spec => []NewKeysStayIn
<1>1. Init => KeysInv /\ StayInv
  BY InitOK, StayInit
<1>2. KeysInv /\ StayInv /\ [Next]_vars => KeysInv' /\ StayInv'
  BY NextOK, StayNext
<1>3. KeysInv /\ StayInv => NewKeysStayIn
  <2> SUFFICES ASSUME KeysInv, StayInv,
                      NEW n \in DOMAIN made, made[n].op = "rotate", NEW e \in Removed(made[n]),
                      \A m \in DOMAIN made : made[m].op = "rotate" /\ made[m].epoch > made[n].epoch => e \in Removed(made[m])
               PROVE  made[n].key \notin Openable(e)
    BY DEF NewKeysStayIn
  <2> DEFINE Bad == {n} \cup {m \in DOMAIN made : made[m].op = "rotate" /\ made[m].epoch > made[n].epoch}
             Good == Int \ Bad
  <2>1. /\ Order(made) /\ made[n].key = n /\ made[n].epoch \in Nat \ {0} /\ n \in Int
        /\ \A m \in DOMAIN made : made[m].op = "rotate" => made[m].epoch \in Nat
    BY DEF KeysInv, Decided, Order
  <2>2. \A k \in Bad : k \in DOMAIN made /\ made[k].op = "rotate" /\ made[k].epoch >= made[n].epoch /\ e \in Removed(made[k]) /\ k # First
    BY <2>1, KeysAre
  <2>3. \A r \in Records : RecordOK(r) /\ KeptOut(r) /\ r.key \in Int
    <3>1. \A r \in Records : RecordOK(r) /\ KeptOut(r)
      BY DEF KeysInv, Logged, StayInv, Records
    <3> QED
      BY <2>1, <3>1, KeysAre DEF RecordOK
  <2>4. ASSUME NEW r \in Records, r.op = "grant", r.to = e PROVE r.key \in Good
    BY <2>2, <2>3, <2>4 DEF KeptOut
  <2>5. ASSUME NEW r \in Records, r.op = "link", r.key \in Good PROVE r.to \in Good
    <3>1. r.key \in Keys /\ r.to \in Keys /\ epochOf(r.key) > epochOf(r.to) /\ Keys \subseteq Int
      BY <2>1, <2>3, <2>5, KeysAre DEF RecordOK
    <3>2. ASSUME r.to \in Bad PROVE FALSE
      <4>1. epochOf(r.to) >= made[n].epoch /\ epochOf(r.to) \in Nat
        BY <2>1, <2>2, <3>2 DEF epochOf
      <4>2. epochOf(r.key) \in Nat /\ epochOf(r.key) > made[n].epoch
        <5>1. epochOf(r.key) \in Nat
          BY <2>1, <3>1, KeysAre
        <5> QED
          BY <2>1, <3>1, <4>1, <5>1
      <4>3. r.key # First
        BY <2>1, <4>2 DEF epochOf
      <4>4. r.key \in DOMAIN made /\ made[r.key].op = "rotate" /\ made[r.key].epoch > made[n].epoch
        BY <2>1, <3>1, <4>2, <4>3, KeysAre DEF Rotations, epochOf
      <4> QED
        BY <2>5, <4>4
    <3> QED
      BY <3>1, <3>2
  <2>6. Openable(e) \subseteq Good
    <3> HIDE DEF Good
    <3> QED
      BY <2>4, <2>5, OpenableIn
  <2> QED
    BY <2>1, <2>6
<1> QED
  BY <1>1, <1>2, <1>3, PTL DEF Spec
=============================================================================
