--------------------------- MODULE IndexerProofs ---------------------------
(***************************************************************************)
(* One device's index of a space, for any logs, blocks and scenes.  Shape: *)
(* what kind of value everything is, and how a log's place, limit and      *)
(* holes lie; OneTask: who waits for which task of the write queue;        *)
(* ReadInv: which blocks have their row.  EffectBy carries a property from *)
(* one record to a whole task.                                             *)
(***************************************************************************)
EXTENDS Indexer, FiniteSetTheorems, WellFoundedInduction, TLAPS

-----------------------------------------------------------------------------
(* Numbers, sets and sequences.                                            *)

LEMMA Induct ==
    ASSUME NEW T, 0 \in T, \A n \in Nat : n \in T => n + 1 \in T
    PROVE  \A n \in Nat : n \in T
<1> DEFINE Bad == {n \in Nat : n \notin T}
           before == OpToRel(<, Nat)
<1> SUFFICES ASSUME Bad # {} PROVE FALSE
  OBVIOUS
<1>1. before = {p \in Nat \X Nat : p[1] < p[2]}
  BY DEF OpToRel
<1> HIDE DEF before
<1>2. PICK m \in Bad : \A y \in Bad : <<y, m>> \notin before
  BY NatLessThanWellFounded, WFMin DEF before
<1>3. m \in Nat /\ m \notin T /\ m # 0
  BY <1>2
<1>4. m - 1 \in Nat /\ m - 1 < m /\ (m - 1) + 1 = m
  BY <1>3
<1>5. m - 1 \in T
  BY <1>1, <1>2, <1>3, <1>4
<1> QED
  BY <1>3, <1>4, <1>5

\* Some numbers have a lowest.
LEMMA LowestIs ==
    ASSUME NEW S \in SUBSET Nat, S # {}
    PROVE  lowest(S) \in S /\ \A m \in S : lowest(S) <= m
<1> DEFINE before == OpToRel(<, Nat)
<1>1. before = {p \in Nat \X Nat : p[1] < p[2]}
  BY DEF OpToRel
<1> HIDE DEF before
<1>2. PICK m \in S : \A y \in S : <<y, m>> \notin before
  BY NatLessThanWellFounded, WFMin DEF before
<1>3. \A y \in S : m <= y
  <2> TAKE y \in S
  <2>1. m \in Nat /\ y \in Nat /\ ~(y < m)
    BY <1>1, <1>2
  <2> QED
    BY <2>1
<1> QED
  BY <1>2, <1>3 DEF lowest

\* Some numbers up to n have a highest.
LEMMA HighestIs ==
    ASSUME NEW n \in Nat, NEW S \in SUBSET (0 .. n), S # {}
    PROVE  \E h \in S : \A m \in S : m <= h
<1> DEFINE T == {n - m : m \in S}
<1>1. T \in SUBSET Nat /\ T # {}
  <2>1. \A m \in S : m \in 0 .. n
    OBVIOUS
  <2>2. \A m \in 0 .. n : n - m \in Nat
    OBVIOUS
  <2> QED
    BY <2>1, <2>2
<1>2. lowest(T) \in T /\ \A t \in T : lowest(T) <= t
  BY <1>1, LowestIs
<1>3. PICK h \in S : lowest(T) = n - h
  BY <1>2
<1>4. \A m \in S : n - m \in T
  OBVIOUS
<1>5. \A m \in S : n - h <= n - m
  BY <1>2, <1>3, <1>4
<1> QED
  BY <1>5

\* The elements of a finite set, in some order.
LEMMA InSomeOrder ==
    ASSUME NEW S, IsFiniteSet(S)
    PROVE  /\ SetToSeq(S) \in Seq(S) /\ ToSet(SetToSeq(S)) = S
           /\ Len(SetToSeq(S)) = Cardinality(S) /\ Cardinality(S) \in Nat
<1>1. Cardinality(S) \in Nat /\ ExistsBijection(1 .. Cardinality(S), S)
  BY FS_CardinalityType
<1>2. PICK b \in [1 .. Cardinality(S) -> S] : IsInjective(b)
  BY <1>1 DEF ExistsBijection, Bijection, Injection
<1> DEFINE q == SetToSeq(S)
<1>3. q \in [1 .. Cardinality(S) -> S] /\ IsInjective(q)
  BY <1>2 DEF SetToSeq
<1>4. q \in Injection(1 .. Cardinality(S), S)
  BY <1>3 DEF Injection, IsInjective
<1>5. IsFiniteSet(1 .. Cardinality(S)) /\ Cardinality(1 .. Cardinality(S)) = Cardinality(S)
  BY <1>1, FS_Interval
<1>6. q \in Surjection(1 .. Cardinality(S), S)
  <2> HIDE DEF q
  <2> QED
    BY <1>4, <1>5, FS_Injection
<1>7. \A x \in S : \E n \in 1 .. Cardinality(S) : q[n] = x
  BY <1>6 DEF Surjection
<1>8. \A n \in 1 .. Cardinality(S) : q[n] \in S
  BY <1>3
<1>9. DOMAIN q = 1 .. Cardinality(S) /\ q \in Seq(S) /\ Len(q) = Cardinality(S)
  BY <1>1, <1>3
<1> HIDE DEF q
<1>10. ToSet(q) = S
  BY <1>7, <1>8, <1>9 DEF ToSet
<1> QED
  BY <1>1, <1>9, <1>10 DEF q

\* The places P of a sequence are numbered from 1 on, in order.
LEMMA Those ==
    ASSUME NEW l \in Logs, NEW S, NEW q \in Seq(S), NEW P \in SUBSET (DOMAIN q)
    PROVE  /\ those(l, q, P) \in Seq({l} \X S)
           /\ ToSet(those(l, q, P)) = {<<l, q[p]>> : p \in P}
<1> DEFINE upTo(i) == {j \in P : j <= i}
           rank == [i \in P |-> Cardinality(upTo(i))]
           c == Cardinality(P)
<1>1. DOMAIN q = 1 .. Len(q) /\ Len(q) \in Nat /\ (\A i \in P : i \in Int) /\ IsFiniteSet(DOMAIN q)
  <2>1. DOMAIN q = 1 .. Len(q) /\ Len(q) \in Nat
    OBVIOUS
  <2>2. \A i \in P : i \in Int
    BY <2>1
  <2>3. IsFiniteSet(1 .. Len(q))
    BY <2>1, FS_Interval
  <2> QED
    BY <2>1, <2>2, <2>3
<1>2. IsFiniteSet(P) /\ c \in Nat
  BY <1>1, FS_Subset, FS_CardinalityType
<1>3. \A i \in P : upTo(i) \in SUBSET P /\ i \in upTo(i)
  BY <1>1
<1>4. ASSUME NEW i \in P PROVE rank[i] \in 1 .. c
  <2>1. IsFiniteSet(upTo(i)) /\ Cardinality(upTo(i)) \in Nat /\ Cardinality(upTo(i)) <= c
    BY <1>2, <1>3, FS_Subset, FS_CardinalityType
  <2>2. upTo(i) # {}
    BY <1>3
  <2>3. Cardinality(upTo(i)) # 0
    BY <2>1, <2>2, FS_EmptySet
  <2> HIDE DEF upTo
  <2> QED
    BY <1>2, <2>1, <2>3
<1>5. ASSUME NEW i \in P, NEW j \in P, rank[i] = rank[j] PROVE i = j
  <2>1. ASSUME NEW x \in P, NEW y \in P, rank[x] = rank[y], x < y PROVE FALSE
    <3>1. upTo(x) \in SUBSET upTo(y) /\ y \in upTo(y) /\ y \notin upTo(x)
      BY <1>1, <2>1
    <3>2. IsFiniteSet(upTo(y))
      BY <1>2, <1>3, FS_Subset
    <3>3. Cardinality(upTo(x)) = Cardinality(upTo(y))
      BY <2>1
    <3> HIDE DEF upTo
    <3> QED
      BY <3>1, <3>2, <3>3, FS_Subset
  <2>2. i < j \/ j < i \/ i = j
    BY <1>1
  <2> HIDE DEF rank
  <2> QED
    BY <1>5, <2>1, <2>2
<1>6. rank \in Injection(P, 1 .. c)
  <2> HIDE DEF rank
  <2>1. rank \in [P -> 1 .. c]
    BY <1>4 DEF rank
  <2> QED
    BY <1>5, <2>1 DEF Injection, IsInjective
<1>7. ASSUME NEW n \in 1 .. c PROVE \E i \in P : Cardinality(upTo(i)) = n
  <2>1. rank \in Surjection(P, 1 .. c)
    <3>1. IsFiniteSet(1 .. c) /\ Cardinality(1 .. c) = c
      BY <1>2, FS_Interval
    <3> QED
      BY <1>6, <3>1, FS_Injection
  <2>2. PICK i \in P : rank[i] = n
    BY <2>1 DEF Surjection
  <2> QED
    BY <2>2
<1> DEFINE at(n) == CHOOSE i \in P : Cardinality(upTo(i)) = n
           r == those(l, q, P)
<1>8. \A n \in 1 .. c : at(n) \in P
  BY <1>7
<1>9. r = [n \in 1 .. c |-> <<l, q[at(n)]>>]
  BY DEF those
<1>10. \A i \in P : at(rank[i]) = i
  BY <1>4, <1>5, <1>7
<1> HIDE DEF at, c, rank
<1>11. \A i \in P : q[i] \in S
  OBVIOUS
<1>12. r \in Seq({l} \X S) /\ DOMAIN r = 1 .. c
  BY <1>2, <1>8, <1>9, <1>11
<1>13. \A i \in P : r[rank[i]] = <<l, q[i]>>
  BY <1>4, <1>9, <1>10
<1>14. \A n \in 1 .. c : r[n] = <<l, q[at(n)]>>
  BY <1>9
<1> HIDE DEF r
<1>15. ToSet(r) = {<<l, q[p]>> : p \in P}
  <2>1. ASSUME NEW x \in ToSet(r) PROVE x \in {<<l, q[p]>> : p \in P}
    <3>1. PICK n \in 1 .. c : x = r[n]
      BY <1>12 DEF ToSet
    <3> QED
      BY <1>8, <1>14, <3>1
  <2>2. ASSUME NEW p \in P PROVE <<l, q[p]>> \in ToSet(r)
    BY <1>4, <1>12, <1>13 DEF ToSet
  <2> QED
    BY <2>1, <2>2
<1> QED
  BY <1>12, <1>15 DEF r

-----------------------------------------------------------------------------
(* Blocks, and which of two wins.                                          *)

Written == {i \in Ids : i[2] <= Len(scene.content[i[1]])}

LEMMA IdsFinite ==
    /\ IsFiniteSet(Ids) /\ \A S \in SUBSET Ids : IsFiniteSet(S)
    /\ \A i \in Ids : i = <<i[1], i[2]>> /\ i[1] \in Logs /\ i[2] \in 1 .. MaxLen - 1
<1>1. MaxLen - 1 \in Int /\ 1 \in Int
  BY IndexAssumption
<1>2. IsFiniteSet(1 .. MaxLen - 1)
  BY <1>1, FS_Interval
<1>3. IsFiniteSet(Ids)
  BY <1>2, IndexAssumption, FS_Product DEF Ids
<1>4. \A S \in SUBSET Ids : IsFiniteSet(S)
  BY <1>3, FS_Subset
<1> QED
  BY <1>3, <1>4 DEF Ids

LEMMA BlockIs ==
    ASSUME SceneOK(scene), NEW i \in Written
    PROVE  /\ Block(i) \in BlockType /\ i \in Ids /\ i[2] \in DOMAIN scene.content[i[1]]
           /\ Block(i).stamp \in Nat /\ Rank[i[1]] \in Int
           /\ Block(i).kind # "put" => Target(i) \in Ids
<1>1. i \in Ids /\ i[1] \in Logs /\ i[2] \in 1 .. MaxLen - 1
  BY IdsFinite DEF Written
<1>2. scene.content[i[1]] \in Seq(BlockType)
  BY <1>1 DEF SceneOK, Scene
<1>3. i[2] \in DOMAIN scene.content[i[1]]
  BY <1>1, <1>2 DEF Written
<1>4. Block(i) \in BlockType
  BY <1>2, <1>3 DEF Block
<1>5. Block(i).stamp \in Nat
  BY <1>4 DEF BlockType
<1> QED
  BY <1>1, <1>3, <1>4, <1>5, IndexAssumption DEF SceneOK, Block, Target

LEMMA WrittenFinite == \A S \in SUBSET Written : S \in SUBSET Ids /\ IsFiniteSet(S) /\ Cardinality(S) \in Nat
<1>1. \A S \in SUBSET Written : S \in SUBSET Ids
  BY DEF Written
<1> QED
  BY <1>1, IdsFinite, FS_CardinalityType

\* Of two blocks one wins, and winning is transitive.
LEMMA OneWins ==
    ASSUME SceneOK(scene)
    PROVE  /\ \A i, j \in Written : i # j => compare(i, j) \/ compare(j, i)
           /\ \A i, j \in Written : ~(compare(i, j) /\ compare(j, i))
           /\ \A i, j, k \in Written : compare(i, j) /\ compare(j, k) => compare(i, k)
<1>1. ASSUME NEW i \in Written, NEW j \in Written, i # j PROVE compare(i, j) \/ compare(j, i)
  <2>1. Block(i).stamp = Block(j).stamp => Rank[i[1]] # Rank[j[1]]
    <3>1. i = <<i[1], i[2]>> /\ j = <<j[1], j[2]>> /\ i[1] \in Logs /\ j[1] \in Logs
      BY IdsFinite DEF Written
    <3>2. i[2] \in DOMAIN scene.content[i[1]] /\ j[2] \in DOMAIN scene.content[j[1]]
      BY BlockIs
    <3>3. i[1] # j[1] \/ i[2] # j[2]
      BY <1>1, <3>1
    <3> QED
      BY <3>1, <3>2, <3>3 DEF SceneOK, Block
  <2>2. Block(i).stamp \in Nat /\ Block(j).stamp \in Nat /\ Rank[i[1]] \in Int /\ Rank[j[1]] \in Int
    BY BlockIs
  <2> QED
    BY <2>1, <2>2 DEF compare
<1>2. \A i \in Written : Block(i).stamp \in Nat /\ Rank[i[1]] \in Int
  BY BlockIs
<1>3. \A i, j \in Written : ~(compare(i, j) /\ compare(j, i))
  BY <1>2 DEF compare
<1>4. \A i, j, k \in Written : compare(i, j) /\ compare(j, k) => compare(i, k)
  <2> TAKE i, j, k \in Written
  <2>1. /\ Block(i).stamp \in Nat /\ Block(j).stamp \in Nat /\ Block(k).stamp \in Nat
        /\ Rank[i[1]] \in Int /\ Rank[j[1]] \in Int /\ Rank[k[1]] \in Int
    BY <1>2
  <2> QED
    BY <2>1 DEF compare
<1> QED
  BY <1>1, <1>3, <1>4

\* The latest of some blocks is one of them, wins over the others, and is the
\* only one that does.
LEMMA LatestIs ==
    ASSUME SceneOK(scene), NEW S \in SUBSET Written, S # {}
    PROVE  /\ latest(S) \in S /\ \A j \in S \ {latest(S)} : compare(latest(S), j)
           /\ \A i \in S : (\A j \in S \ {i} : compare(i, j)) => latest(S) = i
<1> DEFINE lost(i) == {j \in S : compare(i, j)}
           counts == {Cardinality(lost(i)) : i \in S}
<1>1. IsFiniteSet(S) /\ Cardinality(S) \in Nat
  BY WrittenFinite
<1>2. \A i \in S : /\ IsFiniteSet(lost(i)) /\ Cardinality(lost(i)) \in 0 .. Cardinality(S)
  <2> TAKE i \in S
  <2>1. lost(i) \in SUBSET S
    OBVIOUS
  <2>2. IsFiniteSet(lost(i)) /\ Cardinality(lost(i)) \in Nat /\ Cardinality(lost(i)) <= Cardinality(S)
    BY <1>1, <2>1, FS_Subset, FS_CardinalityType
  <2> QED
    BY <1>1, <2>2
<1>3. counts \in SUBSET (0 .. Cardinality(S)) /\ counts # {}
  <2> HIDE DEF lost
  <2> QED
    BY <1>2
<1>4. PICK h \in counts : \A m \in counts : m <= h
  <2> HIDE DEF counts
  <2> QED
    BY <1>1, <1>3, HighestIs
<1>5. PICK i \in S : h = Cardinality(lost(i))
  BY <1>4
<1>6. ASSUME NEW j \in S \ {i}, ~compare(i, j) PROVE FALSE
  <2>1. compare(j, i) /\ i \in Written /\ j \in Written
    BY <1>5, <1>6, OneWins
  <2>2. lost(i) \subseteq lost(j) /\ i \in lost(j) /\ i \notin lost(i)
    BY <2>1, OneWins
  <2>3. IsFiniteSet(lost(j)) /\ Cardinality(lost(j)) \in counts
    BY <1>2
  <2>4. Cardinality(lost(j)) <= Cardinality(lost(i))
    BY <1>4, <1>5, <2>3
  <2> HIDE DEF lost
  <2>5. Cardinality(lost(i)) <= Cardinality(lost(j)) /\ (Cardinality(lost(i)) = Cardinality(lost(j)) => lost(i) = lost(j))
    BY <2>2, <2>3, FS_Subset
  <2> QED
    BY <1>2, <2>2, <2>4, <2>5
<1>7. \A j \in S \ {i} : compare(i, j)
  BY <1>6
<1>8. latest(S) \in S /\ \A j \in S \ {latest(S)} : compare(latest(S), j)
  BY <1>7 DEF latest
<1>9. ASSUME NEW k \in S, \A j \in S \ {k} : compare(k, j), latest(S) # k PROVE FALSE
  <2>1. compare(k, latest(S)) /\ compare(latest(S), k)
    BY <1>8, <1>9
  <2> QED
    BY <1>8, <2>1, OneWins
<1> QED
  BY <1>8, <1>9

-----------------------------------------------------------------------------
(* The shape of the state.                                                 *)

Spots == 1 .. MaxLen - 1
Changed == {c \in Written : Block(c).kind # "put"}
Moderations == {None, "hidden", "shown", "removed"}
WrittenRow == [v : Written, superseded : BOOLEAN, hidden : BOOLEAN]
Rows == UNION {[D -> WrittenRow] : D \in SUBSET Written}

\* What a transaction wrote so far.
Ix == [rows : Rows, changes : SUBSET Changed, targets : SUBSET Ids, clears : SUBSET Ids, wiped : SUBSET Changed]

LogEntry ==
    [scanned : Places, indexed : Places, limit : 1 .. Inf, cut : 1 .. Inf, holes : SUBSET Spots,
     arrived : SUBSET Spots, again : BOOLEAN, uncommitted : BOOLEAN, timer : BOOLEAN]
RunEntry ==
    [pc : {"idle", "start", "take", "scan", "note", "queued", "leaving"}, batch : Seq(Spots),
     end : 1 .. Inf, look : 0 .. MaxLen]
BatchTask == [op : {"batch"}, of : Logs, indexed : Places, blocks : Seq(Written)]
CutTask == [op : {"cut"}, of : Logs, limit : Places, blocks : Seq(Ids)]
ModerateTask == [op : {"moderate"}, of : Nat, mods : [Ids -> Moderations], blocks : Seq(Ids)]
RightsTask == [op : {"rights"}, of : Nat, blocks : Seq(Ids)]
Task == BatchTask \cup CutTask \cup ModerateTask \cup RightsTask
Committed ==
    [op : {"batch", "cut"}, of : Logs, clears : SUBSET Ids, wiped : SUBSET Changed, noted : BOOLEAN]
    \cup [op : {"moderate", "rights"}, of : Nat, clears : SUBSET Ids, wiped : SUBSET Changed, noted : BOOLEAN]
Hearing == [n : Nat, stage : {"moderate", "rights", "queued"}, touched : SUBSET Ids]
Memo == [had : {None} \cup [changes : BOOLEAN, records : BOOLEAN], targets : SUBSET Ids,
         applied : [Ids -> Moderations], rights : {None} \cup [Logs -> Nat]]

DiskShape ==
    /\ length \in [Logs -> Places] /\ \A l \in Logs : length[l] <= Len(scene.content[l]) + 1
    /\ held \in [Logs -> SUBSET Spots]
    /\ rows \in Rows /\ changes \in SUBSET Changed
    /\ saved \in [Logs -> [indexed : Places, cut : 1 .. Inf]] /\ \A l \in Logs : saved[l].indexed <= length[l]
    /\ limit \in [Logs -> 1 .. Inf] /\ elimit \in [Logs -> Nat] /\ mods \in [Ids -> Moderations]

\* A log's place, in memory, is within its length n and past its holes; a block
\* a run took, or looks up, is one it has passed.
LogOK(e, r, n) ==
    /\ e \in LogEntry /\ r \in RunEntry /\ e.scanned <= n /\ e.indexed <= n
    /\ \A s \in e.holes : s < e.scanned
    /\ r.pc \in {"scan", "note"} => r.end <= n /\ \A s \in ToSet(r.batch) : s < e.scanned
    /\ r.pc = "note" => r.look \in Spots /\ r.look < e.scanned
LogShape ==
    /\ log \in [Logs -> LogEntry] /\ run \in [Logs -> RunEntry]
    /\ \A l \in Logs : LogOK(log[l], run[l], length[l])

TaskShape ==
    /\ queue \in Seq(Task) /\ \A t \in ToSet(queue) : t.op = "batch" => t.indexed <= length[t.of]
    /\ after \in SUBSET Committed /\ hearing \in SUBSET Hearing /\ memo \in Memo
    /\ reader \in [pc : {"idle", "read"}, answer : SUBSET Written, fresh : BOOLEAN]

Shape == SceneOK(scene) /\ DiskShape /\ LogShape /\ TaskShape

-----------------------------------------------------------------------------
(* What the operators on rows make is an index again.                      *)

LEMMA RowsAre ==
    \A f : f \in Rows <=> /\ DOMAIN f \in SUBSET Written /\ f = [i \in DOMAIN f |-> f[i]]
                          /\ \A i \in DOMAIN f : f[i] \in WrittenRow
<1>1. ASSUME NEW f, f \in Rows
      PROVE  DOMAIN f \in SUBSET Written /\ f = [i \in DOMAIN f |-> f[i]] /\ \A i \in DOMAIN f : f[i] \in WrittenRow
  <2>1. PICK D \in SUBSET Written : f \in [D -> WrittenRow]
    BY <1>1 DEF Rows
  <2> QED
    BY <2>1
<1>2. ASSUME NEW f, DOMAIN f \in SUBSET Written, f = [i \in DOMAIN f |-> f[i]], \A i \in DOMAIN f : f[i] \in WrittenRow
      PROVE  f \in Rows
  <2>1. f \in [DOMAIN f -> WrittenRow]
    BY <1>2
  <2> QED
    BY <1>2, <2>1 DEF Rows
<1> QED
  BY <1>1, <1>2

\* A function with the same domain, or less, and rows for values.
LEMMA RowsFrom ==
    ASSUME NEW D \in SUBSET Written, NEW f, f = [i \in D |-> f[i]], \A i \in D : f[i] \in WrittenRow
    PROVE  f \in Rows
<1>1. f \in [D -> WrittenRow]
  OBVIOUS
<1> QED
  BY <1>1 DEF Rows

\* Without a row, or with one more, the rows are rows.
LEMMA DropIs ==
    ASSUME NEW f \in Rows, NEW i
    PROVE  /\ Drop(f, i) \in Rows /\ DOMAIN Drop(f, i) = DOMAIN f \ {i}
           /\ \A j \in DOMAIN f \ {i} : Drop(f, i)[j] = f[j]
<1>1. DOMAIN f \in SUBSET Written /\ \A j \in DOMAIN f : f[j] \in WrittenRow
  BY RowsAre
<1> DEFINE g == Drop(f, i)
<1>2. g = [j \in DOMAIN f \ {i} |-> f[j]]
  BY DEF Drop
<1> HIDE DEF g
<1>3. DOMAIN g = DOMAIN f \ {i} /\ \A j \in DOMAIN f \ {i} : g[j] = f[j]
  BY <1>2
<1>4. g = [j \in DOMAIN f \ {i} |-> g[j]] /\ DOMAIN f \ {i} \in SUBSET Written
  BY <1>1, <1>2
<1>5. \A j \in DOMAIN f \ {i} : g[j] \in WrittenRow
  BY <1>1, <1>3
<1>6. g \in Rows
  BY <1>4, <1>5, RowsFrom
<1> QED
  BY <1>3, <1>6 DEF g

LEMMA PutIs ==
    ASSUME NEW f \in Rows, NEW i \in Written, NEW r \in WrittenRow
    PROVE  /\ Put(f, i, r) \in Rows /\ DOMAIN Put(f, i, r) = DOMAIN f \cup {i} /\ Put(f, i, r)[i] = r
           /\ \A j \in DOMAIN f \ {i} : Put(f, i, r)[j] = f[j]
<1>1. DOMAIN f \in SUBSET Written /\ \A j \in DOMAIN f : f[j] \in WrittenRow
  BY RowsAre
<1> DEFINE g == Put(f, i, r)
           D == DOMAIN f \cup {i}
<1>2. g = [j \in D |-> IF j = i THEN r ELSE f[j]]
  BY DEF Put
<1> HIDE DEF g
<1>3. DOMAIN g = D /\ g[i] = r /\ \A j \in DOMAIN f \ {i} : g[j] = f[j]
  BY <1>2
<1>4. g = [j \in D |-> g[j]] /\ D \in SUBSET Written
  BY <1>1, <1>2
<1>5. \A j \in D : g[j] \in WrittenRow
  BY <1>1, <1>3
<1>6. g \in Rows
  BY <1>4, <1>5, RowsFrom
<1> QED
  BY <1>3, <1>6 DEF g

AllowedIn(i, cs) == {c \in cs : mayChange(c, i)}
DeletesIn(i, cs) == {c \in AllowedIn(i, cs) : Block(c).kind = "delete"}
Version(i, v, cs) ==
    IF AllowedIn(i, cs) # {} /\ compare(latest(AllowedIn(i, cs)), v) THEN latest(AllowedIn(i, cs)) ELSE v
With(r, v) == [r EXCEPT !.v = v]

LEMMA IxIs ==
    \A ix : ix \in Ix <=> /\ ix = [rows |-> ix.rows, changes |-> ix.changes, targets |-> ix.targets,
                                   clears |-> ix.clears, wiped |-> ix.wiped]
                          /\ ix.rows \in Rows /\ ix.changes \in SUBSET Changed /\ ix.targets \in SUBSET Ids
                          /\ ix.clears \in SUBSET Ids /\ ix.wiped \in SUBSET Changed
BY DEF Ix

LEMMA VersionIs ==
    ASSUME SceneOK(scene), NEW i, NEW v \in Written, NEW cs \in SUBSET Changed
    PROVE  /\ Version(i, v, cs) \in Written /\ Version(i, v, cs) \in {v} \cup AllowedIn(i, cs)
           /\ AllowedIn(i, cs) \in SUBSET Changed
<1>1. AllowedIn(i, cs) \in SUBSET cs /\ AllowedIn(i, cs) \in SUBSET Written
  BY DEF AllowedIn, Changed
<1>2. AllowedIn(i, cs) # {} => latest(AllowedIn(i, cs)) \in AllowedIn(i, cs)
  BY <1>1, LatestIs
<1> QED
  BY <1>1, <1>2 DEF Version

LEMMA SettleIs ==
    ASSUME SceneOK(scene), NEW ix \in Ix, NEW i \in Written, NEW r \in WrittenRow, NEW cs \in SUBSET Changed
    PROVE  LET s == settle(ix, i, r, cs)
           IN  /\ s \in Ix /\ s.changes = ix.changes /\ s.targets = ix.targets /\ s.wiped = ix.wiped
               /\ DeletesIn(i, cs) = {} =>
                     s.rows = Put(ix.rows, i, With(r, Version(i, r.v, cs))) /\ s.clears = ix.clears
               /\ DeletesIn(i, cs) # {} =>
                     /\ s.rows = Drop(ix.rows, i)
                     /\ s.clears = ix.clears \cup {i} \cup {c \in Of(ix, i) : Block(c).kind = "edit"}
<1> DEFINE s == settle(ix, i, r, cs)
           row == IF AllowedIn(i, cs) # {} /\ compare(latest(AllowedIn(i, cs)), r.v)
                  THEN [r EXCEPT !.v = latest(AllowedIn(i, cs))] ELSE r
           wiped == {i} \cup {c \in Of(ix, i) : Block(c).kind = "edit"}
<1>1. s = IF DeletesIn(i, cs) # {}
          THEN [ix EXCEPT !.rows = Drop(ix.rows, i), !.clears = ix.clears \cup {i} \cup {c \in Of(ix, i) : Block(c).kind = "edit"}]
          ELSE [ix EXCEPT !.rows = Put(ix.rows, i, row)]
  BY DEF settle, AllowedIn, DeletesIn
<1>2. r.v \in Written /\ Version(i, r.v, cs) \in Written
  BY VersionIs DEF WrittenRow
<1>3. row = With(r, Version(i, r.v, cs)) /\ With(r, Version(i, r.v, cs)) \in WrittenRow
  BY <1>2 DEF With, Version, WrittenRow
<1>4. /\ ix.rows \in Rows /\ ix.changes \in SUBSET Changed /\ ix.targets \in SUBSET Ids
      /\ ix.clears \in SUBSET Ids /\ ix.wiped \in SUBSET Changed
  BY DEF Ix
<1>5. wiped \in SUBSET Ids
  BY <1>4 DEF Of, Changed, Written
<1>6. Drop(ix.rows, i) \in Rows /\ Put(ix.rows, i, row) \in Rows
  BY <1>3, <1>4, DropIs, PutIs
<1> HIDE DEF s, row
<1>7. CASE DeletesIn(i, cs) # {}
  <2>1. s = [ix EXCEPT !.rows = Drop(ix.rows, i), !.clears = ix.clears \cup {i} \cup {c \in Of(ix, i) : Block(c).kind = "edit"}]
    BY <1>1, <1>7
  <2>2. ix.clears \cup {i} \cup {c \in Of(ix, i) : Block(c).kind = "edit"} \in SUBSET Ids
    BY <1>4, <1>5
  <2>3. s.rows = Drop(ix.rows, i) /\ s.changes = ix.changes /\ s.targets = ix.targets /\ s.wiped = ix.wiped
        /\ s.clears = ix.clears \cup {i} \cup {c \in Of(ix, i) : Block(c).kind = "edit"} /\ s \in Ix
    BY <1>4, <1>6, <2>1, <2>2 DEF Ix
  <2> QED
    BY <1>7, <2>3 DEF s
<1>8. CASE DeletesIn(i, cs) = {}
  <2>1. s = [ix EXCEPT !.rows = Put(ix.rows, i, row)]
    BY <1>1, <1>8
  <2>2. s.rows = Put(ix.rows, i, row) /\ s.changes = ix.changes /\ s.targets = ix.targets /\ s.wiped = ix.wiped
        /\ s.clears = ix.clears /\ s \in Ix
    BY <1>4, <1>6, <2>1 DEF Ix
  <2> QED
    BY <1>3, <1>8, <2>2 DEF s
<1> QED
  BY <1>7, <1>8

LEMMA RegroupIs ==
    ASSUME SceneOK(scene), NEW ix \in Ix, NEW i
    PROVE  LET s == regroup(ix, i)
           IN  /\ s \in Ix /\ s.changes = ix.changes /\ s.targets = ix.targets /\ s.wiped = ix.wiped /\ s.clears = ix.clears
               /\ DOMAIN s.rows = DOMAIN ix.rows \ {i}
               /\ \A j \in DOMAIN s.rows :
                     /\ s.rows[j].v = ix.rows[j].v /\ s.rows[j].hidden = ix.rows[j].hidden
                     /\ s.rows[j].superseded = IF j \in Rivals(ix, i) THEN j # latest(Rivals(ix, i)) ELSE ix.rows[j].superseded
<1> DEFINE others == Rivals(ix, i)
           f == [j \in DOMAIN ix.rows \ {i} |->
                    IF j \in others THEN [ix.rows[j] EXCEPT !.superseded = (j # latest(others))] ELSE ix.rows[j]]
           s == regroup(ix, i)
<1>1. s = [ix EXCEPT !.rows = f]
  BY DEF regroup
<1>2. /\ ix.rows \in Rows /\ ix.changes \in SUBSET Changed /\ ix.targets \in SUBSET Ids
      /\ ix.clears \in SUBSET Ids /\ ix.wiped \in SUBSET Changed
  BY DEF Ix
<1>3. DOMAIN ix.rows \in SUBSET Written /\ \A j \in DOMAIN ix.rows : ix.rows[j] \in WrittenRow
  BY <1>2, RowsAre
<1> HIDE DEF others
<1>4. DOMAIN f = DOMAIN ix.rows \ {i}
  OBVIOUS
<1>5. ASSUME NEW j \in DOMAIN f
      PROVE  /\ f[j] \in WrittenRow /\ f[j].v = ix.rows[j].v /\ f[j].hidden = ix.rows[j].hidden
             /\ f[j].superseded = IF j \in others THEN j # latest(others) ELSE ix.rows[j].superseded
  <2>1. ix.rows[j] \in WrittenRow
    BY <1>3
  <2>2. f[j] = IF j \in others THEN [ix.rows[j] EXCEPT !.superseded = (j # latest(others))] ELSE ix.rows[j]
    OBVIOUS
  <2>3. (j # latest(others)) \in BOOLEAN
    OBVIOUS
  <2> DEFINE b == j # latest(others)
  <2> HIDE DEF b, f
  <2>4. f[j] = IF j \in others THEN [ix.rows[j] EXCEPT !.superseded = b] ELSE ix.rows[j]
    BY <2>2 DEF b
  <2>5. b \in BOOLEAN
    BY DEF b
  <2>6. /\ f[j] \in WrittenRow /\ f[j].v = ix.rows[j].v /\ f[j].hidden = ix.rows[j].hidden
        /\ f[j].superseded = IF j \in others THEN b ELSE ix.rows[j].superseded
    BY <2>1, <2>4, <2>5 DEF WrittenRow
  <2> QED
    BY <2>6 DEF b
<1>6. f = [j \in DOMAIN f |-> f[j]]
  OBVIOUS
<1> HIDE DEF f
<1>7. f \in Rows
  BY <1>3, <1>4, <1>5, <1>6, RowsFrom
<1>8. s \in Ix /\ s.rows = f /\ s.changes = ix.changes /\ s.targets = ix.targets /\ s.wiped = ix.wiped /\ s.clears = ix.clears
  BY <1>1, <1>2, <1>7 DEF Ix
<1> HIDE DEF s
<1>9. \A j \in DOMAIN s.rows :
         /\ s.rows[j].v = ix.rows[j].v /\ s.rows[j].hidden = ix.rows[j].hidden
         /\ s.rows[j].superseded = IF j \in others THEN j # latest(others) ELSE ix.rows[j].superseded
  BY <1>5, <1>8
<1> QED
  BY <1>4, <1>8, <1>9 DEF s, others

LEMMA TakeChangeIs ==
    ASSUME SceneOK(scene), NEW ix \in Ix, NEW c \in Changed
    PROVE  LET i == Target(c)
               s == takeChange(ix, c)
           IN  /\ s \in Ix /\ i \in Ids
               /\ mods[i] = "removed" => /\ s.rows = ix.rows /\ s.changes = ix.changes /\ s.targets = ix.targets
                                         /\ s.wiped = ix.wiped /\ s.clears = ix.clears \cup {c}
               /\ mods[i] # "removed" =>
                     /\ s.changes = ix.changes \cup {c} /\ s.targets = ix.targets \cup {i}
                     /\ i \notin DOMAIN ix.rows =>
                           /\ s.rows = ix.rows /\ s.clears = ix.clears
                           /\ s.wiped = ix.wiped \cup (IF Block(c).kind = "delete" THEN {c} ELSE {})
                     /\ i \in DOMAIN ix.rows /\ DeletesIn(i, {c}) = {} =>
                           /\ s.rows = Put(ix.rows, i, With(ix.rows[i], Version(i, ix.rows[i].v, {c})))
                           /\ s.clears = ix.clears /\ s.wiped = ix.wiped
                     /\ i \in DOMAIN ix.rows /\ DeletesIn(i, {c}) # {} =>
                           /\ s.rows = Drop(ix.rows, i) /\ s.wiped = ix.wiped
                           /\ s.clears = ix.clears \cup {i} \cup {d \in Of(s, i) : Block(d).kind = "edit"}
<1> DEFINE i == Target(c)
           s == takeChange(ix, c)
           kept == [ix EXCEPT !.changes = ix.changes \cup {c}, !.targets = ix.targets \cup {i}]
<1>1. c \in Ids /\ i \in Ids
  BY BlockIs DEF Changed, Written
<1>2. /\ ix.rows \in Rows /\ ix.changes \in SUBSET Changed /\ ix.targets \in SUBSET Ids
      /\ ix.clears \in SUBSET Ids /\ ix.wiped \in SUBSET Changed
  BY DEF Ix
<1>3. s = IF mods[i] = "removed" THEN [ix EXCEPT !.clears = ix.clears \cup {c}]
          ELSE IF i \in DOMAIN ix.rows THEN settle(kept, i, ix.rows[i], {c})
          ELSE [kept EXCEPT !.wiped = kept.wiped \cup (IF Block(c).kind = "delete" THEN {c} ELSE {})]
  BY DEF takeChange
<1>4. kept \in Ix /\ kept.rows = ix.rows /\ kept.changes = ix.changes \cup {c} /\ kept.targets = ix.targets \cup {i}
      /\ kept.clears = ix.clears /\ kept.wiped = ix.wiped
  BY <1>1, <1>2 DEF Ix
<1> HIDE DEF i, s, kept
<1>5. CASE mods[i] = "removed"
  <2>1. s = [ix EXCEPT !.clears = ix.clears \cup {c}]
    BY <1>3, <1>5
  <2>2. s \in Ix /\ s.rows = ix.rows /\ s.changes = ix.changes /\ s.targets = ix.targets
        /\ s.wiped = ix.wiped /\ s.clears = ix.clears \cup {c}
    BY <1>1, <1>2, <2>1 DEF Ix
  <2> QED
    BY <1>1, <1>5, <2>2 DEF i, s
<1>6. CASE mods[i] # "removed" /\ i \notin DOMAIN ix.rows
  <2>1. s = [kept EXCEPT !.wiped = kept.wiped \cup (IF Block(c).kind = "delete" THEN {c} ELSE {})]
    BY <1>3, <1>6
  <2>2. kept.wiped \cup (IF Block(c).kind = "delete" THEN {c} ELSE {}) \in SUBSET Changed
    BY <1>2, <1>4
  <2>3. s \in Ix /\ s.rows = kept.rows /\ s.changes = kept.changes /\ s.targets = kept.targets
        /\ s.wiped = kept.wiped \cup (IF Block(c).kind = "delete" THEN {c} ELSE {}) /\ s.clears = kept.clears
    BY <1>4, <2>1, <2>2 DEF Ix
  <2> QED
    BY <1>1, <1>4, <1>6, <2>3 DEF i, s
<1>7. CASE mods[i] # "removed" /\ i \in DOMAIN ix.rows
  <2>1. s = settle(kept, i, ix.rows[i], {c})
    BY <1>3, <1>7
  <2>2. i \in Written /\ ix.rows[i] \in WrittenRow /\ {c} \in SUBSET Changed
    BY <1>2, <1>7, RowsAre
  <2>3. /\ s \in Ix /\ s.changes = kept.changes /\ s.targets = kept.targets /\ s.wiped = kept.wiped
        /\ DeletesIn(i, {c}) = {} =>
              s.rows = Put(kept.rows, i, With(ix.rows[i], Version(i, ix.rows[i].v, {c}))) /\ s.clears = kept.clears
        /\ DeletesIn(i, {c}) # {} =>
              /\ s.rows = Drop(kept.rows, i)
              /\ s.clears = kept.clears \cup {i} \cup {d \in Of(kept, i) : Block(d).kind = "edit"}
    <3> DEFINE r == ix.rows[i]
               cs == {c}
    <3>1. r \in WrittenRow /\ cs \in SUBSET Changed
      BY <2>2
    <3> HIDE DEF r, cs
    <3>2. LET u == settle(kept, i, r, cs)
          IN  /\ u \in Ix /\ u.changes = kept.changes /\ u.targets = kept.targets /\ u.wiped = kept.wiped
              /\ DeletesIn(i, cs) = {} =>
                    u.rows = Put(kept.rows, i, With(r, Version(i, r.v, cs))) /\ u.clears = kept.clears
              /\ DeletesIn(i, cs) # {} =>
                    /\ u.rows = Drop(kept.rows, i)
                    /\ u.clears = kept.clears \cup {i} \cup {d \in Of(kept, i) : Block(d).kind = "edit"}
      BY <1>4, <2>2, <3>1, SettleIs
    <3> QED
      BY <2>1, <3>2 DEF r, cs
  <2>4. Of(kept, i) = Of(s, i)
    BY <2>3 DEF Of
  <2> QED
    BY <1>1, <1>4, <1>7, <2>3, <2>4 DEF i, s
<1> QED
  BY <1>5, <1>6, <1>7

PendingOf(ix, i) == IF memo.had.changes \/ i \in ix.targets THEN Of(ix, i) ELSE {}
Active(ix, i) == {j \in Rivals(ix, i) : ~ix.rows[j].superseded}

LEMMA TakePutIs ==
    ASSUME SceneOK(scene), NEW ix \in Ix, NEW i \in Written
    PROVE  LET s == takePut(ix, i)
           IN  /\ s \in Ix /\ s.changes = ix.changes /\ s.targets = ix.targets /\ s.wiped = ix.wiped
               /\ memo.had.records /\ i \in DOMAIN ix.rows => s = ix
               /\ ~(memo.had.records /\ i \in DOMAIN ix.rows) /\ mods[i] = "removed" =>
                     s.rows = ix.rows /\ s.clears = ix.clears \cup {i}
               /\ ~(memo.had.records /\ i \in DOMAIN ix.rows) /\ mods[i] # "removed" /\ DeletesIn(i, PendingOf(ix, i)) # {} =>
                     /\ s.rows = Drop(ix.rows, i)
                     /\ s.clears = ix.clears \cup {i} \cup {c \in Of(ix, i) : Block(c).kind = "edit"}
               /\ ~(memo.had.records /\ i \in DOMAIN ix.rows) /\ mods[i] # "removed" /\ DeletesIn(i, PendingOf(ix, i)) = {} =>
                     /\ s.clears = ix.clears /\ DOMAIN s.rows = DOMAIN ix.rows \cup {i}
                     /\ s.rows[i].v = Version(i, i, PendingOf(ix, i)) /\ s.rows[i].hidden = (mods[i] = "hidden")
                     /\ s.rows[i].superseded = \E k \in Active(ix, i) : ~compare(i, k)
                     /\ \A j \in DOMAIN ix.rows \ {i} :
                           /\ s.rows[j].v = ix.rows[j].v /\ s.rows[j].hidden = ix.rows[j].hidden
                           /\ s.rows[j].superseded = (ix.rows[j].superseded \/ (j \in Active(ix, i) /\ compare(i, j)))
<1> DEFINE row == [v |-> i, superseded |-> FALSE, hidden |-> mods[i] = "hidden"]
           pending == PendingOf(ix, i)
           settled == settle(ix, i, row, pending)
           active == Active(ix, i)
           s == takePut(ix, i)
           f == [j \in DOMAIN settled.rows |->
                   IF j \in active /\ compare(i, j) THEN [settled.rows[j] EXCEPT !.superseded = TRUE]
                   ELSE IF j = i /\ \E k \in active : ~compare(i, k) THEN [settled.rows[j] EXCEPT !.superseded = TRUE]
                   ELSE settled.rows[j]]
<1>1. s = IF memo.had.records /\ i \in DOMAIN ix.rows THEN ix
          ELSE IF mods[i] = "removed" THEN [ix EXCEPT !.clears = ix.clears \cup {i}]
          ELSE IF i \notin DOMAIN settled.rows THEN settled
          ELSE [settled EXCEPT !.rows = f]
  BY DEF takePut, PendingOf, Active
<1>2. /\ ix.rows \in Rows /\ ix.changes \in SUBSET Changed /\ ix.targets \in SUBSET Ids
      /\ ix.clears \in SUBSET Ids /\ ix.wiped \in SUBSET Changed
  BY DEF Ix
<1>3. row \in WrittenRow /\ row.v = i /\ pending \in SUBSET Changed /\ i \in Ids
  BY <1>2 DEF WrittenRow, PendingOf, Of, Written
<1>4. /\ settled \in Ix /\ settled.changes = ix.changes /\ settled.targets = ix.targets /\ settled.wiped = ix.wiped
      /\ DeletesIn(i, pending) = {} =>
            settled.rows = Put(ix.rows, i, With(row, Version(i, i, pending))) /\ settled.clears = ix.clears
      /\ DeletesIn(i, pending) # {} =>
            /\ settled.rows = Drop(ix.rows, i)
            /\ settled.clears = ix.clears \cup {i} \cup {c \in Of(ix, i) : Block(c).kind = "edit"}
  <2> HIDE DEF row, pending
  <2> QED
    BY <1>3, SettleIs
<1>5. row.hidden = (mods[i] = "hidden") /\ row.superseded = FALSE
  OBVIOUS
<1>6. active \in SUBSET (DOMAIN ix.rows \ {i})
  BY DEF Active, Rivals
<1>7. CASE memo.had.records /\ i \in DOMAIN ix.rows
  <2>1. s = ix
    BY <1>1, <1>7
  <2> QED
    BY <1>7, <2>1
<1>8. CASE ~(memo.had.records /\ i \in DOMAIN ix.rows) /\ mods[i] = "removed"
  <2>1. s = [ix EXCEPT !.clears = ix.clears \cup {i}]
    BY <1>1, <1>8
  <2>2. s \in Ix /\ s.rows = ix.rows /\ s.changes = ix.changes /\ s.targets = ix.targets /\ s.wiped = ix.wiped
        /\ s.clears = ix.clears \cup {i}
    BY <1>2, <1>3, <2>1 DEF Ix
  <2> HIDE DEF s
  <2> QED
    BY <1>8, <2>2 DEF s
<1> HIDE DEF s, settled, pending, active, row, f
<1>9. CASE ~(memo.had.records /\ i \in DOMAIN ix.rows) /\ mods[i] # "removed" /\ DeletesIn(i, pending) # {}
  <2>1. i \notin DOMAIN settled.rows
    <3>1. settled.rows = Drop(ix.rows, i)
      BY <1>4, <1>9
    <3>2. DOMAIN Drop(ix.rows, i) = DOMAIN ix.rows \ {i}
      BY <1>2, DropIs
    <3> QED
      BY <3>1, <3>2
  <2>2. s = settled
    BY <1>1, <1>9, <2>1
  <2> QED
    BY <1>4, <1>9, <2>2 DEF s, pending
<1>10. CASE ~(memo.had.records /\ i \in DOMAIN ix.rows) /\ mods[i] # "removed" /\ DeletesIn(i, pending) = {}
  <2> DEFINE new == With(row, Version(i, i, pending))
  <2>1. /\ new \in WrittenRow /\ new.v = Version(i, i, pending) /\ new.hidden = (mods[i] = "hidden") /\ new.superseded = FALSE
    <3>1. Version(i, i, pending) \in Written
      BY <1>3, VersionIs
    <3> QED
      BY <1>3, <1>5, <3>1 DEF With, WrittenRow
  <2> HIDE DEF new
  <2>2. /\ settled.rows \in Rows /\ DOMAIN settled.rows = DOMAIN ix.rows \cup {i} /\ settled.rows[i] = new
        /\ \A j \in DOMAIN ix.rows \ {i} : settled.rows[j] = ix.rows[j]
    <3>1. settled.rows = Put(ix.rows, i, new)
      BY <1>4, <1>10 DEF new
    <3>2. /\ Put(ix.rows, i, new) \in Rows /\ DOMAIN Put(ix.rows, i, new) = DOMAIN ix.rows \cup {i}
          /\ Put(ix.rows, i, new)[i] = new
          /\ \A j \in DOMAIN ix.rows \ {i} : Put(ix.rows, i, new)[j] = ix.rows[j]
      <4> DEFINE g == ix.rows
      <4>1. g \in Rows
        BY <1>2
      <4> HIDE DEF g
      <4>2. /\ Put(g, i, new) \in Rows /\ DOMAIN Put(g, i, new) = DOMAIN g \cup {i} /\ Put(g, i, new)[i] = new
            /\ \A j \in DOMAIN g \ {i} : Put(g, i, new)[j] = g[j]
        BY <2>1, <4>1, PutIs
      <4> QED
        BY <4>2 DEF g
    <3> QED
      BY <3>1, <3>2
  <2>3. s = [settled EXCEPT !.rows = f]
    BY <1>1, <1>10, <2>2
  <2>4. DOMAIN f = DOMAIN ix.rows \cup {i}
    BY <2>2 DEF f
  <2>5. ASSUME NEW j \in DOMAIN f
        PROVE  /\ f[j] \in WrittenRow /\ f[j].v = settled.rows[j].v /\ f[j].hidden = settled.rows[j].hidden
               /\ f[j].superseded = (settled.rows[j].superseded \/ (j \in active /\ compare(i, j))
                                     \/ (j = i /\ \E k \in active : ~compare(i, k)))
    <3>1. settled.rows[j] \in WrittenRow
      BY <2>2, <2>4, RowsAre
    <3>2. f[j] = IF (j \in active /\ compare(i, j)) \/ (j = i /\ \E k \in active : ~compare(i, k))
                 THEN [settled.rows[j] EXCEPT !.superseded = TRUE] ELSE settled.rows[j]
      BY <2>2, <2>4 DEF f
    <3> DEFINE b == (j \in active /\ compare(i, j)) \/ (j = i /\ \E k \in active : ~compare(i, k))
    <3>3. f[j] = IF b THEN [settled.rows[j] EXCEPT !.superseded = TRUE] ELSE settled.rows[j]
      BY <3>2
    <3>4. b \in BOOLEAN
      OBVIOUS
    <3> HIDE DEF b
    <3>5. /\ f[j] \in WrittenRow /\ f[j].v = settled.rows[j].v /\ f[j].hidden = settled.rows[j].hidden
          /\ f[j].superseded = (settled.rows[j].superseded \/ b)
      BY <3>1, <3>3, <3>4 DEF WrittenRow
    <3> QED
      BY <3>5 DEF b
  <2>6. f \in Rows
    <3>1. f = [j \in DOMAIN f |-> f[j]] /\ DOMAIN f \in SUBSET Written
      <4>1. f = [j \in DOMAIN f |-> f[j]]
        BY DEF f
      <4> QED
        BY <1>2, <2>4, <4>1, RowsAre
    <3> QED
      BY <2>5, <3>1, RowsFrom
  <2>7. s \in Ix /\ s.rows = f /\ s.changes = ix.changes /\ s.targets = ix.targets /\ s.wiped = ix.wiped /\ s.clears = ix.clears
    <3>1. settled.clears = ix.clears /\ settled \in Ix
      BY <1>4, <1>10
    <3>2. s \in Ix /\ s.rows = f /\ s.changes = settled.changes /\ s.targets = settled.targets /\ s.wiped = settled.wiped
          /\ s.clears = settled.clears
      BY <2>3, <2>6, <3>1 DEF Ix
    <3> QED
      BY <1>4, <3>1, <3>2
  <2>8. f[i].v = Version(i, i, pending) /\ f[i].hidden = (mods[i] = "hidden")
        /\ f[i].superseded = \E k \in active : ~compare(i, k)
    BY <1>6, <2>1, <2>2, <2>4, <2>5
  <2>9. ASSUME NEW j \in DOMAIN ix.rows \ {i}
        PROVE  /\ f[j].v = ix.rows[j].v /\ f[j].hidden = ix.rows[j].hidden
               /\ f[j].superseded = (ix.rows[j].superseded \/ (j \in active /\ compare(i, j)))
    <3>1. j \in DOMAIN f /\ j # i /\ settled.rows[j] = ix.rows[j]
      BY <2>2, <2>4
    <3>2. /\ f[j].v = settled.rows[j].v /\ f[j].hidden = settled.rows[j].hidden
          /\ f[j].superseded = (settled.rows[j].superseded \/ (j \in active /\ compare(i, j))
                                \/ (j = i /\ \E k \in active : ~compare(i, k)))
      BY <2>5, <3>1
    <3> DEFINE b == \E k \in active : ~compare(i, k)
               a == j \in active /\ compare(i, j)
    <3> HIDE DEF a, b
    <3>3. f[j].superseded = (settled.rows[j].superseded \/ a \/ (j = i /\ b))
      BY <3>2 DEF a, b
    <3>4. f[j].superseded = (settled.rows[j].superseded \/ a)
      <4> DEFINE y == f[j].superseded
                 z == settled.rows[j].superseded
                 e == j = i
      <4>1. ~e
        BY <3>1
      <4>2. y = (z \/ a \/ (e /\ b))
        BY <3>3
      <4> HIDE DEF e, y, z
      <4>3. y = (z \/ a)
        BY <4>1, <4>2, Zenon
      <4> QED
        BY <4>3 DEF y, z
    <3>5. f[j].superseded = (ix.rows[j].superseded \/ a)
      BY <3>1, <3>4
    <3>6. f[j].v = settled.rows[j].v /\ f[j].hidden = settled.rows[j].hidden
      BY <3>2
    <3>7. f[j].v = ix.rows[j].v /\ f[j].hidden = ix.rows[j].hidden
      BY <3>1, <3>6
    <3>8. f[j].superseded = (ix.rows[j].superseded \/ (j \in active /\ compare(i, j)))
      BY <3>5 DEF a
    <3> QED
      BY <3>7, <3>8, Zenon
  <2>10. /\ s \in Ix /\ s.changes = ix.changes /\ s.targets = ix.targets /\ s.wiped = ix.wiped
         /\ s.clears = ix.clears /\ DOMAIN s.rows = DOMAIN ix.rows \cup {i}
         /\ s.rows[i].v = Version(i, i, pending) /\ s.rows[i].hidden = (mods[i] = "hidden")
         /\ s.rows[i].superseded = \E k \in active : ~compare(i, k)
         /\ \A j \in DOMAIN ix.rows \ {i} :
               /\ s.rows[j].v = ix.rows[j].v /\ s.rows[j].hidden = ix.rows[j].hidden
               /\ s.rows[j].superseded = (ix.rows[j].superseded \/ (j \in active /\ compare(i, j)))
    <3> HIDE DEF f
    <3> QED
      BY <2>4, <2>7, <2>8, <2>9
  <2> QED
    BY <1>10, <2>10 DEF s, pending, active
<1>11. /\ s \in Ix /\ s.changes = ix.changes /\ s.targets = ix.targets /\ s.wiped = ix.wiped
  BY <1>1, <1>7, <1>8, <1>9, <1>10 DEF s, pending
<1> QED
  BY <1>7, <1>8, <1>9, <1>10, <1>11 DEF s, pending

\* A record's version judged again.
Rejudged(ix, i) == Version(i, i, Of(ix, i))

LEMMA ResettleIs ==
    ASSUME SceneOK(scene), NEW ix \in Ix, NEW i \in DOMAIN ix.rows
    PROVE  LET s == resettle(ix, i)
           IN  /\ s \in Ix /\ s.changes = ix.changes /\ s.targets = ix.targets /\ s.wiped = ix.wiped
               /\ DeletesIn(i, Of(ix, i)) # {} => DOMAIN s.rows = DOMAIN ix.rows \ {i} /\ s.rows = Drop(ix.rows, i)
               /\ DeletesIn(i, Of(ix, i)) = {} =>
                     /\ s.clears = ix.clears /\ DOMAIN s.rows = DOMAIN ix.rows /\ s.rows[i].v = Rejudged(ix, i)
                     /\ s.rows[i].hidden = ix.rows[i].hidden /\ s.rows[i].superseded = ix.rows[i].superseded
                     /\ \A j \in DOMAIN ix.rows \ {i} : s.rows[j] = ix.rows[j]
<1> DEFINE g == ix.rows
           r == With(ix.rows[i], i)
           cs == Of(ix, i)
           s == settle(ix, i, r, cs)
           new == With(r, Version(i, i, cs))
<1>1. /\ g \in Rows /\ ix.changes \in SUBSET Changed /\ i \in Written /\ g[i] \in WrittenRow
  <2>1. ix.rows \in Rows /\ ix.changes \in SUBSET Changed
    BY DEF Ix
  <2> QED
    BY <2>1, RowsAre
<1>2. cs \in SUBSET Changed
  BY <1>1 DEF Of
<1>3. r \in WrittenRow /\ r.v = i /\ r.hidden = g[i].hidden /\ r.superseded = g[i].superseded
  BY <1>1 DEF With, WrittenRow
<1> HIDE DEF cs
<1>4. Version(i, i, cs) \in Written
  BY <1>1, <1>2, VersionIs
<1>5. new \in WrittenRow /\ new.v = Version(i, i, cs) /\ new.hidden = g[i].hidden /\ new.superseded = g[i].superseded
  <2> HIDE DEF r
  <2> QED
    BY <1>3, <1>4 DEF With, WrittenRow
<1> HIDE DEF r
<1>6. /\ s \in Ix /\ s.changes = ix.changes /\ s.targets = ix.targets /\ s.wiped = ix.wiped
      /\ DeletesIn(i, cs) = {} => s.rows = Put(g, i, With(r, Version(i, r.v, cs))) /\ s.clears = ix.clears
      /\ DeletesIn(i, cs) # {} => s.rows = Drop(g, i)
  BY <1>1, <1>2, <1>3, SettleIs
<1>7. With(r, Version(i, r.v, cs)) = new
  BY <1>3
<1> HIDE DEF s, new, g
<1>8. /\ DOMAIN Put(g, i, new) = DOMAIN g \cup {i} /\ Put(g, i, new)[i] = new
      /\ \A j \in DOMAIN g \ {i} : Put(g, i, new)[j] = g[j]
  BY <1>1, <1>5, PutIs
<1>9. DOMAIN Drop(g, i) = DOMAIN g \ {i}
  BY <1>1, DropIs
<1>10. DOMAIN g \cup {i} = DOMAIN g
  BY DEF g
<1>11. resettle(ix, i) = s
  BY DEF resettle, s, r, cs, With
<1>12. /\ s \in Ix /\ s.changes = ix.changes /\ s.targets = ix.targets /\ s.wiped = ix.wiped
       /\ DeletesIn(i, cs) # {} => DOMAIN s.rows = DOMAIN g \ {i} /\ s.rows = Drop(g, i)
       /\ DeletesIn(i, cs) = {} =>
             /\ s.clears = ix.clears /\ DOMAIN s.rows = DOMAIN g /\ s.rows[i].v = Version(i, i, cs)
             /\ s.rows[i].hidden = g[i].hidden /\ s.rows[i].superseded = g[i].superseded
             /\ \A j \in DOMAIN g \ {i} : s.rows[j] = g[j]
  BY <1>5, <1>6, <1>7, <1>8, <1>9, <1>10
<1> QED
  BY <1>11, <1>12 DEF g, cs, Rejudged

LEMMA UncountIs ==
    ASSUME SceneOK(scene), NEW ix \in Ix, NEW i
    PROVE  LET s == uncount(ix, i)
               left == [ix EXCEPT !.changes = ix.changes \ {i}]
           IN  /\ s \in Ix /\ left \in Ix /\ s.targets = ix.targets /\ s.wiped = ix.wiped
               /\ left.rows = ix.rows /\ left.changes = ix.changes \ {i} /\ left.targets = ix.targets
               /\ left.clears = ix.clears /\ left.wiped = ix.wiped
               /\ i \in DOMAIN ix.rows => s = regroup(ix, i)
               /\ i \notin DOMAIN ix.rows => s.changes = ix.changes \ {i}
               /\ i \notin DOMAIN ix.rows /\ ~(i \in ix.changes /\ Target(i) \in DOMAIN ix.rows) =>
                     s.rows = ix.rows /\ s.clears = ix.clears
               /\ i \notin DOMAIN ix.rows /\ i \in ix.changes /\ Target(i) \in DOMAIN ix.rows => s = resettle(left, Target(i))
<1> DEFINE s == uncount(ix, i)
           left == [ix EXCEPT !.changes = ix.changes \ {i}]
<1>1. /\ ix.rows \in Rows /\ ix.changes \in SUBSET Changed /\ ix.targets \in SUBSET Ids
      /\ ix.clears \in SUBSET Ids /\ ix.wiped \in SUBSET Changed
  BY DEF Ix
<1>2. /\ left \in Ix /\ left.rows = ix.rows /\ left.changes = ix.changes \ {i} /\ left.targets = ix.targets
      /\ left.clears = ix.clears /\ left.wiped = ix.wiped
  BY <1>1 DEF Ix
<1>3. s = IF i \in DOMAIN ix.rows THEN regroup(ix, i)
          ELSE IF i \in ix.changes /\ Target(i) \in DOMAIN ix.rows THEN resettle(left, Target(i)) ELSE left
  BY DEF uncount
<1> HIDE DEF s, left
<1>4. CASE i \in DOMAIN ix.rows
  <2>1. s = regroup(ix, i)
    BY <1>3, <1>4
  <2>2. s \in Ix /\ s.targets = ix.targets /\ s.wiped = ix.wiped
    BY <2>1, RegroupIs
  <2> QED
    BY <1>2, <1>4, <2>1, <2>2 DEF s, left
<1>5. CASE i \notin DOMAIN ix.rows /\ i \in ix.changes /\ Target(i) \in DOMAIN ix.rows
  <2>1. s = resettle(left, Target(i))
    BY <1>3, <1>5
  <2>2. Target(i) \in DOMAIN left.rows
    BY <1>2, <1>5
  <2>3. s \in Ix /\ s.changes = left.changes /\ s.targets = left.targets /\ s.wiped = left.wiped
    BY <1>2, <2>1, <2>2, ResettleIs
  <2> QED
    BY <1>2, <1>5, <2>1, <2>3 DEF s, left
<1>6. CASE i \notin DOMAIN ix.rows /\ ~(i \in ix.changes /\ Target(i) \in DOMAIN ix.rows)
  <2>1. s = left
    BY <1>3, <1>6
  <2> QED
    BY <1>2, <1>6, <2>1 DEF s, left
<1> QED
  BY <1>4, <1>5, <1>6

LEMMA ModerateOneIs ==
    ASSUME SceneOK(scene), NEW ix \in Ix, NEW i \in Ids, NEW m
    PROVE  LET s == moderateOne(ix, i, m)
           IN  /\ s \in Ix /\ s.changes = ix.changes /\ s.targets = ix.targets /\ s.wiped = ix.wiped
               /\ m = "removed" /\ i \in DOMAIN ix.rows =>
                     s.rows = regroup(ix, i).rows /\ s.clears = ix.clears \cup {i} \cup Of(ix, i)
               /\ m = "removed" /\ i \notin DOMAIN ix.rows => s.rows = ix.rows /\ s.clears = ix.clears \cup {i}
               /\ m # "removed" /\ i \notin DOMAIN ix.rows => s = ix
               /\ m # "removed" /\ i \in DOMAIN ix.rows =>
                     /\ s.clears = ix.clears /\ DOMAIN s.rows = DOMAIN ix.rows
                     /\ \A j \in DOMAIN ix.rows \ {i} : s.rows[j] = ix.rows[j]
                     /\ s.rows[i].v = ix.rows[i].v /\ s.rows[i].superseded = ix.rows[i].superseded
                     /\ s.rows[i].hidden = (m = "hidden")
<1> DEFINE s == moderateOne(ix, i, m)
           u == regroup(ix, i)
           b == m = "hidden"
<1>1. /\ ix.rows \in Rows /\ ix.changes \in SUBSET Changed /\ ix.targets \in SUBSET Ids
      /\ ix.clears \in SUBSET Ids /\ ix.wiped \in SUBSET Changed
  BY DEF Ix
<1>2. Of(ix, i) \in SUBSET Ids
  BY <1>1 DEF Of, Changed, Written
<1>3. s = IF m = "removed"
          THEN IF i \in DOMAIN ix.rows THEN [u EXCEPT !.clears = u.clears \cup {i} \cup Of(ix, i)]
               ELSE [ix EXCEPT !.clears = ix.clears \cup {i}]
          ELSE IF i \in DOMAIN ix.rows THEN [ix EXCEPT !.rows[i].hidden = b] ELSE ix
  BY DEF moderateOne, takeDown
<1>4. /\ u \in Ix /\ u.changes = ix.changes /\ u.targets = ix.targets /\ u.wiped = ix.wiped /\ u.clears = ix.clears
  BY RegroupIs
<1>5. b \in BOOLEAN
  OBVIOUS
<1> HIDE DEF s, u, b
<1>6. CASE m = "removed" /\ i \in DOMAIN ix.rows
  <2>1. s = [u EXCEPT !.clears = ix.clears \cup {i} \cup Of(ix, i)]
    BY <1>3, <1>4, <1>6
  <2>2. ix.clears \cup {i} \cup Of(ix, i) \in SUBSET Ids
    BY <1>1, <1>2
  <2>3. s \in Ix /\ s.rows = u.rows /\ s.changes = u.changes /\ s.targets = u.targets /\ s.wiped = u.wiped
        /\ s.clears = ix.clears \cup {i} \cup Of(ix, i)
    BY <1>4, <2>1, <2>2 DEF Ix
  <2> QED
    BY <1>4, <1>6, <2>3 DEF s, u
<1>7. CASE m = "removed" /\ i \notin DOMAIN ix.rows
  <2>1. s = [ix EXCEPT !.clears = ix.clears \cup {i}]
    BY <1>3, <1>7
  <2>2. s \in Ix /\ s.rows = ix.rows /\ s.changes = ix.changes /\ s.targets = ix.targets /\ s.wiped = ix.wiped
        /\ s.clears = ix.clears \cup {i}
    BY <1>1, <2>1 DEF Ix
  <2> QED
    BY <1>7, <2>2 DEF s
<1>8. CASE m # "removed" /\ i \in DOMAIN ix.rows
  <2> DEFINE g == ix.rows
             new == [g[i] EXCEPT !.hidden = b]
             f == [g EXCEPT ![i] = new]
  <2>1. s = [ix EXCEPT !.rows = f]
    BY <1>3, <1>8
  <2>2. i \in DOMAIN g /\ g \in Rows /\ DOMAIN g \in SUBSET Written /\ (\A j \in DOMAIN g : g[j] \in WrittenRow)
    BY <1>1, <1>8, RowsAre
  <2>3. new \in WrittenRow /\ new.v = g[i].v /\ new.superseded = g[i].superseded /\ new.hidden = b
    <3>1. g[i] \in WrittenRow
      BY <2>2
    <3> HIDE DEF g
    <3> QED
      BY <1>5, <3>1 DEF WrittenRow
  <2> HIDE DEF new, g
  <2>4. DOMAIN f = DOMAIN g /\ f[i] = new /\ \A j \in DOMAIN g \ {i} : f[j] = g[j]
    BY <2>2
  <2>5. f = [j \in DOMAIN f |-> f[j]]
    OBVIOUS
  <2> HIDE DEF f
  <2>6. \A j \in DOMAIN f : f[j] \in WrittenRow
    BY <2>2, <2>3, <2>4
  <2>7. f \in Rows
    BY <2>2, <2>4, <2>5, <2>6, RowsFrom
  <2>8. s \in Ix /\ s.rows = f /\ s.changes = ix.changes /\ s.targets = ix.targets /\ s.wiped = ix.wiped
        /\ s.clears = ix.clears
    BY <1>1, <2>1, <2>7 DEF Ix
  <2>9. /\ DOMAIN s.rows = DOMAIN ix.rows /\ \A j \in DOMAIN ix.rows \ {i} : s.rows[j] = ix.rows[j]
        /\ s.rows[i].v = ix.rows[i].v /\ s.rows[i].superseded = ix.rows[i].superseded
        /\ s.rows[i].hidden = b
    BY <2>3, <2>4, <2>8 DEF g
  <2> QED
    BY <1>8, <2>8, <2>9 DEF s, b
<1>9. CASE m # "removed" /\ i \notin DOMAIN ix.rows
  <2>1. s = ix
    BY <1>3, <1>9
  <2> QED
    BY <1>9, <2>1 DEF s
<1> QED
  BY <1>6, <1>7, <1>8, <1>9

-----------------------------------------------------------------------------
(* A task's steps, one after the other.                                    *)

Before == [rows |-> rows, changes |-> changes, targets |-> memo.targets, clears |-> {}, wiped |-> {}]

\* What holds before a task, and after each of its steps if it did before the
\* step, holds of what the task makes of the index.
LEMMA EffectBy ==
    ASSUME NEW t, NEW B, t.blocks \in Seq(B), NEW S, <<0, Before>> \in S,
           \A n \in 1 .. Len(t.blocks) : \A ix : <<n - 1, ix>> \in S => <<n, step(t, ix, t.blocks[n])>> \in S
    PROVE  <<Len(t.blocks), Effect(t)>> \in S
<1> DEFINE m == Len(t.blocks)
           next(f, n) == IF n = 0 THEN Before ELSE step(t, f[n - 1], t.blocks[n])
           T == {k \in Nat : k <= m => \E g : g = [n \in 0 .. k |-> next(g, n)]}
           f == CHOOSE g : g = [n \in 0 .. m |-> next(g, n)]
<1>1. m \in Nat
  OBVIOUS
<1>2. Effect(t) = f[m]
  BY DEF Effect, Before
<1> HIDE DEF m
<1>3. 0 \in T
  <2> SUFFICES \E h : h = [n \in 0 .. 0 |-> next(h, n)]
    OBVIOUS
  <2> DEFINE g == [n \in 0 .. 0 |-> Before]
  <2>1. \A n \in 0 .. 0 : next(g, n) = Before
    OBVIOUS
  <2>2. g = [n \in 0 .. 0 |-> next(g, n)]
    BY <2>1
  <2> HIDE DEF g
  <2> WITNESS g
  <2> QED
    BY <2>2
<1>4. ASSUME NEW k \in Nat, k \in T PROVE k + 1 \in T
  <2> SUFFICES ASSUME k + 1 <= m PROVE \E g : g = [n \in 0 .. k + 1 |-> next(g, n)]
    <3> HIDE DEF next
    <3> QED
      OBVIOUS
  <2>1. PICK g : g = [n \in 0 .. k |-> next(g, n)]
    BY <1>1, <1>4
  <2> DEFINE h == [n \in 0 .. k + 1 |-> IF n <= k THEN g[n] ELSE step(t, g[k], t.blocks[k + 1])]
  <2>2. ASSUME NEW n \in 0 .. k + 1 PROVE h[n] = next(h, n)
    <3>1. CASE n = 0
      <4>1. h[n] = g[0] /\ 0 \in 0 .. k
        BY <3>1
      <4>2. g[0] = next(g, 0)
        BY <2>1, <4>1
      <4> QED
        BY <3>1, <4>1, <4>2
    <3>2. CASE n # 0 /\ n <= k
      <4>1. n \in 0 .. k /\ n - 1 \in 0 .. k /\ n - 1 \in 0 .. k + 1 /\ n - 1 <= k
        BY <3>2
      <4>2. h[n] = g[n] /\ h[n - 1] = g[n - 1]
        BY <4>1, <3>2
      <4>3. g[n] = next(g, n)
        BY <2>1, <4>1
      <4> HIDE DEF h
      <4> QED
        BY <3>2, <4>2, <4>3
    <3>3. CASE n = k + 1
      <4>1. k \in 0 .. k + 1 /\ k <= k /\ ~(k + 1 <= k) /\ k + 1 # 0 /\ (k + 1) - 1 = k
        OBVIOUS
      <4>2. h[k] = g[k] /\ h[k + 1] = step(t, g[k], t.blocks[k + 1])
        BY <4>1
      <4> HIDE DEF h
      <4> QED
        BY <3>3, <4>1, <4>2
    <3> QED
      BY <3>1, <3>2, <3>3
  <2>3. h = [n \in 0 .. k + 1 |-> h[n]]
    OBVIOUS
  <2> HIDE DEF h, next
  <2>4. h = [n \in 0 .. k + 1 |-> next(h, n)]
    BY <2>2, <2>3
  <2> QED
    BY <2>4
<1>5. m \in T
  <2> HIDE DEF T
  <2> QED
    BY <1>1, <1>3, <1>4, Induct
<1>6. f = [n \in 0 .. m |-> next(f, n)]
  <2>1. \E g : g = [n \in 0 .. m |-> next(g, n)]
    BY <1>1, <1>5
  <2> HIDE DEF next
  <2> QED
    BY <2>1
<1> HIDE DEF f
<1>7. f[0] = Before /\ \A n \in 1 .. m : f[n] = step(t, f[n - 1], t.blocks[n])
  BY <1>1, <1>6
<1> DEFINE U == {k \in Nat : k <= m => <<k, f[k]>> \in S}
<1>8. 0 \in U
  BY <1>7
<1>9. ASSUME NEW k \in Nat, k \in U PROVE k + 1 \in U
  <2> SUFFICES ASSUME k + 1 <= m PROVE <<k + 1, f[k + 1]>> \in S
    OBVIOUS
  <2>1. <<k, f[k]>> \in S /\ k + 1 \in 1 .. m /\ (k + 1) - 1 = k
    BY <1>1, <1>9
  <2>2. f[k + 1] = step(t, f[k], t.blocks[k + 1])
    BY <1>7, <2>1
  <2>3. \A ix : <<k, ix>> \in S => <<k + 1, step(t, ix, t.blocks[k + 1])>> \in S
    BY <2>1 DEF m
  <2> QED
    BY <2>1, <2>2, <2>3
<1>10. m \in U
  <2> HIDE DEF U
  <2> QED
    BY <1>1, <1>8, <1>9, Induct
<1> QED
  BY <1>1, <1>2, <1>10 DEF m

LEMMA StepIs ==
    ASSUME SceneOK(scene), NEW t \in Task, NEW ix \in Ix, NEW n \in DOMAIN t.blocks
    PROVE  step(t, ix, t.blocks[n]) \in Ix
<1> DEFINE i == t.blocks[n]
<1>1. CASE t \in BatchTask
  <2>1. t.op = "batch" /\ i \in Written
    BY <1>1 DEF BatchTask
  <2>2. Block(i).kind # "put" => i \in Changed
    BY <2>1 DEF Changed
  <2>3. step(t, ix, i) = one(ix, i)
    BY <2>1 DEF step
  <2>4. \/ one(ix, i) \in {ix, takePut(ix, i)}
        \/ Block(i).kind # "put" /\ one(ix, i) = takeChange(ix, i)
    BY DEF one
  <2> HIDE DEF i
  <2>5. takePut(ix, i) \in Ix
    BY <2>1, TakePutIs
  <2>6. i \in Changed => takeChange(ix, i) \in Ix
    BY TakeChangeIs
  <2> QED
    BY <2>2, <2>3, <2>4, <2>5, <2>6 DEF i
<1>2. CASE t \in CutTask
  <2>1. step(t, ix, i) = uncount(ix, i)
    BY <1>2 DEF step, CutTask
  <2> QED
    BY <2>1, UncountIs
<1>3. CASE t \in ModerateTask
  <2>1. step(t, ix, i) = moderateOne(ix, i, t.mods[i]) /\ i \in Ids
    BY <1>3 DEF step, ModerateTask
  <2> QED
    BY <2>1, ModerateOneIs
<1>4. CASE t \in RightsTask
  <2>1. step(t, ix, i) = IF i \in DOMAIN ix.rows /\ Shared(i) THEN resettle(ix, i) ELSE ix
    BY <1>4 DEF step, RightsTask
  <2> HIDE DEF i
  <2> QED
    BY <2>1, ResettleIs DEF i
<1> QED
  BY <1>1, <1>2, <1>3, <1>4 DEF Task

LEMMA EffectIs ==
    ASSUME Shape, NEW t \in Task
    PROVE  Before \in Ix /\ Effect(t) \in Ix
<1>1. Before \in Ix
  BY DEF Shape, DiskShape, TaskShape, Ix, Before, Memo
<1>2. t.blocks \in Seq(Written \cup Ids)
  <2>1. t.blocks \in Seq(Written) \/ t.blocks \in Seq(Ids)
    BY DEF Task, BatchTask, CutTask, ModerateTask, RightsTask
  <2> QED
    BY <2>1
<1>3. DOMAIN t.blocks = 1 .. Len(t.blocks) /\ Len(t.blocks) \in Nat
  BY <1>2
<1> DEFINE S == (0 .. Len(t.blocks)) \X Ix
<1>4. <<0, Before>> \in S
  BY <1>1, <1>3
<1>5. \A n \in 1 .. Len(t.blocks) : \A ix : <<n - 1, ix>> \in S => <<n, step(t, ix, t.blocks[n])>> \in S
  BY <1>3, StepIs DEF Shape
<1>6. <<Len(t.blocks), Effect(t)>> \in S
  <2> HIDE DEF S
  <2> QED
    BY <1>2, <1>4, <1>5, EffectBy
<1> QED
  BY <1>1, <1>6

-----------------------------------------------------------------------------
(* What a step leaves alone.                                               *)

LEMMA AppendIs ==
    ASSUME NEW Q, NEW q \in Seq(Q), NEW x \in Q
    PROVE  /\ Append(q, x) \in Seq(Q) /\ ToSet(Append(q, x)) = ToSet(q) \cup {x}
           /\ DOMAIN q = 1 .. Len(q) /\ Len(q) \in Nat /\ DOMAIN Append(q, x) = 1 .. Len(q) + 1
           /\ Append(q, x)[Len(q) + 1] = x /\ \A p \in 1 .. Len(q) : Append(q, x)[p] = q[p]
<1>1. /\ Append(q, x) \in Seq(Q) /\ DOMAIN q = 1 .. Len(q) /\ Len(q) \in Nat
      /\ DOMAIN Append(q, x) = 1 .. Len(q) + 1
      /\ Append(q, x)[Len(q) + 1] = x /\ \A p \in 1 .. Len(q) : Append(q, x)[p] = q[p]
  OBVIOUS
<1> DEFINE r == Append(q, x)
           m == Len(q)
<1>2. r[m + 1] = x /\ (\A p \in 1 .. m : r[p] = q[p]) /\ DOMAIN r = 1 .. m + 1 /\ DOMAIN q = 1 .. m /\ m \in Nat
  BY <1>1
<1> HIDE DEF r, m
<1>3. ASSUME NEW y \in ToSet(r) PROVE y \in ToSet(q) \cup {x}
  <2>1. PICK p \in 1 .. m + 1 : y = r[p]
    BY <1>2, <1>3 DEF ToSet
  <2>2. p = m + 1 \/ p \in 1 .. m
    BY <1>2
  <2> QED
    BY <1>2, <2>1, <2>2 DEF ToSet
<1>4. ASSUME NEW y \in ToSet(q) PROVE y \in ToSet(r)
  <2>1. PICK p \in 1 .. m : y = q[p]
    BY <1>2, <1>4 DEF ToSet
  <2>2. p \in 1 .. m + 1 /\ r[p] = y
    BY <1>2, <2>1
  <2> QED
    BY <1>2, <2>2 DEF ToSet
<1>5. x \in ToSet(r)
  <2>1. m + 1 \in 1 .. m + 1
    BY <1>2
  <2> QED
    BY <1>2, <2>1 DEF ToSet
<1>6. ToSet(r) = ToSet(q) \cup {x}
  BY <1>3, <1>4, <1>5
<1> QED
  BY <1>1, <1>6 DEF r, m

LEMMA TailIs ==
    ASSUME NEW Q, NEW q \in Seq(Q), NEW x \in ToSet(q)
    PROVE  /\ Tail(q) \in Seq(Q) /\ x \in Q /\ ToSet(Tail(q)) \in SUBSET ToSet(q) /\ Head(q) = q[1] /\ 1 \in DOMAIN q
           /\ \A p \in DOMAIN Tail(q) : p + 1 \in DOMAIN q /\ p \in Nat /\ p # 0 /\ Tail(q)[p] = q[p + 1]
           /\ ToSet(q) = ToSet(Tail(q)) \cup {q[1]}
<1>1. PICK k \in DOMAIN q : x = q[k]
  BY DEF ToSet
<1>2. q # << >> /\ x \in Q /\ Len(q) \in Nat /\ Len(q) >= 1 /\ DOMAIN q = 1 .. Len(q)
  BY <1>1
<1> DEFINE r == Tail(q)
           m == Len(q)
<1>3. r \in Seq(Q) /\ DOMAIN r = 1 .. m - 1 /\ (\A p \in 1 .. m - 1 : r[p] = q[p + 1]) /\ Head(q) = q[1]
  BY <1>2
<1> HIDE DEF r, m
<1>4. m \in Nat /\ m >= 1 /\ DOMAIN q = 1 .. m
  BY <1>2 DEF m
<1>5. \A p \in DOMAIN r : p + 1 \in DOMAIN q /\ p \in Nat /\ p # 0 /\ r[p] = q[p + 1]
  BY <1>3, <1>4
<1>6. ASSUME NEW y \in ToSet(q) PROVE y \in ToSet(r) \cup {q[1]}
  <2>1. PICK p \in 1 .. m : y = q[p]
    BY <1>4, <1>6 DEF ToSet
  <2>2. p # 1 => p - 1 \in DOMAIN r /\ (p - 1) + 1 = p
    BY <1>3, <1>4
  <2>3. p # 1 => r[p - 1] = y
    BY <1>5, <2>1, <2>2
  <2> QED
    BY <2>1, <2>2, <2>3 DEF ToSet
<1>7. ASSUME NEW y \in ToSet(r) PROVE y \in ToSet(q)
  BY <1>5, <1>7 DEF ToSet
<1>8. 1 \in DOMAIN q /\ q[1] \in ToSet(q)
  BY <1>4 DEF ToSet
<1>9. ToSet(q) = ToSet(r) \cup {q[1]} /\ ToSet(r) \in SUBSET ToSet(q)
  BY <1>6, <1>7, <1>8
<1> QED
  BY <1>2, <1>3, <1>5, <1>8, <1>9 DEF r

SameBlocks == scene'.content = scene.content

\* Blocks stay as they were written.
LEMMA BlocksStay ==
    ASSUME SameBlocks
    PROVE  /\ Written' = Written /\ Changed' = Changed /\ Rows' = Rows /\ Task' = Task /\ Committed' = Committed
           /\ \A i : Block(i)' = Block(i)
           /\ \A i, j : compare(i, j)' = compare(i, j)
<1>1. \A i : Block(i)' = Block(i)
  BY DEF SameBlocks, Block
<1>2. Written' = Written
  BY DEF SameBlocks, Written
<1>3. Changed' = Changed
  BY <1>1, <1>2 DEF Changed
<1>4. Rows' = Rows
  BY <1>2 DEF Rows, WrittenRow
<1>5. Task' = Task
  BY <1>2 DEF Task, BatchTask, CutTask, ModerateTask, RightsTask
<1>6. Committed' = Committed
  BY <1>3 DEF Committed
<1>7. \A i, j : compare(i, j)' = compare(i, j)
  BY <1>1 DEF compare
<1> QED
  BY <1>1, <1>2, <1>3, <1>4, <1>5, <1>6, <1>7

LEMMA DiskStays ==
    ASSUME DiskShape, SameBlocks, UNCHANGED <<length, held, disk, decided>>
    PROVE  DiskShape'
BY BlocksStay DEF DiskShape, SameBlocks, disk, decided, Moderations

LEMMA LogsStay ==
    ASSUME LogShape, UNCHANGED <<length, log, run>>
    PROVE  LogShape'
BY DEF LogShape, LogOK, LogEntry, RunEntry

LEMMA TasksStay ==
    ASSUME TaskShape, SameBlocks, UNCHANGED <<length, queue, after, hearing, memo, reader>>
    PROVE  TaskShape'
BY BlocksStay DEF TaskShape, Memo, Hearing

\* Only the entry and the run of one log change.
OnlyLog(l) ==
    /\ log' \in [Logs -> LogEntry] /\ run' \in [Logs -> RunEntry]
    /\ \A k \in Logs \ {l} : log'[k] = log[k] /\ run'[k] = run[k]

LEMMA OneLogIs ==
    ASSUME LogShape, NEW l \in Logs, NEW e \in LogEntry, NEW r \in RunEntry,
           log' = [log EXCEPT ![l] = e], run' = [run EXCEPT ![l] = r]
    PROVE  OnlyLog(l) /\ log'[l] = e /\ run'[l] = r
<1>1. log' \in [Logs -> LogEntry] /\ run' \in [Logs -> RunEntry]
  BY DEF LogShape
<1>2. log'[l] = e /\ run'[l] = r /\ \A k \in Logs \ {l} : log'[k] = log[k] /\ run'[k] = run[k]
  BY DEF LogShape
<1> QED
  BY <1>1, <1>2 DEF OnlyLog

LEMMA OneLogMoves ==
    ASSUME LogShape, NEW l \in Logs, OnlyLog(l), LogOK(log'[l], run'[l], length'[l]),
           \A k \in Logs \ {l} : length'[k] = length[k]
    PROVE  LogShape'
<1>1. \A k \in Logs : LogOK(log'[k], run'[k], length'[k])
  BY DEF LogShape, OnlyLog
<1>2. (\A k \in Logs : LogOK(log[k], run[k], length[k]))' <=> \A k \in Logs : LogOK(log'[k], run'[k], length'[k])
  BY DEF LogOK, LogEntry, RunEntry
<1> QED
  BY <1>1, <1>2 DEF LogShape, LogEntry, RunEntry, OnlyLog

LEMMA CalledIs ==
    ASSUME LogShape, NEW l \in Logs, NEW e, NEW n, LogOK(e, run[l], n)
    PROVE  LogOK(Called(l, e), Started(l), n)
<1>1. Called(l, e) \in LogEntry /\ Called(l, e).scanned = e.scanned /\ Called(l, e).holes = e.holes /\ Called(l, e).indexed = e.indexed
  BY DEF Called, LogOK, LogEntry
<1>2. Started(l) \in RunEntry /\ (Started(l) = run[l] \/ Started(l).pc = "start")
  <2>1. Idle \in [pc : {"idle"}, batch : Seq(Spots), end : 1 .. Inf, look : 0 .. MaxLen]
    BY IndexAssumption DEF Idle, Inf
  <2>2. Started(l) = run[l] \/ Started(l) = [Idle EXCEPT !.pc = "start"]
    BY DEF Started
  <2>3. [Idle EXCEPT !.pc = "start"] \in RunEntry /\ [Idle EXCEPT !.pc = "start"].pc = "start"
    BY <2>1 DEF RunEntry
  <2> QED
    BY <2>2, <2>3 DEF LogOK
<1> QED
  BY <1>1, <1>2 DEF LogOK

-----------------------------------------------------------------------------
(* Each step keeps the shape.                                              *)

LEMMA IdleIs == Idle \in RunEntry /\ Idle.pc = "idle" /\ Idle.batch = << >> /\ \A p \in {"idle", "start", "take", "leaving"} :
                    [Idle EXCEPT !.pc = p] \in RunEntry /\ [Idle EXCEPT !.pc = p].pc = p
<1>1. Idle \in RunEntry /\ Idle.pc = "idle" /\ Idle.batch = << >>
  BY IndexAssumption DEF Idle, RunEntry, Inf
<1>2. ASSUME NEW p \in {"idle", "start", "take", "leaving"}
      PROVE  [Idle EXCEPT !.pc = p] \in RunEntry /\ [Idle EXCEPT !.pc = p].pc = p
  BY <1>1 DEF RunEntry
<1> QED
  BY <1>1, <1>2

\* The fields of a scene a step may use up.
LEMMA SceneMoves ==
    ASSUME SceneOK(scene), NEW m \in Nat, NEW c \in Nat, NEW k \in SUBSET Ids,
           scene' \in {[scene EXCEPT !.moves = m], [scene EXCEPT !.crashes = c], [scene EXCEPT !.locked = k], scene}
    PROVE  SceneOK(scene') /\ SameBlocks
<1>1. scene \in Scene
  BY DEF SceneOK
<1>2. scene' \in Scene /\ scene'.content = scene.content /\ scene'.start = scene.start
  BY <1>1 DEF Scene
<1> QED
  BY <1>2 DEF SceneOK, SameBlocks

LEMMA PlacesAre == /\ MaxLen \in Nat /\ Inf = MaxLen + 1 /\ Inf \in Nat
                   /\ \A p \in Places : p \in Nat /\ p >= 1 /\ p <= MaxLen /\ p \in 1 .. Inf
                   /\ \A p \in Spots : p \in Nat /\ p >= 1 /\ p < MaxLen
                   /\ \A p \in 1 .. Inf : p \in Nat /\ p >= 1
BY IndexAssumption DEF Places, Spots, Inf

LEMMA InitShape == ASSUME Init PROVE Shape
<1>1. SceneOK(scene)
  BY SceneAssumption DEF Init
<1>2. scene \in Scene /\ \A l \in Logs : scene.start[l] \in Places /\ scene.start[l] <= Len(scene.content[l]) + 1
  BY <1>1 DEF SceneOK, Scene
<1>3. \A l \in Logs : length[l] = scene.start[l] /\ held[l] = scene.held[l]
  BY DEF Init
<1>4. \A l \in Logs : 1 \in Places /\ 1 <= length[l]
  BY <1>2, <1>3, PlacesAre DEF Places
<1>5. DiskShape
  <2>1. length \in [Logs -> Places] /\ held \in [Logs -> SUBSET Spots] /\ elimit \in [Logs -> Nat] /\ limit \in [Logs -> 1 .. Inf]
    <3>1. scene.held \in [Logs -> SUBSET Spots] /\ scene.editor \in [Logs -> Nat]
      BY <1>2 DEF Scene, Spots
    <3>2. length = [l \in Logs |-> scene.start[l]] /\ held = [l \in Logs |-> scene.held[l]]
          /\ elimit = [l \in Logs |-> scene.editor[l]] /\ limit = [l \in Logs |-> Inf]
      BY DEF Init
    <3>3. Inf \in 1 .. Inf
      BY PlacesAre
    <3> QED
      BY <1>2, <3>1, <3>2, <3>3
  <2>2. rows \in Rows /\ changes \in SUBSET Changed
    <3>1. rows = [i \in {} |-> None] /\ changes = {}
      BY DEF Init
    <3>2. rows \in [{} -> WrittenRow]
      BY <3>1
    <3> QED
      BY <3>1, <3>2 DEF Rows
  <2>3. mods \in [Ids -> Moderations]
    BY DEF Init, Moderations
  <2>4. saved \in [Logs -> [indexed : Places, cut : 1 .. Inf]] /\ \A l \in Logs : saved[l].indexed <= length[l]
    <3>1. saved = [l \in Logs |-> [indexed |-> 1, cut |-> Inf]]
      BY DEF Init
    <3>2. Inf \in 1 .. Inf
      BY PlacesAre
    <3>3. \A l \in Logs : saved[l] = [indexed |-> 1, cut |-> Inf] /\ saved[l].indexed <= length[l]
      BY <1>4, <3>1
    <3>4. \A l \in Logs : saved[l] \in [indexed : Places, cut : 1 .. Inf]
      BY <1>4, <3>2, <3>3
    <3> QED
      BY <3>1, <3>3, <3>4
  <2>5. \A l \in Logs : length[l] <= Len(scene.content[l]) + 1
    BY <1>2, <1>3
  <2> QED
    BY <2>1, <2>2, <2>3, <2>4, <2>5 DEF DiskShape
<1>6. LogShape
  <2>1. log = [l \in Logs |-> Entry(1, Inf)]
        /\ run = [l \in Logs |-> [Idle EXCEPT !.pc = IF length[l] > 1 THEN "start" ELSE "idle"]]
    BY DEF Init
  <2>2. \A l \in Logs : Entry(1, Inf) \in LogEntry /\ Entry(1, Inf).scanned = 1 /\ Entry(1, Inf).indexed = 1 /\ Entry(1, Inf).holes = {}
    <3>1. \A l \in Logs : 1 \in Places /\ Inf \in 1 .. Inf
      BY <1>4, PlacesAre
    <3> QED
      BY <3>1 DEF Entry, LogEntry
  <2>3. \A l \in Logs : run[l] \in RunEntry /\ run[l].pc \in {"start", "idle"}
    <3> TAKE l \in Logs
    <3>1. run[l] = [Idle EXCEPT !.pc = IF length[l] > 1 THEN "start" ELSE "idle"]
      BY <2>1
    <3>2. (IF length[l] > 1 THEN "start" ELSE "idle") \in {"start", "idle"}
      OBVIOUS
    <3> QED
      BY <3>1, <3>2, IdleIs
  <2>4. \A l \in Logs : log[l] = Entry(1, Inf)
    BY <2>1
  <2>5. \A l \in Logs : LogOK(log[l], run[l], length[l])
    BY <1>4, <2>2, <2>3, <2>4 DEF LogOK
  <2>6. log \in [Logs -> LogEntry] /\ run \in [Logs -> RunEntry]
    BY <2>1, <2>2, <2>3
  <2> QED
    BY <2>5, <2>6 DEF LogShape
<1>7. TaskShape
  <2>1. queue \in Seq(Task) /\ ToSet(queue) = {} /\ after = {} /\ hearing = {}
    BY DEF Init, ToSet
  <2>2. memo \in Memo
    <3>1. memo = [NoMemo EXCEPT !.rights = elimit] /\ elimit \in [Logs -> Nat]
      BY <1>5 DEF Init, DiskShape
    <3> QED
      BY <3>1 DEF NoMemo, Memo, Moderations
  <2>3. reader = NoReader
    BY DEF Init
  <2> QED
    BY <2>1, <2>2, <2>3 DEF TaskShape, NoReader
<1> QED
  BY <1>1, <1>5, <1>6, <1>7 DEF Shape

LEMMA GrowShape ==
    ASSUME Shape, NEW l \in Logs, Grow(l)
    PROVE  Shape' /\ SameBlocks
<1>1. SceneOK(scene') /\ SameBlocks
  BY DEF Grow, Shape, SameBlocks
<1>2. length' \in [Logs -> Places] /\ (\A k \in Logs : length'[k] <= Len(scene.content[k]) + 1 /\ length[k] <= length'[k])
      /\ \A k \in Logs \ {l} : length'[k] = length[k]
  <2>1. length \in [Logs -> Places] /\ length' = [length EXCEPT ![l] = length[l] + 1] /\ length[l] <= Len(scene.content[l])
    BY DEF Grow, Shape, DiskShape
  <2>2. scene.content[l] \in Seq(BlockType) /\ Len(scene.content[l]) < MaxLen
    BY DEF Shape, SceneOK, Scene
  <2>3. Len(scene.content[l]) \in Nat /\ length[l] \in Nat /\ length[l] >= 1
    BY <2>1, <2>2, PlacesAre
  <2>4. length[l] + 1 \in Places
    BY <2>1, <2>2, <2>3, PlacesAre DEF Places
  <2>5. length'[l] = length[l] + 1 /\ \A k \in Logs \ {l} : length'[k] = length[k]
    BY <2>1
  <2>6. \A k \in Logs : length[k] \in Nat
    BY <2>1, PlacesAre
  <2> QED
    BY <2>1, <2>3, <2>4, <2>5, <2>6 DEF Shape, DiskShape
<1>3. DiskShape'
  <2>1. \A k \in Logs : saved[k].indexed <= length'[k]
    <3>1. \A k \in Logs : saved[k].indexed \in Nat /\ length[k] \in Nat /\ length'[k] \in Nat /\ saved[k].indexed <= length[k]
      BY <1>2, PlacesAre DEF Shape, DiskShape
    <3> QED
      BY <1>2, <3>1
  <2> QED
    BY <1>1, <1>2, <2>1, BlocksStay DEF Grow, Shape, DiskShape, SameBlocks, disk, decided, Moderations
<1>4. LogShape'
  <2>1. LogOK(log[l], run[l], length'[l])
    <3>1. LogOK(log[l], run[l], length[l]) /\ length[l] \in Nat /\ length'[l] \in Nat
      BY <1>2, PlacesAre DEF Shape, LogShape, DiskShape
    <3>2. log[l].scanned \in Nat /\ log[l].indexed \in Nat /\ run[l].end \in Nat
      BY <3>1, PlacesAre DEF LogOK, LogEntry, RunEntry
    <3> QED
      BY <1>2, <3>1, <3>2 DEF LogOK
  <2>2. LogOK(Called(l, log[l]), Started(l), length'[l])
    BY <2>1, CalledIs DEF Shape
  <2>3. log' = [log EXCEPT ![l] = Called(l, log[l])] /\ run' = [run EXCEPT ![l] = Started(l)]
    BY DEF Grow, Index
  <2>4. OnlyLog(l) /\ log'[l] = Called(l, log[l]) /\ run'[l] = Started(l)
    BY <2>2, <2>3, OneLogIs DEF Shape, LogOK
  <2> QED
    BY <1>2, <2>2, <2>4, OneLogMoves DEF Shape
<1>5. TaskShape'
  <2>1. \A t \in ToSet(queue) : t.op = "batch" => t.indexed <= length'[t.of]
    <3> TAKE t \in ToSet(queue)
    <3>1. t \in Task
      BY DEF Shape, TaskShape, ToSet
    <3>2. t.op = "batch" => t.indexed \in Nat /\ t.of \in Logs /\ t.indexed <= length[t.of]
      BY <3>1, PlacesAre DEF Shape, TaskShape, Task, BatchTask, CutTask, ModerateTask, RightsTask
    <3>3. \A k \in Logs : length[k] \in Nat /\ length'[k] \in Nat
      BY <1>2, PlacesAre DEF Shape, DiskShape
    <3> QED
      BY <1>2, <3>2, <3>3
  <2> QED
    BY <1>1, <2>1, BlocksStay DEF Grow, Shape, TaskShape, Memo, Hearing
<1> QED
  BY <1>1, <1>3, <1>4, <1>5 DEF Shape

LEMMA DownloadShape ==
    ASSUME Shape, NEW l \in Logs, NEW s \in Known(l), Download(l, s)
    PROVE  Shape' /\ SameBlocks
<1>1. SceneOK(scene') /\ SameBlocks
  BY DEF Download, Shape, SameBlocks
<1>2. s \in Spots
  <2>1. length[l] \in Places /\ s \in 1 .. length[l] - 1
    BY DEF Shape, DiskShape, Known
  <2> QED
    BY <2>1, PlacesAre DEF Spots
<1>3. DiskShape'
  BY <1>1, <1>2, BlocksStay DEF Download, Shape, DiskShape, SameBlocks, disk, decided, Moderations
<1>4. LogShape'
  <2> DEFINE e == arrived(log[l], s)
  <2>1. LogOK(log[l], run[l], length[l])
    BY DEF Shape, LogShape
  <2>2. LogOK(e, run[l], length[l])
    <3>1. e \in LogEntry /\ e.scanned = log[l].scanned /\ e.indexed = log[l].indexed /\ e.holes = log[l].holes
      BY <1>2, <2>1 DEF arrived, LogOK, LogEntry
    <3> QED
      BY <2>1, <3>1 DEF LogOK
  <2>3. LogOK(Called(l, e), Started(l), length[l])
    BY <2>2, CalledIs DEF Shape
  <2>4. log' = [log EXCEPT ![l] = Called(l, e)] /\ run' = [run EXCEPT ![l] = Started(l)] /\ length' = length
    BY DEF Download, Index
  <2>5. OnlyLog(l) /\ log'[l] = Called(l, e) /\ run'[l] = Started(l)
    BY <2>3, <2>4, OneLogIs DEF Shape, LogOK
  <2> QED
    BY <2>3, <2>4, <2>5, OneLogMoves DEF Shape
<1>5. TaskShape'
  BY <1>1, TasksStay DEF Download, Shape
<1> QED
  BY <1>1, <1>3, <1>4, <1>5 DEF Shape

\* A number of blocks there are from l's place on.
LEMMA EndIs ==
    ASSUME Shape, NEW l \in Logs
    PROVE  LET n == IF length[l] < log[l].limit THEN length[l] ELSE log[l].limit
           IN  n \in 1 .. Inf /\ n <= length[l] /\ n <= log[l].limit
<1>1. length[l] \in Places /\ log[l].limit \in 1 .. Inf
  BY DEF Shape, DiskShape, LogShape, LogEntry
<1>2. length[l] \in Nat /\ log[l].limit \in Nat /\ length[l] \in 1 .. Inf
  BY <1>1, PlacesAre
<1> QED
  BY <1>1, <1>2

\* What a batch begins with: some of the holes whose blocks are held.
LEMMA RunTakeDoes ==
    ASSUME Shape, NEW l \in Logs, RunTake(l)
    PROVE  /\ OnlyLog(l)
           /\ log'[l].scanned = log[l].scanned /\ log'[l].indexed = log[l].indexed /\ log'[l].limit = log[l].limit
           /\ log'[l].cut = log[l].cut /\ log'[l].holes = log[l].holes /\ log'[l].uncommitted = TRUE
           /\ log'[l].timer = log[l].timer
           /\ run'[l].pc = "scan" /\ ToSet(run'[l].batch) \in SUBSET (log[l].holes \cap held[l])
           /\ run'[l].end = IF length[l] < log[l].limit THEN length[l] ELSE log[l].limit
<1>1. PICK S \in SUBSET log[l].arrived :
         LET taken == S \cap log[l].holes \cap held[l]
         IN  /\ Cardinality(taken) <= Batch
             /\ S = log[l].arrived \/ Cardinality(taken) = Batch
             /\ log' = [log EXCEPT ![l].arrived = @ \ S, ![l].uncommitted = TRUE,
                                   ![l].again = IF run[l].pc = "start" THEN FALSE ELSE @]
             /\ run' = [run EXCEPT ![l] = [@ EXCEPT !.pc = "scan", !.batch = SetToSeq(taken),
                            !.end = IF length[l] < log[l].limit THEN length[l] ELSE log[l].limit]]
  BY DEF RunTake
<1> DEFINE taken == S \cap log[l].holes \cap held[l]
           n == IF length[l] < log[l].limit THEN length[l] ELSE log[l].limit
           g == IF run[l].pc = "start" THEN FALSE ELSE log[l].again
           e == [log[l] EXCEPT !.arrived = log[l].arrived \ S, !.uncommitted = TRUE, !.again = g]
           q == SetToSeq(taken)
           r == [run[l] EXCEPT !.pc = "scan", !.batch = q, !.end = n]
<1>2. log[l] \in LogEntry /\ run[l] \in RunEntry /\ log \in [Logs -> LogEntry] /\ run \in [Logs -> RunEntry]
  BY DEF Shape, LogShape
<1>3. log' = [log EXCEPT ![l] = e]
  <2>1. log' = [log EXCEPT ![l].arrived = @ \ S, ![l].uncommitted = TRUE,
                           ![l].again = IF run[l].pc = "start" THEN FALSE ELSE @]
    BY <1>1
  <2> QED
    BY <1>2, <2>1
<1>4. run' = [run EXCEPT ![l] = r]
  BY <1>1
<1>5. e \in LogEntry /\ e.scanned = log[l].scanned /\ e.indexed = log[l].indexed
      /\ e.limit = log[l].limit /\ e.cut = log[l].cut /\ e.holes = log[l].holes
      /\ e.arrived = log[l].arrived \ S /\ e.uncommitted = TRUE /\ e.timer = log[l].timer
  <2>1. g \in BOOLEAN
    BY <1>2 DEF LogEntry
  <2> HIDE DEF g
  <2> QED
    BY <1>2, <2>1 DEF LogEntry
<1>6. n \in 1 .. Inf
  BY EndIs
<1>7. q \in Seq(taken) /\ ToSet(q) = taken /\ taken \in SUBSET Spots
  <2>1. taken \in SUBSET Spots
    BY <1>2 DEF LogEntry
  <2>2. MaxLen - 1 \in Int /\ 1 \in Int
    BY PlacesAre
  <2>3. IsFiniteSet(Spots)
    BY <2>2, FS_Interval DEF Spots
  <2>4. IsFiniteSet(taken)
    BY <2>1, <2>3, FS_Subset
  <2> QED
    BY <2>1, <2>4, InSomeOrder
<1>8. r \in RunEntry /\ r.pc = "scan" /\ r.batch = q /\ r.end = n
  <2>1. q \in Seq(Spots)
    BY <1>7
  <2> HIDE DEF q, n
  <2> QED
    BY <1>2, <1>6, <2>1 DEF RunEntry
<1> HIDE DEF e, r, q, taken
<1>9. OnlyLog(l) /\ log'[l] = e /\ run'[l] = r
  BY <1>3, <1>4, <1>5, <1>8, OneLogIs DEF Shape
<1>10. taken \in SUBSET (log[l].holes \cap held[l])
  BY DEF taken
<1> QED
  BY <1>5, <1>7, <1>8, <1>9, <1>10

LEMMA RunTakeShape ==
    ASSUME Shape, NEW l \in Logs, RunTake(l)
    PROVE  Shape' /\ SameBlocks
<1>1. SceneOK(scene') /\ SameBlocks
  BY DEF RunTake, Shape, SameBlocks
<1>2. DiskShape'
  BY <1>1, DiskStays DEF RunTake, Shape
<1>3. LogShape'
  <2>1. LogOK(log[l], run[l], length[l]) /\ length' = length
    BY DEF Shape, LogShape, RunTake
  <2>2. LogOK(log'[l], run'[l], length'[l])
    BY <2>1, RunTakeDoes, EndIs DEF LogOK, OnlyLog
  <2> QED
    BY <2>1, <2>2, RunTakeDoes, OneLogMoves DEF Shape
<1>4. TaskShape'
  <2>1. memo' \in Memo
    <3>1. memo' = [memo EXCEPT !.had = IF @ # None THEN @ ELSE [changes |-> changes # {}, records |-> DOMAIN rows # {}]]
      BY DEF RunTake
    <3> DEFINE h == IF memo.had # None THEN memo.had ELSE [changes |-> changes # {}, records |-> DOMAIN rows # {}]
    <3>2. memo \in Memo /\ memo' = [memo EXCEPT !.had = h]
      BY <3>1 DEF Shape, TaskShape
    <3>3. h \in [changes : BOOLEAN, records : BOOLEAN]
      BY <3>2 DEF Memo
    <3> HIDE DEF h
    <3> QED
      BY <3>2, <3>3 DEF Memo
  <2>2. Memo' = Memo /\ Hearing' = Hearing
    BY DEF Memo, Hearing
  <2> QED
    BY <1>1, <2>1, <2>2, BlocksStay DEF RunTake, Shape, TaskShape
<1> QED
  BY <1>1, <1>2, <1>3, <1>4 DEF Shape

\* The next block goes into the batch, or is looked up.
LEMMA RunScanDoes ==
    ASSUME Shape, NEW l \in Logs, RunScan(l)
    PROVE  LET s == log[l].scanned IN
           /\ s \in Spots /\ s < run[l].end /\ s < length[l] /\ run[l].pc = "scan" /\ OnlyLog(l)
           /\ log'[l].scanned = s + 1 /\ log'[l].indexed = log[l].indexed /\ log'[l].limit = log[l].limit
           /\ log'[l].cut = log[l].cut /\ log'[l].holes = log[l].holes /\ log'[l].uncommitted = log[l].uncommitted
           /\ log'[l].timer = log[l].timer /\ run'[l].end = run[l].end
           /\ s \in held[l] => run'[l].pc = "scan" /\ ToSet(run'[l].batch) = ToSet(run[l].batch) \cup {s}
           /\ s \notin held[l] => run'[l].pc = "note" /\ run'[l].batch = run[l].batch /\ run'[l].look = s
<1> DEFINE s == log[l].scanned
           e == [log[l] EXCEPT !.scanned = s + 1]
<1>1. log[l] \in LogEntry /\ run[l] \in RunEntry /\ log \in [Logs -> LogEntry] /\ run \in [Logs -> RunEntry]
      /\ LogOK(log[l], run[l], length[l]) /\ length[l] \in Places
  BY DEF Shape, LogShape, DiskShape
<1>2. s \in Places /\ run[l].end \in 1 .. Inf /\ run[l].end <= length[l] /\ s < run[l].end /\ run[l].pc = "scan"
  BY <1>1 DEF LogOK, LogEntry, RunEntry, RunScan, MoreToScan
<1>3. s \in Spots /\ s + 1 \in Places /\ s < length[l] /\ s \in 0 .. MaxLen
  BY <1>1, <1>2, PlacesAre DEF Spots, Places
<1>4. log' = [log EXCEPT ![l] = e]
  BY DEF RunScan
<1>5. e \in LogEntry /\ e.scanned = s + 1 /\ e.indexed = log[l].indexed
      /\ e.limit = log[l].limit /\ e.cut = log[l].cut /\ e.holes = log[l].holes
      /\ e.uncommitted = log[l].uncommitted /\ e.timer = log[l].timer
  <2>1. s + 1 \in Places
    BY <1>3
  <2> HIDE DEF s
  <2> QED
    BY <1>1, <2>1 DEF LogEntry
<1> DEFINE q == Append(run[l].batch, s)
           r == IF s \in held[l] THEN [run[l] EXCEPT !.batch = q] ELSE [run[l] EXCEPT !.pc = "note", !.look = s]
<1>6. run' = [run EXCEPT ![l] = r]
  <2> HIDE DEF e
  <2> QED
    BY DEF RunScan
<1>7. run[l].batch \in Seq(Spots)
  BY <1>1 DEF RunEntry
<1>8. q \in Seq(Spots) /\ ToSet(q) = ToSet(run[l].batch) \cup {s}
  BY <1>3, <1>7, AppendIs
<1> HIDE DEF e, q, s
<1>9. s \in held[l] => r \in RunEntry /\ r.end = run[l].end /\ r.pc = "scan" /\ r.batch = q
  BY <1>1, <1>2, <1>8 DEF RunEntry
<1>10. s \notin held[l] => r \in RunEntry /\ r.end = run[l].end /\ r.pc = "note" /\ r.batch = run[l].batch /\ r.look = s
  BY <1>1, <1>3 DEF RunEntry
<1> HIDE DEF r
<1>11. OnlyLog(l) /\ log'[l] = e /\ run'[l] = r
  BY <1>4, <1>5, <1>6, <1>9, <1>10, OneLogIs DEF Shape
<1>12. /\ s \in Spots /\ s < run[l].end /\ s < length[l] /\ run[l].pc = "scan" /\ OnlyLog(l)
       /\ log'[l].scanned = s + 1 /\ log'[l].indexed = log[l].indexed /\ log'[l].limit = log[l].limit
       /\ log'[l].cut = log[l].cut /\ log'[l].holes = log[l].holes /\ log'[l].uncommitted = log[l].uncommitted
       /\ log'[l].timer = log[l].timer /\ run'[l].end = run[l].end
  BY <1>2, <1>3, <1>5, <1>9, <1>10, <1>11
<1>13. /\ s \in held[l] => run'[l].pc = "scan" /\ ToSet(run'[l].batch) = ToSet(run[l].batch) \cup {s}
       /\ s \notin held[l] => run'[l].pc = "note" /\ run'[l].batch = run[l].batch /\ run'[l].look = s
  BY <1>8, <1>9, <1>10, <1>11
<1> QED
  BY <1>12, <1>13 DEF s

LEMMA RunScanShape ==
    ASSUME Shape, NEW l \in Logs, RunScan(l)
    PROVE  Shape' /\ SameBlocks
<1>1. SceneOK(scene') /\ SameBlocks
  BY DEF RunScan, Shape, SameBlocks
<1>2. DiskShape'
  BY <1>1, DiskStays DEF RunScan, Shape
<1>3. LogShape'
  <2> DEFINE s == log[l].scanned
             e == log'[l]
             r == run'[l]
  <2>1. s \in Spots /\ s < length[l]
    BY RunScanDoes
  <2>2. e \in LogEntry /\ e.scanned = s + 1 /\ e.indexed = log[l].indexed /\ e.holes = log[l].holes
    BY RunScanDoes DEF OnlyLog
  <2>3. /\ r \in RunEntry /\ r.end = run[l].end
        /\ s \in held[l] => r.pc = "scan" /\ ToSet(r.batch) = ToSet(run[l].batch) \cup {s}
        /\ s \notin held[l] => r.pc = "note" /\ r.batch = run[l].batch /\ r.look = s
    BY RunScanDoes DEF OnlyLog
  <2>4. LogOK(log[l], run[l], length[l]) /\ length' = length /\ run[l].pc = "scan" /\ run[l].batch \in Seq(Spots) /\ length[l] \in Nat
    BY PlacesAre DEF Shape, LogShape, RunScan, RunEntry, DiskShape
  <2>5. \A x \in Spots : x < s => x < s + 1
    BY <2>1, PlacesAre
  <2>6. s + 1 <= length[l] /\ s < s + 1
    BY <2>1, <2>4, PlacesAre
  <2>7. ToSet(run[l].batch) \in SUBSET Spots /\ log[l].holes \in SUBSET Spots
    BY <2>4 DEF ToSet, LogOK, LogEntry
  <2> HIDE DEF s, e, r
  <2>8. LogOK(e, r, length[l])
    <3>1. \A x \in e.holes : x < e.scanned
      BY <2>2, <2>4, <2>5, <2>7 DEF LogOK, s
    <3>2. \A x \in ToSet(run[l].batch) : x < e.scanned
      BY <2>2, <2>4, <2>5, <2>7 DEF LogOK, s
    <3>3. \A x \in ToSet(r.batch) : x < e.scanned
      BY <2>2, <2>3, <2>6, <3>2
    <3>4. r.pc = "note" => r.look \in Spots /\ r.look < e.scanned
      BY <2>1, <2>2, <2>3, <2>6
    <3> QED
      BY <2>2, <2>3, <2>4, <2>6, <3>1, <3>3, <3>4 DEF LogOK
  <2> QED
    BY <2>4, <2>8, RunScanDoes, OneLogMoves DEF Shape, e, r
<1>4. TaskShape'
  BY <1>1, TasksStay DEF RunScan, Shape
<1> QED
  BY <1>1, <1>2, <1>3, <1>4 DEF Shape

LEMMA RunNoteDoes ==
    ASSUME Shape, NEW l \in Logs, RunNote(l)
    PROVE  LET s == run[l].look IN
           /\ s \in Spots /\ s < log[l].scanned /\ run[l].pc = "note" /\ OnlyLog(l)
           /\ log'[l].scanned = log[l].scanned /\ log'[l].indexed = log[l].indexed /\ log'[l].limit = log[l].limit
           /\ log'[l].cut = log[l].cut /\ log'[l].uncommitted = log[l].uncommitted /\ log'[l].timer = log[l].timer
           /\ log'[l].holes = IF wipedByAuthor(<<l, s>>) THEN log[l].holes ELSE log[l].holes \cup {s}
           /\ run'[l].end = run[l].end /\ run'[l].pc = "scan" /\ run'[l].batch = run[l].batch
<1> DEFINE s == run[l].look
           h == IF wipedByAuthor(<<l, s>>) THEN log[l].holes ELSE log[l].holes \cup {s}
           e == [log[l] EXCEPT !.holes = h]
           r == [run[l] EXCEPT !.pc = "scan"]
<1>1. log[l] \in LogEntry /\ run[l] \in RunEntry /\ run[l].pc = "note" /\ log' = [log EXCEPT ![l] = e] /\ run' = [run EXCEPT ![l] = r]
  BY DEF Shape, LogShape, RunNote
<1>2. s \in Spots /\ s < log[l].scanned
  BY <1>1 DEF Shape, LogShape, LogOK
<1>3. h \in SUBSET Spots
  BY <1>1, <1>2 DEF LogEntry
<1> HIDE DEF h
<1>4. e \in LogEntry /\ e.scanned = log[l].scanned /\ e.indexed = log[l].indexed
      /\ e.limit = log[l].limit /\ e.cut = log[l].cut
      /\ e.uncommitted = log[l].uncommitted /\ e.timer = log[l].timer /\ e.holes = h
  BY <1>1, <1>3 DEF LogEntry
<1>5. r \in RunEntry /\ r.end = run[l].end /\ r.pc = "scan" /\ r.batch = run[l].batch
  BY <1>1 DEF RunEntry
<1> HIDE DEF e, r
<1>6. OnlyLog(l) /\ log'[l] = e /\ run'[l] = r
  BY <1>1, <1>4, <1>5, OneLogIs DEF Shape
<1> QED
  BY <1>1, <1>2, <1>4, <1>5, <1>6 DEF h

LEMMA RunNoteShape ==
    ASSUME Shape, NEW l \in Logs, RunNote(l)
    PROVE  Shape' /\ SameBlocks
<1>1. SceneOK(scene') /\ SameBlocks
  BY DEF RunNote, Shape, SameBlocks
<1>2. DiskShape'
  BY <1>1, DiskStays DEF RunNote, Shape
<1>3. LogShape'
  <2>1. LogOK(log[l], run[l], length[l]) /\ length' = length
    BY DEF Shape, LogShape, RunNote
  <2> DEFINE e == log'[l]
             r == run'[l]
  <2>2. /\ e.scanned = log[l].scanned /\ e.indexed = log[l].indexed /\ e.holes \in SUBSET (log[l].holes \cup {run[l].look})
        /\ run[l].look < log[l].scanned /\ r.end = run[l].end /\ r.pc = "scan" /\ r.batch = run[l].batch
        /\ e \in LogEntry /\ r \in RunEntry /\ run[l].pc = "note"
    BY RunNoteDoes DEF OnlyLog
  <2> HIDE DEF e, r
  <2>3. LogOK(e, r, length[l])
    BY <2>1, <2>2 DEF LogOK
  <2>4. LogOK(log'[l], run'[l], length'[l])
    BY <2>1, <2>3 DEF e, r
  <2> QED
    BY <2>1, <2>4, RunNoteDoes, OneLogMoves DEF Shape
<1>4. TaskShape'
  BY <1>1, TasksStay DEF RunNote, Shape
<1> QED
  BY <1>1, <1>2, <1>3, <1>4 DEF Shape

\* The place a restart begins from is at or below every hole.
LEMMA IndexedIs ==
    ASSUME NEW e \in LogEntry, \A s \in e.holes : s < e.scanned
    PROVE  Indexed(e) \in Places /\ Indexed(e) <= e.scanned /\ \A s \in e.holes : Indexed(e) <= s
<1>1. e.scanned \in Places /\ e.holes \in SUBSET Spots
  BY DEF LogEntry
<1>2. CASE e.holes = {}
  BY <1>1, <1>2, PlacesAre DEF Indexed
<1>3. CASE e.holes # {}
  <2>1. e.holes \in SUBSET Nat
    BY <1>1, PlacesAre
  <2>2. lowest(e.holes) \in e.holes /\ \A m \in e.holes : lowest(e.holes) <= m
    BY <1>3, <2>1, LowestIs
  <2>3. Indexed(e) = lowest(e.holes)
    BY <1>3 DEF Indexed
  <2>4. Indexed(e) \in Spots /\ Indexed(e) < e.scanned
    BY <1>1, <2>2, <2>3
  <2> QED
    BY <1>1, <2>2, <2>3, <2>4, PlacesAre DEF Places
<1> QED
  BY <1>2, <1>3

Open(l) == {s \in ToSet(run[l].batch) : <<l, s>> \notin scene.locked}

LEMMA RunBatchDoes ==
    ASSUME Shape, NEW l \in Logs, RunBatch(l)
    PROVE  /\ OnlyLog(l) /\ run[l].pc = "scan"
           /\ log'[l].scanned = log[l].scanned /\ log'[l].indexed = log[l].indexed /\ log'[l].limit = log[l].limit
           /\ log'[l].cut = log[l].cut /\ log'[l].timer = log[l].timer
           /\ log'[l].holes = (log[l].holes \cup ToSet(run[l].batch)) \ Open(l)
           /\ LogOK(log'[l], run'[l], length[l])
           /\ \/ /\ Open(l) = {} /\ queue' = queue /\ log'[l].uncommitted = FALSE
                 /\ run'[l].pc \in {"take", "start", "leaving"}
                 /\ run'[l].pc \in {"start", "leaving"} => ~(log[l].scanned < run[l].end)
              \/ /\ run'[l].pc = "queued" /\ run'[l].end = run[l].end /\ log'[l].uncommitted = log[l].uncommitted
                 /\ \E t \in BatchTask :
                       /\ queue' = Append(queue, t) /\ t.of = l /\ t.indexed <= length[l]
                       /\ ToSet(t.blocks) = {<<l, s>> : s \in Open(l)}
                       /\ t.indexed <= log[l].scanned /\ \A s \in log'[l].holes : t.indexed <= s
<1> DEFINE open == Open(l)
           h == (log[l].holes \cup ToSet(run[l].batch)) \ open
           e == [log[l] EXCEPT !.holes = h]
           quiet == [e EXCEPT !.uncommitted = FALSE]
           pc == IF e.scanned < run[l].end \/ e.arrived # {} THEN "take" ELSE IF e.again THEN "start" ELSE "leaving"
           P == {p \in DOMAIN run[l].batch : run[l].batch[p] \in open}
           t == [op |-> "batch", of |-> l, indexed |-> Indexed(e), blocks |-> those(l, run[l].batch, P)]
           nothing == open = {} /\ Indexed(e) = e.indexed
<1>1. /\ run[l].pc = "scan"
      /\ \/ nothing /\ log' = [log EXCEPT ![l] = quiet] /\ run' = [run EXCEPT ![l] = [Idle EXCEPT !.pc = pc]] /\ queue' = queue
         \/ ~nothing /\ log' = [log EXCEPT ![l] = e] /\ run' = [run EXCEPT ![l].pc = "queued"] /\ queue' = Append(queue, t)
  BY DEF RunBatch, Open
<1>2. LogOK(log[l], run[l], length[l]) /\ length[l] \in Places /\ log[l] \in LogEntry /\ run[l] \in RunEntry
  BY DEF Shape, LogShape, DiskShape
<1>3. run[l].batch \in Seq(Spots) /\ ToSet(run[l].batch) \in SUBSET Spots /\ (\A s \in ToSet(run[l].batch) : s < log[l].scanned)
  BY <1>1, <1>2 DEF RunEntry, ToSet, LogOK
<1>4. open \in SUBSET ToSet(run[l].batch) /\ h \in SUBSET Spots /\ \A s \in h : s < log[l].scanned
  BY <1>2, <1>3 DEF Open, LogOK, LogEntry
<1> HIDE DEF h, open
<1>5. e \in LogEntry /\ e.scanned = log[l].scanned /\ e.indexed = log[l].indexed /\ e.limit = log[l].limit
      /\ e.cut = log[l].cut /\ e.timer = log[l].timer /\ e.holes = h /\ e.uncommitted = log[l].uncommitted
  BY <1>2, <1>4 DEF LogEntry
<1>6. quiet \in LogEntry /\ quiet.scanned = e.scanned /\ quiet.indexed = e.indexed /\ quiet.limit = e.limit
      /\ quiet.cut = e.cut /\ quiet.timer = e.timer /\ quiet.holes = e.holes /\ quiet.uncommitted = FALSE
  <2> HIDE DEF e
  <2> QED
    BY <1>5 DEF LogEntry
<1>7. Indexed(e) \in Places /\ Indexed(e) <= e.scanned /\ \A s \in e.holes : Indexed(e) <= s
  <2> HIDE DEF e
  <2> QED
    BY <1>4, <1>5, IndexedIs
<1> HIDE DEF e, quiet
<1>8. CASE nothing /\ log' = [log EXCEPT ![l] = quiet] /\ run' = [run EXCEPT ![l] = [Idle EXCEPT !.pc = pc]] /\ queue' = queue
  <2>1. pc \in {"take", "start", "leaving"} /\ (pc \in {"start", "leaving"} => ~(log[l].scanned < run[l].end))
    BY <1>5
  <2> DEFINE r == [Idle EXCEPT !.pc = pc]
  <2>5. log' = [log EXCEPT ![l] = quiet] /\ run' = [run EXCEPT ![l] = r]
    BY <1>8
  <2> HIDE DEF pc
  <2>2. r \in RunEntry /\ r.pc = pc
    BY <2>1, IdleIs
  <2> HIDE DEF r
  <2>3. OnlyLog(l) /\ log'[l] = quiet /\ run'[l] = r
    BY <1>6, <2>2, <2>5, OneLogIs DEF Shape
  <2>4. LogOK(quiet, r, length[l])
    BY <1>2, <1>4, <1>5, <1>6, <2>1, <2>2 DEF LogOK
  <2> QED
    BY <1>1, <1>5, <1>6, <1>8, <2>1, <2>2, <2>3, <2>4 DEF h, open
<1>9. CASE log' = [log EXCEPT ![l] = e] /\ run' = [run EXCEPT ![l].pc = "queued"] /\ queue' = Append(queue, t)
  <2> DEFINE r == [run[l] EXCEPT !.pc = "queued"]
  <2>1. log' = [log EXCEPT ![l] = e] /\ run' = [run EXCEPT ![l] = r]
    BY <1>9
  <2>2. r \in RunEntry /\ r.pc = "queued" /\ r.end = run[l].end
    BY <1>2 DEF RunEntry
  <2> HIDE DEF r
  <2>3. OnlyLog(l) /\ log'[l] = e /\ run'[l] = r
    BY <1>5, <2>1, <2>2, OneLogIs DEF Shape
  <2>4. LogOK(e, r, length[l])
    BY <1>2, <1>4, <1>5, <2>2 DEF LogOK
  <2>5. those(l, run[l].batch, P) \in Seq({l} \X Spots) /\ ToSet(those(l, run[l].batch, P)) = {<<l, run[l].batch[p]>> : p \in P}
    <3> DEFINE q == run[l].batch
    <3>1. q \in Seq(Spots)
      BY <1>3
    <3>2. P \in SUBSET (DOMAIN q)
      OBVIOUS
    <3> HIDE DEF P, q
    <3>3. those(l, q, P) \in Seq({l} \X Spots) /\ ToSet(those(l, q, P)) = {<<l, q[p]>> : p \in P}
      BY <3>1, <3>2, Those
    <3> QED
      BY <3>3 DEF q
  <2>6. {<<l, run[l].batch[p]>> : p \in P} = {<<l, s>> : s \in open}
    <3>1. ASSUME NEW s \in open PROVE \E p \in P : run[l].batch[p] = s
      BY <1>4 DEF ToSet
    <3>2. \A p \in P : run[l].batch[p] \in open
      OBVIOUS
    <3> QED
      BY <3>1, <3>2
  <2>7. \A s \in open : <<l, s>> \in Written
    <3> TAKE s \in open
    <3>1. s \in Spots /\ s < log[l].scanned /\ log[l].scanned <= length[l] /\ length[l] <= Len(scene.content[l]) + 1
      BY <1>2, <1>3, <1>4 DEF LogOK, Shape, DiskShape
    <3>2. scene.content[l] \in Seq(BlockType)
      BY DEF Shape, SceneOK, Scene
    <3>3. s \in Nat /\ log[l].scanned \in Nat /\ length[l] \in Nat /\ Len(scene.content[l]) \in Nat
      BY <1>2, <3>1, <3>2, PlacesAre DEF LogEntry
    <3>4. s <= Len(scene.content[l])
      BY <3>1, <3>3
    <3> QED
      BY <3>1, <3>4 DEF Written, Ids, Spots
  <2> DEFINE b == those(l, run[l].batch, P)
  <2>8. b \in Seq(Written)
    <3> HIDE DEF b
    <3>1. b \in Seq({l} \X Spots) /\ ToSet(b) = {<<l, s>> : s \in open}
      BY <2>5, <2>6 DEF b
    <3>2. \A n \in DOMAIN b : b[n] \in Written
      BY <2>7, <3>1 DEF ToSet
    <3> QED
      BY <3>1, <3>2
  <2> HIDE DEF b
  <2>9. t \in BatchTask /\ t.of = l /\ t.indexed = Indexed(e) /\ t.blocks = b
    BY <1>7, <2>8 DEF BatchTask, b
  <2>10. Indexed(e) <= length[l]
    BY <1>2, <1>5, <1>7, PlacesAre DEF LogOK, LogEntry
  <2> HIDE DEF t
  <2>11. \E u \in BatchTask :
            /\ queue' = Append(queue, u) /\ u.of = l /\ u.indexed <= length[l]
            /\ ToSet(u.blocks) = {<<l, s>> : s \in open}
            /\ u.indexed <= log[l].scanned /\ \A s \in log'[l].holes : u.indexed <= s
    BY <1>5, <1>7, <1>9, <2>3, <2>5, <2>6, <2>9, <2>10 DEF b
  <2> QED
    BY <1>1, <1>5, <2>2, <2>3, <2>4, <2>11 DEF h, open
<1> QED
  BY <1>1, <1>8, <1>9

LEMMA RunBatchShape ==
    ASSUME Shape, NEW l \in Logs, RunBatch(l)
    PROVE  Shape' /\ SameBlocks
<1>1. SceneOK(scene') /\ SameBlocks /\ length' = length
  BY DEF RunBatch, Shape, SameBlocks
<1>2. DiskShape'
  BY <1>1, DiskStays DEF RunBatch, Shape
<1>3. LogShape'
  BY <1>1, RunBatchDoes, OneLogMoves DEF Shape
<1>4. TaskShape'
  <2>1. queue' \in Seq(Task) /\ \A t \in ToSet(queue') : t.op = "batch" => t.indexed <= length[t.of]
    <3>1. CASE queue' = queue
      BY <3>1 DEF Shape, TaskShape
    <3>2. CASE \E t \in BatchTask : queue' = Append(queue, t) /\ t.of = l /\ t.indexed <= length[l]
      <4>1. PICK t \in BatchTask : queue' = Append(queue, t) /\ t.of = l /\ t.indexed <= length[l]
        BY <3>2
      <4>2. queue \in Seq(Task) /\ t \in Task
        BY DEF Shape, TaskShape, Task
      <4>3. queue' \in Seq(Task) /\ ToSet(queue') = ToSet(queue) \cup {t}
        BY <4>1, <4>2, AppendIs
      <4> QED
        BY <4>1, <4>3 DEF Shape, TaskShape
    <3> QED
      BY <3>1, <3>2, RunBatchDoes
  <2> QED
    BY <1>1, <2>1, BlocksStay DEF RunBatch, Shape, TaskShape, Memo, Hearing
<1> QED
  BY <1>1, <1>2, <1>3, <1>4 DEF Shape

LEMMA RunEndDoes ==
    ASSUME Shape, NEW l \in Logs, RunEnd(l)
    PROVE  /\ OnlyLog(l) /\ run[l].pc = "leaving" /\ run'[l] = Idle
           /\ log'[l].scanned = log[l].scanned /\ log'[l].indexed = log[l].indexed /\ log'[l].limit = log[l].limit
           /\ log'[l].cut = log[l].cut /\ log'[l].holes = log[l].holes /\ log'[l].uncommitted = FALSE
           /\ log'[l].timer = (log[l].timer \/ log[l].holes # {})
           /\ LogOK(log'[l], run'[l], length[l])
<1> DEFINE b == log[l].timer \/ log[l].holes # {}
           e == [log[l] EXCEPT !.uncommitted = FALSE, !.timer = b]
<1>1. log[l] \in LogEntry /\ log \in [Logs -> LogEntry] /\ LogOK(log[l], run[l], length[l])
  BY DEF Shape, LogShape
<1>2. log' = [log EXCEPT ![l] = e] /\ run' = [run EXCEPT ![l] = Idle] /\ run[l].pc = "leaving"
  BY <1>1 DEF RunEnd
<1>3. b \in BOOLEAN
  BY <1>1 DEF LogEntry
<1> HIDE DEF b
<1>4. e \in LogEntry /\ e.scanned = log[l].scanned /\ e.indexed = log[l].indexed /\ e.limit = log[l].limit
      /\ e.cut = log[l].cut /\ e.holes = log[l].holes /\ e.uncommitted = FALSE /\ e.timer = b
  BY <1>1, <1>3 DEF LogEntry
<1> HIDE DEF e
<1>5. OnlyLog(l) /\ log'[l] = e /\ run'[l] = Idle
  <2> DEFINE r == Idle
  <2>1. LogShape /\ e \in LogEntry /\ r \in RunEntry /\ run' = [run EXCEPT ![l] = r]
    BY <1>2, <1>4, IdleIs DEF Shape
  <2> HIDE DEF r
  <2>2. OnlyLog(l) /\ log'[l] = e /\ run'[l] = r
    BY <1>2, <2>1, OneLogIs
  <2> QED
    BY <2>2 DEF r
<1>6. LogOK(e, Idle, length[l])
  BY <1>1, <1>4, IdleIs DEF LogOK
<1> QED
  BY <1>2, <1>4, <1>5, <1>6 DEF b

LEMMA RunEndShape ==
    ASSUME Shape, NEW l \in Logs, RunEnd(l)
    PROVE  Shape' /\ SameBlocks
<1>1. SceneOK(scene') /\ SameBlocks /\ length' = length
  BY DEF RunEnd, Shape, SameBlocks
<1>2. DiskShape'
  BY <1>1, DiskStays DEF RunEnd, Shape
<1>3. LogShape'
  BY <1>1, RunEndDoes, OneLogMoves DEF Shape
<1>4. TaskShape'
  BY <1>1, TasksStay DEF RunEnd, Shape
<1> QED
  BY <1>1, <1>2, <1>3, <1>4 DEF Shape

\* A call of index() changes only what is still to be done.
LEMMA CalledFields ==
    ASSUME NEW l \in Logs, NEW e \in LogEntry
    PROVE  /\ Called(l, e) \in LogEntry /\ Called(l, e).scanned = e.scanned /\ Called(l, e).indexed = e.indexed
           /\ Called(l, e).limit = e.limit /\ Called(l, e).cut = e.cut /\ Called(l, e).holes = e.holes
           /\ Called(l, e).uncommitted = e.uncommitted /\ Called(l, e).timer = e.timer
BY DEF Called, LogEntry

\* A run there is goes on; there is one now.
LEMMA StartedIs ==
    ASSUME LogShape, NEW l \in Logs
    PROVE  /\ Started(l) \in RunEntry /\ Started(l).pc # "idle" /\ (run[l].pc # "idle" => Started(l) = run[l])
           /\ run[l].pc = "idle" => Started(l).pc = "start"
<1>1. run[l].pc = "idle" => Started(l) = [Idle EXCEPT !.pc = "start"]
  BY DEF Started
<1>2. [Idle EXCEPT !.pc = "start"] \in RunEntry /\ [Idle EXCEPT !.pc = "start"].pc = "start"
  BY IdleIs
<1>3. run[l].pc # "idle" => Started(l) = run[l]
  BY DEF Started
<1> QED
  BY <1>1, <1>2, <1>3 DEF LogShape

LEMMA HoleTimerDoes ==
    ASSUME Shape, NEW l \in Logs, HoleTimer(l)
    PROVE  /\ OnlyLog(l) /\ run'[l] = Started(l)
           /\ log'[l].scanned = log[l].scanned /\ log'[l].indexed = log[l].indexed /\ log'[l].limit = log[l].limit
           /\ log'[l].cut = log[l].cut /\ log'[l].holes = log[l].holes /\ log'[l].uncommitted = log[l].uncommitted
           /\ LogOK(log'[l], run'[l], length[l])
<1> DEFINE e == [log[l] EXCEPT !.timer = FALSE, !.arrived = log[l].arrived \cup log[l].holes]
<1>1. log[l] \in LogEntry /\ LogOK(log[l], run[l], length[l])
  BY DEF Shape, LogShape
<1>2. log' = [log EXCEPT ![l] = Called(l, e)] /\ run' = [run EXCEPT ![l] = Started(l)]
  BY DEF HoleTimer, Index
<1>3. e \in LogEntry /\ e.scanned = log[l].scanned /\ e.indexed = log[l].indexed /\ e.limit = log[l].limit
      /\ e.cut = log[l].cut /\ e.holes = log[l].holes /\ e.uncommitted = log[l].uncommitted
  BY <1>1 DEF LogEntry
<1> HIDE DEF e
<1>4. LogOK(e, run[l], length[l])
  BY <1>1, <1>3 DEF LogOK
<1>5. LogOK(Called(l, e), Started(l), length[l])
  BY <1>4, CalledIs DEF Shape
<1>6. OnlyLog(l) /\ log'[l] = Called(l, e) /\ run'[l] = Started(l)
  BY <1>2, <1>5, OneLogIs DEF Shape, LogOK
<1> QED
  BY <1>3, <1>5, <1>6, CalledFields

LEMMA HoleTimerShape ==
    ASSUME Shape, NEW l \in Logs, HoleTimer(l)
    PROVE  Shape' /\ SameBlocks
<1>1. SceneOK(scene') /\ SameBlocks /\ length' = length
  BY DEF HoleTimer, Shape, SameBlocks
<1>2. DiskShape'
  BY <1>1, DiskStays DEF HoleTimer, Shape
<1>3. LogShape'
  BY <1>1, HoleTimerDoes, OneLogMoves DEF Shape
<1>4. TaskShape'
  BY <1>1, TasksStay DEF HoleTimer, Shape
<1> QED
  BY <1>1, <1>2, <1>3, <1>4 DEF Shape

\* Every log's entry and run may change.
LEMMA EachLogMoves ==
    ASSUME log' \in [Logs -> LogEntry], run' \in [Logs -> RunEntry], \A k \in Logs : LogOK(log'[k], run'[k], length'[k])
    PROVE  LogShape'
<1>1. (\A k \in Logs : LogOK(log[k], run[k], length[k]))' <=> \A k \in Logs : LogOK(log'[k], run'[k], length'[k])
  BY DEF LogOK, LogEntry, RunEntry
<1> QED
  BY <1>1 DEF LogShape, LogEntry, RunEntry

LEMMA UnlockDoes ==
    ASSUME Shape, Unlock
    PROVE  /\ log' \in [Logs -> LogEntry] /\ run' \in [Logs -> RunEntry]
           /\ \A l \in Logs :
                 /\ run'[l] = Started(l) /\ LogOK(log'[l], run'[l], length[l])
                 /\ log'[l].scanned = log[l].scanned /\ log'[l].indexed = log[l].indexed /\ log'[l].limit = log[l].limit
                 /\ log'[l].cut = log[l].cut /\ log'[l].holes = log[l].holes /\ log'[l].uncommitted = log[l].uncommitted
                 /\ log'[l].timer = log[l].timer
<1> DEFINE e(l) == [log[l] EXCEPT !.arrived = log[l].arrived \cup log[l].holes]
<1>1. log' = [l \in Logs |-> Called(l, e(l))] /\ run' = [l \in Logs |-> Started(l)]
  <2>1. log' = [l \in Logs |-> Called(l, [k \in Logs |-> e(k)][l])] /\ run' = [l \in Logs |-> Started(l)]
    BY DEF Unlock, IndexAll
  <2> HIDE DEF e
  <2>2. \A l \in Logs : [k \in Logs |-> e(k)][l] = e(l)
    OBVIOUS
  <2> QED
    BY <2>1, <2>2
<1>2. ASSUME NEW l \in Logs
      PROVE  /\ e(l) \in LogEntry /\ e(l).scanned = log[l].scanned /\ e(l).indexed = log[l].indexed /\ e(l).limit = log[l].limit
             /\ e(l).cut = log[l].cut /\ e(l).holes = log[l].holes /\ e(l).uncommitted = log[l].uncommitted
             /\ e(l).timer = log[l].timer /\ LogOK(log[l], run[l], length[l])
  <2>1. log[l] \in LogEntry /\ LogOK(log[l], run[l], length[l])
    BY DEF Shape, LogShape
  <2> QED
    BY <2>1 DEF LogEntry
<1> HIDE DEF e
<1>3. \A l \in Logs : log'[l] = Called(l, e(l)) /\ run'[l] = Started(l)
  BY <1>1
<1>4. \A l \in Logs : LogOK(e(l), run[l], length[l])
  BY <1>2 DEF LogOK
<1>5. \A l \in Logs : LogOK(log'[l], run'[l], length[l])
  BY <1>3, <1>4, CalledIs DEF Shape
<1>6. log' \in [Logs -> LogEntry] /\ run' \in [Logs -> RunEntry]
  <2>1. \A l \in Logs : log'[l] \in LogEntry /\ run'[l] \in RunEntry
    BY <1>5 DEF LogOK
  <2>2. log' = [l \in Logs |-> log'[l]] /\ run' = [l \in Logs |-> run'[l]]
    BY <1>1
  <2> QED
    BY <2>1, <2>2
<1> QED
  BY <1>2, <1>3, <1>5, <1>6, CalledFields

LEMMA UnlockShape ==
    ASSUME Shape, Unlock
    PROVE  Shape' /\ SameBlocks
<1>1. SceneOK(scene') /\ SameBlocks /\ length' = length
  <2>1. scene' = [scene EXCEPT !.locked = {}] /\ {} \in SUBSET Ids /\ length' = length
    BY DEF Unlock
  <2> QED
    BY <2>1, SceneMoves DEF Shape
<1>2. DiskShape'
  BY <1>1, DiskStays DEF Unlock, Shape
<1>3. LogShape'
  BY <1>1, UnlockDoes, EachLogMoves
<1>4. TaskShape'
  BY <1>1, TasksStay DEF Unlock, Shape
<1> QED
  BY <1>1, <1>2, <1>3, <1>4 DEF Shape

\* The task at the head of the queue is written, and its blocks are left to clear.
LEMMA ApplyDoes ==
    ASSUME Shape, NEW t \in ToSet(queue), NEW ix \in Ix, Apply(t, ix)
    PROVE  /\ t \in Task /\ t = queue[1] /\ 1 \in DOMAIN queue /\ queue' = Tail(queue) /\ queue \in Seq(Task)
           /\ queue' \in Seq(Task) /\ ToSet(queue') \in SUBSET ToSet(queue)
           /\ rows' = ix.rows /\ changes' = ix.changes /\ rows' \in Rows /\ changes' \in SUBSET Changed
           /\ after' = after \cup {[op |-> t.op, of |-> t.of, clears |-> ix.clears, wiped |-> ix.wiped,
                                    noted |-> ix.rows # rows]}
           /\ after' \in SUBSET Committed
           /\ SameBlocks /\ UNCHANGED <<scene, length, held, decided, hearing, reader>>
<1>1. queue \in Seq(Task) /\ after \in SUBSET Committed
  BY DEF Shape, TaskShape
<1>2. t = Head(queue) /\ queue' = Tail(queue) /\ rows' = ix.rows /\ changes' = ix.changes
  BY DEF Apply
<1>3. t \in Task /\ Tail(queue) \in Seq(Task) /\ ToSet(Tail(queue)) \in SUBSET ToSet(queue) /\ Head(queue) = queue[1]
      /\ 1 \in DOMAIN queue
  BY <1>1, TailIs
<1>4. ix.rows \in Rows /\ ix.changes \in SUBSET Changed /\ ix.clears \in SUBSET Ids /\ ix.wiped \in SUBSET Changed
  BY DEF Ix
<1>5. after' = after \cup {[op |-> t.op, of |-> t.of, clears |-> ix.clears, wiped |-> ix.wiped, noted |-> ix.rows # rows]}
  BY DEF Apply
<1>6. [op |-> t.op, of |-> t.of, clears |-> ix.clears, wiped |-> ix.wiped, noted |-> ix.rows # rows] \in Committed
  <2> DEFINE b == ix.rows # rows
  <2>1. b \in BOOLEAN
    OBVIOUS
  <2> HIDE DEF b
  <2>2. (t.op \in {"batch", "cut"} /\ t.of \in Logs) \/ (t.op \in {"moderate", "rights"} /\ t.of \in Nat)
    BY <1>3 DEF Task, BatchTask, CutTask, ModerateTask, RightsTask
  <2>3. [op |-> t.op, of |-> t.of, clears |-> ix.clears, wiped |-> ix.wiped, noted |-> b] \in Committed
    BY <1>4, <2>1, <2>2 DEF Committed
  <2> QED
    BY <2>3 DEF b
<1>7. SameBlocks /\ UNCHANGED <<scene, length, held, decided, hearing, reader>>
  BY DEF Apply, SameBlocks
<1> QED
  BY <1>1, <1>2, <1>3, <1>4, <1>5, <1>6, <1>7

\* Which leaves the shape to the rest of what the task does.
LEMMA ApplyShape ==
    ASSUME Shape, NEW t \in ToSet(queue), NEW ix \in Ix, Apply(t, ix), LogShape', memo' \in Memo,
           saved' \in [Logs -> [indexed : Places, cut : 1 .. Inf]], \A l \in Logs : saved'[l].indexed <= length[l]
    PROVE  Shape' /\ SameBlocks
<1>1. SameBlocks /\ UNCHANGED <<scene, length, held, decided, hearing, reader>>
  BY ApplyDoes
<1>2. DiskShape'
  <2>1. rows' \in Rows' /\ changes' \in SUBSET Changed'
    BY <1>1, ApplyDoes, BlocksStay
  <2>2. UNCHANGED <<limit, elimit, mods>>
    BY <1>1 DEF decided
  <2> QED
    BY <1>1, <2>1, <2>2 DEF DiskShape, Shape, SameBlocks, Moderations
<1>3. TaskShape'
  <2>1. queue' \in Seq(Task') /\ after' \in SUBSET Committed' /\ ToSet(queue') \in SUBSET ToSet(queue) /\ Written' = Written
    BY <1>1, ApplyDoes, BlocksStay
  <2> QED
    BY <1>1, <2>1 DEF TaskShape, Shape, Memo, Hearing
<1>4. SceneOK(scene')
  BY <1>1 DEF Shape
<1> QED
  BY <1>1, <1>2, <1>3, <1>4 DEF Shape

\* The head task, as a batch and as a cut.
WritesBatch(t) ==
    /\ t.op = "batch" /\ Apply(t, Effect(t))
    /\ saved' = [saved EXCEPT ![t.of] = [indexed |-> t.indexed, cut |-> log[t.of].cut]]
    /\ log' = [log EXCEPT ![t.of].indexed = t.indexed, ![t.of].uncommitted = FALSE]
    /\ memo' = [memo EXCEPT !.targets = Effect(t).targets] /\ UNCHANGED run
WritesCut(t) ==
    LET e == [log[t.of] EXCEPT !.indexed = Indexed(log[t.of]), !.cut = t.limit]
    IN  /\ t.op = "cut" /\ Apply(t, Effect(t)) /\ log' = [log EXCEPT ![t.of] = e]
        /\ saved' = [saved EXCEPT ![t.of] = [indexed |-> e.indexed, cut |-> e.cut]] /\ UNCHANGED <<run, memo>>

LEMMA CommitBatchDoes ==
    ASSUME Shape, NEW t \in ToSet(queue), WritesBatch(t)
    PROVE  /\ t \in BatchTask /\ OnlyLog(t.of)
           /\ log'[t.of].scanned = log[t.of].scanned /\ log'[t.of].indexed = t.indexed /\ log'[t.of].limit = log[t.of].limit
           /\ log'[t.of].cut = log[t.of].cut /\ log'[t.of].holes = log[t.of].holes /\ log'[t.of].uncommitted = FALSE
           /\ log'[t.of].timer = log[t.of].timer
           /\ LogOK(log'[t.of], run'[t.of], length[t.of])
<1>1. t \in BatchTask /\ t.of \in Logs /\ t.indexed \in Places /\ t.indexed <= length[t.of]
  <2>1. t \in Task
    BY DEF Shape, TaskShape, ToSet
  <2> QED
    BY <2>1 DEF WritesBatch, Shape, TaskShape, Task, BatchTask, CutTask, ModerateTask, RightsTask
<1> DEFINE l == t.of
           n == t.indexed
           e == [log[l] EXCEPT !.indexed = n, !.uncommitted = FALSE]
           r == run[l]
<1>2. l \in Logs /\ n \in Places /\ n <= length[l]
  BY <1>1
<1>3. LogShape /\ log[l] \in LogEntry /\ r \in RunEntry /\ LogOK(log[l], run[l], length[l])
  BY <1>2 DEF Shape, LogShape
<1>4. log' = [log EXCEPT ![l] = e] /\ run' = [run EXCEPT ![l] = r]
  BY <1>3 DEF WritesBatch, LogShape
<1> HIDE DEF n
<1>5. e \in LogEntry /\ e.scanned = log[l].scanned /\ e.indexed = n /\ e.limit = log[l].limit /\ e.cut = log[l].cut
      /\ e.holes = log[l].holes /\ e.uncommitted = FALSE /\ e.timer = log[l].timer
  BY <1>2, <1>3 DEF LogEntry
<1> HIDE DEF e
<1>6. LogOK(e, r, length[l])
  BY <1>2, <1>3, <1>5 DEF LogOK
<1> HIDE DEF r, l
<1>7. OnlyLog(l) /\ log'[l] = e /\ run'[l] = r
  BY <1>2, <1>3, <1>4, <1>5, OneLogIs
<1> QED
  BY <1>1, <1>5, <1>6, <1>7 DEF n, r, l

LEMMA CommitBatchShape ==
    ASSUME Shape, CommitBatch
    PROVE  Shape' /\ SameBlocks
<1>1. PICK t \in ToSet(queue) : WritesBatch(t)
  BY DEF CommitBatch, WritesBatch
<1>2. t \in Task /\ Effect(t) \in Ix
  BY EffectIs DEF Shape, TaskShape, ToSet
<1>3. t \in BatchTask /\ OnlyLog(t.of) /\ LogOK(log'[t.of], run'[t.of], length[t.of])
  BY <1>1, CommitBatchDoes
<1>4. length' = length /\ t.of \in Logs /\ t.indexed \in Places /\ t.indexed <= length[t.of]
  BY <1>1, <1>2, <1>3, ApplyDoes DEF WritesBatch, Shape, TaskShape, BatchTask
<1>5. LogShape'
  BY <1>3, <1>4, OneLogMoves DEF Shape
<1>6. memo' \in Memo
  <2> DEFINE T == Effect(t).targets
  <2>1. T \in SUBSET Ids
    BY <1>2 DEF Ix
  <2>2. memo' = [memo EXCEPT !.targets = T] /\ memo \in Memo
    BY <1>1 DEF WritesBatch, Shape, TaskShape
  <2> HIDE DEF T
  <2> QED
    BY <2>1, <2>2 DEF Memo
<1>7. saved' \in [Logs -> [indexed : Places, cut : 1 .. Inf]] /\ \A l \in Logs : saved'[l].indexed <= length[l]
  <2> DEFINE v == [indexed |-> t.indexed, cut |-> log[t.of].cut]
  <2>1. v \in [indexed : Places, cut : 1 .. Inf] /\ v.indexed = t.indexed
    BY <1>4 DEF Shape, LogShape, LogEntry
  <2>2. saved' = [saved EXCEPT ![t.of] = v] /\ saved \in [Logs -> [indexed : Places, cut : 1 .. Inf]]
        /\ \A l \in Logs : saved[l].indexed <= length[l]
    BY <1>1 DEF WritesBatch, Shape, DiskShape
  <2> HIDE DEF v
  <2> QED
    BY <1>4, <2>1, <2>2
<1> QED
  BY <1>1, <1>2, <1>5, <1>6, <1>7, ApplyShape DEF WritesBatch

LEMMA CommitCutDoes ==
    ASSUME Shape, NEW t \in ToSet(queue), WritesCut(t)
    PROVE  /\ t \in CutTask /\ OnlyLog(t.of) /\ Indexed(log[t.of]) \in Places
           /\ log'[t.of].scanned = log[t.of].scanned /\ log'[t.of].indexed = Indexed(log[t.of])
           /\ log'[t.of].limit = log[t.of].limit
           /\ log'[t.of].cut = t.limit /\ log'[t.of].holes = log[t.of].holes /\ log'[t.of].uncommitted = log[t.of].uncommitted
           /\ log'[t.of].timer = log[t.of].timer
           /\ LogOK(log'[t.of], run'[t.of], length[t.of])
<1>1. t \in CutTask /\ t.of \in Logs /\ t.limit \in Places
  <2>1. t \in Task
    BY DEF Shape, TaskShape, ToSet
  <2> QED
    BY <2>1 DEF WritesCut, Task, BatchTask, CutTask, ModerateTask, RightsTask
<1> DEFINE l == t.of
           n == Indexed(log[l])
           c == t.limit
           e == [log[l] EXCEPT !.indexed = n, !.cut = c]
           r == run[l]
<1>2. l \in Logs /\ c \in Places /\ c \in 1 .. Inf
  BY <1>1, PlacesAre
<1>3. LogShape /\ log[l] \in LogEntry /\ r \in RunEntry /\ LogOK(log[l], run[l], length[l]) /\ length[l] \in Places
  BY <1>2 DEF Shape, LogShape, DiskShape
<1>4. n \in Places /\ n <= length[l] /\ n <= log[l].scanned
  <2>1. n \in Places /\ n <= log[l].scanned
    BY <1>3, IndexedIs DEF LogOK
  <2> QED
    BY <1>3, <2>1, PlacesAre DEF LogOK, LogEntry
<1>5. log' = [log EXCEPT ![l] = e] /\ run' = [run EXCEPT ![l] = r]
  BY <1>3 DEF WritesCut, LogShape
<1> HIDE DEF n, c
<1>6. e \in LogEntry /\ e.scanned = log[l].scanned /\ e.indexed = n /\ e.limit = log[l].limit /\ e.cut = c
      /\ e.holes = log[l].holes /\ e.uncommitted = log[l].uncommitted /\ e.timer = log[l].timer
  BY <1>2, <1>3, <1>4 DEF LogEntry
<1> HIDE DEF e
<1>7. LogOK(e, r, length[l])
  BY <1>3, <1>4, <1>6 DEF LogOK
<1> HIDE DEF r, l
<1>8. OnlyLog(l) /\ log'[l] = e /\ run'[l] = r
  BY <1>2, <1>3, <1>5, <1>6, OneLogIs
<1> QED
  BY <1>1, <1>4, <1>6, <1>7, <1>8 DEF n, c, r, l

LEMMA CommitCutShape ==
    ASSUME Shape, CommitCut
    PROVE  Shape' /\ SameBlocks
<1>1. PICK t \in ToSet(queue) : WritesCut(t)
  BY DEF CommitCut, WritesCut
<1>2. t \in Task /\ Effect(t) \in Ix
  BY EffectIs DEF Shape, TaskShape, ToSet
<1>3. /\ t \in CutTask /\ OnlyLog(t.of) /\ Indexed(log[t.of]) \in Places /\ LogOK(log'[t.of], run'[t.of], length[t.of])
      /\ log'[t.of].indexed = Indexed(log[t.of]) /\ log'[t.of].cut = t.limit
  BY <1>1, CommitCutDoes
<1>4. length' = length /\ t.of \in Logs /\ t.limit \in 1 .. Inf
  BY <1>1, <1>2, <1>3, ApplyDoes, PlacesAre DEF WritesCut, CutTask
<1>5. LogShape'
  BY <1>3, <1>4, OneLogMoves DEF Shape
<1>6. memo' \in Memo
  BY <1>1 DEF WritesCut, Shape, TaskShape
<1>7. saved' \in [Logs -> [indexed : Places, cut : 1 .. Inf]] /\ \A l \in Logs : saved'[l].indexed <= length[l]
  <2> DEFINE e == [log[t.of] EXCEPT !.indexed = Indexed(log[t.of]), !.cut = t.limit]
             v == [indexed |-> e.indexed, cut |-> e.cut]
  <2>1. saved' = [saved EXCEPT ![t.of] = v]
    BY <1>1 DEF WritesCut
  <2>2. e.indexed = Indexed(log[t.of]) /\ e.cut = t.limit
    BY <1>4 DEF Shape, LogShape, LogEntry
  <2>3. Indexed(log[t.of]) <= length[t.of]
    BY <1>3, <1>4 DEF LogOK
  <2> HIDE DEF e
  <2>4. v \in [indexed : Places, cut : 1 .. Inf] /\ v.indexed = Indexed(log[t.of])
    BY <1>3, <1>4, <2>2
  <2>5. saved \in [Logs -> [indexed : Places, cut : 1 .. Inf]] /\ \A l \in Logs : saved[l].indexed <= length[l]
    BY DEF Shape, DiskShape
  <2> HIDE DEF v
  <2> QED
    BY <1>4, <2>1, <2>3, <2>4, <2>5
<1> QED
  BY <1>1, <1>2, <1>5, <1>6, <1>7, ApplyShape DEF WritesCut

\* A log whose holes became fewer, if they did: then it has a run.
Looked(l) ==
    /\ log'[l].scanned = log[l].scanned /\ log'[l].indexed = log[l].indexed /\ log'[l].limit = log[l].limit
    /\ log'[l].cut = log[l].cut /\ log'[l].uncommitted = log[l].uncommitted /\ log'[l].timer = log[l].timer
    /\ log'[l].holes \in SUBSET log[l].holes

LEMMA HolesDone ==
    ASSUME Shape, NEW l \in Logs, NEW G, log'[l] = Called(l, [log[l] EXCEPT !.holes = @ \ G])
    PROVE  Looked(l) /\ LogOK(log'[l], Started(l), length[l]) /\ log'[l].holes = log[l].holes \ G
<1> DEFINE H == log[l].holes \ G
           e == [log[l] EXCEPT !.holes = H]
<1>1. log[l] \in LogEntry /\ LogOK(log[l], run[l], length[l])
  BY DEF Shape, LogShape
<1>2. log'[l] = Called(l, e)
  OBVIOUS
<1>3. H \in SUBSET log[l].holes /\ H \in SUBSET Spots
  BY <1>1 DEF LogEntry
<1> HIDE DEF H
<1>4. e \in LogEntry /\ e.scanned = log[l].scanned /\ e.indexed = log[l].indexed /\ e.limit = log[l].limit
      /\ e.cut = log[l].cut /\ e.uncommitted = log[l].uncommitted /\ e.timer = log[l].timer /\ e.holes = H
  BY <1>1, <1>3 DEF LogEntry
<1> HIDE DEF e
<1>5. LogOK(e, run[l], length[l])
  BY <1>1, <1>3, <1>4 DEF LogOK
<1>6. LogOK(log'[l], Started(l), length[l])
  BY <1>2, <1>5, CalledIs DEF Shape
<1>7. Looked(l) /\ log'[l].holes = H
  BY <1>2, <1>3, <1>4, CalledFields DEF Looked
<1> QED
  BY <1>6, <1>7 DEF H

TakenDown(t, l) == {s \in log[l].holes : <<l, s>> \in ToSet(t.blocks) /\ t.mods[<<l, s>>] = "removed"}
WritesModeration(t) ==
    /\ t.op = "moderate" /\ Apply(t, Effect(t))
    /\ memo' = [memo EXCEPT !.applied = [i \in Ids |-> IF i \in ToSet(t.blocks) THEN t.mods[i] ELSE memo.applied[i]]]
    /\ log' = [l \in Logs |-> IF TakenDown(t, l) = {} THEN log[l]
                              ELSE Called(l, [log[l] EXCEPT !.holes = @ \ TakenDown(t, l)])]
    /\ run' = [l \in Logs |-> IF TakenDown(t, l) = {} THEN run[l] ELSE Started(l)]
    /\ UNCHANGED saved

LEMMA CommitModerationDoes ==
    ASSUME Shape, NEW t \in ToSet(queue), WritesModeration(t)
    PROVE  /\ t \in ModerateTask /\ log' \in [Logs -> LogEntry] /\ run' \in [Logs -> RunEntry]
           /\ \A l \in Logs : /\ Looked(l) /\ LogOK(log'[l], run'[l], length[l])
                              /\ log'[l].holes = log[l].holes \ TakenDown(t, l)
                              /\ IF TakenDown(t, l) = {} THEN log'[l] = log[l] /\ run'[l] = run[l] ELSE run'[l] = Started(l)
<1>1. t \in ModerateTask
  <2>1. t \in Task
    BY DEF Shape, TaskShape, ToSet
  <2> QED
    BY <2>1 DEF WritesModeration, Task, BatchTask, CutTask, ModerateTask, RightsTask
<1>2. ASSUME NEW l \in Logs
      PROVE  /\ Looked(l) /\ LogOK(log'[l], run'[l], length[l]) /\ log'[l].holes = log[l].holes \ TakenDown(t, l)
             /\ IF TakenDown(t, l) = {} THEN log'[l] = log[l] /\ run'[l] = run[l] ELSE run'[l] = Started(l)
  <2> DEFINE G == TakenDown(t, l)
  <2>1. CASE G = {}
    <3>1. log'[l] = log[l] /\ run'[l] = run[l]
      BY <2>1 DEF WritesModeration
    <3>2. LogOK(log[l], run[l], length[l]) /\ log[l] \in LogEntry
      BY DEF Shape, LogShape
    <3> HIDE DEF G
    <3>3. log[l].holes \ G = log[l].holes
      BY <2>1
    <3> QED
      BY <2>1, <3>1, <3>2, <3>3 DEF Looked, G
  <2>2. CASE G # {}
    <3>1. log'[l] = Called(l, [log[l] EXCEPT !.holes = @ \ G]) /\ run'[l] = Started(l)
      BY <2>2 DEF WritesModeration
    <3> HIDE DEF G
    <3>2. Looked(l) /\ LogOK(log'[l], Started(l), length[l]) /\ log'[l].holes = log[l].holes \ G
      BY <3>1, HolesDone
    <3> QED
      BY <2>2, <3>1, <3>2 DEF G
  <2> QED
    BY <2>1, <2>2
<1>3. log' \in [Logs -> LogEntry] /\ run' \in [Logs -> RunEntry]
  <2>1. \A l \in Logs : log'[l] \in LogEntry /\ run'[l] \in RunEntry
    BY <1>2 DEF LogOK
  <2>2. log' = [l \in Logs |-> log'[l]] /\ run' = [l \in Logs |-> run'[l]]
    BY DEF WritesModeration
  <2> QED
    BY <2>1, <2>2
<1> QED
  BY <1>1, <1>2, <1>3

LEMMA CommitModerationIs ==
    ASSUME CommitModeration
    PROVE  \E t \in ToSet(queue) : WritesModeration(t)
<1>1. PICK t \in ToSet(queue) :
      LET gone(l) == {s \in log[l].holes : <<l, s>> \in ToSet(t.blocks) /\ t.mods[<<l, s>>] = "removed"}
      IN  /\ t.op = "moderate"
          /\ Apply(t, Effect(t))
          /\ memo' = [memo EXCEPT !.applied = [i \in Ids |-> IF i \in ToSet(t.blocks) THEN t.mods[i] ELSE @[i]]]
          /\ log' = [l \in Logs |-> IF gone(l) = {} THEN log[l]
                                    ELSE Called(l, [log[l] EXCEPT !.holes = @ \ gone(l)])]
          /\ run' = [l \in Logs |-> IF gone(l) = {} THEN run[l] ELSE Started(l)]
          /\ UNCHANGED saved
  BY DEF CommitModeration
<1>2. WritesModeration(t)
  BY <1>1 DEF WritesModeration, TakenDown
<1> QED
  BY <1>2

LEMMA CommitModerationShape ==
    ASSUME Shape, CommitModeration
    PROVE  Shape' /\ SameBlocks
<1>1. PICK t \in ToSet(queue) : WritesModeration(t)
  BY CommitModerationIs
<1>2. t \in Task /\ Effect(t) \in Ix /\ t \in ModerateTask
  BY <1>1, EffectIs, CommitModerationDoes DEF Shape, TaskShape, ToSet
<1>3. Apply(t, Effect(t)) /\ length' = length /\ saved' = saved
  BY <1>1, <1>2, ApplyDoes DEF WritesModeration
<1>4. LogShape'
  BY <1>1, <1>3, CommitModerationDoes, EachLogMoves
<1>5. memo' \in Memo
  <2> DEFINE A == [i \in Ids |-> IF i \in ToSet(t.blocks) THEN t.mods[i] ELSE memo.applied[i]]
  <2>1. A \in [Ids -> Moderations]
    BY <1>2 DEF Shape, TaskShape, Memo, ModerateTask
  <2>2. memo' = [memo EXCEPT !.applied = A] /\ memo \in Memo
    BY <1>1 DEF WritesModeration, Shape, TaskShape
  <2> HIDE DEF A
  <2> QED
    BY <2>1, <2>2 DEF Memo
<1> QED
  BY <1>2, <1>3, <1>4, <1>5, ApplyShape DEF Shape, DiskShape

Judged(t) == [t EXCEPT !.blocks = SetToSeq({Target(c) : c \in changes})]
WritesRights(t) == t.op = "rights" /\ Apply(t, Effect(Judged(t))) /\ UNCHANGED <<saved, log, run, memo>>

\* The records that a task of edit rights judges again.
LEMMA JudgedIs ==
    ASSUME Shape, NEW t \in ToSet(queue), t.op = "rights"
    PROVE  /\ t \in RightsTask /\ Judged(t) \in RightsTask
           /\ ToSet(Judged(t).blocks) = {Target(c) : c \in changes}
<1> DEFINE S == {Target(c) : c \in changes}
           b == SetToSeq(S)
<1>1. t \in RightsTask
  <2>1. t \in Task
    BY DEF Shape, TaskShape, ToSet
  <2> QED
    BY <2>1 DEF Task, BatchTask, CutTask, ModerateTask, RightsTask
<1>2. S \in SUBSET Ids /\ IsFiniteSet(S)
  <2>1. changes \in SUBSET Changed /\ IsFiniteSet(Ids)
    BY IdsFinite DEF Shape, DiskShape
  <2>2. \A c \in Changed : Target(c) \in Ids
    BY BlockIs DEF Changed, Shape, Target
  <2>3. S \in SUBSET Ids
    BY <2>1, <2>2
  <2> QED
    BY <2>1, <2>3, FS_Subset
<1> HIDE DEF S
<1>3. b \in Seq(S) /\ ToSet(b) = S
  BY <1>2, InSomeOrder
<1>4. b \in Seq(Ids)
  BY <1>2, <1>3
<1>5. Judged(t) = [t EXCEPT !.blocks = b]
  BY DEF Judged, S
<1> HIDE DEF b
<1>6. Judged(t) \in RightsTask /\ Judged(t).blocks = b
  BY <1>1, <1>4, <1>5 DEF RightsTask
<1> QED
  BY <1>1, <1>3, <1>6 DEF S

LEMMA CommitRightsShape ==
    ASSUME Shape, CommitRights
    PROVE  Shape' /\ SameBlocks
<1>1. PICK t \in ToSet(queue) : WritesRights(t)
  BY DEF CommitRights, WritesRights, Judged
<1>2. Judged(t) \in Task
  BY <1>1, JudgedIs DEF WritesRights, Task
<1> DEFINE ix == Effect(Judged(t))
<1>3. ix \in Ix /\ Apply(t, ix)
  BY <1>1, <1>2, EffectIs DEF WritesRights
<1> HIDE DEF ix
<1>4. length' = length /\ UNCHANGED <<saved, log, run, memo>>
  BY <1>1, <1>3, ApplyDoes DEF WritesRights
<1>5. LogShape'
  BY <1>4, LogsStay DEF Shape
<1>6. memo' \in Memo
  BY <1>4 DEF Shape, TaskShape
<1> QED
  BY <1>3, <1>4, <1>5, <1>6, ApplyShape DEF Shape, DiskShape

LEMMA ClearDoes ==
    ASSUME Shape, NEW a \in after, NEW i \in a.clears, Clear(a, i)
    PROVE  /\ i \in Ids /\ held' = [held EXCEPT ![i[1]] = held[i[1]] \ {i[2]}] /\ held' \in [Logs -> SUBSET Spots]
           /\ [a EXCEPT !.clears = a.clears \ {i}] \in Committed
           /\ after' = (after \ {a}) \cup {[a EXCEPT !.clears = a.clears \ {i}]} /\ after' \in SUBSET Committed
           /\ SameBlocks /\ UNCHANGED <<scene, length, disk, decided, log, run, queue, hearing, memo, reader>>
<1>1. a \in Committed /\ after \in SUBSET Committed
  BY DEF Shape, TaskShape
<1>2. a.clears \in SUBSET Ids
  BY <1>1 DEF Committed
<1>3. i \in Ids /\ i[1] \in Logs
  BY <1>2 DEF Ids
<1>4. held' = [held EXCEPT ![i[1]] = held[i[1]] \ {i[2]}] /\ held' \in [Logs -> SUBSET Spots]
  <2>1. held \in [Logs -> SUBSET Spots] /\ held' = [held EXCEPT ![i[1]] = @ \ {i[2]}]
    BY DEF Shape, DiskShape, Clear
  <2> DEFINE H == held[i[1]] \ {i[2]}
  <2>2. H \in SUBSET Spots /\ held' = [held EXCEPT ![i[1]] = H]
    BY <1>3, <2>1
  <2> HIDE DEF H
  <2>3. held' \in [Logs -> SUBSET Spots]
    BY <1>3, <2>1, <2>2
  <2> QED
    BY <2>2, <2>3 DEF H
<1>5. [a EXCEPT !.clears = a.clears \ {i}] \in Committed
  <2> DEFINE C == a.clears \ {i}
  <2>1. C \in SUBSET Ids
    BY <1>2
  <2> HIDE DEF C
  <2>2. [a EXCEPT !.clears = C] \in Committed
    BY <1>1, <2>1 DEF Committed
  <2> QED
    BY <2>2 DEF C
<1>6. after' = (after \ {a}) \cup {[a EXCEPT !.clears = a.clears \ {i}]} /\ SameBlocks
      /\ UNCHANGED <<scene, length, disk, decided, log, run, queue, hearing, memo, reader>>
  BY DEF Clear, SameBlocks
<1> QED
  BY <1>1, <1>3, <1>4, <1>5, <1>6

LEMMA ClearShape ==
    ASSUME Shape, NEW a \in after, NEW i \in a.clears, Clear(a, i)
    PROVE  Shape' /\ SameBlocks
<1>1. /\ held' \in [Logs -> SUBSET Spots] /\ after' \in SUBSET Committed /\ SameBlocks
      /\ UNCHANGED <<scene, length, disk, decided, log, run, queue, hearing, memo, reader>>
  BY ClearDoes
<1>2. DiskShape'
  BY <1>1, BlocksStay DEF DiskShape, Shape, SameBlocks, disk, decided, Moderations
<1>3. LogShape'
  BY <1>1, LogsStay DEF Shape
<1>4. TaskShape'
  BY <1>1, BlocksStay DEF TaskShape, Shape, Memo, Hearing
<1> QED
  BY <1>1, <1>2, <1>3, <1>4 DEF Shape

\* A committed task that is finished leaves what is on disk alone.
LEMMA FinishDoes ==
    ASSUME Shape, NEW a \in after, Finish(a)
    PROVE  /\ a.clears = {} /\ a \in Committed /\ after' = after \ {a} /\ after' \in SUBSET Committed /\ SameBlocks
           /\ reader'.pc = reader.pc /\ reader'.answer = reader.answer
           /\ reader'.fresh = (reader.fresh /\ ~a.noted)
           /\ reader' \in [pc : {"idle", "read"}, answer : SUBSET Written, fresh : BOOLEAN]
           /\ UNCHANGED <<scene, length, disk, decided, queue, memo>>
<1>1. after \in SUBSET Committed /\ reader \in [pc : {"idle", "read"}, answer : SUBSET Written, fresh : BOOLEAN]
  BY DEF Shape, TaskShape
<1>2. a.noted \in BOOLEAN
  BY <1>1 DEF Committed
<1>3. reader' = IF a.noted THEN [reader EXCEPT !.fresh = FALSE] ELSE reader
  BY DEF Finish
<1>4. a.clears = {} /\ after' = after \ {a} /\ SameBlocks /\ UNCHANGED <<scene, length, disk, decided, queue, memo>>
  BY DEF Finish, SameBlocks
<1>5. CASE a.noted
  <2>1. reader' = [reader EXCEPT !.fresh = FALSE]
    BY <1>3, <1>5
  <2>2. reader'.pc = reader.pc /\ reader'.answer = reader.answer /\ reader'.fresh = FALSE
        /\ reader' \in [pc : {"idle", "read"}, answer : SUBSET Written, fresh : BOOLEAN]
    BY <1>1, <2>1
  <2> QED
    BY <1>1, <1>4, <1>5, <2>2
<1>6. CASE ~a.noted
  <2>1. reader' = reader
    BY <1>3, <1>6
  <2> QED
    BY <1>1, <1>4, <1>6, <2>1
<1> QED
  BY <1>2, <1>5, <1>6

LEMMA FinishShape ==
    ASSUME Shape, NEW a \in after, Finish(a), LogShape', held' \in [Logs -> SUBSET Spots], hearing' \in SUBSET Hearing
    PROVE  Shape' /\ SameBlocks
<1>1. /\ after' \in SUBSET Committed /\ SameBlocks /\ reader' \in [pc : {"idle", "read"}, answer : SUBSET Written, fresh : BOOLEAN]
      /\ UNCHANGED <<scene, length, disk, decided, queue, memo>>
  BY FinishDoes
<1>2. DiskShape'
  BY <1>1, BlocksStay DEF DiskShape, Shape, SameBlocks, disk, decided, Moderations
<1>3. TaskShape'
  BY <1>1, BlocksStay DEF TaskShape, Shape, Memo, Hearing
<1> QED
  BY <1>1, <1>2, <1>3 DEF Shape

WipedHoles(a, l) == {s \in log[l].holes : \E c \in a.wiped : Target(c) = <<l, s>> /\ Author[c[1]] = Author[l]}

LEMMA FinishBatchDoes ==
    ASSUME Shape, NEW a \in after, FinishBatch(a)
    PROVE  /\ a.op = "batch" /\ Finish(a) /\ log' \in [Logs -> LogEntry] /\ run' \in [Logs -> RunEntry]
           /\ held' = held /\ hearing' = hearing
           /\ \A l \in Logs : /\ Looked(l) /\ LogOK(log'[l], run'[l], length[l])
                              /\ log'[l].holes = log[l].holes \ WipedHoles(a, l)
                              /\ WipedHoles(a, l) = {} => log'[l] = log[l]
                              /\ run'[l] = IF l = a.of THEN [Idle EXCEPT !.pc = "take"]
                                           ELSE IF WipedHoles(a, l) # {} THEN Started(l) ELSE run[l]
<1>1. /\ a.op = "batch" /\ Finish(a) /\ held' = held /\ hearing' = hearing
      /\ log' = [l \in Logs |-> IF WipedHoles(a, l) = {} THEN log[l]
                                ELSE Called(l, [log[l] EXCEPT !.holes = @ \ WipedHoles(a, l)])]
      /\ run' = [l \in Logs |-> IF l = a.of THEN [Idle EXCEPT !.pc = "take"]
                                ELSE IF WipedHoles(a, l) # {} THEN Started(l) ELSE run[l]]
  BY DEF FinishBatch, WipedHoles
<1>2. ASSUME NEW l \in Logs
      PROVE  /\ Looked(l) /\ LogOK(log'[l], run'[l], length[l]) /\ log'[l].holes = log[l].holes \ WipedHoles(a, l)
             /\ WipedHoles(a, l) = {} => log'[l] = log[l]
             /\ run'[l] = IF l = a.of THEN [Idle EXCEPT !.pc = "take"]
                          ELSE IF WipedHoles(a, l) # {} THEN Started(l) ELSE run[l]
  <2> DEFINE G == WipedHoles(a, l)
             r == [Idle EXCEPT !.pc = "take"]
  <2>1. run'[l] = IF l = a.of THEN r ELSE IF G # {} THEN Started(l) ELSE run[l]
    BY <1>1
  <2>2. r \in RunEntry /\ r.pc = "take"
    BY IdleIs
  <2>3. Looked(l) /\ log'[l].holes = log[l].holes \ G /\ (G = {} => log'[l] = log[l])
        /\ (LogOK(log'[l], run[l], length[l]) \/ LogOK(log'[l], Started(l), length[l]))
        /\ (G = {} => LogOK(log'[l], run[l], length[l])) /\ (G # {} => LogOK(log'[l], Started(l), length[l]))
    <3>1. CASE G = {}
      <4>1. log'[l] = log[l]
        BY <1>1, <3>1
      <4>2. LogOK(log[l], run[l], length[l]) /\ log[l] \in LogEntry
        BY DEF Shape, LogShape
      <4> HIDE DEF G
      <4>3. log[l].holes \ G = log[l].holes
        BY <3>1
      <4> QED
        BY <3>1, <4>1, <4>2, <4>3 DEF Looked
    <3>2. CASE G # {}
      <4>1. log'[l] = Called(l, [log[l] EXCEPT !.holes = @ \ G])
        BY <1>1, <3>2
      <4> HIDE DEF G
      <4>2. Looked(l) /\ LogOK(log'[l], Started(l), length[l]) /\ log'[l].holes = log[l].holes \ G
        BY <4>1, HolesDone
      <4> QED
        BY <3>2, <4>2
    <3> QED
      BY <3>1, <3>2
  <2> HIDE DEF r, G
  <2>4. LogOK(log'[l], r, length[l])
    BY <2>2, <2>3 DEF LogOK
  <2>5. LogOK(log'[l], run'[l], length[l])
    BY <2>1, <2>3, <2>4
  <2> QED
    BY <2>1, <2>3, <2>5 DEF r, G
<1>3. log' \in [Logs -> LogEntry] /\ run' \in [Logs -> RunEntry]
  <2>1. \A l \in Logs : log'[l] \in LogEntry /\ run'[l] \in RunEntry
    BY <1>2 DEF LogOK
  <2>2. log' = [l \in Logs |-> log'[l]] /\ run' = [l \in Logs |-> run'[l]]
    BY <1>1
  <2> QED
    BY <2>1, <2>2
<1> QED
  BY <1>1, <1>2, <1>3

LEMMA FinishBatchShape ==
    ASSUME Shape, NEW a \in after, FinishBatch(a)
    PROVE  Shape' /\ SameBlocks
<1>1. Finish(a) /\ held' = held /\ hearing' = hearing
  BY FinishBatchDoes
<1>2. length' = length
  BY <1>1, FinishDoes
<1>3. LogShape'
  BY <1>2, FinishBatchDoes, EachLogMoves
<1> QED
  BY <1>1, <1>3, FinishShape DEF Shape, DiskShape, TaskShape

LEMMA FinishCutShape ==
    ASSUME Shape, NEW a \in after, FinishCut(a)
    PROVE  Shape' /\ SameBlocks
<1>1. Finish(a) /\ UNCHANGED <<log, run, hearing>> /\ held' = [held EXCEPT ![a.of] = {s \in @ : s < log[a.of].limit}]
      /\ a.op = "cut"
  BY DEF FinishCut
<1>2. length' = length /\ a \in Committed
  BY <1>1, FinishDoes
<1>3. LogShape'
  BY <1>1, <1>2, LogsStay DEF Shape
<1>4. held' \in [Logs -> SUBSET Spots]
  <2> DEFINE H == {s \in held[a.of] : s < log[a.of].limit}
  <2>1. held \in [Logs -> SUBSET Spots] /\ a.of \in Logs
    BY <1>1, <1>2 DEF Shape, DiskShape, Committed
  <2>2. H \in SUBSET Spots /\ held' = [held EXCEPT ![a.of] = H]
    BY <1>1, <2>1
  <2> HIDE DEF H
  <2> QED
    BY <2>1, <2>2
<1> QED
  BY <1>1, <1>3, <1>4, FinishShape DEF Shape, TaskShape

LEMMA FinishDecisionShape ==
    ASSUME Shape, NEW a \in after, FinishDecision(a)
    PROVE  Shape' /\ SameBlocks
<1>1. Finish(a) /\ UNCHANGED <<held, log, run>>
      /\ hearing' = {IF h.n = a.of THEN [h EXCEPT !.stage = "rights"] ELSE h :
                      h \in {h \in hearing : h.n # a.of \/ a.op = "moderate"}}
  BY DEF FinishDecision
<1>2. length' = length
  BY <1>1, FinishDoes
<1>3. LogShape'
  BY <1>1, <1>2, LogsStay DEF Shape
<1>4. hearing' \in SUBSET Hearing
  <2>1. ASSUME NEW h \in hearing PROVE h \in Hearing /\ [h EXCEPT !.stage = "rights"] \in Hearing
    BY DEF Shape, TaskShape, Hearing
  <2> QED
    BY <1>1, <2>1
<1> QED
  BY <1>1, <1>3, <1>4, FinishShape DEF Shape, DiskShape

LEMMA DecideShape ==
    ASSUME Shape, NEW d \in scene.decide, Decide(d)
    PROVE  Shape' /\ SameBlocks
<1>1. scene.moves \in Nat /\ scene.moves > 0 /\ scene' = [scene EXCEPT !.moves = scene.moves - 1] /\ d \in Decision
  BY DEF Shape, SceneOK, Scene, Decide
<1>2. SceneOK(scene') /\ SameBlocks
  <2> DEFINE m == scene.moves - 1
  <2>1. m \in Nat /\ scene' = [scene EXCEPT !.moves = m]
    BY <1>1
  <2> HIDE DEF m
  <2>2. 0 \in Nat /\ {} \in SUBSET Ids
    OBVIOUS
  <2> QED
    BY <2>1, <2>2, SceneMoves DEF Shape
<1>3. limit' \in [Logs -> 1 .. Inf] /\ elimit' \in [Logs -> Nat] /\ mods' \in [Ids -> Moderations]
  <2>1. limit \in [Logs -> 1 .. Inf] /\ elimit \in [Logs -> Nat] /\ mods \in [Ids -> Moderations]
    BY DEF Shape, DiskShape
  <2>2. CASE /\ d.op = "moderate" /\ mods' = [mods EXCEPT ![d.on] = d.as] /\ UNCHANGED <<limit, elimit>>
    <3>1. d.as \in Moderations
      BY <1>1, <2>2 DEF Decision, Moderations
    <3> QED
      BY <2>1, <2>2, <3>1
  <2>3. CASE /\ d.op = "cut" /\ limit' = [limit EXCEPT ![d.on] = d.as] /\ UNCHANGED <<mods, elimit>>
    <3>1. d.as \in 1 .. Inf
      BY <1>1, <2>3, PlacesAre DEF Decision
    <3> QED
      BY <2>1, <2>3, <3>1
  <2>4. CASE /\ d.op = "rights" /\ elimit' = [elimit EXCEPT ![d.on] = d.as] /\ UNCHANGED <<mods, limit>>
    <3>1. d.as \in Nat
      BY <1>1, <2>4 DEF Decision
    <3> QED
      BY <2>1, <2>4, <3>1
  <2> QED
    BY <2>2, <2>3, <2>4 DEF Decide
<1>4. UNCHANGED <<length, held, disk, log, run, queue, after, memo, reader>>
  BY DEF Decide
<1>5. DiskShape'
  BY <1>2, <1>3, <1>4, BlocksStay DEF DiskShape, Shape, SameBlocks, disk, Moderations
<1>6. LogShape'
  BY <1>4, LogsStay DEF Shape
<1>7. hearing' \in SUBSET Hearing
  <2> DEFINE T == IF d.op = "moderate" THEN {d.on} ELSE {}
             h == [n |-> scene.moves, stage |-> "moderate", touched |-> T]
  <2>1. T \in SUBSET Ids
    BY <1>1 DEF Decision
  <2>2. hearing' = hearing \cup {h} /\ hearing \in SUBSET Hearing
    BY DEF Decide, Shape, TaskShape
  <2> HIDE DEF T
  <2>3. h \in Hearing
    BY <1>1, <2>1 DEF Hearing
  <2> QED
    BY <2>2, <2>3
<1>8. TaskShape'
  BY <1>2, <1>4, <1>7, BlocksStay DEF TaskShape, Shape, Memo, Hearing
<1> QED
  BY <1>2, <1>5, <1>6, <1>8 DEF Shape

Upto(l) == IF log[l].scanned > log[l].indexed THEN log[l].scanned ELSE log[l].indexed
CutOf(l) == [op |-> "cut", of |-> l, limit |-> limit[l], blocks |-> [k \in 1 .. Upto(l) - limit[l] |-> <<l, limit[l] + k - 1>>]]

\* The blocks a cut takes back are those past it.
LEMMA CutOfIs ==
    ASSUME Shape, NEW l \in Logs, limit[l] # Inf
    PROVE  /\ CutOf(l) \in CutTask /\ CutOf(l).of = l /\ CutOf(l).limit = limit[l] /\ limit[l] \in Places
           /\ \A x \in ToSet(CutOf(l).blocks) : x[1] = l /\ x[2] \in Spots /\ x[2] >= limit[l]
           /\ \A s \in Spots : s >= limit[l] /\ (s < log[l].scanned \/ s < log[l].indexed) => <<l, s>> \in ToSet(CutOf(l).blocks)
<1> DEFINE c == limit[l]
           u == Upto(l)
           n == u - c
           b == [k \in 1 .. n |-> <<l, c + k - 1>>]
<1>1. c \in Places
  <2>1. c \in 1 .. Inf /\ c # Inf
    BY DEF Shape, DiskShape
  <2> QED
    BY <2>1, PlacesAre DEF Places
<1>2. log[l].scanned \in Places /\ log[l].indexed \in Places
  BY DEF Shape, LogShape, LogEntry
<1>3. u \in Places /\ (u = log[l].scanned \/ u = log[l].indexed) /\ log[l].scanned <= u /\ log[l].indexed <= u
  BY <1>2, PlacesAre DEF Upto
<1>4. CutOf(l) = [op |-> "cut", of |-> l, limit |-> c, blocks |-> b]
  BY DEF CutOf
<1> HIDE DEF c, u
<1>5. c \in Nat /\ u \in Nat /\ c >= 1 /\ u <= MaxLen /\ MaxLen \in Nat /\ n \in Int
  BY <1>1, <1>3, PlacesAre
<1>6. \A k \in 1 .. n : c + k - 1 \in Spots /\ c + k - 1 >= c
  BY <1>5 DEF Spots
<1>7. b \in Seq(Ids)
  <2>1. \A k \in 1 .. n : <<l, c + k - 1>> \in Ids
    BY <1>6 DEF Ids, Spots
  <2>2. CASE n \in Nat
    BY <2>1, <2>2
  <2>3. CASE n \notin Nat
    <3>1. 1 .. n = {} /\ 1 .. 0 = {}
      BY <1>5, <2>3
    <3>2. b = << >>
      BY <3>1
    <3> HIDE DEF b
    <3> QED
      BY <3>2
  <2> QED
    BY <2>2, <2>3
<1>8. \A x \in ToSet(b) : x[1] = l /\ x[2] \in Spots /\ x[2] >= c
  BY <1>6 DEF ToSet
<1>9. ASSUME NEW s \in Spots, s >= c, s < u PROVE <<l, s>> \in ToSet(b)
  <2>1. s \in Nat
    BY PlacesAre
  <2>2. s - c + 1 \in 1 .. n /\ c + (s - c + 1) - 1 = s
    BY <1>5, <1>9, <2>1
  <2>3. b[s - c + 1] = <<l, s>> /\ s - c + 1 \in DOMAIN b
    BY <2>2
  <2> QED
    BY <2>3 DEF ToSet
<1> HIDE DEF b, n
<1>10. CutOf(l) \in CutTask /\ CutOf(l).of = l /\ CutOf(l).limit = c /\ CutOf(l).blocks = b
  BY <1>1, <1>4, <1>7 DEF CutTask
<1>11. \A s \in Spots : s >= c /\ (s < log[l].scanned \/ s < log[l].indexed) => s < u
  <2> TAKE s \in Spots
  <2> DEFINE p == log[l].scanned
             q == log[l].indexed
  <2>1. p \in Nat /\ q \in Nat /\ s \in Nat /\ p <= u /\ q <= u
    BY <1>2, <1>3, PlacesAre
  <2> HIDE DEF p, q
  <2>2. s < p \/ s < q => s < u
    BY <1>5, <2>1
  <2> QED
    BY <2>2 DEF p, q
<1> QED
  BY <1>1, <1>8, <1>9, <1>10, <1>11 DEF c

LEMMA CutBeginDoes ==
    ASSUME Shape, NEW l \in Logs, CutBegin(l)
    PROVE  /\ OnlyLog(l) /\ run[l].pc = "idle" /\ run' = run /\ limit[l] # Inf /\ limit[l] \in Places
           /\ queue' = Append(queue, CutOf(l)) /\ (\A t \in ToSet(queue) \cup after : t.op = "cut" => t.of # l)
           /\ log'[l].scanned = (IF log[l].scanned > limit[l] THEN limit[l] ELSE log[l].scanned)
           /\ log'[l].indexed = log[l].indexed /\ log'[l].limit = limit[l] /\ log'[l].cut = log[l].cut
           /\ log'[l].holes = {s \in log[l].holes : s < limit[l]} /\ log'[l].uncommitted = log[l].uncommitted
           /\ log'[l].timer = log[l].timer
           /\ LogOK(log'[l], run'[l], length[l])
<1> DEFINE c == limit[l]
           n == IF log[l].scanned > c THEN c ELSE log[l].scanned
           H == {s \in log[l].holes : s < c}
           e == [log[l] EXCEPT !.limit = c, !.holes = H, !.scanned = n]
           r == run[l]
<1>1. run[l].pc = "idle" /\ run' = run /\ limit[l] # Inf /\ (\A t \in ToSet(queue) \cup after : t.op = "cut" => t.of # l)
      /\ queue' = Append(queue, CutOf(l)) /\ log' = [log EXCEPT ![l] = e]
  BY DEF CutBegin, CutOf, Upto
<1>2. LogShape /\ log[l] \in LogEntry /\ r \in RunEntry /\ LogOK(log[l], r, length[l]) /\ length[l] \in Places
      /\ run' = [run EXCEPT ![l] = r]
  BY <1>1 DEF Shape, LogShape, DiskShape
<1>3. c \in Places /\ c \in 1 .. Inf
  BY <1>1, CutOfIs, PlacesAre
<1> HIDE DEF c
<1>4. n \in Places /\ n <= log[l].scanned /\ n <= c /\ H \in SUBSET log[l].holes /\ H \in SUBSET Spots
      /\ (n = c \/ n = log[l].scanned)
  BY <1>2, <1>3, PlacesAre DEF LogEntry
<1>5. \A s \in H : s < n
  BY <1>2, <1>4 DEF LogOK
<1> HIDE DEF n, H
<1>6. e \in LogEntry /\ e.scanned = n /\ e.indexed = log[l].indexed /\ e.limit = c /\ e.cut = log[l].cut /\ e.holes = H
      /\ e.uncommitted = log[l].uncommitted /\ e.timer = log[l].timer
  BY <1>2, <1>3, <1>4 DEF LogEntry
<1>7. r.pc = "idle"
  BY <1>1
<1> HIDE DEF e, r
<1>8. LogOK(e, r, length[l])
  <2>1. n <= length[l]
    BY <1>2, <1>4, PlacesAre DEF LogOK, LogEntry
  <2> QED
    BY <1>2, <1>5, <1>6, <1>7, <2>1 DEF LogOK
<1>9. OnlyLog(l) /\ log'[l] = e /\ run'[l] = r
  BY <1>1, <1>2, <1>6, OneLogIs
<1> QED
  BY <1>1, <1>3, <1>6, <1>8, <1>9 DEF n, H, c

LEMMA CutBeginShape ==
    ASSUME Shape, NEW l \in Logs, CutBegin(l)
    PROVE  Shape' /\ SameBlocks
<1>1. SceneOK(scene') /\ SameBlocks /\ length' = length
  BY DEF CutBegin, Shape, SameBlocks
<1>2. DiskShape'
  BY <1>1, DiskStays DEF CutBegin, Shape
<1>3. LogShape'
  BY <1>1, CutBeginDoes, OneLogMoves DEF Shape
<1>4. TaskShape'
  <2>1. queue' = Append(queue, CutOf(l)) /\ CutOf(l) \in CutTask
    BY CutBeginDoes, CutOfIs
  <2>2. queue \in Seq(Task) /\ CutOf(l) \in Task
    BY <2>1 DEF Shape, TaskShape, Task
  <2>3. queue' \in Seq(Task) /\ ToSet(queue') = ToSet(queue) \cup {CutOf(l)}
    BY <2>1, <2>2, AppendIs
  <2>4. CutOf(l).op = "cut"
    BY DEF CutOf
  <2>5. queue' \in Seq(Task) /\ \A t \in ToSet(queue') : t.op = "batch" => t.indexed <= length[t.of]
    BY <2>3, <2>4 DEF Shape, TaskShape
  <2> QED
    BY <1>1, <2>5, BlocksStay DEF CutBegin, Shape, TaskShape, Memo, Hearing
<1> QED
  BY <1>1, <1>2, <1>3, <1>4 DEF Shape

Todo(h) == {i \in h.touched : mods[i] # None /\ memo.applied[i] # mods[i]}
ModerationOf(h) == [op |-> "moderate", of |-> h.n, mods |-> mods, blocks |-> SetToSeq(Todo(h))]

LEMMA ModerateDoes ==
    ASSUME Shape, NEW h \in hearing, Moderate(h)
    PROVE  /\ h.stage = "moderate" /\ h \in Hearing /\ [h EXCEPT !.stage = "rights"] \in Hearing
           /\ [h EXCEPT !.stage = "queued"] \in Hearing
           /\ SameBlocks /\ UNCHANGED <<scene, length, held, disk, decided, log, run, after, memo, reader>>
           /\ \/ Todo(h) = {} /\ queue' = queue /\ hearing' = (hearing \ {h}) \cup {[h EXCEPT !.stage = "rights"]}
              \/ /\ Todo(h) # {} /\ queue' = Append(queue, ModerationOf(h))
                 /\ hearing' = (hearing \ {h}) \cup {[h EXCEPT !.stage = "queued"]}
                 /\ ModerationOf(h) \in ModerateTask /\ ToSet(ModerationOf(h).blocks) = Todo(h)
<1>1. /\ h.stage = "moderate" /\ SameBlocks /\ UNCHANGED <<scene, length, held, disk, decided, log, run, after, memo, reader>>
      /\ \/ Todo(h) = {} /\ queue' = queue /\ hearing' = (hearing \ {h}) \cup {[h EXCEPT !.stage = "rights"]}
         \/ /\ Todo(h) # {} /\ queue' = Append(queue, ModerationOf(h))
            /\ hearing' = (hearing \ {h}) \cup {[h EXCEPT !.stage = "queued"]}
  BY DEF Moderate, Todo, ModerationOf, SameBlocks
<1>2. h \in Hearing
  BY DEF Shape, TaskShape
<1>3. [h EXCEPT !.stage = "rights"] \in Hearing /\ [h EXCEPT !.stage = "queued"] \in Hearing
  BY <1>2 DEF Hearing
<1>4. ModerationOf(h) \in ModerateTask /\ ToSet(ModerationOf(h).blocks) = Todo(h)
  <2> DEFINE T == Todo(h)
             b == SetToSeq(T)
  <2>1. T \in SUBSET Ids /\ IsFiniteSet(T)
    <3>1. T \in SUBSET Ids
      BY <1>2 DEF Todo, Hearing
    <3> QED
      BY <3>1, IdsFinite, FS_Subset
  <2> HIDE DEF T
  <2>2. b \in Seq(T) /\ ToSet(b) = T
    BY <2>1, InSomeOrder
  <2>3. b \in Seq(Ids) /\ mods \in [Ids -> Moderations] /\ h.n \in Nat
    BY <1>2, <2>1, <2>2 DEF Shape, DiskShape, Hearing
  <2>4. ModerationOf(h) = [op |-> "moderate", of |-> h.n, mods |-> mods, blocks |-> b]
    BY DEF ModerationOf, T
  <2> HIDE DEF b
  <2> QED
    BY <2>2, <2>3, <2>4 DEF ModerateTask, T
<1> QED
  BY <1>1, <1>2, <1>3, <1>4

LEMMA ModerateShape ==
    ASSUME Shape, NEW h \in hearing, Moderate(h)
    PROVE  Shape' /\ SameBlocks
<1>1. SameBlocks /\ UNCHANGED <<scene, length, held, disk, decided, log, run, after, memo, reader>>
  BY ModerateDoes
<1>2. DiskShape' /\ LogShape' /\ SceneOK(scene')
  BY <1>1, DiskStays, LogsStay DEF Shape
<1>3. hearing' \in SUBSET Hearing /\ hearing \in SUBSET Hearing
  BY ModerateDoes DEF Shape, TaskShape
<1>4. queue' \in Seq(Task) /\ \A t \in ToSet(queue') : t.op = "batch" => t.indexed <= length[t.of]
  <2>1. CASE queue' = queue
    BY <2>1 DEF Shape, TaskShape
  <2>2. CASE queue' = Append(queue, ModerationOf(h)) /\ ModerationOf(h) \in ModerateTask
    <3>1. queue \in Seq(Task) /\ ModerationOf(h) \in Task /\ ModerationOf(h).op = "moderate"
      BY <2>2 DEF Shape, TaskShape, Task, ModerateTask
    <3>2. queue' \in Seq(Task) /\ ToSet(queue') = ToSet(queue) \cup {ModerationOf(h)}
      BY <2>2, <3>1, AppendIs
    <3> QED
      BY <3>1, <3>2 DEF Shape, TaskShape
  <2> QED
    BY <2>1, <2>2, ModerateDoes
<1> QED
  BY <1>1, <1>2, <1>3, <1>4, BlocksStay DEF Shape, TaskShape, Memo, Hearing

LEMMA ReauthorizeDoes ==
    ASSUME Shape, NEW h \in hearing, Reauthorize(h)
    PROVE  /\ h.stage = "rights" /\ h \in Hearing /\ [h EXCEPT !.stage = "queued"] \in Hearing
           /\ SameBlocks /\ UNCHANGED <<scene, length, held, disk, decided, log, run, after, reader>>
           /\ \/ memo.rights = elimit /\ hearing' = hearing \ {h} /\ UNCHANGED <<queue, memo>>
              \/ /\ memo.rights # elimit /\ hearing' = (hearing \ {h}) \cup {[h EXCEPT !.stage = "queued"]}
                 /\ queue' = Append(queue, [op |-> "rights", of |-> h.n, blocks |-> << >>])
                 /\ [op |-> "rights", of |-> h.n, blocks |-> << >>] \in RightsTask
                 /\ memo' = [memo EXCEPT !.rights = elimit] /\ memo' \in Memo
<1>1. h \in Hearing /\ memo \in Memo /\ elimit \in [Logs -> Nat]
  BY DEF Shape, TaskShape, DiskShape
<1>2. [h EXCEPT !.stage = "queued"] \in Hearing /\ h.n \in Nat
  BY <1>1 DEF Hearing
<1>3. [op |-> "rights", of |-> h.n, blocks |-> << >>] \in RightsTask
  BY <1>2 DEF RightsTask
<1>4. [memo EXCEPT !.rights = elimit] \in Memo
  BY <1>1 DEF Memo
<1> QED
  BY <1>1, <1>2, <1>3, <1>4 DEF Reauthorize, SameBlocks

LEMMA ReauthorizeShape ==
    ASSUME Shape, NEW h \in hearing, Reauthorize(h)
    PROVE  Shape' /\ SameBlocks
<1>1. SameBlocks /\ UNCHANGED <<scene, length, held, disk, decided, log, run, after, reader>>
  BY ReauthorizeDoes
<1>2. DiskShape' /\ LogShape' /\ SceneOK(scene')
  BY <1>1, DiskStays, LogsStay DEF Shape
<1>3. hearing' \in SUBSET Hearing /\ memo' \in Memo
  BY ReauthorizeDoes DEF Shape, TaskShape
<1>4. queue' \in Seq(Task) /\ \A t \in ToSet(queue') : t.op = "batch" => t.indexed <= length[t.of]
  <2> DEFINE u == [op |-> "rights", of |-> h.n, blocks |-> << >>]
  <2>1. CASE queue' = queue
    BY <2>1 DEF Shape, TaskShape
  <2>2. CASE queue' = Append(queue, u) /\ u \in RightsTask
    <3>1. u.op = "rights"
      OBVIOUS
    <3> HIDE DEF u
    <3>2. queue \in Seq(Task) /\ u \in Task
      BY <2>2 DEF Shape, TaskShape, Task
    <3>3. queue' \in Seq(Task) /\ ToSet(queue') = ToSet(queue) \cup {u}
      BY <2>2, <3>2, AppendIs
    <3> QED
      BY <3>1, <3>3 DEF Shape, TaskShape
  <2> QED
    BY <2>1, <2>2, ReauthorizeDoes
<1> QED
  BY <1>1, <1>2, <1>3, <1>4, BlocksStay DEF Shape, TaskShape, Memo, Hearing

LEMMA ReadShape ==
    ASSUME Shape, ReadRows \/ ReadEnd
    PROVE  Shape' /\ SameBlocks
<1>1. UNCHANGED <<scene, length, held, disk, decided, log, run, queue, after, hearing, memo>> /\ SameBlocks
  BY DEF ReadRows, ReadEnd, SameBlocks
<1>2. DiskShape' /\ LogShape' /\ SceneOK(scene')
  BY <1>1, DiskStays, LogsStay DEF Shape
<1>3. reader' \in [pc : {"idle", "read"}, answer : SUBSET Written, fresh : BOOLEAN]
  <2> DEFINE D == DOMAIN rows
  <2>1. D \in SUBSET Written
    BY RowsAre DEF Shape, DiskShape
  <2>2. reader' = [pc |-> "read", answer |-> D, fresh |-> TRUE] \/ reader' = [pc |-> "idle", answer |-> {}, fresh |-> TRUE]
    BY DEF ReadRows, ReadEnd
  <2> HIDE DEF D
  <2>3. /\ [pc |-> "read", answer |-> D, fresh |-> TRUE] \in [pc : {"idle", "read"}, answer : SUBSET Written, fresh : BOOLEAN]
        /\ [pc |-> "idle", answer |-> {}, fresh |-> TRUE] \in [pc : {"idle", "read"}, answer : SUBSET Written, fresh : BOOLEAN]
    BY <2>1
  <2> QED
    BY <2>2, <2>3
<1> QED
  BY <1>1, <1>2, <1>3, BlocksStay DEF Shape, TaskShape, Memo, Hearing

\* A log's entry, its run and the memory a process starts with.
LEMMA FreshIs ==
    ASSUME Shape
    PROVE  /\ NoMemo \in Memo /\ NoReader \in [pc : {"idle", "read"}, answer : SUBSET Written, fresh : BOOLEAN]
           /\ Opening \in SUBSET Hearing /\ NoMemo.had = None /\ NoMemo.targets = {} /\ NoMemo.rights = None
           /\ \A i \in Ids : NoMemo.applied[i] = None
           /\ \A n \in Places, c \in 1 .. Inf :
                 /\ Entry(n, c) \in LogEntry /\ Entry(n, c).scanned = n /\ Entry(n, c).indexed = n /\ Entry(n, c).limit = c
                 /\ Entry(n, c).cut = c /\ Entry(n, c).holes = {} /\ Entry(n, c).uncommitted = FALSE /\ Entry(n, c).timer = FALSE
<1>1. NoMemo \in Memo /\ NoMemo.had = None /\ NoMemo.targets = {} /\ NoMemo.rights = None /\ \A i \in Ids : NoMemo.applied[i] = None
  <2> DEFINE A == [i \in Ids |-> None]
  <2>1. A \in [Ids -> Moderations] /\ \A i \in Ids : A[i] = None
    BY DEF Moderations
  <2>2. NoMemo = [had |-> None, targets |-> {}, applied |-> A, rights |-> None]
    BY DEF NoMemo
  <2> HIDE DEF A
  <2> QED
    BY <2>1, <2>2 DEF Memo
<1>2. NoReader \in [pc : {"idle", "read"}, answer : SUBSET Written, fresh : BOOLEAN]
  BY DEF NoReader
<1>3. Opening \in SUBSET Hearing
  BY DEF Opening, Hearing
<1>4. ASSUME NEW n \in Places, NEW c \in 1 .. Inf
      PROVE  /\ Entry(n, c) \in LogEntry /\ Entry(n, c).scanned = n /\ Entry(n, c).indexed = n /\ Entry(n, c).limit = c
             /\ Entry(n, c).cut = c /\ Entry(n, c).holes = {} /\ Entry(n, c).uncommitted = FALSE /\ Entry(n, c).timer = FALSE
  BY DEF Entry, LogEntry
<1> QED
  BY <1>1, <1>2, <1>3, <1>4

LEMMA CrashDoes ==
    ASSUME Shape, Crash
    PROVE  /\ SceneOK(scene') /\ SameBlocks /\ UNCHANGED <<length, held, disk, decided>>
           /\ queue' = << >> /\ after' = {} /\ hearing' = Opening /\ memo' = NoMemo /\ reader' = NoReader
           /\ scene' = [scene EXCEPT !.crashes = scene.crashes - 1] /\ scene.crashes \in Nat /\ scene.crashes > 0
           /\ log' \in [Logs -> LogEntry] /\ run' \in [Logs -> RunEntry]
           /\ \A l \in Logs : /\ log'[l].scanned = saved[l].indexed /\ log'[l].indexed = saved[l].indexed
                              /\ log'[l].limit = saved[l].cut /\ log'[l].cut = saved[l].cut /\ log'[l].holes = {}
                              /\ log'[l].uncommitted = FALSE /\ log'[l].timer = FALSE
                              /\ run'[l].pc = (IF length[l] > 1 THEN "start" ELSE "idle")
                              /\ LogOK(log'[l], run'[l], length[l])
<1>1. scene.crashes \in Nat /\ scene.crashes > 0 /\ scene' = [scene EXCEPT !.crashes = scene.crashes - 1]
  BY DEF Shape, SceneOK, Scene, Crash
<1>2. SceneOK(scene') /\ SameBlocks
  <2> DEFINE m == scene.crashes - 1
  <2>1. m \in Nat /\ scene' = [scene EXCEPT !.crashes = m]
    BY <1>1
  <2> HIDE DEF m
  <2>2. 0 \in Nat /\ {} \in SUBSET Ids
    OBVIOUS
  <2> QED
    BY <2>1, <2>2, SceneMoves DEF Shape
<1>3. ASSUME NEW l \in Logs
      PROVE  /\ log'[l].scanned = saved[l].indexed /\ log'[l].indexed = saved[l].indexed
             /\ log'[l].limit = saved[l].cut /\ log'[l].cut = saved[l].cut /\ log'[l].holes = {}
             /\ log'[l].uncommitted = FALSE /\ log'[l].timer = FALSE
             /\ run'[l].pc = (IF length[l] > 1 THEN "start" ELSE "idle")
             /\ LogOK(log'[l], run'[l], length[l])
  <2> DEFINE n == saved[l].indexed
             c == saved[l].cut
             p == IF length[l] > 1 THEN "start" ELSE "idle"
             r == [Idle EXCEPT !.pc = p]
  <2>1. n \in Places /\ c \in 1 .. Inf /\ n <= length[l]
    BY DEF Shape, DiskShape
  <2>2. log'[l] = Entry(n, c) /\ run'[l] = r
    BY DEF Crash
  <2>3. p \in {"idle", "start"}
    OBVIOUS
  <2> HIDE DEF n, c, p
  <2>4. r \in RunEntry /\ r.pc = p
    BY <2>3, IdleIs
  <2> HIDE DEF r
  <2> DEFINE e == Entry(n, c)
  <2>5. e \in LogEntry /\ e.scanned = n /\ e.indexed = n /\ e.limit = c /\ e.cut = c /\ e.holes = {}
        /\ e.uncommitted = FALSE /\ e.timer = FALSE
    BY <2>1, FreshIs
  <2> HIDE DEF e
  <2>6. LogOK(e, r, length[l])
    BY <2>1, <2>3, <2>4, <2>5 DEF LogOK
  <2>7. log'[l] = e /\ run'[l] = r
    BY <2>2 DEF e
  <2> QED
    BY <2>4, <2>5, <2>6, <2>7 DEF n, c, p
<1>4. log' \in [Logs -> LogEntry] /\ run' \in [Logs -> RunEntry]
  <2>1. \A l \in Logs : log'[l] \in LogEntry /\ run'[l] \in RunEntry
    BY <1>3 DEF LogOK
  <2>2. log' = [l \in Logs |-> log'[l]] /\ run' = [l \in Logs |-> run'[l]]
    BY DEF Crash
  <2> QED
    BY <2>1, <2>2
<1>5. UNCHANGED <<length, held, disk, decided>> /\ queue' = << >> /\ after' = {} /\ hearing' = Opening /\ memo' = NoMemo
      /\ reader' = NoReader
  BY DEF Crash
<1> QED
  BY <1>1, <1>2, <1>3, <1>4, <1>5

LEMMA CrashShape ==
    ASSUME Shape, Crash
    PROVE  Shape' /\ SameBlocks
<1>1. DiskShape' /\ SceneOK(scene') /\ SameBlocks /\ length' = length
  BY CrashDoes, DiskStays DEF Shape
<1>2. LogShape'
  BY <1>1, CrashDoes, EachLogMoves
<1>3. TaskShape'
  <2>1. queue' \in Seq(Task) /\ ToSet(queue') = {}
    BY CrashDoes DEF ToSet
  <2> QED
    BY <1>1, <2>1, CrashDoes, FreshIs, BlocksStay DEF TaskShape, Memo, Hearing
<1> QED
  BY <1>1, <1>2, <1>3 DEF Shape

\* One of the steps, by name.
Step ==
    \/ \E l \in Logs : Grow(l) \/ RunTake(l) \/ RunScan(l) \/ RunNote(l) \/ RunBatch(l) \/ RunEnd(l) \/ HoleTimer(l) \/ CutBegin(l)
    \/ \E l \in Logs : \E s \in Known(l) : Download(l, s)
    \/ Unlock \/ CommitBatch \/ CommitCut \/ CommitModeration \/ CommitRights
    \/ \E a \in after : FinishBatch(a) \/ FinishCut(a) \/ FinishDecision(a)
    \/ \E a \in after : \E i \in a.clears : Clear(a, i)
    \/ \E d \in scene.decide : Decide(d)
    \/ \E h \in hearing : Moderate(h) \/ Reauthorize(h)
    \/ ReadRows \/ ReadEnd \/ Crash

LEMMA NextSteps == Next => Step
BY DEF Next, Run, Commit, After, Step

LEMMA StepShape ==
    ASSUME Shape, [Next]_vars
    PROVE  Shape' /\ SameBlocks
<1>1. CASE UNCHANGED vars
  <2>1. SameBlocks /\ UNCHANGED <<length, held, disk, decided, log, run, queue, after, hearing, memo, reader, scene>>
    BY <1>1 DEF vars, SameBlocks
  <2> QED
    BY <2>1, DiskStays, LogsStay, TasksStay DEF Shape
<1>2. ASSUME Step PROVE Shape' /\ SameBlocks
  <2>1. ASSUME NEW l \in Logs,
               Grow(l) \/ RunTake(l) \/ RunScan(l) \/ RunNote(l) \/ RunBatch(l) \/ RunEnd(l) \/ HoleTimer(l) \/ CutBegin(l)
        PROVE  Shape' /\ SameBlocks
    BY <2>1, GrowShape, RunTakeShape, RunScanShape, RunNoteShape, RunBatchShape, RunEndShape, HoleTimerShape, CutBeginShape
  <2>2. ASSUME NEW l \in Logs, NEW s \in Known(l), Download(l, s) PROVE Shape' /\ SameBlocks
    BY <2>2, DownloadShape
  <2>3. ASSUME Unlock \/ CommitBatch \/ CommitCut \/ CommitModeration \/ CommitRights PROVE Shape' /\ SameBlocks
    BY <2>3, UnlockShape, CommitBatchShape, CommitCutShape, CommitModerationShape, CommitRightsShape
  <2>4. ASSUME NEW a \in after, FinishBatch(a) \/ FinishCut(a) \/ FinishDecision(a) PROVE Shape' /\ SameBlocks
    BY <2>4, FinishBatchShape, FinishCutShape, FinishDecisionShape
  <2>5. ASSUME NEW a \in after, NEW i \in a.clears, Clear(a, i) PROVE Shape' /\ SameBlocks
    BY <2>5, ClearShape
  <2>6. ASSUME NEW d \in scene.decide, Decide(d) PROVE Shape' /\ SameBlocks
    BY <2>6, DecideShape
  <2>7. ASSUME NEW h \in hearing, Moderate(h) \/ Reauthorize(h) PROVE Shape' /\ SameBlocks
    BY <2>7, ModerateShape, ReauthorizeShape
  <2>8. ASSUME ReadRows \/ ReadEnd \/ Crash PROVE Shape' /\ SameBlocks
    BY <2>8, ReadShape, CrashShape
  <2> QED
    BY <1>2, <2>1, <2>2, <2>3, <2>4, <2>5, <2>6, <2>7, <2>8 DEF Step
<1> QED
  BY <1>1, <1>2, NextSteps

THEOREM ShapeKept == Spec => []Shape
<1>1. Init => Shape
  BY InitShape
<1>2. Shape /\ [Next]_vars => Shape'
  BY StepShape
<1> QED
  BY <1>1, <1>2, PTL DEF Spec

\* Every variable holds a value of its kind, and a log's place in memory is never
\* below a hole (index, #run and #cut of the indexer).
THEOREM IndexTypeSafe == Spec => []IndexTypeOK
<1>1. Shape => IndexTypeOK
  <2> SUFFICES ASSUME Shape PROVE IndexTypeOK
    OBVIOUS
  <2>1. DOMAIN rows \subseteq Ids /\ \A i \in DOMAIN rows : rows[i] \in Row
    <3>1. DOMAIN rows \in SUBSET Written /\ \A i \in DOMAIN rows : rows[i] \in WrittenRow
      BY RowsAre DEF Shape, DiskShape
    <3>2. Written \in SUBSET Ids
      BY WrittenFinite
    <3> QED
      BY <3>1, <3>2 DEF WrittenRow, Row
  <2>2. changes \subseteq Ids
    BY WrittenFinite DEF Shape, DiskShape, Changed
  <2>3. saved \in [Logs -> [indexed : Places, cut : Places \cup {Inf}]]
    <3>1. 1 .. Inf \in SUBSET (Places \cup {Inf})
      BY PlacesAre DEF Places
    <3>2. saved \in [Logs -> [indexed : Places, cut : 1 .. Inf]]
      BY DEF Shape, DiskShape
    <3> QED
      BY <3>1, <3>2
  <2>4. ASSUME NEW l \in Logs
        PROVE  /\ log[l].scanned \in Places /\ log[l].indexed \in Places
               /\ \A s \in log[l].holes \cup log[l].arrived : s \in 1 .. MaxLen - 1
               /\ \A s \in log[l].holes : s < log[l].scanned
    BY DEF Shape, LogShape, LogOK, LogEntry, Spots
  <2> QED
    BY <2>1, <2>2, <2>3, <2>4 DEF IndexTypeOK
<1> QED
  BY <1>1, ShapeKept, PTL

\* A log called: only what is still to be done changes, and it has a run.
Calls(l) ==
    /\ OnlyLog(l) /\ run'[l] = Started(l)
    /\ log'[l].scanned = log[l].scanned /\ log'[l].indexed = log[l].indexed /\ log'[l].limit = log[l].limit
    /\ log'[l].cut = log[l].cut /\ log'[l].holes = log[l].holes /\ log'[l].uncommitted = log[l].uncommitted

LEMMA GrowDoes ==
    ASSUME Shape, NEW l \in Logs, Grow(l)
    PROVE  /\ Calls(l) /\ log'[l].timer = log[l].timer /\ length' = [length EXCEPT ![l] = length[l] + 1]
           /\ UNCHANGED <<scene, held, disk, decided, queue, after, hearing, memo, reader>>
<1>1. log[l] \in LogEntry /\ LogOK(log[l], run[l], length[l])
  BY DEF Shape, LogShape
<1>2. LogOK(Called(l, log[l]), Started(l), length[l])
  BY <1>1, CalledIs DEF Shape
<1>3. log' = [log EXCEPT ![l] = Called(l, log[l])] /\ run' = [run EXCEPT ![l] = Started(l)]
  BY DEF Grow, Index
<1>4. OnlyLog(l) /\ log'[l] = Called(l, log[l]) /\ run'[l] = Started(l)
  BY <1>2, <1>3, OneLogIs DEF Shape, LogOK
<1> QED
  BY <1>1, <1>4, CalledFields DEF Grow, Calls

LEMMA DownloadDoes ==
    ASSUME Shape, NEW l \in Logs, NEW s \in Known(l), Download(l, s)
    PROVE  /\ Calls(l) /\ log'[l].timer = log[l].timer /\ s \in Spots /\ held' = [held EXCEPT ![l] = held[l] \cup {s}]
           /\ UNCHANGED <<scene, length, disk, decided, queue, after, hearing, memo, reader>>
<1> DEFINE e == arrived(log[l], s)
<1>1. log[l] \in LogEntry /\ LogOK(log[l], run[l], length[l])
  BY DEF Shape, LogShape
<1>2. s \in Spots
  <2>1. length[l] \in Places /\ s \in 1 .. length[l] - 1
    BY DEF Shape, DiskShape, Known
  <2> QED
    BY <2>1, PlacesAre DEF Spots
<1>3. log' = [log EXCEPT ![l] = Called(l, e)] /\ run' = [run EXCEPT ![l] = Started(l)]
  BY DEF Download, Index
<1>4. e \in LogEntry /\ e.scanned = log[l].scanned /\ e.indexed = log[l].indexed /\ e.limit = log[l].limit
      /\ e.cut = log[l].cut /\ e.holes = log[l].holes /\ e.uncommitted = log[l].uncommitted /\ e.timer = log[l].timer
  BY <1>1, <1>2 DEF arrived, LogEntry
<1> HIDE DEF e
<1>5. LogOK(e, run[l], length[l])
  BY <1>1, <1>4 DEF LogOK
<1>6. LogOK(Called(l, e), Started(l), length[l])
  BY <1>5, CalledIs DEF Shape
<1>7. OnlyLog(l) /\ log'[l] = Called(l, e) /\ run'[l] = Started(l)
  BY <1>3, <1>6, OneLogIs DEF Shape, LogOK
<1> QED
  BY <1>2, <1>4, <1>7, CalledFields DEF Download, Calls

-----------------------------------------------------------------------------
(* No arrival is lost.                                                     *)

\* The step leaves no hole of l without a run or a timer.
Watched(l) ==
    \/ run'[l].pc # "idle" \/ log'[l].timer \/ log'[l].holes = {}
    \/ /\ log'[l].holes \cap held'[l] \in SUBSET (log[l].holes \cap held[l]) /\ scene'.locked = scene.locked
       /\ run[l].pc = "idle" /\ (log[l].timer => log'[l].timer)

LEMMA StillWatched ==
    ASSUME HolesWatched, \A l \in Logs : Watched(l)
    PROVE  HolesWatched'
<1> SUFFICES ASSUME NEW l \in Logs, NEW s \in log'[l].holes \cap held'[l]
             PROVE  <<l, s>> \in scene'.locked \/ run'[l].pc # "idle" \/ log'[l].timer
  BY DEF HolesWatched
<1>1. Watched(l)
  OBVIOUS
<1> QED
  BY <1>1 DEF Watched, HolesWatched

LEMMA OthersWatched ==
    ASSUME NEW l \in Logs, OnlyLog(l), scene'.locked = scene.locked, \A k \in Logs \ {l} : held'[k] = held[k], Watched(l)
    PROVE  \A k \in Logs : Watched(k)
BY DEF OnlyLog, Watched

LEMMA NoneTouched ==
    ASSUME log' = log, run' = run, \A l \in Logs : held'[l] \in SUBSET held[l], scene'.locked = scene.locked
    PROVE  \A l \in Logs : Watched(l)
BY DEF Watched

LEMMA LogStepWatched ==
    ASSUME Shape, NEW l \in Logs,
           Grow(l) \/ RunTake(l) \/ RunScan(l) \/ RunNote(l) \/ RunBatch(l) \/ RunEnd(l) \/ HoleTimer(l) \/ CutBegin(l)
    PROVE  \A k \in Logs : Watched(k)
<1>1. scene' = scene /\ held' = held /\ LogShape /\ LogOK(log[l], run[l], length[l])
  BY DEF Grow, RunTake, RunScan, RunNote, RunBatch, RunEnd, HoleTimer, CutBegin, Shape, LogShape
<1>2. CASE Grow(l)
  BY <1>1, <1>2, GrowDoes, StartedIs, OthersWatched DEF Calls, Watched
<1>3. CASE RunTake(l)
  BY <1>1, <1>3, RunTakeDoes, OthersWatched DEF Watched
<1>4. CASE RunScan(l)
  BY <1>1, <1>4, RunScanDoes, OthersWatched DEF Watched
<1>5. CASE RunNote(l)
  BY <1>1, <1>5, RunNoteDoes, OthersWatched DEF Watched
<1>6. CASE RunBatch(l)
  BY <1>1, <1>6, RunBatchDoes, OthersWatched DEF Watched
<1>7. CASE RunEnd(l)
  BY <1>1, <1>7, RunEndDoes, OthersWatched DEF Watched
<1>8. CASE HoleTimer(l)
  BY <1>1, <1>8, HoleTimerDoes, StartedIs, OthersWatched DEF Watched
<1>9. CASE CutBegin(l)
  <2>1. Watched(l)
    BY <1>1, <1>9, CutBeginDoes DEF Watched
  <2> QED
    BY <1>1, <1>9, <2>1, CutBeginDoes, OthersWatched
<1> QED
  BY <1>2, <1>3, <1>4, <1>5, <1>6, <1>7, <1>8, <1>9

LEMMA CommitWatched ==
    ASSUME Shape, CommitBatch \/ CommitCut \/ CommitModeration \/ CommitRights
    PROVE  \A k \in Logs : Watched(k)
<1>1. scene' = scene /\ held' = held
  BY DEF CommitBatch, CommitCut, CommitModeration, CommitRights, Apply
<1>2. CASE CommitBatch
  <2>1. PICK t \in ToSet(queue) : WritesBatch(t)
    BY <1>2 DEF CommitBatch, WritesBatch
  <2> DEFINE l == t.of
  <2>2. OnlyLog(l) /\ log'[l].holes = log[l].holes /\ log'[l].timer = log[l].timer /\ run'[l] = run[l] /\ l \in Logs
    BY <2>1, CommitBatchDoes DEF WritesBatch, BatchTask
  <2> HIDE DEF l
  <2> QED
    BY <1>1, <2>2, OthersWatched DEF Watched
<1>3. CASE CommitCut
  <2>1. PICK t \in ToSet(queue) : WritesCut(t)
    BY <1>3 DEF CommitCut, WritesCut
  <2> DEFINE l == t.of
  <2>2. OnlyLog(l) /\ log'[l].holes = log[l].holes /\ log'[l].timer = log[l].timer /\ run'[l] = run[l] /\ l \in Logs
    BY <2>1, CommitCutDoes DEF WritesCut, CutTask
  <2> HIDE DEF l
  <2> QED
    BY <1>1, <2>2, OthersWatched DEF Watched
<1>4. CASE CommitModeration
  <2>1. PICK t \in ToSet(queue) : WritesModeration(t)
    BY <1>4, CommitModerationIs
  <2>2. LogShape
    BY DEF Shape
  <2> QED
    BY <1>1, <2>1, <2>2, CommitModerationDoes, StartedIs DEF Watched, Looked
<1>5. CASE CommitRights
  <2>1. UNCHANGED <<log, run>>
    BY <1>5 DEF CommitRights
  <2> QED
    BY <1>1, <2>1, NoneTouched
<1> QED
  BY <1>2, <1>3, <1>4, <1>5

LEMMA AfterWatched ==
    ASSUME Shape, NEW a \in after, FinishBatch(a) \/ FinishCut(a) \/ FinishDecision(a) \/ \E i \in a.clears : Clear(a, i)
    PROVE  \A k \in Logs : Watched(k)
<1>1. CASE FinishBatch(a)
  <2>1. LogShape /\ held' = held /\ scene' = scene /\ [Idle EXCEPT !.pc = "take"].pc # "idle"
    BY <1>1, FinishBatchDoes, FinishDoes, IdleIs DEF Shape
  <2> SUFFICES ASSUME NEW k \in Logs PROVE Watched(k)
    OBVIOUS
  <2>2. CASE k = a.of
    BY <1>1, <2>1, <2>2, FinishBatchDoes DEF Watched
  <2>3. CASE k # a.of
    <3>1. CASE WipedHoles(a, k) = {}
      <4>1. log'[k] = log[k] /\ run'[k] = run[k]
        BY <1>1, <2>3, <3>1, FinishBatchDoes
      <4> QED
        BY <2>1, <4>1 DEF Watched
    <3>2. CASE WipedHoles(a, k) # {}
      <4>1. run'[k] = Started(k)
        BY <1>1, <2>3, <3>2, FinishBatchDoes
      <4> QED
        BY <2>1, <4>1, StartedIs DEF Watched
    <3> QED
      BY <3>1, <3>2
  <2> QED
    BY <2>2, <2>3
<1>2. CASE FinishCut(a)
  <2>1. log' = log /\ run' = run /\ scene' = scene /\ held' = [held EXCEPT ![a.of] = {s \in @ : s < log[a.of].limit}]
    BY <1>2 DEF FinishCut, Finish
  <2>2. \A l \in Logs : held'[l] \in SUBSET held[l]
    BY <2>1 DEF Shape, DiskShape
  <2> QED
    BY <2>1, <2>2, NoneTouched
<1>3. CASE FinishDecision(a)
  BY <1>3, NoneTouched DEF FinishDecision, Finish
<1>4. ASSUME NEW i \in a.clears, Clear(a, i) PROVE \A k \in Logs : Watched(k)
  <2>1. log' = log /\ run' = run /\ scene' = scene /\ held' = [held EXCEPT ![i[1]] = @ \ {i[2]}]
    BY <1>4 DEF Clear
  <2>2. \A l \in Logs : held'[l] \in SUBSET held[l]
    BY <2>1 DEF Shape, DiskShape
  <2> QED
    BY <2>1, <2>2, NoneTouched
<1> QED
  BY <1>1, <1>2, <1>3, <1>4

LEMMA RestWatched ==
    ASSUME Shape, \/ \E l \in Logs : \E s \in Known(l) : Download(l, s)
                  \/ Unlock \/ (\E d \in scene.decide : Decide(d)) \/ (\E h \in hearing : Moderate(h) \/ Reauthorize(h))
                  \/ ReadRows \/ ReadEnd \/ Crash \/ UNCHANGED vars
    PROVE  \A k \in Logs : Watched(k)
<1>1. ASSUME NEW l \in Logs, NEW s \in Known(l), Download(l, s) PROVE \A k \in Logs : Watched(k)
  <2>1. Calls(l) /\ scene' = scene /\ held' = [held EXCEPT ![l] = held[l] \cup {s}] /\ LogShape
    BY <1>1, DownloadDoes DEF Shape
  <2>2. \A k \in Logs \ {l} : held'[k] = held[k]
    BY <2>1 DEF Shape, DiskShape
  <2> QED
    BY <2>1, <2>2, StartedIs, OthersWatched DEF Calls, Watched
<1>2. CASE Unlock
  BY <1>2, UnlockDoes, StartedIs DEF Watched, Shape
<1>3. CASE \E d \in scene.decide : Decide(d)
  <2>1. PICK d \in scene.decide : Decide(d)
    BY <1>3
  <2>2. log' = log /\ run' = run /\ held' = held /\ scene' = [scene EXCEPT !.moves = @ - 1] /\ scene \in Scene
    BY <2>1 DEF Decide, Shape, SceneOK
  <2>3. scene'.locked = scene.locked
    BY <2>2 DEF Scene
  <2> QED
    BY <2>2, <2>3, NoneTouched
<1>4. CASE Crash
  BY <1>4, CrashDoes DEF Watched
<1>5. CASE (\E h \in hearing : Moderate(h) \/ Reauthorize(h)) \/ ReadRows \/ ReadEnd \/ UNCHANGED vars
  <2>1. log' = log /\ run' = run /\ held' = held /\ scene' = scene
    BY <1>5 DEF Moderate, Reauthorize, ReadRows, ReadEnd, vars
  <2> QED
    BY <2>1, NoneTouched
<1> QED
  BY <1>1, <1>2, <1>3, <1>4, <1>5

\* No arrival is lost: a hole whose block is here and can be opened has a run or a
\* timer that will look at it (index, #run, #recheckHoles and wiped of
\* lib/index/indexer.js).
THEOREM HolesSafe == Spec => []HolesWatched
<1>1. Init => HolesWatched
  BY DEF Init, HolesWatched, Entry
<1>2. Shape /\ HolesWatched /\ [Next]_vars => HolesWatched'
  <2> SUFFICES ASSUME Shape, HolesWatched, [Next]_vars PROVE \A l \in Logs : Watched(l)
    BY StillWatched
  <2>1. UNCHANGED vars \/ Step
    BY NextSteps
  <2> QED
    BY <2>1, LogStepWatched, CommitWatched, AfterWatched, RestWatched DEF Step
<1> QED
  BY <1>1, <1>2, ShapeKept, PTL DEF Spec

-----------------------------------------------------------------------------
(* One task at a time of each log's runs, of its cuts, of each decision.   *)

Name(t) == <<IF t.op \in {"batch", "cut"} THEN t.op ELSE "decision", t.of>>

TasksApart ==
    /\ \A p, q \in DOMAIN queue : Name(queue[p]) = Name(queue[q]) => p = q
    /\ \A t \in ToSet(queue), a \in after : Name(t) # Name(a)
    /\ \A a, b \in after : Name(a) = Name(b) => a = b

\* Each is waited for, by a run or by a hearing of decisions.
TasksAwaited ==
    /\ \A t \in ToSet(queue) \cup after :
          /\ t.op = "batch" => run[t.of].pc = "queued"
          /\ t.op \in {"moderate", "rights"} => \E h \in hearing : h.n = t.of /\ h.stage = "queued"
    /\ \A h, k \in hearing : h.n = k.n => h = k
    /\ \A h \in hearing : h.n = 0 \/ h.n > scene.moves

OneTask == TasksApart /\ TasksAwaited

LEMMA NoTasks == ASSUME queue = << >>, after = {} PROVE TasksApart
<1>1. DOMAIN queue = {} /\ ToSet(queue) = {}
  BY DEF ToSet
<1> QED
  BY <1>1 DEF TasksApart

LEMMA Queued ==
    ASSUME TasksApart, queue \in Seq(Task), NEW u \in Task, queue' = Append(queue, u), after' = after,
           \A t \in ToSet(queue) \cup after : Name(t) # Name(u)
    PROVE  TasksApart' /\ ToSet(queue') = ToSet(queue) \cup {u}
<1>1. /\ ToSet(queue') = ToSet(queue) \cup {u} /\ DOMAIN queue = 1 .. Len(queue) /\ Len(queue) \in Nat
      /\ DOMAIN queue' = 1 .. Len(queue) + 1 /\ queue'[Len(queue) + 1] = u /\ \A p \in 1 .. Len(queue) : queue'[p] = queue[p]
  BY AppendIs
<1>2. \A p \in DOMAIN queue : queue[p] \in ToSet(queue)
  BY DEF ToSet
<1>3. ASSUME NEW p \in DOMAIN queue', NEW q \in DOMAIN queue', Name(queue'[p]) = Name(queue'[q]) PROVE p = q
  <2>1. p = Len(queue) + 1 \/ p \in DOMAIN queue
    BY <1>1
  <2>2. q = Len(queue) + 1 \/ q \in DOMAIN queue
    BY <1>1
  <2>3. CASE p \in DOMAIN queue /\ q \in DOMAIN queue
    BY <1>1, <1>3, <2>3 DEF TasksApart
  <2>4. CASE p = Len(queue) + 1 /\ q \in DOMAIN queue
    BY <1>1, <1>2, <1>3, <2>4
  <2>5. CASE p \in DOMAIN queue /\ q = Len(queue) + 1
    BY <1>1, <1>2, <1>3, <2>5
  <2> QED
    BY <2>1, <2>2, <2>3, <2>4, <2>5
<1>4. \A t \in ToSet(queue'), a \in after' : Name(t) # Name(a)
  BY <1>1 DEF TasksApart
<1>5. \A a, b \in after' : Name(a) = Name(b) => a = b
  BY DEF TasksApart
<1> DEFINE q == queue'
           s == after'
<1>6. /\ \A i, j \in DOMAIN q : Name(q[i]) = Name(q[j]) => i = j
      /\ \A t \in ToSet(q), a \in s : Name(t) # Name(a)
      /\ \A a, b \in s : Name(a) = Name(b) => a = b
  BY <1>3, <1>4, <1>5
<1> QED
  BY <1>1, <1>6 DEF TasksApart, Name

LEMMA Committing ==
    ASSUME TasksApart, queue \in Seq(Task), NEW t \in ToSet(queue), t = queue[1], queue' = Tail(queue),
           NEW a, Name(a) = Name(t), after' = after \cup {a}
    PROVE  /\ TasksApart' /\ ToSet(queue) = ToSet(queue') \cup {t} /\ \A u \in ToSet(queue') : Name(u) # Name(t) /\ u # t
           /\ \A b \in after : Name(b) # Name(t)
<1>1. /\ \A p \in DOMAIN queue' : p + 1 \in DOMAIN queue /\ p \in Nat /\ p # 0 /\ queue'[p] = queue[p + 1]
      /\ ToSet(queue) = ToSet(queue') \cup {t} /\ 1 \in DOMAIN queue /\ ToSet(queue') \in SUBSET ToSet(queue)
  BY TailIs
<1>2. ASSUME NEW u \in ToSet(queue') PROVE Name(u) # Name(t) /\ u # t
  <2>1. PICK p \in DOMAIN queue' : u = queue'[p]
    BY <1>2 DEF ToSet
  <2>2. u = queue[p + 1] /\ p + 1 \in DOMAIN queue /\ p + 1 # 1
    BY <1>1, <2>1
  <2> QED
    BY <1>1, <2>2 DEF TasksApart
<1>3. ASSUME NEW p \in DOMAIN queue', NEW q \in DOMAIN queue', Name(queue'[p]) = Name(queue'[q]) PROVE p = q
  <2>1. p + 1 \in DOMAIN queue /\ q + 1 \in DOMAIN queue /\ Name(queue[p + 1]) = Name(queue[q + 1]) /\ p \in Nat /\ q \in Nat
    BY <1>1, <1>3
  <2>2. p + 1 = q + 1
    BY <2>1 DEF TasksApart
  <2> QED
    BY <2>1, <2>2
<1>4. \A b \in after : Name(b) # Name(t)
  BY DEF TasksApart
<1>5. \A u \in ToSet(queue'), b \in after' : Name(u) # Name(b)
  BY <1>1, <1>2 DEF TasksApart
<1>6. \A b, c \in after' : Name(b) = Name(c) => b = c
  BY <1>4 DEF TasksApart
<1> DEFINE q == queue'
           s == after'
<1>7. /\ \A i, j \in DOMAIN q : Name(q[i]) = Name(q[j]) => i = j
      /\ \A u \in ToSet(q), b \in s : Name(u) # Name(b)
      /\ \A b, c \in s : Name(b) = Name(c) => b = c
  BY <1>3, <1>5, <1>6
<1> QED
  BY <1>1, <1>2, <1>4, <1>7 DEF TasksApart, Name

TaskSet == ToSet(queue) \cup after
HearingOK == (\A h, k \in hearing : h.n = k.n => h = k) /\ \A h \in hearing : h.n = 0 \/ h.n > scene.moves
Awaited(t) == /\ t.op = "batch" => run[t.of].pc = "queued"
              /\ t.op \in {"moderate", "rights"} => \E h \in hearing : h.n = t.of /\ h.stage = "queued"

LEMMA AwaitedIs == TasksAwaited <=> HearingOK /\ \A t \in TaskSet : Awaited(t)
BY DEF TasksAwaited, HearingOK, TaskSet, Awaited

\* Each run that waits for its batch still does.
RunsWait == \A l \in Logs : run[l].pc = "queued" => run'[l].pc = "queued"

LEMMA TaskFields ==
    ASSUME Shape, NEW t \in TaskSet
    PROVE  /\ t.op \in {"batch", "cut", "moderate", "rights"}
           /\ t.op \in {"batch", "cut"} => t.of \in Logs
           /\ t.op \in {"moderate", "rights"} => t.of \in Nat
<1>1. CASE t \in ToSet(queue)
  <2>1. t \in Task
    BY <1>1 DEF Shape, TaskShape, ToSet
  <2> QED
    BY <2>1 DEF Task, BatchTask, CutTask, ModerateTask, RightsTask
<1>2. CASE t \in after
  <2>1. t \in Committed
    BY <1>2 DEF Shape, TaskShape
  <2> QED
    BY <2>1 DEF Committed
<1> QED
  BY <1>1, <1>2 DEF TaskSet

LEMMA NameIs ==
    ASSUME NEW t, NEW u, t.op \in {"batch", "cut", "moderate", "rights"}, u.op \in {"batch", "cut", "moderate", "rights"},
           Name(t) = Name(u)
    PROVE  t.of = u.of /\ (t.op \in {"batch", "cut"} \/ u.op \in {"batch", "cut"} => t.op = u.op)
BY DEF Name

LEMMA OneTaskStays ==
    ASSUME Shape, OneTask, RunsWait, UNCHANGED <<queue, after, hearing>>, scene'.moves = scene.moves
    PROVE  OneTask'
<1>1. TasksApart'
  BY DEF OneTask, TasksApart, Name
<1>2. \A t \in TaskSet : t.op = "batch" => t.of \in Logs
  BY TaskFields
<1>3. \A t \in TaskSet : t.op = "batch" => run'[t.of].pc = "queued"
  BY <1>2, AwaitedIs DEF OneTask, Awaited, RunsWait
<1> QED
  BY <1>1, <1>3 DEF OneTask, TasksAwaited, TaskSet

\* A hearing goes on to its next stage.
LEMMA HearingGoes ==
    ASSUME Shape, OneTask, NEW h \in hearing, h.stage # "queued", NEW s \in {"rights", "queued"}, scene' = scene,
           hearing' = (hearing \ {h}) \cup {[h EXCEPT !.stage = s]}
    PROVE  /\ HearingOK' /\ [h EXCEPT !.stage = s].n = h.n /\ [h EXCEPT !.stage = s].stage = s
           /\ [h EXCEPT !.stage = s].touched = h.touched /\ [h EXCEPT !.stage = s] \in hearing'
           /\ \A k \in hearing : k.stage = "queued" => k \in hearing'
<1> DEFINE g == [h EXCEPT !.stage = s]
<1>1. h \in Hearing
  BY DEF Shape, TaskShape
<1>2. g.n = h.n /\ g.stage = s /\ g.touched = h.touched
  BY <1>1 DEF Hearing
<1> HIDE DEF g
<1>3. hearing' = (hearing \ {h}) \cup {g}
  BY DEF g
<1>4. HearingOK
  BY AwaitedIs DEF OneTask
<1>5. HearingOK'
  BY <1>2, <1>3, <1>4 DEF HearingOK
<1> QED
  BY <1>2, <1>3, <1>5 DEF g

\* A task joins the queue; what the others wait for is still so.
LEMMA OneMore ==
    ASSUME Shape, OneTask, RunsWait, NEW u \in Task, queue' = Append(queue, u), after' = after, HearingOK',
           \A t \in TaskSet : Name(t) # Name(u), \A k \in hearing : k.stage = "queued" => k \in hearing',
           u.op = "batch" => run'[u.of].pc = "queued",
           u.op \in {"moderate", "rights"} => \E k \in hearing' : k.n = u.of /\ k.stage = "queued"
    PROVE  OneTask' /\ ToSet(queue') = ToSet(queue) \cup {u}
<1>1. TasksApart' /\ ToSet(queue') = ToSet(queue) \cup {u}
  BY Queued DEF OneTask, TaskSet, Shape, TaskShape
<1>2. \A t \in TaskSet : t.op = "batch" => run'[t.of].pc = "queued"
  BY TaskFields, AwaitedIs DEF OneTask, Awaited, RunsWait
<1>3. \A t \in TaskSet : t.op \in {"moderate", "rights"} => \E k \in hearing' : k.n = t.of /\ k.stage = "queued"
  BY AwaitedIs DEF OneTask, Awaited
<1>4. \A t \in TaskSet \cup {u} : /\ t.op = "batch" => run'[t.of].pc = "queued"
                                  /\ t.op \in {"moderate", "rights"} => \E k \in hearing' : k.n = t.of /\ k.stage = "queued"
  BY <1>2, <1>3
<1>5. (\A h, k \in hearing' : h.n = k.n => h = k) /\ (\A h \in hearing' : h.n = 0 \/ h.n > scene'.moves)
  BY DEF HearingOK
<1>6. TasksAwaited'
  BY <1>1, <1>4, <1>5 DEF TasksAwaited, TaskSet
<1> QED
  BY <1>1, <1>6 DEF OneTask

\* A committed task takes the place of its task in the queue.
LEMMA OneCommitted ==
    ASSUME Shape, OneTask, RunsWait, NEW t \in ToSet(queue), NEW ix \in Ix, Apply(t, ix)
    PROVE  /\ OneTask' /\ ToSet(queue) = ToSet(queue') \cup {t} /\ \A u \in ToSet(queue') : Name(u) # Name(t) /\ u # t
           /\ \A b \in after : Name(b) # Name(t)
<1> DEFINE b == ix.rows # rows
           a == [op |-> t.op, of |-> t.of, clears |-> ix.clears, wiped |-> ix.wiped, noted |-> b]
<1>1. /\ t = queue[1] /\ queue' = Tail(queue) /\ queue \in Seq(Task) /\ after' = after \cup {a}
      /\ UNCHANGED <<scene, hearing>>
  BY ApplyDoes
<1>2. a.op = t.op /\ a.of = t.of
  OBVIOUS
<1> HIDE DEF a
<1>3. Name(a) = Name(t)
  BY <1>2 DEF Name
<1>4. /\ TasksApart' /\ ToSet(queue) = ToSet(queue') \cup {t} /\ \A u \in ToSet(queue') : Name(u) # Name(t) /\ u # t
      /\ \A c \in after : Name(c) # Name(t)
  BY <1>1, <1>3, Committing DEF OneTask
<1>5. \A u \in TaskSet : Awaited(u) /\ (u.op = "batch" => u.of \in Logs)
  BY TaskFields, AwaitedIs DEF OneTask
<1>6. \A u \in TaskSet \cup {a} : /\ u.op = "batch" => run'[u.of].pc = "queued"
                                  /\ u.op \in {"moderate", "rights"} => \E h \in hearing' : h.n = u.of /\ h.stage = "queued"
  <2>1. t \in TaskSet
    BY DEF TaskSet
  <2> QED
    BY <1>1, <1>2, <1>5, <2>1 DEF Awaited, RunsWait
<1>7. TasksAwaited'
  <2>1. HearingOK
    BY AwaitedIs DEF OneTask
  <2> QED
    BY <1>1, <1>4, <1>6, <2>1 DEF TasksAwaited, HearingOK, TaskSet
<1> QED
  BY <1>4, <1>7 DEF OneTask

\* Tasks that are there were, but for a finished one.
LEMMA OneFinished ==
    ASSUME Shape, OneTask, NEW a \in after, after' = after \ {a}, queue' = queue, scene' = scene,
           \A l \in Logs : run[l].pc = "queued" => run'[l].pc = "queued" \/ (a.op = "batch" /\ l = a.of),
           HearingOK',
           \A h \in hearing : h.stage = "queued" => h \in hearing' \/ (a.op \in {"moderate", "rights"} /\ h.n = a.of)
    PROVE  OneTask'
<1>1. TasksApart'
  BY DEF OneTask, TasksApart, Name
<1>2. ASSUME NEW u \in ToSet(queue) \cup (after \ {a})
      PROVE  /\ u.op = "batch" => run'[u.of].pc = "queued"
             /\ u.op \in {"moderate", "rights"} => \E h \in hearing' : h.n = u.of /\ h.stage = "queued"
  <2>1. u \in TaskSet /\ a \in TaskSet
    BY DEF TaskSet
  <2>2. Awaited(u) /\ (u.op = "batch" => u.of \in Logs)
    BY <2>1, TaskFields, AwaitedIs DEF OneTask
  <2>3. Name(u) # Name(a)
    BY DEF OneTask, TasksApart
  <2>4. ~(u.op = "batch" /\ a.op = "batch" /\ u.of = a.of)
    BY <2>3 DEF Name
  <2>5. ~(u.op \in {"moderate", "rights"} /\ a.op \in {"moderate", "rights"} /\ u.of = a.of)
    BY <2>3 DEF Name
  <2> QED
    BY <2>2, <2>4, <2>5 DEF Awaited
<1>3. TasksAwaited'
  BY <1>2 DEF TasksAwaited, HearingOK
<1> QED
  BY <1>1, <1>3 DEF OneTask

LEMMA InitOneTask == ASSUME Init PROVE OneTask
<1>1. queue = << >> /\ after = {} /\ hearing = {}
  BY DEF Init
<1>2. ToSet(queue) = {}
  BY <1>1 DEF ToSet
<1> QED
  BY <1>1, <1>2, NoTasks DEF OneTask, TasksAwaited

\* A step of one log's run that the run is not waiting in.
LEMMA RunsWaitBut ==
    ASSUME NEW l \in Logs, OnlyLog(l), run[l].pc # "queued" \/ run'[l].pc = "queued"
    PROVE  RunsWait
BY DEF OnlyLog, RunsWait

LEMMA StartedWaits ==
    ASSUME Shape, NEW l \in Logs, OnlyLog(l), run'[l] = Started(l)
    PROVE  RunsWait
<1>1. run[l].pc # "idle" => run'[l] = run[l]
  BY StartedIs DEF Shape
<1> QED
  BY <1>1 DEF OnlyLog, RunsWait

LEMMA LogStepOneTask ==
    ASSUME Shape, OneTask, NEW l \in Logs,
           Grow(l) \/ RunTake(l) \/ RunScan(l) \/ RunNote(l) \/ RunBatch(l) \/ RunEnd(l) \/ HoleTimer(l) \/ CutBegin(l)
    PROVE  OneTask'
<1>1. CASE Grow(l)
  BY <1>1, GrowDoes, StartedWaits, OneTaskStays DEF Calls
<1>2. CASE RunTake(l)
  <2>1. run[l].pc # "queued" /\ UNCHANGED <<queue, after, hearing, scene>>
    BY <1>2 DEF RunTake
  <2> QED
    BY <1>2, <2>1, RunTakeDoes, RunsWaitBut, OneTaskStays
<1>3. CASE RunScan(l)
  <2>1. run[l].pc # "queued" /\ UNCHANGED <<queue, after, hearing, scene>>
    BY <1>3 DEF RunScan
  <2> QED
    BY <1>3, <2>1, RunScanDoes, RunsWaitBut, OneTaskStays
<1>4. CASE RunNote(l)
  <2>1. run[l].pc # "queued" /\ UNCHANGED <<queue, after, hearing, scene>>
    BY <1>4 DEF RunNote
  <2> QED
    BY <1>4, <2>1, RunNoteDoes, RunsWaitBut, OneTaskStays
<1>5. CASE RunBatch(l)
  <2>1. run[l].pc = "scan" /\ UNCHANGED <<after, hearing, scene>>
    BY <1>5 DEF RunBatch
  <2>2. RunsWait
    BY <1>5, <2>1, RunBatchDoes, RunsWaitBut
  <2>3. CASE queue' = queue
    BY <2>1, <2>2, <2>3, OneTaskStays
  <2>4. CASE run'[l].pc = "queued" /\ \E t \in BatchTask : queue' = Append(queue, t) /\ t.of = l
    <3>1. PICK u \in BatchTask : queue' = Append(queue, u) /\ u.of = l
      BY <2>4
    <3>2. u \in Task /\ u.op = "batch"
      BY DEF Task, BatchTask
    <3>3. ASSUME NEW t \in TaskSet, Name(t) = Name(u) PROVE FALSE
      <4>1. t.op = "batch" /\ t.of = l
        BY <3>1, <3>2, <3>3, TaskFields, NameIs
      <4> QED
        BY <2>1, <4>1, AwaitedIs DEF OneTask, Awaited
    <3>4. HearingOK'
      BY <2>1, AwaitedIs DEF OneTask, HearingOK
    <3> QED
      BY <2>1, <2>2, <2>4, <3>1, <3>2, <3>3, <3>4, OneMore
  <2>5. queue' = queue \/ (run'[l].pc = "queued" /\ \E t \in BatchTask : queue' = Append(queue, t) /\ t.of = l)
    <3> SUFFICES ASSUME queue' # queue PROVE run'[l].pc = "queued" /\ \E t \in BatchTask : queue' = Append(queue, t) /\ t.of = l
      OBVIOUS
    <3>1. /\ run'[l].pc = "queued"
          /\ \E t \in BatchTask :
                /\ queue' = Append(queue, t) /\ t.of = l /\ t.indexed <= length[l]
                /\ ToSet(t.blocks) = {<<l, s>> : s \in Open(l)}
                /\ t.indexed <= log[l].scanned /\ \A s \in log'[l].holes : t.indexed <= s
      BY <1>5, RunBatchDoes
    <3> QED
      BY <3>1
  <2> QED
    BY <2>3, <2>4, <2>5
<1>6. CASE RunEnd(l)
  <2>1. UNCHANGED <<queue, after, hearing, scene>>
    BY <1>6 DEF RunEnd
  <2> QED
    BY <1>6, <2>1, RunEndDoes, RunsWaitBut, OneTaskStays
<1>7. CASE HoleTimer(l)
  <2>1. UNCHANGED <<queue, after, hearing, scene>>
    BY <1>7 DEF HoleTimer
  <2> QED
    BY <1>7, <2>1, HoleTimerDoes, StartedWaits, OneTaskStays
<1>8. CASE CutBegin(l)
  <2>1. UNCHANGED <<after, hearing, scene, run>>
    BY <1>8 DEF CutBegin
  <2>2. queue' = Append(queue, CutOf(l)) /\ CutOf(l) \in CutTask /\ CutOf(l).of = l /\ \A t \in TaskSet : t.op = "cut" => t.of # l
    BY <1>8, CutBeginDoes, CutOfIs DEF TaskSet
  <2> DEFINE u == CutOf(l)
  <2>3. u \in Task /\ u.op = "cut" /\ u.of = l
    BY <2>2 DEF Task, CutTask
  <2> HIDE DEF u
  <2>4. \A t \in TaskSet : Name(t) # Name(u)
    BY <2>2, <2>3, TaskFields, NameIs
  <2>5. HearingOK' /\ RunsWait
    BY <2>1, AwaitedIs DEF OneTask, HearingOK, RunsWait
  <2>6. queue' = Append(queue, u)
    BY <2>2 DEF u
  <2> QED
    BY <2>1, <2>3, <2>4, <2>5, <2>6, OneMore
<1> QED
  BY <1>1, <1>2, <1>3, <1>4, <1>5, <1>6, <1>7, <1>8

\* What a commit does to the queue, whatever task it is.
Writes(t, ix) ==
    /\ Apply(t, ix) /\ RunsWait
    /\ t.op = "batch" => WritesBatch(t) /\ ix = Effect(t)
    /\ t.op = "cut" => WritesCut(t) /\ ix = Effect(t)
    /\ t.op = "moderate" => WritesModeration(t) /\ ix = Effect(t)
    /\ t.op = "rights" => WritesRights(t) /\ ix = Effect(Judged(t))

LEMMA CommitApplies ==
    ASSUME Shape, CommitBatch \/ CommitCut \/ CommitModeration \/ CommitRights
    PROVE  \E t \in ToSet(queue), ix \in Ix : Writes(t, ix)
<1>1. \A t \in ToSet(queue) : t \in Task /\ Effect(t) \in Ix
  BY EffectIs DEF Shape, TaskShape, ToSet
<1>2. CASE CommitBatch
  <2>1. PICK t \in ToSet(queue) : WritesBatch(t)
    BY <1>2 DEF CommitBatch, WritesBatch
  <2>2. t.op = "batch" /\ Apply(t, Effect(t)) /\ RunsWait
    BY <2>1 DEF WritesBatch, RunsWait
  <2>3. Effect(t) \in Ix
    BY <1>1
  <2> DEFINE ix == Effect(t)
  <2> HIDE DEF ix
  <2>4. ix \in Ix /\ Apply(t, ix) /\ ix = Effect(t)
    BY <2>2, <2>3 DEF ix
  <2>6. Writes(t, ix)
    BY <2>1, <2>2, <2>4 DEF Writes
  <2> QED
    BY <2>4, <2>6
<1>3. CASE CommitCut
  <2>1. PICK t \in ToSet(queue) : WritesCut(t)
    BY <1>3 DEF CommitCut, WritesCut
  <2>2. t.op = "cut" /\ Apply(t, Effect(t)) /\ RunsWait
    BY <2>1 DEF WritesCut, RunsWait
  <2>3. Effect(t) \in Ix
    BY <1>1
  <2> DEFINE ix == Effect(t)
  <2> HIDE DEF ix
  <2>4. ix \in Ix /\ Apply(t, ix) /\ ix = Effect(t)
    BY <2>2, <2>3 DEF ix
  <2>6. Writes(t, ix)
    BY <2>1, <2>2, <2>4 DEF Writes
  <2> QED
    BY <2>4, <2>6
<1>4. CASE CommitModeration
  <2>1. PICK t \in ToSet(queue) : WritesModeration(t)
    BY <1>4, CommitModerationIs
  <2>2. RunsWait
    <3>1. ASSUME NEW l \in Logs, run[l].pc = "queued" PROVE run'[l] = run[l]
      BY <2>1, <3>1, CommitModerationDoes, StartedIs DEF Shape
    <3> QED
      BY <3>1 DEF RunsWait
  <2>3. t.op = "moderate" /\ Apply(t, Effect(t))
    BY <2>1 DEF WritesModeration
  <2> DEFINE ix == Effect(t)
  <2> HIDE DEF ix
  <2>4. ix \in Ix /\ Apply(t, ix) /\ ix = Effect(t)
    BY <1>1, <2>3 DEF ix
  <2>6. Writes(t, ix)
    BY <2>1, <2>2, <2>3, <2>4 DEF Writes
  <2> QED
    BY <2>4, <2>6
<1>5. CASE CommitRights
  <2>1. PICK t \in ToSet(queue) : WritesRights(t)
    BY <1>5 DEF CommitRights, WritesRights, Judged
  <2>2. Judged(t) \in Task
    BY <2>1, JudgedIs DEF WritesRights, Task
  <2>3. Effect(Judged(t)) \in Ix
    BY <2>2, EffectIs
  <2>4. t.op = "rights" /\ Apply(t, Effect(Judged(t))) /\ RunsWait
    BY <2>1 DEF WritesRights, RunsWait
  <2> DEFINE ix == Effect(Judged(t))
  <2> HIDE DEF ix
  <2>5. ix \in Ix /\ Apply(t, ix) /\ ix = Effect(Judged(t))
    BY <2>3, <2>4 DEF ix
  <2>6. Writes(t, ix)
    BY <2>1, <2>4, <2>5 DEF Writes
  <2> QED
    BY <2>5, <2>6
<1> QED
  BY <1>2, <1>3, <1>4, <1>5

LEMMA CommitOneTask ==
    ASSUME Shape, OneTask, CommitBatch \/ CommitCut \/ CommitModeration \/ CommitRights
    PROVE  OneTask'
<1>1. PICK t \in ToSet(queue), ix \in Ix : Apply(t, ix) /\ RunsWait
  BY CommitApplies DEF Writes
<1> QED
  BY <1>1, OneCommitted

LEMMA AfterOneTask ==
    ASSUME Shape, OneTask, NEW a \in after, FinishBatch(a) \/ FinishCut(a) \/ FinishDecision(a) \/ \E i \in a.clears : Clear(a, i)
    PROVE  OneTask'
<1>1. HearingOK
  BY AwaitedIs DEF OneTask
<1>2. CASE FinishBatch(a)
  <2>1. after' = after \ {a} /\ queue' = queue /\ scene' = scene /\ hearing' = hearing /\ a.op = "batch"
    BY <1>2, FinishBatchDoes, FinishDoes
  <2>2. ASSUME NEW l \in Logs, run[l].pc = "queued", l # a.of PROVE run'[l].pc = "queued"
    BY <1>2, <2>2, FinishBatchDoes, StartedIs DEF Shape
  <2>3. HearingOK'
    BY <1>1, <2>1 DEF HearingOK
  <2> QED
    BY <2>1, <2>2, <2>3, OneFinished
<1>3. CASE FinishCut(a)
  <2>1. after' = after \ {a} /\ queue' = queue /\ scene' = scene /\ hearing' = hearing /\ run' = run
    BY <1>3 DEF FinishCut, Finish
  <2>2. HearingOK'
    BY <1>1, <2>1 DEF HearingOK
  <2> QED
    BY <2>1, <2>2, OneFinished
<1>4. CASE FinishDecision(a)
  <2>1. /\ after' = after \ {a} /\ queue' = queue /\ scene' = scene /\ run' = run /\ a.op \in {"moderate", "rights"}
        /\ hearing' = {IF h.n = a.of THEN [h EXCEPT !.stage = "rights"] ELSE h :
                        h \in {h \in hearing : h.n # a.of \/ a.op = "moderate"}}
    BY <1>4 DEF FinishDecision, Finish
  <2>2. \A h \in hearing : h \in Hearing /\ [h EXCEPT !.stage = "rights"].n = h.n
    BY DEF Shape, TaskShape, Hearing
  <2>3. \A h \in hearing : h.n # a.of => h \in hearing'
    BY <2>1
  <2>4. \A g \in hearing' : \E h \in hearing :
            /\ g.n = h.n /\ (g = h \/ g = [h EXCEPT !.stage = "rights"])
            /\ g = h <=> h.n # a.of \/ [h EXCEPT !.stage = "rights"] = h
    BY <2>1, <2>2
  <2>5. HearingOK'
    <3>1. ASSUME NEW g \in hearing', NEW k \in hearing', g.n = k.n PROVE g = k
      <4>1. PICK h \in hearing : g = IF h.n = a.of THEN [h EXCEPT !.stage = "rights"] ELSE h
        BY <2>1
      <4>2. PICK j \in hearing : k = IF j.n = a.of THEN [j EXCEPT !.stage = "rights"] ELSE j
        BY <2>1
      <4>3. g.n = h.n /\ k.n = j.n
        BY <2>2, <4>1, <4>2
      <4>4. h = j
        BY <1>1, <3>1, <4>3 DEF HearingOK
      <4> QED
        BY <4>1, <4>2, <4>4
    <3>2. ASSUME NEW g \in hearing' PROVE g.n = 0 \/ g.n > scene'.moves
      <4>1. PICK h \in hearing : g.n = h.n
        BY <2>4
      <4> QED
        BY <1>1, <2>1, <4>1 DEF HearingOK
    <3> QED
      BY <3>1, <3>2 DEF HearingOK
  <2> QED
    BY <2>1, <2>3, <2>5, OneFinished
<1>5. ASSUME NEW i \in a.clears, Clear(a, i) PROVE OneTask'
  <2> DEFINE b == [a EXCEPT !.clears = a.clears \ {i}]
  <2>1. after' = (after \ {a}) \cup {b} /\ UNCHANGED <<scene, run, queue, hearing>> /\ b \in Committed
    BY <1>5, ClearDoes
  <2>2. b.op = a.op /\ b.of = a.of
    BY DEF Shape, TaskShape, Committed
  <2> HIDE DEF b
  <2>3. Name(b) = Name(a)
    BY <2>2 DEF Name
  <2>4. TasksApart'
    BY <2>1, <2>3 DEF OneTask, TasksApart, Name
  <2>5. TasksAwaited'
    BY <2>1, <2>2 DEF OneTask, TasksAwaited
  <2> QED
    BY <2>4, <2>5 DEF OneTask
<1> QED
  BY <1>2, <1>3, <1>4, <1>5

LEMMA RestOneTask ==
    ASSUME Shape, OneTask,
           \/ \E l \in Logs : \E s \in Known(l) : Download(l, s)
           \/ Unlock \/ (\E d \in scene.decide : Decide(d)) \/ (\E h \in hearing : Moderate(h) \/ Reauthorize(h))
           \/ ReadRows \/ ReadEnd \/ Crash \/ UNCHANGED vars
    PROVE  OneTask'
<1>1. HearingOK
  BY AwaitedIs DEF OneTask
<1>2. ASSUME NEW l \in Logs, NEW s \in Known(l), Download(l, s) PROVE OneTask'
  BY <1>2, DownloadDoes, StartedWaits, OneTaskStays DEF Calls
<1>3. CASE Unlock
  <2>1. scene' = [scene EXCEPT !.locked = {}] /\ UNCHANGED <<queue, after, hearing>> /\ scene \in Scene
    BY <1>3 DEF Unlock, Shape, SceneOK
  <2>2. scene'.moves = scene.moves
    BY <2>1 DEF Scene
  <2>3. RunsWait
    BY <1>3, UnlockDoes, StartedIs DEF RunsWait, Shape
  <2> QED
    BY <2>1, <2>2, <2>3, OneTaskStays
<1>4. ASSUME NEW d \in scene.decide, Decide(d) PROVE OneTask'
  <2> DEFINE T == IF d.op = "moderate" THEN {d.on} ELSE {}
             g == [n |-> scene.moves, stage |-> "moderate", touched |-> T]
  <2>1. /\ scene' = [scene EXCEPT !.moves = scene.moves - 1] /\ UNCHANGED <<run, queue, after>> /\ scene \in Scene
        /\ scene.moves > 0 /\ hearing' = hearing \cup {g}
    BY <1>4 DEF Decide, Shape, SceneOK
  <2>2. scene'.moves = scene.moves - 1 /\ scene.moves \in Nat
    BY <2>1 DEF Scene
  <2>3. \A h \in hearing : h.n \in Nat
    BY DEF Shape, TaskShape, Hearing
  <2>4. g.n = scene.moves
    OBVIOUS
  <2> HIDE DEF g
  <2>5. HearingOK'
    BY <1>1, <2>1, <2>2, <2>3, <2>4 DEF HearingOK
  <2>6. TasksApart'
    BY <2>1 DEF OneTask, TasksApart, Name
  <2> QED
    BY <2>1, <2>5, <2>6 DEF OneTask, TasksAwaited, HearingOK
<1>5. ASSUME NEW h \in hearing, Moderate(h) PROVE OneTask'
  <2>1. UNCHANGED <<scene, run, after>> /\ h.stage = "moderate" /\ RunsWait
    BY <1>5, ModerateDoes DEF RunsWait
  <2>2. CASE queue' = queue /\ hearing' = (hearing \ {h}) \cup {[h EXCEPT !.stage = "rights"]}
    <3>1. HearingOK' /\ \A k \in hearing : k.stage = "queued" => k \in hearing'
      BY <2>1, <2>2, HearingGoes
    <3>2. TasksApart'
      BY <2>1, <2>2 DEF OneTask, TasksApart, Name
    <3> QED
      BY <2>1, <2>2, <3>1, <3>2 DEF OneTask, TasksAwaited, HearingOK
  <2>3. CASE /\ queue' = Append(queue, ModerationOf(h)) /\ hearing' = (hearing \ {h}) \cup {[h EXCEPT !.stage = "queued"]}
             /\ ModerationOf(h) \in ModerateTask
    <3> DEFINE u == ModerationOf(h)
               g == [h EXCEPT !.stage = "queued"]
    <3>1. HearingOK' /\ g.n = h.n /\ g.stage = "queued" /\ g \in hearing' /\ \A k \in hearing : k.stage = "queued" => k \in hearing'
      BY <2>1, <2>3, HearingGoes
    <3>2. u.op = "moderate" /\ u.of = h.n
      BY DEF ModerationOf
    <3> HIDE DEF u, g
    <3>3. u \in Task /\ queue' = Append(queue, u)
      BY <2>3 DEF Task, u
    <3>4. ASSUME NEW t \in TaskSet, Name(t) = Name(u) PROVE FALSE
      <4>1. t.of = h.n /\ t.op \in {"moderate", "rights"}
        BY <3>2, <3>4, TaskFields, NameIs
      <4>2. Awaited(t)
        BY AwaitedIs DEF OneTask
      <4> QED
        BY <1>1, <2>1, <4>1, <4>2 DEF Awaited, HearingOK
    <3> QED
      BY <2>1, <3>1, <3>2, <3>3, <3>4, OneMore
  <2> QED
    BY <1>5, <2>2, <2>3, ModerateDoes
<1>6. ASSUME NEW h \in hearing, Reauthorize(h) PROVE OneTask'
  <2>1. UNCHANGED <<scene, run, after>> /\ h.stage = "rights" /\ RunsWait
    BY <1>6, ReauthorizeDoes DEF RunsWait
  <2>2. CASE queue' = queue /\ hearing' = hearing \ {h}
    <3>1. HearingOK' /\ \A k \in hearing : k.stage = "queued" => k \in hearing'
      BY <1>1, <2>1, <2>2 DEF HearingOK
    <3>2. TasksApart'
      BY <2>1, <2>2 DEF OneTask, TasksApart, Name
    <3> QED
      BY <2>1, <2>2, <3>1, <3>2 DEF OneTask, TasksAwaited, HearingOK
  <2>3. CASE /\ queue' = Append(queue, [op |-> "rights", of |-> h.n, blocks |-> << >>])
             /\ hearing' = (hearing \ {h}) \cup {[h EXCEPT !.stage = "queued"]}
             /\ [op |-> "rights", of |-> h.n, blocks |-> << >>] \in RightsTask
    <3> DEFINE u == [op |-> "rights", of |-> h.n, blocks |-> << >>]
               g == [h EXCEPT !.stage = "queued"]
    <3>1. HearingOK' /\ g.n = h.n /\ g.stage = "queued" /\ g \in hearing' /\ \A k \in hearing : k.stage = "queued" => k \in hearing'
      BY <2>1, <2>3, HearingGoes
    <3>2. u.op = "rights" /\ u.of = h.n
      OBVIOUS
    <3> HIDE DEF u, g
    <3>3. u \in Task /\ queue' = Append(queue, u)
      BY <2>3 DEF Task, u
    <3>4. ASSUME NEW t \in TaskSet, Name(t) = Name(u) PROVE FALSE
      <4>1. t.of = h.n /\ t.op \in {"moderate", "rights"}
        BY <3>2, <3>4, TaskFields, NameIs
      <4>2. Awaited(t)
        BY AwaitedIs DEF OneTask
      <4> QED
        BY <1>1, <2>1, <4>1, <4>2 DEF Awaited, HearingOK
    <3> QED
      BY <2>1, <3>1, <3>2, <3>3, <3>4, OneMore
  <2> QED
    BY <1>6, <2>2, <2>3, ReauthorizeDoes
<1>7. CASE Crash
  <2>1. queue' = << >> /\ after' = {} /\ hearing' = Opening /\ scene'.moves = scene.moves
    <3>1. scene \in Scene /\ scene' = [scene EXCEPT !.crashes = scene.crashes - 1]
      BY <1>7, CrashDoes DEF Shape, SceneOK
    <3>2. scene'.moves = scene.moves
      BY <3>1 DEF Scene
    <3> QED
      BY <1>7, <3>2, CrashDoes
  <2>2. ToSet(queue') = {} /\ DOMAIN queue' = {}
    BY <2>1 DEF ToSet
  <2> QED
    BY <2>1, <2>2 DEF OneTask, TasksApart, TasksAwaited, Opening
<1>8. CASE ReadRows \/ ReadEnd \/ UNCHANGED vars
  <2>1. UNCHANGED <<scene, run, queue, after, hearing>>
    BY <1>8 DEF ReadRows, ReadEnd, vars
  <2>2. RunsWait
    BY <2>1 DEF RunsWait
  <2> QED
    BY <2>1, <2>2, OneTaskStays
<1> QED
  BY <1>2, <1>3, <1>4, <1>5, <1>6, <1>7, <1>8

LEMMA OneTaskStep ==
    ASSUME Shape, OneTask, [Next]_vars
    PROVE  OneTask'
<1>1. UNCHANGED vars \/ Step
  BY NextSteps
<1> QED
  BY <1>1, LogStepOneTask, CommitOneTask, AfterOneTask, RestOneTask DEF Step

-----------------------------------------------------------------------------
(* The steps that leave the index, and every log's place, alone.           *)

\* What of a scene a step may use up.
SceneKept == scene'.content = scene.content /\ scene'.decide = scene.decide /\ scene'.reads = scene.reads
             /\ scene'.editor = scene.editor /\ scene'.locked \in SUBSET scene.locked /\ scene'.grows = scene.grows

Kept(l) ==
    /\ log'[l].scanned = log[l].scanned /\ log'[l].indexed = log[l].indexed /\ log'[l].limit = log[l].limit
    /\ log'[l].cut = log[l].cut /\ log'[l].holes = log[l].holes

\* A run begins a batch with holes that arrived.
Takes(l) ==
    /\ run[l].pc \in {"start", "take"} /\ run'[l].pc = "scan" /\ ToSet(run'[l].batch) \in SUBSET (log[l].holes \cap held[l])
    /\ run'[l].end = (IF length[l] < log[l].limit THEN length[l] ELSE log[l].limit)
    /\ log'[l].uncommitted = TRUE /\ memo'.had # None

RunMoves(l) ==
    \/ run'[l] = run[l] /\ log'[l].uncommitted = log[l].uncommitted
    \/ run[l].pc = "idle" /\ run'[l].pc = "start" /\ log'[l].uncommitted = log[l].uncommitted
    \/ run[l].pc = "leaving" /\ run'[l].pc = "idle" /\ log'[l].uncommitted = FALSE
    \/ Takes(l)

Decided ==
    /\ \A l \in Logs : limit'[l] <= limit[l]
    /\ \A i \in Ids : mods[i] = "removed" => mods'[i] = "removed"

Keeps ==
    /\ \A l \in Logs : Kept(l) /\ RunMoves(l)
    /\ UNCHANGED disk /\ SceneKept /\ scene'.crashes = scene.crashes
    /\ memo.had # None => memo'.had = memo.had
    /\ ToSet(queue) \in SUBSET ToSet(queue') /\ \A t \in ToSet(queue') : t \in ToSet(queue) \/ t.op \in {"moderate", "rights"}
    /\ \A a \in after' : \E b \in after : a.op = b.op /\ a.of = b.of /\ a.clears \in SUBSET b.clears /\ a.wiped = b.wiped
    /\ Decided

Aside ==
    \/ \E l \in Logs : Grow(l) \/ RunTake(l) \/ RunEnd(l) \/ HoleTimer(l) \/ \E s \in Known(l) : Download(l, s)
    \/ Unlock
    \/ \E a \in after : FinishCut(a) \/ FinishDecision(a) \/ \E i \in a.clears : Clear(a, i)
    \/ \E d \in scene.decide : Decide(d)
    \/ \E h \in hearing : Moderate(h) \/ Reauthorize(h)
    \/ ReadRows \/ ReadEnd \/ UNCHANGED vars

LEMMA StillDecided ==
    ASSUME Shape, limit' = limit, mods' = mods
    PROVE  Decided
<1>1. \A l \in Logs : limit[l] \in Nat
  BY PlacesAre DEF Shape, DiskShape
<1> QED
  BY <1>1 DEF Decided

LEMMA SceneAsIs == ASSUME scene' = scene PROVE SceneKept /\ scene'.crashes = scene.crashes /\ scene'.moves = scene.moves
BY DEF SceneKept

\* One log calls or is called: nothing else moves.
LEMMA OneKeeps ==
    ASSUME Shape, NEW l \in Logs, OnlyLog(l), Kept(l), RunMoves(l),
           UNCHANGED <<scene, disk, decided, queue, after>>, memo.had # None => memo'.had = memo.had
    PROVE  Keeps
<1>1. \A k \in Logs : Kept(k) /\ RunMoves(k)
  BY DEF OnlyLog, Kept, RunMoves
<1>2. Decided /\ SceneKept /\ scene'.crashes = scene.crashes
  BY StillDecided, SceneAsIs DEF decided
<1> QED
  BY <1>1, <1>2 DEF Keeps

LEMMA StartedMoves ==
    ASSUME Shape, NEW l \in Logs, run'[l] = Started(l), log'[l].uncommitted = log[l].uncommitted
    PROVE  RunMoves(l)
BY StartedIs DEF Shape, RunMoves

\* No log, and no run, moves.
LEMMA NoneKeeps ==
    ASSUME Shape, UNCHANGED <<log, run, disk>>, SceneKept, scene'.crashes = scene.crashes, memo.had # None => memo'.had = memo.had,
           ToSet(queue) \in SUBSET ToSet(queue'), \A t \in ToSet(queue') : t \in ToSet(queue) \/ t.op \in {"moderate", "rights"},
           \A a \in after' : \E b \in after : a.op = b.op /\ a.of = b.of /\ a.clears \in SUBSET b.clears /\ a.wiped = b.wiped,
           Decided
    PROVE  Keeps
BY DEF Keeps, Kept, RunMoves

LEMMA LogKeeps ==
    ASSUME Shape, NEW l \in Logs, Grow(l) \/ RunTake(l) \/ RunEnd(l) \/ HoleTimer(l) \/ \E s \in Known(l) : Download(l, s)
    PROVE  Keeps
<1>1. CASE Grow(l)
  BY <1>1, GrowDoes, StartedMoves, OneKeeps DEF Calls, Kept
<1>2. CASE RunTake(l)
  <2>1. /\ UNCHANGED <<scene, disk, decided, queue, after>> /\ run[l].pc \in {"start", "take"}
        /\ memo' = [memo EXCEPT !.had = IF @ # None THEN @ ELSE [changes |-> changes # {}, records |-> DOMAIN rows # {}]]
    BY <1>2 DEF RunTake
  <2>2. (memo.had # None => memo'.had = memo.had) /\ memo'.had # None
    <3> DEFINE r == [changes |-> changes # {}, records |-> DOMAIN rows # {}]
    <3>1. r \in [changes : BOOLEAN, records : BOOLEAN]
      OBVIOUS
    <3> HIDE DEF r
    <3>2. memo \in Memo /\ r # None
      BY <3>1, IndexAssumption DEF Shape, TaskShape
    <3>3. memo' = [memo EXCEPT !.had = IF memo.had # None THEN memo.had ELSE r]
      BY <2>1 DEF r
    <3>4. memo'.had = IF memo.had # None THEN memo.had ELSE r
      BY <3>2, <3>3 DEF Memo
    <3> QED
      BY <3>2, <3>4
  <2>3. OnlyLog(l) /\ Kept(l) /\ Takes(l)
    BY <1>2, <2>1, <2>2, RunTakeDoes DEF Kept, Takes
  <2>4. RunMoves(l)
    BY <2>3 DEF RunMoves
  <2> QED
    BY <2>1, <2>2, <2>3, <2>4, OneKeeps
<1>3. CASE RunEnd(l)
  <2>1. UNCHANGED <<scene, disk, decided, queue, after, memo>>
    BY <1>3 DEF RunEnd
  <2>2. OnlyLog(l) /\ Kept(l) /\ run[l].pc = "leaving" /\ run'[l].pc = "idle" /\ log'[l].uncommitted = FALSE
    BY <1>3, RunEndDoes, IdleIs DEF Kept
  <2>3. RunMoves(l)
    BY <2>2 DEF RunMoves
  <2> QED
    BY <2>1, <2>2, <2>3, OneKeeps
<1>4. CASE HoleTimer(l)
  <2>1. UNCHANGED <<scene, disk, decided, queue, after, memo>>
    BY <1>4 DEF HoleTimer
  <2>2. OnlyLog(l) /\ Kept(l) /\ run'[l] = Started(l) /\ log'[l].uncommitted = log[l].uncommitted
    BY <1>4, HoleTimerDoes DEF Kept
  <2> QED
    BY <2>1, <2>2, StartedMoves, OneKeeps
<1>5. ASSUME NEW s \in Known(l), Download(l, s) PROVE Keeps
  BY <1>5, DownloadDoes, StartedMoves, OneKeeps DEF Calls, Kept
<1> QED
  BY <1>1, <1>2, <1>3, <1>4, <1>5

LEMMA FinishKeeps ==
    ASSUME Shape, NEW a \in after, FinishCut(a) \/ FinishDecision(a) \/ \E i \in a.clears : Clear(a, i)
    PROVE  Keeps
<1>1. CASE FinishCut(a) \/ FinishDecision(a)
  <2>1. UNCHANGED <<log, run, disk, scene, memo, queue, limit, mods>> /\ after' = after \ {a}
    BY <1>1 DEF FinishCut, FinishDecision, Finish, decided
  <2> QED
    BY <2>1, SceneAsIs, StillDecided, NoneKeeps
<1>2. ASSUME NEW i \in a.clears, Clear(a, i) PROVE Keeps
  <2> DEFINE b == [a EXCEPT !.clears = a.clears \ {i}]
  <2>1. after' = (after \ {a}) \cup {b} /\ UNCHANGED <<log, run, disk, scene, memo, queue, limit, mods>>
    BY <1>2, ClearDoes DEF decided
  <2>2. a.op = b.op /\ a.of = b.of /\ b.clears \in SUBSET a.clears /\ a.wiped = b.wiped
    BY DEF Shape, TaskShape, Committed
  <2> HIDE DEF b
  <2> QED
    BY <2>1, <2>2, SceneAsIs, StillDecided, NoneKeeps
<1> QED
  BY <1>1, <1>2

LEMMA UnlockKeeps ==
    ASSUME Shape, Unlock
    PROVE  Keeps
<1>1. scene' = [scene EXCEPT !.locked = {}] /\ UNCHANGED <<disk, queue, after, memo, limit, mods>> /\ scene \in Scene
  BY DEF Unlock, Shape, SceneOK, decided
<1>2. SceneKept /\ scene'.crashes = scene.crashes
  BY <1>1 DEF SceneKept, Scene
<1>3. \A l \in Logs : Kept(l) /\ run'[l] = Started(l) /\ log'[l].uncommitted = log[l].uncommitted
  BY UnlockDoes DEF Kept
<1> QED
  BY <1>1, <1>2, <1>3, StartedMoves, StillDecided DEF Keeps

LEMMA DecideMoves ==
    ASSUME Shape, NEW d \in scene.decide, Decide(d)
    PROVE  /\ Decided /\ SceneKept /\ scene'.crashes = scene.crashes /\ scene'.moves = scene.moves - 1
           /\ d \in Decision /\ scene.moves \in Nat /\ scene.moves > 0
<1>1. scene' = [scene EXCEPT !.moves = scene.moves - 1] /\ scene \in Scene /\ d \in Decision /\ scene.moves > 0
  BY DEF Decide, Shape, SceneOK, Scene
<1>2. SceneKept /\ scene'.crashes = scene.crashes /\ scene'.moves = scene.moves - 1 /\ scene.moves \in Nat
  BY <1>1 DEF SceneKept, Scene
<1>3. Decided
  <2>1. limit \in [Logs -> 1 .. Inf] /\ mods \in [Ids -> Moderations]
    BY DEF Shape, DiskShape
  <2>2. \A l \in Logs : limit[l] \in Nat
    BY <2>1, PlacesAre
  <2>3. CASE mods[d.on] # "removed" /\ mods' = [mods EXCEPT ![d.on] = d.as] /\ limit' = limit
    BY <2>1, <2>2, <2>3 DEF Decided
  <2>4. CASE d.op = "cut" /\ d.as < limit[d.on] /\ limit' = [limit EXCEPT ![d.on] = d.as] /\ mods' = mods
    <3>1. d.as \in Nat /\ d.on \in Logs
      BY <1>1, <2>4, PlacesAre DEF Decision
    <3> QED
      BY <2>1, <2>2, <2>4, <3>1 DEF Decided
  <2>5. CASE mods' = mods /\ limit' = limit
    BY <2>5, StillDecided
  <2> QED
    BY <2>3, <2>4, <2>5 DEF Decide
<1> QED
  BY <1>1, <1>2, <1>3

LEMMA HearingKeeps ==
    ASSUME Shape, \/ \E d \in scene.decide : Decide(d)
                  \/ \E h \in hearing : Moderate(h) \/ Reauthorize(h)
                  \/ ReadRows \/ ReadEnd \/ UNCHANGED vars
    PROVE  Keeps
<1>1. ASSUME NEW d \in scene.decide, Decide(d) PROVE Keeps
  <2>1. UNCHANGED <<log, run, disk, memo, queue, after>>
    BY <1>1 DEF Decide
  <2> QED
    BY <1>1, <2>1, DecideMoves, NoneKeeps
<1>2. ASSUME NEW h \in hearing, Moderate(h) PROVE Keeps
  <2>1. UNCHANGED <<log, run, disk, memo, after, scene, limit, mods>>
    BY <1>2, ModerateDoes DEF decided
  <2>2. ToSet(queue) \in SUBSET ToSet(queue') /\ \A t \in ToSet(queue') : t \in ToSet(queue) \/ t.op \in {"moderate", "rights"}
    <3>1. CASE queue' = queue
      BY <3>1
    <3>2. CASE queue' = Append(queue, ModerationOf(h)) /\ ModerationOf(h) \in ModerateTask
      <4>1. queue \in Seq(Task) /\ ModerationOf(h) \in Task /\ ModerationOf(h).op = "moderate"
        BY <3>2 DEF Shape, TaskShape, Task, ModerateTask
      <4>2. ToSet(queue') = ToSet(queue) \cup {ModerationOf(h)}
        BY <3>2, <4>1, AppendIs
      <4> QED
        BY <4>1, <4>2
    <3> QED
      BY <1>2, <3>1, <3>2, ModerateDoes
  <2> QED
    BY <2>1, <2>2, SceneAsIs, StillDecided, NoneKeeps
<1>3. ASSUME NEW h \in hearing, Reauthorize(h) PROVE Keeps
  <2>1. UNCHANGED <<log, run, disk, after, scene, limit, mods>>
    BY <1>3, ReauthorizeDoes DEF decided
  <2>2. memo'.had = memo.had
    <3>1. memo' = memo \/ memo' = [memo EXCEPT !.rights = elimit]
      BY <1>3, ReauthorizeDoes
    <3> QED
      BY <3>1 DEF Shape, TaskShape, Memo
  <2>3. ToSet(queue) \in SUBSET ToSet(queue') /\ \A t \in ToSet(queue') : t \in ToSet(queue) \/ t.op \in {"moderate", "rights"}
    <3> DEFINE u == [op |-> "rights", of |-> h.n, blocks |-> << >>]
    <3>1. CASE queue' = queue
      BY <3>1
    <3>2. CASE queue' = Append(queue, u) /\ u \in RightsTask
      <4>1. u.op = "rights"
        OBVIOUS
      <4> HIDE DEF u
      <4>2. queue \in Seq(Task) /\ u \in Task
        BY <3>2 DEF Shape, TaskShape, Task
      <4>3. ToSet(queue') = ToSet(queue) \cup {u}
        BY <3>2, <4>2, AppendIs
      <4> QED
        BY <4>1, <4>3
    <3> QED
      BY <1>3, <3>1, <3>2, ReauthorizeDoes
  <2> QED
    BY <2>1, <2>2, <2>3, SceneAsIs, StillDecided, NoneKeeps
<1>4. CASE ReadRows \/ ReadEnd \/ UNCHANGED vars
  <2>1. UNCHANGED <<log, run, disk, memo, queue, after, scene, limit, mods>>
    BY <1>4 DEF ReadRows, ReadEnd, vars, decided, disk
  <2> QED
    BY <2>1, SceneAsIs, StillDecided, NoneKeeps
<1> QED
  BY <1>1, <1>2, <1>3, <1>4

LEMMA AsideKeeps == ASSUME Shape, Aside PROVE Keeps
BY LogKeeps, UnlockKeeps, FinishKeeps, HearingKeeps DEF Aside

-----------------------------------------------------------------------------
(* What a complete answer rests on, where the space is read.               *)

\* No log is cut; or, where one is, the process does not die.
NoCuts(s) == \A d \in s.decide : d.op # "cut"
CutsApart(s) == s.crashes = 0 \/ NoCuts(s)

\* Nothing is deleted or taken down.
NothingCleared(s) ==
    /\ \A l \in Logs : \A n \in DOMAIN s.content[l] : s.content[l][n].kind # "delete"
    /\ \A d \in s.decide : d.op = "moderate" => d.as # "removed"

Tame(s) == s.reads => CutsApart(s) /\ NothingCleared(s)

LEMMA TameStays ==
    ASSUME Tame(scene), SceneKept, scene'.crashes = scene.crashes \/ scene.crashes # 0
    PROVE  Tame(scene') /\ (NoCuts(scene') <=> NoCuts(scene))
<1>1. NoCuts(scene') <=> NoCuts(scene)
  BY DEF SceneKept, NoCuts
<1>2. NothingCleared(scene) => NothingCleared(scene')
  BY DEF SceneKept, NothingCleared
<1>3. CutsApart(scene) => CutsApart(scene')
  BY <1>1 DEF CutsApart
<1> QED
  BY <1>1, <1>2, <1>3 DEF Tame, SceneKept

LEMMA NoDelete ==
    ASSUME SceneOK(scene), NothingCleared(scene)
    PROVE  \A c \in Written : Block(c).kind # "delete"
<1> SUFFICES ASSUME NEW c \in Written PROVE Block(c).kind # "delete"
  OBVIOUS
<1>1. c[1] \in Logs /\ c[2] \in DOMAIN scene.content[c[1]]
  BY BlockIs, IdsFinite DEF Written
<1> QED
  BY <1>1 DEF NothingCleared, Block

Past(x) == x[2] >= limit[x[1]]

\* A log is cut to no less than was decided, a cut's task takes what is past it.
Uncut(l) == limit[l] = Inf /\ log[l].limit = Inf /\ saved[l].cut = Inf /\ log[l].cut = Inf
Limits ==
    /\ \A l \in Logs : limit[l] <= log[l].limit
    /\ \A t \in ToSet(queue) : t.op = "cut" => \A x \in ToSet(t.blocks) : Past(x)
    /\ NoCuts(scene) => (\A l \in Logs : Uncut(l)) /\ \A t \in ToSet(queue) : t.op # "cut"

\* Nothing is taken down, no task leaves a block to clear.
NoneRemoved ==
    /\ \A i \in Ids : mods[i] # "removed"
    /\ \A t \in ToSet(queue) : t.op = "moderate" => \A i \in Ids : t.mods[i] # "removed"
NoneCleared == \A a \in after : a.clears = {} /\ a.wiped = {}

\* While a run holds blocks, or its batch waits, it says so.
Busy ==
    /\ \A l \in Logs : run[l].pc \in {"scan", "note"} => log[l].uncommitted
    /\ \A t \in ToSet(queue) : t.op = "batch" => log[t.of].uncommitted

\* Blocks passed that a run, or its batch, has not brought to the index yet, those
\* it has, and the records among them.
Pending(x) ==
    \/ run[x[1]].pc \in {"scan", "note"} /\ x[2] \in ToSet(run[x[1]].batch)
    \/ run[x[1]].pc = "note" /\ x[2] = run[x[1]].look
    \/ \E t \in ToSet(queue) : t.op = "batch" /\ t.of = x[1] /\ x \in ToSet(t.blocks)
Done(x) == x[2] < log[x[1]].scanned /\ x[2] \notin log[x[1]].holes /\ ~Pending(x)
Puts == {x \in Written : Block(x).kind = "put"}
In(x) == x \in DOMAIN rows \/ Past(x)

\* Each has its row, or was cut; and so has each that a batch, or the disk, says
\* to be done, as a process that opens again goes by that.
PassedIn == \A x \in Puts : Done(x) => In(x)
BatchesIn ==
    \A t \in ToSet(queue) : t.op = "batch" =>
        \A x \in Puts : x[1] = t.of /\ x[2] < t.indexed => x \in ToSet(t.blocks) \/ In(x)
SavedIn == scene.crashes > 0 => \A x \in Puts : x[2] < saved[x[1]].indexed => In(x)

ReadInv == Limits /\ NoneRemoved /\ NoneCleared /\ Busy /\ PassedIn /\ BatchesIn /\ SavedIn
Readable == Shape /\ OneTask /\ Tame(scene) /\ scene.reads /\ ReadInv

LEMMA ReadableIs ==
    ASSUME Readable
    PROVE  /\ Shape /\ OneTask /\ CutsApart(scene) /\ NothingCleared(scene) /\ Limits /\ NoneRemoved /\ NoneCleared /\ Busy
           /\ PassedIn /\ BatchesIn /\ SavedIn /\ SceneOK(scene) /\ \A c \in Written : Block(c).kind # "delete"
BY NoDelete DEF Readable, ReadInv, Tame, Shape

LEMMA LimitsAre == ASSUME Shape PROVE \A l \in Logs : limit[l] \in Nat /\ log[l].limit \in Nat
<1>1. \A l \in Logs : limit[l] \in 1 .. Inf /\ log[l].limit \in 1 .. Inf
  BY DEF Shape, DiskShape, LogShape, LogEntry
<1> QED
  BY <1>1, PlacesAre

LEMMA WhereWritten == ASSUME NEW x \in Written PROVE x[1] \in Logs /\ x[2] \in Spots /\ x = <<x[1], x[2]>> /\ x[2] \in Nat
<1>1. x[1] \in Logs /\ x[2] \in Spots /\ x = <<x[1], x[2]>>
  BY IdsFinite DEF Written, Spots
<1> QED
  BY <1>1, PlacesAre

LEMMA InitReadable == ASSUME Init PROVE ReadInv
<1>1. /\ log = [l \in Logs |-> Entry(1, Inf)] /\ limit = [l \in Logs |-> Inf] /\ queue = << >> /\ after = {}
      /\ saved = [l \in Logs |-> [indexed |-> 1, cut |-> Inf]]
      /\ run = [l \in Logs |-> [Idle EXCEPT !.pc = IF length[l] > 1 THEN "start" ELSE "idle"]]
      /\ mods = [i \in Ids |-> None]
  BY DEF Init
<1>2. ToSet(queue) = {}
  BY <1>1 DEF ToSet
<1>3. ASSUME NEW l \in Logs
      PROVE  /\ run[l].pc \notin {"scan", "note"} /\ log[l].scanned = 1 /\ saved[l].indexed = 1
             /\ limit[l] <= log[l].limit /\ Uncut(l)
  <2> DEFINE p == IF length[l] > 1 THEN "start" ELSE "idle"
  <2>1. p \in {"idle", "start"} /\ run[l] = [Idle EXCEPT !.pc = p]
    BY <1>1
  <2> HIDE DEF p
  <2>2. run[l].pc = p
    BY <2>1, IdleIs
  <2>3. log[l].scanned = 1 /\ log[l].limit = Inf /\ log[l].cut = Inf /\ limit[l] = Inf /\ saved[l].cut = Inf /\ saved[l].indexed = 1
    BY <1>1 DEF Entry
  <2> QED
    BY <2>1, <2>2, <2>3, PlacesAre DEF Uncut
<1>4. NoneRemoved /\ NoneCleared /\ Busy /\ BatchesIn /\ Limits
  BY <1>1, <1>2, <1>3, IndexAssumption DEF NoneRemoved, NoneCleared, Busy, BatchesIn, Limits
<1>5. PassedIn /\ SavedIn
  <2>1. \A x \in Puts : x[1] \in Logs /\ x[2] \in Spots /\ x[2] \in Nat /\ x[2] >= 1
    BY WhereWritten, PlacesAre DEF Puts
  <2> QED
    BY <1>3, <2>1 DEF PassedIn, SavedIn, Done
<1> QED
  BY <1>4, <1>5 DEF ReadInv

\* Whether some log is cut stays so, and what is past a log's limit.
LEMMA PastStays ==
    ASSUME Shape, Decided, limit' \in [Logs -> 1 .. Inf]
    PROVE  \A x : x[1] \in Logs /\ x[2] \in Nat /\ Past(x) => x[2] >= limit'[x[1]]
<1> SUFFICES ASSUME NEW x, x[1] \in Logs, x[2] \in Nat, Past(x) PROVE x[2] >= limit'[x[1]]
  OBVIOUS
<1>1. limit[x[1]] \in Nat /\ limit'[x[1]] \in Nat /\ limit'[x[1]] <= limit[x[1]] /\ x[2] >= limit[x[1]]
  BY PlacesAre, LimitsAre DEF Decided, Past
<1> QED
  BY <1>1

LEMMA CutBlocks ==
    ASSUME Shape, NEW t \in ToSet(queue), t.op = "cut"
    PROVE  \A x \in ToSet(t.blocks) : x[1] \in Logs /\ x[2] \in Nat
<1>1. t \in Task
  BY DEF Shape, TaskShape, ToSet
<1>2. t.blocks \in Seq(Ids)
  BY <1>1 DEF Task, BatchTask, CutTask, ModerateTask, RightsTask
<1>3. \A x \in ToSet(t.blocks) : x \in Ids
  BY <1>2 DEF ToSet
<1> QED
  BY <1>3, IdsFinite, PlacesAre DEF Spots

\* No cut begins and nothing else cuts a log: limits are still as they should be.
LEMMA LimitsStay ==
    ASSUME Readable, Shape', SceneKept, Decided, NoCuts(scene) => limit' = limit,
           \A l \in Logs : log'[l].limit = log[l].limit
                           /\ (log'[l].cut = log[l].cut \/ \E t \in ToSet(queue) : t.op = "cut")
                           /\ (saved'[l].cut \in {saved[l].cut, log[l].cut} \/ \E t \in ToSet(queue) : t.op = "cut"),
           \A t \in ToSet(queue') : t \in ToSet(queue) \/ t.op # "cut"
    PROVE  Limits'
<1>1. Limits /\ Shape
  BY ReadableIs
<1>2. limit' \in [Logs -> 1 .. Inf]
  BY DEF Shape, DiskShape
<1>3. \A l \in Logs : limit'[l] <= log'[l].limit
  <2> TAKE l \in Logs
  <2>1. limit'[l] \in Nat /\ limit[l] \in Nat /\ log[l].limit \in Nat /\ limit'[l] <= limit[l] /\ limit[l] <= log[l].limit
    BY <1>1, <1>2, PlacesAre, LimitsAre DEF Decided, Limits
  <2> QED
    BY <2>1
<1>4. \A t \in ToSet(queue') : t.op = "cut" => \A x \in ToSet(t.blocks) : x[2] >= limit'[x[1]]
  BY <1>1, <1>2, PastStays, CutBlocks DEF Limits
<1>5. NoCuts(scene') => (\A l \in Logs : Uncut(l)') /\ \A t \in ToSet(queue') : t.op # "cut"
  <2> SUFFICES ASSUME NoCuts(scene) PROVE (\A l \in Logs : Uncut(l)') /\ \A t \in ToSet(queue') : t.op # "cut"
    BY DEF SceneKept, NoCuts
  <2>1. \A t \in ToSet(queue) : t.op # "cut"
    BY <1>1 DEF Limits
  <2>2. \A l \in Logs : Uncut(l)
    BY <1>1 DEF Limits
  <2>3. \A l \in Logs : Uncut(l)'
    BY <2>1, <2>2 DEF Uncut
  <2> QED
    BY <2>1, <2>3
<1> DEFINE q == ToSet(queue')
<1>6. (\A t \in ToSet(queue) : t.op = "cut" => \A x \in ToSet(t.blocks) : Past(x))' <=>
      \A t \in ToSet(queue') : t.op = "cut" => \A x \in ToSet(t.blocks) : x[2] >= limit'[x[1]]
  BY DEF Past, ToSet
<1> QED
  BY <1>3, <1>4, <1>5, <1>6 DEF Limits, ToSet, NoCuts, Uncut

LEMMA NoCutKept ==
    ASSUME Readable, Aside
    PROVE  NoCuts(scene) => limit' = limit
<1>1. ASSUME NEW d \in scene.decide, Decide(d), NoCuts(scene) PROVE limit' = limit
  BY <1>1 DEF Decide, NoCuts
<1>2. ASSUME ~\E d \in scene.decide : Decide(d) PROVE limit' = limit
  BY <1>2 DEF Aside, Grow, RunTake, RunEnd, HoleTimer, Download, Unlock, FinishCut, FinishDecision, Finish, Clear, Moderate, Reauthorize,
              ReadRows, ReadEnd, vars, decided
<1> QED
  BY <1>1, <1>2

-----------------------------------------------------------------------------
(* What a task adds where nothing is deleted or taken down: rows only, and *)
(* but for those a cut takes back all that there were stay.                *)

Grown(ix, s) == s.clears = ix.clears /\ s.wiped = ix.wiped /\ DOMAIN ix.rows \in SUBSET DOMAIN s.rows

LEMMA NoDeletesIn ==
    ASSUME \A c \in Written : Block(c).kind # "delete", NEW i, NEW cs \in SUBSET Changed
    PROVE  DeletesIn(i, cs) = {}
BY DEF DeletesIn, AllowedIn, Changed

LEMMA PutGrows ==
    ASSUME SceneOK(scene), \A c \in Written : Block(c).kind # "delete", \A i \in Ids : mods[i] # "removed",
           NEW ix \in Ix, NEW i \in Written
    PROVE  Grown(ix, takePut(ix, i)) /\ i \in DOMAIN takePut(ix, i).rows
<1>1. mods[i] # "removed"
  BY DEF Written
<1>2. PendingOf(ix, i) \in SUBSET Changed
  BY DEF PendingOf, Of, Ix
<1>3. DeletesIn(i, PendingOf(ix, i)) = {}
  BY <1>2, NoDeletesIn
<1> DEFINE s == takePut(ix, i)
<1>4. /\ s.wiped = ix.wiped /\ (memo.had.records /\ i \in DOMAIN ix.rows => s = ix)
      /\ ~(memo.had.records /\ i \in DOMAIN ix.rows) => s.clears = ix.clears /\ DOMAIN s.rows = DOMAIN ix.rows \cup {i}
  BY <1>1, <1>3, TakePutIs
<1> HIDE DEF s
<1>5. CASE memo.had.records /\ i \in DOMAIN ix.rows
  BY <1>4, <1>5 DEF Grown, s
<1>6. CASE ~(memo.had.records /\ i \in DOMAIN ix.rows)
  BY <1>4, <1>6 DEF Grown, s
<1> QED
  BY <1>5, <1>6

LEMMA ChangeGrows ==
    ASSUME SceneOK(scene), \A c \in Written : Block(c).kind # "delete", \A i \in Ids : mods[i] # "removed",
           NEW ix \in Ix, NEW c \in Changed
    PROVE  Grown(ix, takeChange(ix, c))
<1> DEFINE i == Target(c)
           s == takeChange(ix, c)
           v == With(ix.rows[i], Version(i, ix.rows[i].v, {c}))
<1>1. DeletesIn(i, {c}) = {} /\ Block(c).kind # "delete" /\ i \in Ids /\ c \in Written
  BY NoDeletesIn, TakeChangeIs DEF Changed
<1>2. /\ i \notin DOMAIN ix.rows => s.rows = ix.rows /\ s.clears = ix.clears /\ s.wiped = ix.wiped
      /\ i \in DOMAIN ix.rows => s.rows = Put(ix.rows, i, v) /\ s.clears = ix.clears /\ s.wiped = ix.wiped
  <2>1. mods[i] # "removed" /\ (IF Block(c).kind = "delete" THEN {c} ELSE {}) = {}
    BY <1>1
  <2>2. i \in DOMAIN ix.rows => s.rows = Put(ix.rows, i, v) /\ s.clears = ix.clears /\ s.wiped = ix.wiped
    BY <1>1, <2>1, TakeChangeIs
  <2>3. i \notin DOMAIN ix.rows => s.rows = ix.rows /\ s.clears = ix.clears
           /\ s.wiped = ix.wiped \cup (IF Block(c).kind = "delete" THEN {c} ELSE {})
    BY <2>1, TakeChangeIs
  <2> HIDE DEF i, s, v
  <2> QED
    BY <2>1, <2>2, <2>3
<1>3. i \in DOMAIN ix.rows => DOMAIN ix.rows \in SUBSET DOMAIN Put(ix.rows, i, v)
  BY DEF Put
<1> HIDE DEF i, s, v
<1>4. CASE i \in DOMAIN ix.rows
  BY <1>2, <1>3, <1>4 DEF Grown, s
<1>5. CASE i \notin DOMAIN ix.rows
  BY <1>2, <1>5 DEF Grown, s
<1> QED
  BY <1>4, <1>5

LEMMA ResettleGrows ==
    ASSUME SceneOK(scene), \A c \in Written : Block(c).kind # "delete", NEW ix \in Ix, NEW i \in DOMAIN ix.rows
    PROVE  Grown(ix, resettle(ix, i))
<1>1. Of(ix, i) \in SUBSET Changed
  BY DEF Of, Ix
<1>2. DeletesIn(i, Of(ix, i)) = {}
  BY <1>1, NoDeletesIn
<1> QED
  BY <1>2, ResettleIs DEF Grown

LEMMA UncountGrows ==
    ASSUME SceneOK(scene), \A c \in Written : Block(c).kind # "delete", NEW ix \in Ix, NEW i
    PROVE  LET s == uncount(ix, i)
           IN  s.clears = ix.clears /\ s.wiped = ix.wiped /\ DOMAIN ix.rows \ {i} \in SUBSET DOMAIN s.rows
<1> DEFINE s == uncount(ix, i)
           left == [ix EXCEPT !.changes = ix.changes \ {i}]
<1>1. /\ s.wiped = ix.wiped /\ left \in Ix /\ left.rows = ix.rows /\ left.clears = ix.clears /\ left.wiped = ix.wiped
      /\ i \in DOMAIN ix.rows => s = regroup(ix, i)
      /\ i \notin DOMAIN ix.rows /\ ~(i \in ix.changes /\ Target(i) \in DOMAIN ix.rows) => s.rows = ix.rows /\ s.clears = ix.clears
      /\ i \notin DOMAIN ix.rows /\ i \in ix.changes /\ Target(i) \in DOMAIN ix.rows => s = resettle(left, Target(i))
  BY UncountIs
<1> HIDE DEF s, left
<1>2. CASE i \in DOMAIN ix.rows
  <2>1. regroup(ix, i).clears = ix.clears /\ DOMAIN regroup(ix, i).rows = DOMAIN ix.rows \ {i}
    BY RegroupIs
  <2> QED
    BY <1>1, <1>2, <2>1 DEF s
<1>3. CASE i \notin DOMAIN ix.rows /\ i \in ix.changes /\ Target(i) \in DOMAIN ix.rows
  <2> DEFINE j == Target(i)
  <2>1. j \in DOMAIN left.rows /\ s = resettle(left, j)
    BY <1>1, <1>3
  <2> HIDE DEF j
  <2>2. Grown(left, resettle(left, j))
    BY <1>1, <2>1, ResettleGrows
  <2> QED
    BY <1>1, <2>1, <2>2 DEF Grown, s
<1>4. CASE i \notin DOMAIN ix.rows /\ ~(i \in ix.changes /\ Target(i) \in DOMAIN ix.rows)
  BY <1>1, <1>4 DEF s
<1> QED
  BY <1>2, <1>3, <1>4

LEMMA ModerateGrows ==
    ASSUME SceneOK(scene), NEW ix \in Ix, NEW i \in Ids, NEW m, m # "removed"
    PROVE  Grown(ix, moderateOne(ix, i, m))
<1> DEFINE s == moderateOne(ix, i, m)
<1>1. /\ s.wiped = ix.wiped
      /\ i \notin DOMAIN ix.rows => s = ix
      /\ i \in DOMAIN ix.rows => s.clears = ix.clears /\ DOMAIN s.rows = DOMAIN ix.rows
  BY ModerateOneIs
<1> HIDE DEF s
<1>2. CASE i \in DOMAIN ix.rows
  BY <1>1, <1>2 DEF Grown, s
<1>3. CASE i \notin DOMAIN ix.rows
  BY <1>1, <1>3 DEF Grown, s
<1> QED
  BY <1>2, <1>3

\* A task that says nothing of a record taken down.
Mild(t) == t.op = "moderate" => \A i \in Ids : t.mods[i] # "removed"

StepAdds(t, ix, s, b) ==
    /\ s.clears = ix.clears /\ s.wiped = ix.wiped
    /\ \A j \in DOMAIN ix.rows : j \in DOMAIN s.rows \/ (t.op = "cut" /\ j = b)
    /\ t.op = "batch" /\ Block(b).kind = "put" => b \in DOMAIN s.rows \/ b[2] >= log[b[1]].limit

LEMMA StepGrows ==
    ASSUME SceneOK(scene), \A c \in Written : Block(c).kind # "delete", \A i \in Ids : mods[i] # "removed",
           NEW t \in Task, Mild(t), NEW ix \in Ix, NEW n \in DOMAIN t.blocks
    PROVE  StepAdds(t, ix, step(t, ix, t.blocks[n]), t.blocks[n])
<1> DEFINE i == t.blocks[n]
           s == step(t, ix, i)
<1>1. CASE t \in BatchTask
  <2>1. t.op = "batch" /\ i \in Written
    BY <1>1 DEF BatchTask
  <2>2. s = one(ix, i)
    BY <2>1 DEF step
  <2> HIDE DEF i
  <2>3. CASE i[2] >= log[i[1]].limit
    <3>1. s = ix
      BY <2>2, <2>3 DEF one
    <3> QED
      BY <2>1, <2>3, <3>1 DEF StepAdds, i
  <2>4. CASE ~(i[2] >= log[i[1]].limit) /\ Block(i).kind = "put"
    <3>1. s = takePut(ix, i)
      BY <2>2, <2>4 DEF one
    <3> HIDE DEF s
    <3>2. Grown(ix, s) /\ i \in DOMAIN s.rows
      BY <2>1, <3>1, PutGrows
    <3> QED
      BY <2>1, <3>2 DEF StepAdds, Grown, s, i
  <2>5. CASE ~(i[2] >= log[i[1]].limit) /\ Block(i).kind # "put"
    <3>1. s = takeChange(ix, i) /\ i \in Changed
      BY <2>1, <2>2, <2>5 DEF one, Changed
    <3> HIDE DEF s
    <3>2. Grown(ix, s)
      BY <3>1, ChangeGrows
    <3> QED
      BY <2>1, <2>5, <3>2 DEF StepAdds, Grown, s, i
  <2> QED
    BY <2>3, <2>4, <2>5
<1>2. CASE t \in CutTask
  <2>1. t.op = "cut" /\ s = uncount(ix, i)
    BY <1>2 DEF step, CutTask
  <2> HIDE DEF i, s
  <2>2. s.clears = ix.clears /\ s.wiped = ix.wiped /\ DOMAIN ix.rows \ {i} \in SUBSET DOMAIN s.rows
    BY <2>1, UncountGrows
  <2> QED
    BY <2>1, <2>2 DEF StepAdds, s, i
<1>3. CASE t \in ModerateTask
  <2>1. t.op = "moderate" /\ s = moderateOne(ix, i, t.mods[i]) /\ i \in Ids
    BY <1>3 DEF step, ModerateTask
  <2>2. t.mods[i] # "removed"
    BY <2>1 DEF Mild
  <2> HIDE DEF i, s
  <2>3. Grown(ix, s)
    BY <2>1, <2>2, ModerateGrows
  <2> QED
    BY <2>1, <2>3 DEF StepAdds, Grown, s, i
<1>4. CASE t \in RightsTask
  <2>1. t.op = "rights" /\ s = IF i \in DOMAIN ix.rows /\ Shared(i) THEN resettle(ix, i) ELSE ix
    BY <1>4 DEF step, RightsTask
  <2> HIDE DEF i, s
  <2>2. Grown(ix, s)
    <3>1. CASE i \in DOMAIN ix.rows /\ Shared(i)
      BY <2>1, <3>1, ResettleGrows
    <3>2. CASE ~(i \in DOMAIN ix.rows /\ Shared(i))
      BY <2>1, <3>2 DEF Grown
    <3> QED
      BY <3>1, <3>2
  <2> QED
    BY <2>1, <2>2 DEF StepAdds, Grown, s, i
<1> QED
  BY <1>1, <1>2, <1>3, <1>4 DEF Task

\* What a task makes of the index: no block to clear, every record still there
\* but those a cut takes back, and each record of a batch, or it is cut.
TaskAdds(t, ix) ==
    /\ ix.clears = {} /\ ix.wiped = {}
    /\ \A j \in DOMAIN rows : j \in DOMAIN ix.rows \/ (t.op = "cut" /\ j \in ToSet(t.blocks))
    /\ t.op = "batch" => \A b \in ToSet(t.blocks) : Block(b).kind = "put" => b \in DOMAIN ix.rows \/ b[2] >= log[b[1]].limit

LEMMA EffectGrows ==
    ASSUME Shape, \A c \in Written : Block(c).kind # "delete", \A i \in Ids : mods[i] # "removed", NEW t \in Task, Mild(t)
    PROVE  TaskAdds(t, Effect(t)) /\ Effect(t) \in Ix
<1>1. t.blocks \in Seq(Written \cup Ids)
  <2>1. t.blocks \in Seq(Written) \/ t.blocks \in Seq(Ids)
    BY DEF Task, BatchTask, CutTask, ModerateTask, RightsTask
  <2> QED
    BY <2>1
<1>2. DOMAIN t.blocks = 1 .. Len(t.blocks) /\ Len(t.blocks) \in Nat
  BY <1>1
<1> DEFINE P(n, ix) ==
             /\ ix.clears = {} /\ ix.wiped = {}
             /\ \A j \in DOMAIN rows : j \in DOMAIN ix.rows \/ (t.op = "cut" /\ j \in ToSet(t.blocks))
             /\ t.op = "batch" => \A m \in 1 .. n : Block(t.blocks[m]).kind = "put" =>
                    t.blocks[m] \in DOMAIN ix.rows \/ t.blocks[m][2] >= log[t.blocks[m][1]].limit
           S == {p \in (0 .. Len(t.blocks)) \X Ix : P(p[1], p[2])}
<1>3. \A n, ix : <<n, ix>> \in S <=> n \in 0 .. Len(t.blocks) /\ ix \in Ix /\ P(n, ix)
  OBVIOUS
<1>4. P(0, Before)
  BY DEF Before
<1>5. ASSUME NEW n \in 1 .. Len(t.blocks), NEW ix \in Ix, P(n - 1, ix) PROVE P(n, step(t, ix, t.blocks[n]))
  <2> DEFINE s == step(t, ix, t.blocks[n])
  <2>1. StepAdds(t, ix, s, t.blocks[n])
    BY <1>2, StepGrows DEF Shape
  <2> HIDE DEF s
  <2>2. t.blocks[n] \in ToSet(t.blocks)
    BY <1>2 DEF ToSet
  <2>3. s.clears = {} /\ s.wiped = {}
    BY <1>5, <2>1 DEF StepAdds
  <2>4. \A j \in DOMAIN rows : j \in DOMAIN s.rows \/ (t.op = "cut" /\ j \in ToSet(t.blocks))
    BY <1>5, <2>1, <2>2 DEF StepAdds
  <2>5. ASSUME t.op = "batch", NEW m \in 1 .. n, Block(t.blocks[m]).kind = "put"
        PROVE  t.blocks[m] \in DOMAIN s.rows \/ t.blocks[m][2] >= log[t.blocks[m][1]].limit
    <3>1. m = n \/ m \in 1 .. n - 1
      BY <1>2
    <3>2. CASE m = n
      BY <2>1, <2>5, <3>2 DEF StepAdds
    <3>3. CASE m \in 1 .. n - 1
      BY <1>5, <2>1, <2>5, <3>3 DEF StepAdds
    <3> QED
      BY <3>1, <3>2, <3>3
  <2> QED
    BY <2>3, <2>4, <2>5 DEF s
<1> HIDE DEF P
<1>6. <<0, Before>> \in S
  BY <1>2, <1>3, <1>4, EffectIs
<1>7. \A n \in 1 .. Len(t.blocks) : \A ix : <<n - 1, ix>> \in S => <<n, step(t, ix, t.blocks[n])>> \in S
  <2> SUFFICES ASSUME NEW n \in 1 .. Len(t.blocks), NEW ix, <<n - 1, ix>> \in S PROVE <<n, step(t, ix, t.blocks[n])>> \in S
    OBVIOUS
  <2>1. ix \in Ix /\ P(n - 1, ix)
    BY <1>3
  <2>2. step(t, ix, t.blocks[n]) \in Ix
    BY <1>2, <2>1, StepIs DEF Shape
  <2>3. P(n, step(t, ix, t.blocks[n]))
    BY <1>5, <2>1
  <2>4. n \in 0 .. Len(t.blocks)
    BY <1>2
  <2> QED
    BY <1>3, <2>2, <2>3, <2>4
<1>8. <<Len(t.blocks), Effect(t)>> \in S
  <2> HIDE DEF S
  <2> QED
    BY <1>1, <1>6, <1>7, EffectBy
<1>9. P(Len(t.blocks), Effect(t)) /\ Effect(t) \in Ix
  BY <1>3, <1>8
<1> DEFINE ix == Effect(t)
<1> HIDE DEF ix
<1>10. P(Len(t.blocks), ix) /\ ix \in Ix
  BY <1>9 DEF ix
<1>11. \A b \in ToSet(t.blocks) : \E m \in 1 .. Len(t.blocks) : b = t.blocks[m]
  BY <1>2 DEF ToSet
<1>12. TaskAdds(t, ix)
  BY <1>10, <1>11 DEF P, TaskAdds
<1> QED
  BY <1>10, <1>12 DEF ix

\* What has its row keeps it, or is cut.
StillIn == \A x \in Puts : In(x) => x \in DOMAIN rows' \/ x[2] >= limit'[x[1]]

LEMMA PutsStay == ASSUME SceneKept PROVE Puts' = Puts /\ SameBlocks
<1>1. SameBlocks
  BY DEF SceneKept, SameBlocks
<1> QED
  BY <1>1, BlocksStay DEF Puts

LEMMA RowsStayIn ==
    ASSUME Shape, Shape', Decided, \A x \in DOMAIN rows : x \in DOMAIN rows' \/ Past(x)
    PROVE  StillIn
<1> SUFFICES ASSUME NEW x \in Puts, In(x) PROVE x \in DOMAIN rows' \/ x[2] >= limit'[x[1]]
  BY DEF StillIn
<1>1. x[1] \in Logs /\ x[2] \in Nat /\ limit' \in [Logs -> 1 .. Inf]
  BY WhereWritten DEF Puts, Shape, DiskShape
<1>2. Past(x) => x[2] >= limit'[x[1]]
  BY <1>1, PastStays
<1> QED
  BY <1>2 DEF In

LEMMA PassedStays ==
    ASSUME SceneKept, PassedIn, StillIn,
           \A x \in Puts : Done(x)' => Done(x) \/ x \in DOMAIN rows' \/ x[2] >= limit'[x[1]]
    PROVE  PassedIn'
<1> SUFFICES ASSUME NEW x \in Puts', Done(x)' PROVE In(x)'
  BY DEF PassedIn
<1>1. x \in Puts
  BY PutsStay
<1>2. x \in DOMAIN rows' \/ x[2] >= limit'[x[1]]
  BY <1>1 DEF PassedIn, StillIn
<1> QED
  BY <1>2 DEF In, Past

LEMMA SavedStays ==
    ASSUME SceneKept, SavedIn, StillIn,
           scene'.crashes > 0 => scene.crashes > 0,
           scene.crashes > 0 => \A x \in Puts : x[2] < saved'[x[1]].indexed =>
                x[2] < saved[x[1]].indexed \/ x \in DOMAIN rows' \/ x[2] >= limit'[x[1]]
    PROVE  SavedIn'
<1> SUFFICES ASSUME scene.crashes > 0, NEW x \in Puts', x[2] < saved'[x[1]].indexed PROVE In(x)'
  BY DEF SavedIn
<1>1. x \in Puts
  BY PutsStay
<1>2. x \in DOMAIN rows' \/ x[2] >= limit'[x[1]]
  BY <1>1 DEF SavedIn, StillIn
<1> QED
  BY <1>2 DEF In, Past

LEMMA BatchesStay ==
    ASSUME SceneKept, BatchesIn, StillIn,
           \A t \in ToSet(queue') : t \in ToSet(queue) \/ t.op # "batch"
                \/ \A x \in Puts : x[1] = t.of /\ x[2] < t.indexed => x \in ToSet(t.blocks) \/ x \in DOMAIN rows' \/ x[2] >= limit'[x[1]]
    PROVE  BatchesIn'
<1>1. \A t \in ToSet(queue') : t.op = "batch" =>
        \A x \in Puts : x[1] = t.of /\ x[2] < t.indexed => x \in ToSet(t.blocks) \/ x \in DOMAIN rows' \/ x[2] >= limit'[x[1]]
  BY DEF BatchesIn, StillIn
<1>2. Puts' = Puts
  BY PutsStay
<1>3. \A t \in ToSet(queue') : t.op = "batch" =>
        \A x \in Puts' : x[1] = t.of /\ x[2] < t.indexed => x \in ToSet(t.blocks) \/ In(x)'
  BY <1>1, <1>2 DEF In, Past
<1> QED
  BY <1>3 DEF BatchesIn, ToSet

LEMMA TaskStays == ASSUME Shape, NEW t \in ToSet(queue) PROVE t \in Task /\ (t.op = "batch" => t.of \in Logs) /\ t \in TaskSet
<1>1. t \in Task /\ t \in TaskSet
  BY DEF Shape, TaskShape, ToSet, TaskSet
<1> QED
  BY <1>1, TaskFields

-----------------------------------------------------------------------------
(* A complete answer is still one after each step.                         *)

LEMMA AsideTold ==
    ASSUME Readable, Aside
    PROVE  NoneRemoved'
<1>1. NoneRemoved /\ NothingCleared(scene) /\ Shape
  BY ReadableIs
<1>2. ASSUME NEW d \in scene.decide, Decide(d) PROVE NoneRemoved'
  <2>1. d \in Decision /\ mods \in [Ids -> Moderations] /\ queue' = queue
    BY <1>1, <1>2, DecideMoves DEF Shape, DiskShape, Decide
  <2>2. mods' = mods \/ (d.op = "moderate" /\ mods' = [mods EXCEPT ![d.on] = d.as])
    BY <1>2 DEF Decide
  <2>3. d.op = "moderate" => d.as # "removed"
    BY <1>1 DEF NothingCleared
  <2>4. \A i \in Ids : mods'[i] # "removed"
    BY <1>1, <2>1, <2>2, <2>3 DEF NoneRemoved
  <2> QED
    BY <1>1, <2>1, <2>4 DEF NoneRemoved
<1>3. ASSUME NEW h \in hearing, Moderate(h) PROVE NoneRemoved'
  <2>1. mods' = mods
    BY <1>1, <1>3, ModerateDoes DEF decided
  <2>2. CASE queue' = queue
    BY <1>1, <2>1, <2>2 DEF NoneRemoved
  <2>3. CASE queue' = Append(queue, ModerationOf(h)) /\ ModerationOf(h) \in ModerateTask
    <3> DEFINE u == ModerationOf(h)
    <3>1. queue \in Seq(Task) /\ u \in Task /\ u.mods = mods
      BY <1>1, <2>3 DEF Shape, TaskShape, Task, ModerationOf
    <3> HIDE DEF u
    <3>2. ToSet(queue') = ToSet(queue) \cup {u}
      BY <2>3, <3>1, AppendIs DEF u
    <3>3. \A t \in ToSet(queue') : t.op = "moderate" => \A i \in Ids : t.mods[i] # "removed"
      BY <1>1, <3>1, <3>2 DEF NoneRemoved
    <3> QED
      BY <1>1, <2>1, <3>3 DEF NoneRemoved
  <2> QED
    BY <1>1, <1>3, <2>2, <2>3, ModerateDoes
<1>4. ASSUME NEW h \in hearing, Reauthorize(h) PROVE NoneRemoved'
  <2> DEFINE u == [op |-> "rights", of |-> h.n, blocks |-> << >>]
  <2>1. mods' = mods
    BY <1>1, <1>4, ReauthorizeDoes DEF decided
  <2>2. CASE queue' = queue
    BY <1>1, <2>1, <2>2 DEF NoneRemoved
  <2>3. CASE queue' = Append(queue, u) /\ u \in RightsTask
    <3>1. queue \in Seq(Task) /\ u \in Task /\ u.op = "rights"
      BY <1>1, <2>3 DEF Shape, TaskShape, Task
    <3> HIDE DEF u
    <3>2. ToSet(queue') = ToSet(queue) \cup {u}
      BY <2>3, <3>1, AppendIs
    <3>3. \A t \in ToSet(queue') : t.op = "moderate" => \A i \in Ids : t.mods[i] # "removed"
      BY <1>1, <3>1, <3>2 DEF NoneRemoved
    <3> QED
      BY <1>1, <2>1, <3>3 DEF NoneRemoved
  <2> QED
    BY <1>1, <1>4, <2>2, <2>3, ReauthorizeDoes
<1>5. CASE ~(\E d \in scene.decide : Decide(d)) /\ ~\E h \in hearing : Moderate(h) \/ Reauthorize(h)
  <2>1. mods' = mods /\ queue' = queue
    BY <1>5 DEF Aside, Grow, RunTake, RunEnd, HoleTimer, Download, Unlock, FinishCut, FinishDecision, Finish, Clear,
                ReadRows, ReadEnd, vars, decided
  <2> QED
    BY <1>1, <2>1 DEF NoneRemoved
<1> QED
  BY <1>2, <1>3, <1>4, <1>5

LEMMA AsideReadable ==
    ASSUME Readable, Shape', Aside
    PROVE  ReadInv'
<1>1. /\ Shape /\ OneTask /\ Limits /\ NoneCleared /\ Busy /\ PassedIn /\ BatchesIn /\ SavedIn
  BY ReadableIs
<1>2. Keeps
  BY <1>1, AsideKeeps
<1>3. SceneKept /\ Decided /\ rows' = rows /\ saved' = saved /\ scene'.crashes = scene.crashes
  BY <1>2 DEF Keeps, disk
<1>4. StillIn
  BY <1>1, <1>3, RowsStayIn
<1>5. Limits'
  <2>1. \A l \in Logs : log'[l].limit = log[l].limit /\ log'[l].cut = log[l].cut
    BY <1>2 DEF Keeps, Kept
  <2>2. \A t \in ToSet(queue') : t \in ToSet(queue) \/ t.op # "cut"
    BY <1>2 DEF Keeps
  <2> QED
    BY <1>3, <2>1, <2>2, NoCutKept, LimitsStay
<1>6. NoneCleared'
  <2>1. \A a \in after' : a.clears = {} /\ a.wiped = {}
    BY <1>1, <1>2 DEF Keeps, NoneCleared
  <2> QED
    BY <2>1 DEF NoneCleared
<1>7. Busy'
  <2>1. \A l \in Logs : run'[l].pc \in {"scan", "note"} => log'[l].uncommitted
    <3> TAKE l \in Logs
    <3>1. RunMoves(l)
      BY <1>2 DEF Keeps
    <3> QED
      BY <1>1, <3>1 DEF RunMoves, Takes, Busy
  <2>2. ASSUME NEW t \in ToSet(queue'), t.op = "batch" PROVE log'[t.of].uncommitted
    <3>1. t \in ToSet(queue)
      BY <1>2, <2>2 DEF Keeps
    <3>2. t.of \in Logs /\ t \in TaskSet /\ RunMoves(t.of)
      BY <1>1, <1>2, <2>2, <3>1, TaskStays DEF Keeps
    <3>3. run[t.of].pc = "queued" /\ log[t.of].uncommitted
      BY <1>1, <2>2, <3>1, <3>2, AwaitedIs DEF OneTask, Awaited, Busy
    <3> QED
      BY <3>2, <3>3 DEF RunMoves, Takes
  <2> QED
    BY <2>1, <2>2 DEF Busy
<1>8. PassedIn'
  <2>1. ASSUME NEW x \in Puts, Done(x)' PROVE Done(x)
    <3>1. x[1] \in Logs
      BY WhereWritten DEF Puts
    <3>2. Kept(x[1]) /\ RunMoves(x[1])
      BY <1>2, <3>1 DEF Keeps
    <3>3. ToSet(queue) \in SUBSET ToSet(queue')
      BY <1>2 DEF Keeps
    <3>4. Pending(x) => Pending(x)'
      <4>1. CASE \E t \in ToSet(queue) : t.op = "batch" /\ t.of = x[1] /\ x \in ToSet(t.blocks)
        <5>1. \E t \in ToSet(queue') : t.op = "batch" /\ t.of = x[1] /\ x \in ToSet(t.blocks)
          BY <3>3, <4>1
        <5> QED
          BY <5>1 DEF Pending, ToSet
      <4>2. CASE run[x[1]].pc \in {"scan", "note"}
        <5>1. run'[x[1]] = run[x[1]]
          BY <3>2, <4>2 DEF RunMoves, Takes
        <5> QED
          BY <4>1, <5>1 DEF Pending
      <4> QED
        BY <4>1, <4>2 DEF Pending
    <3>5. x[2] < log[x[1]].scanned /\ x[2] \notin log[x[1]].holes
      BY <2>1, <3>2 DEF Done, Kept
    <3> QED
      BY <2>1, <3>4, <3>5 DEF Done
  <2> QED
    BY <1>1, <1>3, <1>4, <2>1, PassedStays
<1>9. SavedIn'
  BY <1>1, <1>3, <1>4, SavedStays
<1>10. BatchesIn'
  <2>1. \A t \in ToSet(queue') : t \in ToSet(queue) \/ t.op # "batch"
    BY <1>2 DEF Keeps
  <2> QED
    BY <1>1, <1>3, <1>4, <2>1, BatchesStay
<1> QED
  BY <1>5, <1>6, <1>7, <1>8, <1>9, <1>10, AsideTold DEF ReadInv

LEMMA AsItWas ==
    ASSUME Shape, scene' = scene, decided' = decided
    PROVE  SceneKept /\ Decided /\ limit' = limit /\ mods' = mods /\ scene'.crashes = scene.crashes
<1>1. limit' = limit /\ mods' = mods
  BY DEF decided
<1> QED
  BY <1>1, SceneAsIs, StillDecided

\* A step of one log's run that queues nothing.
LEMMA RunReadable ==
    ASSUME Readable, Shape', NEW l \in Logs, OnlyLog(l), UNCHANGED <<scene, disk, decided, queue, after>>,
           log'[l].limit = log[l].limit, log'[l].cut = log[l].cut,
           run'[l].pc \in {"scan", "note"} => log'[l].uncommitted,
           log'[l].uncommitted = log[l].uncommitted \/ \A t \in ToSet(queue) : t.op = "batch" => t.of # l,
           \A x \in Puts : x[1] = l /\ Done(x)' => Done(x)
    PROVE  ReadInv'
<1>1. /\ Shape /\ Limits /\ NoneRemoved /\ NoneCleared /\ Busy /\ PassedIn /\ BatchesIn /\ SavedIn
  BY ReadableIs
<1>2. SceneKept /\ Decided /\ limit' = limit /\ mods' = mods /\ rows' = rows /\ saved' = saved /\ scene'.crashes = scene.crashes
  BY <1>1, AsItWas DEF disk
<1>3. StillIn
  BY <1>1, <1>2, RowsStayIn
<1>4. \A k \in Logs \ {l} : log'[k] = log[k] /\ run'[k] = run[k]
  BY DEF OnlyLog
<1>5. Limits'
  <2>1. \A k \in Logs : log'[k].limit = log[k].limit /\ log'[k].cut = log[k].cut
    BY <1>4
  <2> QED
    BY <1>2, <2>1, LimitsStay
<1>6. NoneRemoved' /\ NoneCleared'
  BY <1>1, <1>2 DEF NoneRemoved, NoneCleared
<1>7. Busy'
  <2>1. \A k \in Logs : run'[k].pc \in {"scan", "note"} => log'[k].uncommitted
    BY <1>1, <1>4 DEF Busy
  <2>2. ASSUME NEW t \in ToSet(queue'), t.op = "batch" PROVE log'[t.of].uncommitted
    <3>1. t \in ToSet(queue) /\ t.of \in Logs
      BY <1>1, <2>2, TaskStays
    <3> QED
      BY <1>1, <1>4, <2>2, <3>1 DEF Busy
  <2> QED
    BY <2>1, <2>2 DEF Busy
<1>8. PassedIn'
  <2>1. ASSUME NEW x \in Puts, Done(x)' PROVE Done(x)
    <3>1. x[1] \in Logs
      BY WhereWritten DEF Puts
    <3>2. CASE x[1] # l
      <4>1. log'[x[1]] = log[x[1]] /\ run'[x[1]] = run[x[1]] /\ queue' = queue
        BY <1>4, <3>1, <3>2
      <4> QED
        BY <2>1, <4>1 DEF Done, Pending
    <3> QED
      BY <2>1, <3>2
  <2> QED
    BY <1>1, <1>2, <1>3, <2>1, PassedStays
<1>9. SavedIn' /\ BatchesIn'
  BY <1>1, <1>2, <1>3, SavedStays, BatchesStay
<1> QED
  BY <1>5, <1>6, <1>7, <1>8, <1>9 DEF ReadInv

LEMMA ScanReadable ==
    ASSUME Readable, Shape', NEW l \in Logs, RunScan(l)
    PROVE  ReadInv'
<1> DEFINE s == log[l].scanned
<1>1. Shape /\ Busy
  BY ReadableIs
<1>2. UNCHANGED <<scene, disk, decided, queue, after>>
  BY DEF RunScan
<1>3. /\ run[l].pc = "scan" /\ OnlyLog(l) /\ s \in Nat
      /\ log'[l].scanned = s + 1 /\ log'[l].limit = log[l].limit
      /\ log'[l].cut = log[l].cut /\ log'[l].holes = log[l].holes /\ log'[l].uncommitted = log[l].uncommitted
      /\ s \in held[l] => run'[l].pc = "scan" /\ ToSet(run'[l].batch) = ToSet(run[l].batch) \cup {s}
      /\ s \notin held[l] => run'[l].pc = "note" /\ run'[l].batch = run[l].batch /\ run'[l].look = s
  BY <1>1, RunScanDoes, PlacesAre
<1> HIDE DEF s
<1>4. log[l].uncommitted
  BY <1>1, <1>3 DEF Busy
<1>5. ASSUME NEW x \in Puts, x[1] = l, Done(x)' PROVE Done(x)
  <2>1. x[2] \in Nat
    BY WhereWritten DEF Puts
  <2>2. x[2] < s + 1 /\ x[2] \notin log[l].holes /\ ~Pending(x)'
    BY <1>3, <1>5 DEF Done
  <2>3. x[2] # s /\ x[2] \notin ToSet(run[l].batch)
    BY <1>3, <1>5, <2>2 DEF Pending
  <2>4. ~\E t \in ToSet(queue) : t.op = "batch" /\ t.of = x[1] /\ x \in ToSet(t.blocks)
    BY <1>2, <2>2 DEF Pending
  <2>5. ~Pending(x)
    BY <1>3, <1>5, <2>3, <2>4 DEF Pending
  <2>6. x[2] < s
    BY <1>3, <2>1, <2>2, <2>3
  <2> QED
    BY <1>5, <2>2, <2>5, <2>6 DEF Done, s
<1> QED
  BY <1>2, <1>3, <1>4, <1>5, RunReadable

LEMMA NoteReadable ==
    ASSUME Readable, Shape', NEW l \in Logs, RunNote(l)
    PROVE  ReadInv'
<1> DEFINE s == run[l].look
<1>1. Shape /\ Busy /\ NoneRemoved /\ \A c \in Written : Block(c).kind # "delete"
  BY ReadableIs
<1>2. UNCHANGED <<scene, disk, decided, queue, after>>
  BY DEF RunNote
<1>3. /\ s \in Spots /\ run[l].pc = "note" /\ OnlyLog(l)
      /\ log'[l].scanned = log[l].scanned /\ log'[l].limit = log[l].limit
      /\ log'[l].cut = log[l].cut /\ log'[l].uncommitted = log[l].uncommitted
      /\ log'[l].holes = IF wipedByAuthor(<<l, s>>) THEN log[l].holes ELSE log[l].holes \cup {s}
      /\ run'[l].pc = "scan" /\ run'[l].batch = run[l].batch
  BY <1>1, RunNoteDoes
<1> HIDE DEF s
<1>4. ~wipedByAuthor(<<l, s>>)
  <2>1. <<l, s>> \in Ids
    BY <1>3 DEF Ids, Spots
  <2>2. changes \in SUBSET Written
    BY <1>1 DEF Shape, DiskShape, Changed
  <2> QED
    BY <1>1, <2>1, <2>2 DEF wipedByAuthor, NoneRemoved
<1>5. log[l].uncommitted
  BY <1>1, <1>3 DEF Busy
<1>6. ASSUME NEW x \in Puts, x[1] = l, Done(x)' PROVE Done(x)
  <2>1. x[2] < log[l].scanned /\ x[2] \notin log[l].holes \cup {s} /\ ~Pending(x)'
    BY <1>3, <1>4, <1>6 DEF Done
  <2>2. x[2] \notin ToSet(run[l].batch)
    BY <1>3, <1>6, <2>1 DEF Pending
  <2>3. ~\E t \in ToSet(queue) : t.op = "batch" /\ t.of = x[1] /\ x \in ToSet(t.blocks)
    BY <1>2, <2>1 DEF Pending
  <2>4. ~Pending(x)
    BY <1>6, <2>1, <2>2, <2>3 DEF Pending, s
  <2> QED
    BY <1>6, <2>1, <2>4 DEF Done
<1> QED
  BY <1>2, <1>3, <1>5, <1>6, RunReadable

\* No batch waits of a log whose run is not waiting for it.
LEMMA NoBatch ==
    ASSUME Readable, NEW l \in Logs, run[l].pc # "queued"
    PROVE  \A t \in ToSet(queue) : t.op = "batch" => t.of # l
BY ReadableIs, TaskStays, AwaitedIs DEF OneTask, Awaited

LEMMA BatchReadable ==
    ASSUME Readable, Shape', NEW l \in Logs, RunBatch(l)
    PROVE  ReadInv'
<1> DEFINE B == ToSet(run[l].batch)
           O == Open(l)
<1>1. /\ Shape /\ Limits /\ NoneRemoved /\ NoneCleared /\ Busy /\ PassedIn /\ BatchesIn /\ SavedIn
  BY ReadableIs
<1>2. UNCHANGED <<scene, disk, decided, after>>
  BY DEF RunBatch
<1>3. /\ OnlyLog(l) /\ run[l].pc = "scan"
      /\ log'[l].scanned = log[l].scanned /\ log'[l].limit = log[l].limit /\ log'[l].cut = log[l].cut
      /\ log'[l].holes = (log[l].holes \cup B) \ O
      /\ \/ /\ O = {} /\ queue' = queue /\ log'[l].uncommitted = FALSE
            /\ run'[l].pc \in {"take", "start", "leaving"}
         \/ /\ run'[l].pc = "queued" /\ log'[l].uncommitted = log[l].uncommitted
            /\ \E t \in BatchTask :
                  /\ queue' = Append(queue, t) /\ t.of = l
                  /\ ToSet(t.blocks) = {<<l, s>> : s \in O}
                  /\ t.indexed <= log[l].scanned /\ \A s \in log'[l].holes : t.indexed <= s
  BY <1>1, RunBatchDoes
<1> HIDE DEF B, O
<1>4. \A t \in ToSet(queue) : t.op = "batch" => t.of # l
  BY <1>3, NoBatch
<1>5. ASSUME NEW x \in Puts, x[1] = l, x[2] < log[l].scanned, x[2] \notin log'[l].holes, x[2] \notin O PROVE Done(x)
  <2>1. x[2] \notin log[l].holes /\ x[2] \notin B
    BY <1>3, <1>5
  <2>2. ~Pending(x)
    BY <1>3, <1>4, <1>5, <2>1 DEF Pending, B
  <2> QED
    BY <1>5, <2>1, <2>2 DEF Done
<1>6. CASE queue' = queue /\ O = {} /\ log'[l].uncommitted = FALSE /\ run'[l].pc \in {"take", "start", "leaving"}
  <2>1. ASSUME NEW x \in Puts, x[1] = l, Done(x)' PROVE Done(x)
    BY <1>3, <1>5, <1>6, <2>1 DEF Done
  <2> QED
    BY <1>2, <1>3, <1>4, <1>6, <2>1, RunReadable
<1>7. ASSUME run'[l].pc = "queued", log'[l].uncommitted = log[l].uncommitted, NEW u \in BatchTask, queue' = Append(queue, u), u.of = l,
             ToSet(u.blocks) = {<<l, s>> : s \in O}, u.indexed <= log[l].scanned, \A s \in log'[l].holes : u.indexed <= s
      PROVE  ReadInv'
  <2>1. queue \in Seq(Task) /\ u \in Task /\ u.op = "batch" /\ u.indexed \in Nat
    BY <1>1, PlacesAre DEF Shape, TaskShape, Task, BatchTask
  <2>2. ToSet(queue') = ToSet(queue) \cup {u}
    BY <1>7, <2>1, AppendIs
  <2>3. SceneKept /\ Decided /\ limit' = limit /\ mods' = mods /\ rows' = rows /\ saved' = saved /\ scene'.crashes = scene.crashes
    BY <1>1, <1>2, AsItWas DEF disk
  <2>4. StillIn
    BY <1>1, <2>3, RowsStayIn
  <2>5. \A k \in Logs \ {l} : log'[k] = log[k] /\ run'[k] = run[k]
    BY <1>3 DEF OnlyLog
  <2>6. Limits'
    <3>1. \A k \in Logs : log'[k].limit = log[k].limit /\ log'[k].cut = log[k].cut
      BY <1>3, <2>5
    <3>2. \A t \in ToSet(queue') : t \in ToSet(queue) \/ t.op # "cut"
      BY <2>1, <2>2
    <3> QED
      BY <2>3, <3>1, <3>2, LimitsStay
  <2>7. NoneRemoved' /\ NoneCleared'
    <3>1. \A t \in ToSet(queue') : t.op = "moderate" => \A i \in Ids : t.mods[i] # "removed"
      BY <1>1, <2>1, <2>2 DEF NoneRemoved
    <3> QED
      BY <1>1, <1>2, <2>3, <3>1 DEF NoneRemoved, NoneCleared
  <2>8. Busy'
    <3>1. log[l].uncommitted
      BY <1>1, <1>3 DEF Busy
    <3>2. \A k \in Logs : run'[k].pc \in {"scan", "note"} => log'[k].uncommitted
      BY <1>1, <1>7, <2>5 DEF Busy
    <3>3. ASSUME NEW t \in ToSet(queue'), t.op = "batch" PROVE log'[t.of].uncommitted
      <4>1. t.of = l \/ (t \in ToSet(queue) /\ t.of \in Logs \ {l})
        BY <1>1, <1>4, <1>7, <2>2, <3>3, TaskStays
      <4> QED
        BY <1>1, <1>7, <2>5, <3>1, <3>3, <4>1 DEF Busy
    <3> QED
      BY <3>2, <3>3 DEF Busy
  <2>9. PassedIn'
    <3>1. ASSUME NEW x \in Puts, Done(x)' PROVE Done(x)
      <4>1. x[1] \in Logs /\ x = <<x[1], x[2]>>
        BY WhereWritten DEF Puts
      <4>2. ~Pending(x)' /\ x[2] < log'[x[1]].scanned /\ x[2] \notin log'[x[1]].holes
        BY <3>1 DEF Done
      <4>3. ~\E t \in ToSet(queue') : t.op = "batch" /\ t.of = x[1] /\ x \in ToSet(t.blocks)
        BY <4>2 DEF Pending, ToSet
      <4>4. CASE x[1] # l
        <5>1. log'[x[1]] = log[x[1]] /\ run'[x[1]] = run[x[1]]
          BY <2>5, <4>1, <4>4
        <5>2. ~Pending(x)
          BY <2>2, <4>2, <4>3, <5>1 DEF Pending
        <5> QED
          BY <4>2, <5>1, <5>2 DEF Done
      <4>5. CASE x[1] = l
        <5>1. x \notin ToSet(u.blocks)
          BY <1>7, <2>1, <2>2, <4>3, <4>5
        <5>2. x[2] \notin O
          BY <1>7, <4>1, <4>5, <5>1
        <5> QED
          BY <1>3, <1>5, <4>2, <4>5, <5>2
      <4> QED
        BY <4>4, <4>5
    <3> QED
      BY <1>1, <2>3, <2>4, <3>1, PassedStays
  <2>10. BatchesIn'
    <3>1. ASSUME NEW x \in Puts, x[1] = l, x[2] < u.indexed PROVE x \in ToSet(u.blocks) \/ In(x)
      <4>1. x[2] \in Nat /\ x = <<x[1], x[2]>>
        BY WhereWritten DEF Puts
      <4>2. log[l].scanned \in Nat /\ \A s \in log'[l].holes : s \in Nat
        <5>1. log[l] \in LogEntry /\ log'[l] \in LogEntry
          BY <1>1, <1>3 DEF Shape, LogShape, OnlyLog
        <5> QED
          BY <5>1, PlacesAre DEF LogEntry
      <4>3. x[2] < log[l].scanned /\ x[2] \notin log'[l].holes
        BY <1>7, <2>1, <3>1, <4>1, <4>2
      <4>4. CASE x[2] \in O
        BY <1>7, <3>1, <4>1, <4>4
      <4>5. CASE x[2] \notin O
        BY <1>1, <1>5, <3>1, <4>3, <4>5 DEF PassedIn
      <4> QED
        BY <4>4, <4>5
    <3>2. \A x \in Puts : x[1] = u.of /\ x[2] < u.indexed => x \in ToSet(u.blocks) \/ x \in DOMAIN rows' \/ x[2] >= limit'[x[1]]
      BY <1>7, <2>4, <3>1 DEF StillIn
    <3> QED
      BY <1>1, <2>2, <2>3, <2>4, <3>2, BatchesStay
  <2>11. SavedIn'
    BY <1>1, <2>3, <2>4, SavedStays
  <2> QED
    BY <2>6, <2>7, <2>8, <2>9, <2>10, <2>11 DEF ReadInv
<1> QED
  BY <1>3, <1>6, <1>7

\* A task commits: what it adds, and the log's place on disk, go together.
LEMMA CommitReadable ==
    ASSUME Readable, Shape', NEW t \in ToSet(queue), NEW ix \in Ix, Apply(t, ix), TaskAdds(t, ix), run' = run,
           \A l \in Logs :
              /\ log'[l].scanned = log[l].scanned /\ log'[l].holes = log[l].holes /\ log'[l].limit = log[l].limit
              /\ log'[l].cut = log[l].cut \/ t.op = "cut"
              /\ log'[l].uncommitted = log[l].uncommitted \/ (t.op = "batch" /\ l = t.of)
              /\ saved'[l].cut \in {saved[l].cut, log[l].cut} \/ t.op = "cut"
              /\ saved'[l].indexed = saved[l].indexed \/ t.op = "cut" \/ (t.op = "batch" /\ l = t.of /\ saved'[l].indexed = t.indexed)
    PROVE  ReadInv'
<1>1. /\ Shape /\ OneTask /\ CutsApart(scene) /\ Limits /\ NoneRemoved /\ NoneCleared /\ Busy /\ PassedIn /\ BatchesIn /\ SavedIn
  BY ReadableIs
<1>2. UNCHANGED <<scene, length, held, decided, hearing, reader>> /\ rows' = ix.rows /\ t \in Task
  BY <1>1, ApplyDoes
<1>3. SceneKept /\ Decided /\ limit' = limit /\ mods' = mods /\ scene'.crashes = scene.crashes
  BY <1>1, <1>2, AsItWas
<1>4. /\ ToSet(queue) = ToSet(queue') \cup {t} /\ \A u \in ToSet(queue') : Name(u) # Name(t)
  <2>1. RunsWait
    BY DEF RunsWait
  <2> QED
    BY <1>1, <2>1, OneCommitted
<1>5. \A x \in DOMAIN rows : x \in DOMAIN rows' \/ Past(x)
  BY <1>1, <1>2 DEF TaskAdds, Limits
<1>6. StillIn
  BY <1>1, <1>3, <1>5, RowsStayIn
<1>7. Limits'
  BY <1>3, <1>4, LimitsStay
<1>8. NoneRemoved'
  BY <1>1, <1>3, <1>4 DEF NoneRemoved
<1>9. NoneCleared'
  <2> DEFINE b == ix.rows # rows
             a == [op |-> t.op, of |-> t.of, clears |-> ix.clears, wiped |-> ix.wiped, noted |-> b]
  <2>1. after' = after \cup {a}
    BY <1>1, ApplyDoes
  <2>2. a.clears = {} /\ a.wiped = {}
    BY DEF TaskAdds
  <2> HIDE DEF a
  <2> QED
    BY <1>1, <2>1, <2>2 DEF NoneCleared
<1>10. Busy'
  <2>1. ASSUME NEW l \in Logs, run'[l].pc \in {"scan", "note"} PROVE log'[l].uncommitted
    <3>1. t.op = "batch" => run[t.of].pc = "queued"
      BY <1>1, TaskStays, AwaitedIs DEF OneTask, Awaited
    <3>2. log'[l].uncommitted = log[l].uncommitted
      BY <2>1, <3>1
    <3> QED
      BY <1>1, <2>1, <3>2 DEF Busy
  <2>2. ASSUME NEW u \in ToSet(queue'), u.op = "batch" PROVE log'[u.of].uncommitted
    <3>1. u \in ToSet(queue) /\ u.of \in Logs /\ ~(t.op = "batch" /\ u.of = t.of)
      BY <1>1, <1>4, <2>2, TaskStays DEF Name
    <3> QED
      BY <1>1, <2>2, <3>1 DEF Busy
  <2> QED
    BY <2>1, <2>2 DEF Busy
<1>11. ASSUME NEW x \in Puts, t.op = "batch", x \in ToSet(t.blocks) PROVE x \in DOMAIN rows' \/ x[2] >= limit'[x[1]]
  <2>1. x[1] \in Logs /\ x[2] \in Nat /\ Block(x).kind = "put"
    BY WhereWritten DEF Puts
  <2>2. x \in DOMAIN rows' \/ x[2] >= log[x[1]].limit
    BY <1>2, <1>11, <2>1 DEF TaskAdds
  <2>3. limit[x[1]] <= log[x[1]].limit /\ limit[x[1]] \in Nat /\ log[x[1]].limit \in Nat
    BY <1>1, <2>1, LimitsAre DEF Limits
  <2> QED
    BY <1>3, <2>1, <2>2, <2>3
<1>12. PassedIn'
  <2>1. ASSUME NEW x \in Puts, Done(x)' PROVE Done(x) \/ x \in DOMAIN rows' \/ x[2] >= limit'[x[1]]
    <3>1. x[1] \in Logs
      BY WhereWritten DEF Puts
    <3>2. x[2] < log[x[1]].scanned /\ x[2] \notin log[x[1]].holes /\ ~Pending(x)'
      BY <2>1, <3>1 DEF Done
    <3>3. ~\E u \in ToSet(queue') : u.op = "batch" /\ u.of = x[1] /\ x \in ToSet(u.blocks)
      BY <3>2 DEF Pending, ToSet
    <3>4. CASE t.op = "batch" /\ x \in ToSet(t.blocks)
      BY <1>11, <3>4
    <3>5. CASE ~(t.op = "batch" /\ x \in ToSet(t.blocks))
      <4>1. ~Pending(x)
        BY <1>4, <3>2, <3>3, <3>5 DEF Pending
      <4> QED
        BY <3>2, <4>1 DEF Done
    <3> QED
      BY <3>4, <3>5
  <2> QED
    BY <1>1, <1>3, <1>6, <2>1, PassedStays
<1>13. BatchesIn'
  BY <1>1, <1>3, <1>4, <1>6, BatchesStay
<1>14. SavedIn'
  <2>1. ASSUME scene.crashes > 0, NEW x \in Puts, x[2] < saved'[x[1]].indexed
        PROVE  x[2] < saved[x[1]].indexed \/ x \in DOMAIN rows' \/ x[2] >= limit'[x[1]]
    <3>1. t.op # "cut"
      <4>1. scene.crashes \in Nat
        BY <1>1 DEF Shape, SceneOK, Scene
      <4> QED
        BY <1>1, <2>1, <4>1 DEF CutsApart, Limits
    <3>2. x[1] \in Logs
      BY WhereWritten DEF Puts
    <3>3. CASE t.op = "batch" /\ x[1] = t.of /\ x[2] < t.indexed
      <4>1. x \in ToSet(t.blocks) \/ In(x)
        BY <1>1, <3>3 DEF BatchesIn
      <4> QED
        BY <1>6, <1>11, <3>3, <4>1 DEF StillIn
    <3> QED
      BY <2>1, <3>1, <3>2, <3>3
  <2> QED
    BY <1>1, <1>3, <1>6, <2>1, SavedStays
<1> QED
  BY <1>7, <1>8, <1>9, <1>10, <1>12, <1>13, <1>14 DEF ReadInv

LEMMA CommitsReadable ==
    ASSUME Readable, Shape', CommitBatch \/ CommitCut \/ CommitModeration \/ CommitRights
    PROVE  ReadInv'
<1>1. Shape /\ NoneRemoved /\ (\A c \in Written : Block(c).kind # "delete") /\ \A i \in Ids : mods[i] # "removed"
  BY ReadableIs DEF NoneRemoved
<1>2. saved \in [Logs -> [indexed : Places, cut : 1 .. Inf]]
  BY <1>1 DEF Shape, DiskShape
<1>3. CASE CommitBatch
  <2>1. PICK t \in ToSet(queue) : WritesBatch(t)
    BY <1>3 DEF CommitBatch, WritesBatch
  <2> DEFINE l == t.of
             ix == Effect(t)
  <2>2. /\ t \in Task /\ l \in Logs /\ t.op = "batch" /\ OnlyLog(l) /\ run' = run
        /\ log'[l].scanned = log[l].scanned /\ log'[l].limit = log[l].limit /\ log'[l].cut = log[l].cut /\ log'[l].holes = log[l].holes
    BY <1>1, <2>1, CommitBatchDoes DEF WritesBatch, BatchTask, Task
  <2>3. saved'[l].indexed = t.indexed /\ saved'[l].cut = log[l].cut /\ \A k \in Logs \ {l} : saved'[k] = saved[k]
    BY <1>2, <2>1, <2>2 DEF WritesBatch
  <2>4. TaskAdds(t, ix) /\ ix \in Ix /\ Apply(t, ix)
    BY <1>1, <2>1, <2>2, EffectGrows DEF Mild, WritesBatch
  <2>5. \A k \in Logs \ {l} : log'[k] = log[k]
    BY <2>2 DEF OnlyLog
  <2> HIDE DEF ix
  <2> QED
    BY <2>2, <2>3, <2>4, <2>5, CommitReadable
<1>4. CASE CommitCut
  <2>1. PICK t \in ToSet(queue) : WritesCut(t)
    BY <1>4 DEF CommitCut, WritesCut
  <2> DEFINE l == t.of
             ix == Effect(t)
  <2>2. /\ t \in Task /\ l \in Logs /\ t.op = "cut" /\ OnlyLog(l) /\ run' = run
        /\ log'[l].scanned = log[l].scanned /\ log'[l].limit = log[l].limit /\ log'[l].holes = log[l].holes
        /\ log'[l].uncommitted = log[l].uncommitted
    BY <1>1, <2>1, CommitCutDoes DEF WritesCut, CutTask, Task
  <2>3. TaskAdds(t, ix) /\ ix \in Ix /\ Apply(t, ix)
    BY <1>1, <2>1, <2>2, EffectGrows DEF Mild, WritesCut
  <2>4. \A k \in Logs \ {l} : log'[k] = log[k]
    BY <2>2 DEF OnlyLog
  <2> HIDE DEF ix
  <2> QED
    BY <2>2, <2>3, <2>4, CommitReadable
<1>5. CASE CommitModeration
  <2>1. PICK t \in ToSet(queue) : WritesModeration(t)
    BY <1>5, CommitModerationIs
  <2>2. t \in Task /\ t.op = "moderate" /\ saved' = saved /\ Mild(t)
    BY <1>1, <2>1, TaskStays DEF WritesModeration, Mild, NoneRemoved
  <2>3. \A l \in Logs : TakenDown(t, l) = {}
    <3> TAKE l \in Logs
    <3>1. \A s \in log[l].holes : <<l, s>> \in Ids
      BY <1>1 DEF Shape, LogShape, LogEntry, Ids, Spots
    <3> QED
      BY <2>2, <3>1 DEF TakenDown, Mild
  <2>4. run' = run /\ \A l \in Logs : log'[l] = log[l]
    <3>1. \A l \in Logs : log'[l] = log[l] /\ run'[l] = run[l]
      BY <1>1, <2>1, <2>3, CommitModerationDoes
    <3>2. run \in [Logs -> RunEntry] /\ run' \in [Logs -> RunEntry]
      BY <1>1 DEF Shape, LogShape, RunEntry
    <3> QED
      BY <3>1, <3>2
  <2> DEFINE ix == Effect(t)
  <2>5. TaskAdds(t, ix) /\ ix \in Ix /\ Apply(t, ix)
    BY <1>1, <2>1, <2>2, EffectGrows DEF WritesModeration
  <2> HIDE DEF ix
  <2> QED
    BY <2>2, <2>4, <2>5, CommitReadable
<1>6. CASE CommitRights
  <2>1. PICK t \in ToSet(queue) : WritesRights(t)
    BY <1>6 DEF CommitRights, WritesRights, Judged
  <2> DEFINE u == Judged(t)
  <2>2. t.op = "rights" /\ u \in Task /\ u.op = "rights" /\ UNCHANGED <<saved, log, run>>
    BY <1>1, <2>1, JudgedIs DEF WritesRights, Task, RightsTask
  <2> DEFINE ix == Effect(u)
  <2>3. Apply(t, ix)
    BY <2>1 DEF WritesRights
  <2> HIDE DEF u
  <2>4. TaskAdds(u, ix) /\ ix \in Ix
    BY <1>1, <2>2, EffectGrows DEF Mild
  <2>5. TaskAdds(t, ix)
    <3> HIDE DEF ix
    <3> QED
      BY <2>2, <2>4 DEF TaskAdds
  <2> HIDE DEF ix
  <2> QED
    BY <2>2, <2>3, <2>4, <2>5, CommitReadable
<1> QED
  BY <1>3, <1>4, <1>5, <1>6

LEMMA FinishReadable ==
    ASSUME Readable, Shape', NEW a \in after, FinishBatch(a)
    PROVE  ReadInv'
<1>1. /\ Shape /\ OneTask /\ NoneRemoved /\ NoneCleared /\ Busy /\ PassedIn /\ BatchesIn /\ SavedIn
  BY ReadableIs
<1>2. a.op = "batch" /\ after' = after \ {a} /\ UNCHANGED <<scene, disk, decided, queue>>
  BY <1>1, FinishBatchDoes, FinishDoes
<1>3. SceneKept /\ Decided /\ limit' = limit /\ mods' = mods /\ rows' = rows /\ saved' = saved /\ scene'.crashes = scene.crashes
  BY <1>1, <1>2, AsItWas DEF disk
<1>4. StillIn
  BY <1>1, <1>3, RowsStayIn
<1>5. \A l \in Logs : WipedHoles(a, l) = {}
  BY <1>1 DEF NoneCleared, WipedHoles
<1>6. \A l \in Logs : log'[l] = log[l] /\ run'[l] = IF l = a.of THEN [Idle EXCEPT !.pc = "take"] ELSE run[l]
  BY <1>1, <1>5, FinishBatchDoes
<1> DEFINE T == [Idle EXCEPT !.pc = "take"]
<1>7. T.pc = "take" /\ run[a.of].pc = "queued"
  <2>1. a \in TaskSet
    BY DEF TaskSet
  <2> QED
    BY <1>1, <1>2, <2>1, IdleIs, AwaitedIs DEF OneTask, Awaited
<1>8. \A l \in Logs : run'[l] = IF l = a.of THEN T ELSE run[l]
  BY <1>6
<1> HIDE DEF T
<1>9. Limits'
  BY <1>2, <1>3, <1>6, LimitsStay
<1>10. NoneRemoved' /\ NoneCleared'
  BY <1>1, <1>2, <1>3 DEF NoneRemoved, NoneCleared
<1>11. Busy'
  <2>1. \A l \in Logs : run'[l].pc \in {"scan", "note"} => log'[l].uncommitted
    BY <1>1, <1>6, <1>7, <1>8 DEF Busy
  <2>2. \A t \in ToSet(queue') : t.op = "batch" => log'[t.of].uncommitted
    BY <1>1, <1>2, <1>6, TaskStays DEF Busy
  <2> QED
    BY <2>1, <2>2 DEF Busy
<1>12. PassedIn'
  <2>1. ASSUME NEW x \in Puts, Done(x)' PROVE Done(x)
    <3>1. x[1] \in Logs
      BY WhereWritten DEF Puts
    <3>2. x[2] < log[x[1]].scanned /\ x[2] \notin log[x[1]].holes /\ ~Pending(x)'
      BY <1>6, <2>1, <3>1 DEF Done
    <3>3. ~\E t \in ToSet(queue) : t.op = "batch" /\ t.of = x[1] /\ x \in ToSet(t.blocks)
      BY <1>2, <3>2 DEF Pending
    <3>4. ~Pending(x)
      BY <1>7, <1>8, <3>1, <3>2, <3>3 DEF Pending
    <3> QED
      BY <3>2, <3>4 DEF Done
  <2> QED
    BY <1>1, <1>3, <1>4, <2>1, PassedStays
<1>13. BatchesIn' /\ SavedIn'
  BY <1>1, <1>2, <1>3, <1>4, BatchesStay, SavedStays
<1> QED
  BY <1>9, <1>10, <1>11, <1>12, <1>13 DEF ReadInv

LEMMA CutReadable ==
    ASSUME Readable, Shape', NEW l \in Logs, CutBegin(l)
    PROVE  ReadInv'
<1> DEFINE u == CutOf(l)
<1>1. /\ Shape /\ OneTask /\ Limits /\ NoneRemoved /\ NoneCleared /\ Busy /\ PassedIn /\ BatchesIn /\ SavedIn
  BY ReadableIs
<1>2. UNCHANGED <<scene, disk, decided, after>>
  BY DEF CutBegin
<1>3. SceneKept /\ Decided /\ limit' = limit /\ mods' = mods /\ rows' = rows /\ saved' = saved /\ scene'.crashes = scene.crashes
  BY <1>1, <1>2, AsItWas DEF disk
<1>4. StillIn
  BY <1>1, <1>3, RowsStayIn
<1>5. /\ OnlyLog(l) /\ run[l].pc = "idle" /\ run' = run /\ limit[l] # Inf /\ limit[l] \in Nat
      /\ queue' = Append(queue, u)
      /\ log'[l].scanned = (IF log[l].scanned > limit[l] THEN limit[l] ELSE log[l].scanned)
      /\ log'[l].limit = limit[l] /\ log'[l].cut = log[l].cut
      /\ log'[l].holes = {s \in log[l].holes : s < limit[l]} /\ log'[l].uncommitted = log[l].uncommitted
      /\ log[l].scanned \in Nat
  BY <1>1, CutBeginDoes, PlacesAre DEF Shape, LogShape, LogEntry
<1>6. u \in Task /\ u.op = "cut" /\ \A x \in ToSet(u.blocks) : x[2] >= limit[x[1]]
  BY <1>1, <1>5, CutOfIs DEF Task, CutTask
<1> HIDE DEF u
<1>7. ToSet(queue') = ToSet(queue) \cup {u}
  BY <1>1, <1>5, <1>6, AppendIs DEF Shape, TaskShape
<1>8. \A k \in Logs \ {l} : log'[k] = log[k]
  BY <1>5 DEF OnlyLog
<1>9. Limits'
  <2>1. \A k \in Logs : limit'[k] <= log'[k].limit
    BY <1>1, <1>3, <1>5, <1>8 DEF Limits
  <2>2. \A t \in ToSet(queue') : t.op = "cut" => \A x \in ToSet(t.blocks) : x[2] >= limit'[x[1]]
    BY <1>1, <1>3, <1>6, <1>7 DEF Limits, Past
  <2>3. ~NoCuts(scene')
    BY <1>1, <1>2, <1>5 DEF Limits, Uncut
  <2> QED
    BY <2>1, <2>2, <2>3 DEF Limits, Past, ToSet
<1>10. NoneRemoved' /\ NoneCleared'
  <2>1. \A t \in ToSet(queue') : t.op = "moderate" => \A i \in Ids : t.mods[i] # "removed"
    BY <1>1, <1>6, <1>7 DEF NoneRemoved
  <2> QED
    BY <1>1, <1>2, <1>3, <2>1 DEF NoneRemoved, NoneCleared
<1>11. Busy'
  <2>1. \A k \in Logs : log'[k].uncommitted = log[k].uncommitted
    BY <1>5, <1>8
  <2>2. \A t \in ToSet(queue') : t.op = "batch" => log'[t.of].uncommitted
    BY <1>1, <1>6, <1>7, <2>1, TaskStays DEF Busy
  <2> QED
    BY <1>1, <1>5, <2>1, <2>2 DEF Busy
<1>12. PassedIn'
  <2>1. ASSUME NEW x \in Puts, Done(x)' PROVE Done(x)
    <3>1. x[1] \in Logs /\ x[2] \in Nat
      BY WhereWritten DEF Puts
    <3>2. x[2] < log'[x[1]].scanned /\ x[2] \notin log'[x[1]].holes /\ ~Pending(x)'
      BY <2>1 DEF Done
    <3>3. ~\E t \in ToSet(queue') : t.op = "batch" /\ t.of = x[1] /\ x \in ToSet(t.blocks)
      BY <3>2 DEF Pending, ToSet
    <3>4. ~Pending(x)
      BY <1>5, <1>7, <3>2, <3>3 DEF Pending
    <3>5. x[2] < log[x[1]].scanned /\ x[2] \notin log[x[1]].holes
      <4>1. CASE x[1] = l
        BY <1>5, <3>1, <3>2, <4>1
      <4>2. CASE x[1] # l
        BY <1>8, <3>1, <3>2, <4>2
      <4> QED
        BY <4>1, <4>2
    <3> QED
      BY <3>4, <3>5 DEF Done
  <2> QED
    BY <1>1, <1>3, <1>4, <2>1, PassedStays
<1>13. BatchesIn'
  BY <1>1, <1>3, <1>4, <1>6, <1>7, BatchesStay
<1>14. SavedIn'
  BY <1>1, <1>3, <1>4, SavedStays
<1> QED
  BY <1>9, <1>10, <1>11, <1>12, <1>13, <1>14 DEF ReadInv

LEMMA CrashKept ==
    ASSUME Shape, Crash
    PROVE  SceneKept /\ scene.crashes # 0 /\ scene.crashes > 0
<1>1. scene' = [scene EXCEPT !.crashes = scene.crashes - 1] /\ scene \in Scene /\ scene.crashes \in Nat /\ scene.crashes > 0
  BY CrashDoes DEF Shape, SceneOK
<1> QED
  BY <1>1 DEF SceneKept, Scene

LEMMA CrashReadable ==
    ASSUME Readable, Shape', Crash
    PROVE  ReadInv'
<1>1. /\ Shape /\ CutsApart(scene) /\ Limits /\ NoneRemoved /\ SavedIn
  BY ReadableIs
<1>2. SceneKept /\ scene.crashes # 0 /\ scene.crashes > 0
  BY <1>1, CrashKept
<1>3. /\ UNCHANGED <<disk, decided>> /\ queue' = << >> /\ after' = {}
      /\ \A l \in Logs : /\ log'[l].scanned = saved[l].indexed /\ log'[l].limit = saved[l].cut /\ log'[l].cut = saved[l].cut
                         /\ log'[l].holes = {} /\ run'[l].pc = (IF length[l] > 1 THEN "start" ELSE "idle")
  BY <1>1, CrashDoes
<1>4. ToSet(queue') = {} /\ rows' = rows /\ saved' = saved /\ limit' = limit /\ mods' = mods
  BY <1>3 DEF ToSet, disk, decided
<1>5. \A l \in Logs : Uncut(l)
  BY <1>1, <1>2 DEF CutsApart, Limits
<1>6. Limits'
  <2>1. \A l \in Logs : Uncut(l)' /\ limit'[l] <= log'[l].limit
    BY <1>3, <1>4, <1>5, PlacesAre DEF Uncut
  <2> QED
    BY <1>4, <2>1 DEF Limits
<1>7. NoneRemoved' /\ NoneCleared' /\ Busy' /\ BatchesIn'
  BY <1>1, <1>3, <1>4 DEF NoneRemoved, NoneCleared, Busy, BatchesIn
<1>8. \A x \in Puts : x[2] < saved[x[1]].indexed => x \in DOMAIN rows' \/ x[2] >= limit'[x[1]]
  BY <1>1, <1>2, <1>4 DEF SavedIn, In, Past
<1>9. Puts' = Puts
  BY <1>2, PutsStay
<1>10. SavedIn'
  <2>1. ASSUME NEW x \in Puts', x[2] < saved'[x[1]].indexed PROVE In(x)'
    BY <1>4, <1>8, <1>9, <2>1 DEF In, Past
  <2> QED
    BY <2>1 DEF SavedIn
<1>11. PassedIn'
  <2>1. ASSUME NEW x \in Puts', Done(x)' PROVE In(x)'
    <3>1. x \in Puts /\ x[1] \in Logs
      BY <1>9, WhereWritten DEF Puts
    <3>2. x[2] < saved[x[1]].indexed
      BY <1>3, <2>1, <3>1 DEF Done
    <3> QED
      BY <1>8, <3>1, <3>2 DEF In, Past
  <2> QED
    BY <2>1 DEF PassedIn
<1> QED
  BY <1>6, <1>7, <1>10, <1>11 DEF ReadInv

-----------------------------------------------------------------------------
(* What a reader holds, and the theorem.                                   *)

\* Nothing noted since a read took the rows: it holds all that are there.
Fresh ==
    reader.pc = "read" /\ reader.fresh /\ (\A a \in after : ~a.noted) => DOMAIN rows \in SUBSET reader.answer
ReadsOnly == reader.pc = "read" => scene.reads

LEMMA SceneStays ==
    ASSUME Shape, [Next]_vars
    PROVE  SceneKept /\ (scene'.crashes = scene.crashes \/ scene.crashes # 0)
<1>1. CASE Aside
  BY <1>1, AsideKeeps DEF Keeps
<1>2. CASE Crash
  BY <1>2, CrashKept
<1>3. ASSUME NEW l \in Logs, RunScan(l) \/ RunNote(l) \/ RunBatch(l) \/ CutBegin(l) PROVE scene' = scene
  BY <1>3 DEF RunScan, RunNote, RunBatch, CutBegin
<1>4. ASSUME CommitBatch \/ CommitCut \/ CommitModeration \/ CommitRights PROVE scene' = scene
  <2>1. PICK t \in ToSet(queue), ix \in Ix : Apply(t, ix)
    BY <1>4, CommitApplies DEF Writes
  <2> QED
    BY <2>1 DEF Apply
<1>5. ASSUME NEW a \in after, FinishBatch(a) PROVE scene' = scene
  BY <1>5, FinishBatchDoes, FinishDoes
<1>6. UNCHANGED vars \/ Step
  BY NextSteps
<1> QED
  BY <1>1, <1>2, <1>3, <1>4, <1>5, <1>6, SceneAsIs DEF Step, Aside

LEMMA CommitFresh ==
    ASSUME Shape, Fresh, CommitBatch \/ CommitCut \/ CommitModeration \/ CommitRights
    PROVE  Fresh' /\ reader' = reader
<1>1. PICK t \in ToSet(queue), ix \in Ix : Apply(t, ix)
  BY CommitApplies DEF Writes
<1> DEFINE b == ix.rows # rows
           a == [op |-> t.op, of |-> t.of, clears |-> ix.clears, wiped |-> ix.wiped, noted |-> b]
<1>2. rows' = ix.rows /\ after' = after \cup {a} /\ reader' = reader
  <2>1. rows' = ix.rows /\ after' = after \cup {a}
    BY <1>1, ApplyDoes
  <2> HIDE DEF a
  <2> QED
    BY <1>1, <2>1 DEF Apply
<1>3. a.noted = b
  <2> HIDE DEF b
  <2> QED
    OBVIOUS
<1>4. ~a.noted => ix.rows = rows
  BY <1>3
<1> HIDE DEF a
<1> QED
  BY <1>2, <1>4 DEF Fresh

LEMMA FinishFresh ==
    ASSUME Shape, Fresh, NEW a \in after, Finish(a)
    PROVE  Fresh' /\ reader'.pc = reader.pc
<1>1. /\ after' = after \ {a} /\ reader'.pc = reader.pc /\ reader'.answer = reader.answer
      /\ reader'.fresh = (reader.fresh /\ ~a.noted) /\ disk' = disk
  BY FinishDoes
<1>2. rows' = rows
  BY <1>1 DEF disk
<1> QED
  BY <1>1, <1>2 DEF Fresh

LEMMA ClearFresh ==
    ASSUME Shape, Fresh, NEW a \in after, NEW i \in a.clears, Clear(a, i)
    PROVE  Fresh' /\ reader' = reader
<1> DEFINE C == a.clears \ {i}
           b == [a EXCEPT !.clears = C]
<1>1. after' = (after \ {a}) \cup {b} /\ UNCHANGED <<disk, reader>> /\ a \in Committed
  BY ClearDoes DEF Shape, TaskShape
<1>2. rows' = rows
  BY <1>1 DEF disk
<1>3. b.noted = a.noted
  <2> HIDE DEF C
  <2> QED
    BY <1>1 DEF Committed
<1> HIDE DEF b
<1> QED
  BY <1>1, <1>2, <1>3 DEF Fresh

\* A read takes the rows there are, and hears of whatever is committed after.
LEMMA FreshStays ==
    ASSUME Shape, Fresh, [Next]_vars
    PROVE  Fresh' /\ (reader'.pc = "read" => reader.pc = "read" \/ scene.reads)
<1>1. CASE CommitBatch \/ CommitCut \/ CommitModeration \/ CommitRights
  BY <1>1, CommitFresh
<1>2. ASSUME NEW a \in after, FinishBatch(a) \/ FinishCut(a) \/ FinishDecision(a)
      PROVE  Fresh' /\ reader'.pc = reader.pc
  <2>1. Finish(a)
    BY <1>2, FinishBatchDoes DEF FinishCut, FinishDecision
  <2> QED
    BY <2>1, FinishFresh
<1>3. ASSUME NEW a \in after, NEW i \in a.clears, Clear(a, i)
      PROVE  Fresh' /\ reader' = reader
  BY <1>3, ClearFresh
<1>4. CASE Crash \/ ReadEnd
  <2>1. reader'.pc = "idle"
    <3>1. reader' = NoReader \/ reader' = [pc |-> "idle", answer |-> {}, fresh |-> TRUE]
      BY <1>4 DEF Crash, ReadEnd
    <3> QED
      BY <3>1 DEF NoReader
  <2> QED
    BY <2>1 DEF Fresh
<1>5. CASE ReadRows
  <2>1. reader'.answer = DOMAIN rows /\ rows' = rows /\ scene.reads
    BY <1>5 DEF ReadRows, disk
  <2> QED
    BY <2>1 DEF Fresh
<1>6. ASSUME UNCHANGED <<rows, reader, after>> PROVE Fresh' /\ reader' = reader
  BY <1>6 DEF Fresh
<1>7. ASSUME NEW l \in Logs,
             \/ Grow(l) \/ RunTake(l) \/ RunScan(l) \/ RunNote(l) \/ RunBatch(l) \/ RunEnd(l) \/ HoleTimer(l) \/ CutBegin(l)
             \/ \E s \in Known(l) : Download(l, s)
      PROVE  UNCHANGED <<rows, reader, after>>
  BY <1>7 DEF Grow, RunTake, RunScan, RunNote, RunBatch, RunEnd, HoleTimer, CutBegin, Download, disk
<1>8. ASSUME \/ Unlock \/ UNCHANGED vars
             \/ (\E d \in scene.decide : Decide(d)) \/ \E h \in hearing : Moderate(h) \/ Reauthorize(h)
      PROVE  UNCHANGED <<rows, reader, after>>
  BY <1>8 DEF Unlock, Decide, Moderate, Reauthorize, disk, vars
<1>9. UNCHANGED vars \/ Step
  BY NextSteps
<1> QED
  BY <1>1, <1>2, <1>3, <1>4, <1>5, <1>6, <1>7, <1>8, <1>9 DEF Step

LEMMA ReadableStays ==
    ASSUME Readable, Shape', [Next]_vars
    PROVE  ReadInv'
<1>1. Shape
  BY ReadableIs
<1>2. UNCHANGED vars \/ Step
  BY NextSteps
<1> QED
  BY <1>1, <1>2, AsideReadable, ScanReadable, NoteReadable, BatchReadable, CommitsReadable, FinishReadable, CutReadable, CrashReadable
     DEF Step, Aside

\* A log with nothing missing has no run or batch under way, and no hole.
LEMMA NothingMissing ==
    ASSUME Shape, NEW l \in Logs, missing(l) = 0
    PROVE  ~log[l].uncommitted /\ log[l].holes = {}
<1> DEFINE H == log[l].holes
           c == Cardinality(H)
           u == IF log[l].uncommitted THEN 1 ELSE 0
           n == IF length[l] < log[l].limit THEN length[l] ELSE log[l].limit
           m == IF n > log[l].scanned THEN n - log[l].scanned ELSE 0
<1>1. H \in SUBSET Spots /\ log[l].scanned \in Nat /\ log[l].limit \in Nat /\ length[l] \in Nat
  BY PlacesAre DEF Shape, LogShape, LogEntry, DiskShape
<1>2. IsFiniteSet(H) /\ c \in Nat
  <2>1. MaxLen - 1 \in Int
    BY IndexAssumption
  <2>2. IsFiniteSet(Spots)
    BY <2>1, FS_Interval DEF Spots
  <2> QED
    BY <1>1, <2>2, FS_Subset, FS_CardinalityType
<1>3. m \in Nat /\ u \in Nat
  BY <1>1
<1>4. c + u + m = 0
  BY DEF missing
<1> HIDE DEF c, u, m, H
<1>5. c = 0 /\ u = 0
  BY <1>2, <1>3, <1>4
<1>6. H = {}
  BY <1>2, <1>5, FS_EmptySet DEF c
<1>7. ~log[l].uncommitted
  BY <1>5 DEF u
<1> QED
  BY <1>6, <1>7 DEF H

LEMMA StandingDone ==
    ASSUME Readable, isComplete, after = {}, NEW i \in Standing
    PROVE  i \in DOMAIN rows
<1>1. Shape /\ Busy /\ PassedIn
  BY ReadableIs
<1>2. i \in Ids /\ i[1] \in Logs /\ i[2] \in Nat /\ i[2] < log[i[1]].scanned /\ i[2] < limit[i[1]] /\ i[2] \notin log[i[1]].holes
      /\ Block(i).kind = "put"
  <2>1. i \in Counting /\ Block(i).kind = "put"
    BY DEF Standing
  <2>2. i \in Ids
    BY <2>1 DEF Counting
  <2>3. i[1] \in Logs /\ i[2] \in 1 .. MaxLen - 1
    BY <2>2 DEF Ids
  <2> QED
    BY <2>1, <2>2, <2>3 DEF Counting
<1> DEFINE l == i[1]
<1>3. i \in Puts
  <2>1. log[l].scanned <= length[l] /\ length[l] <= Len(scene.content[l]) + 1 /\ log[l].scanned \in Nat /\ length[l] \in Nat
        /\ Len(scene.content[l]) \in Nat
    <3>1. LogOK(log[l], run[l], length[l]) /\ log[l].scanned \in Places /\ length[l] \in Places
      BY <1>1, <1>2 DEF Shape, LogShape, LogEntry, DiskShape
    <3>2. scene.content[l] \in Seq(BlockType)
      BY <1>1, <1>2 DEF Shape, SceneOK, Scene
    <3> QED
      BY <1>1, <1>2, <3>1, <3>2, PlacesAre DEF Shape, DiskShape, LogOK
  <2>2. i[2] <= Len(scene.content[l])
    BY <1>2, <2>1
  <2> QED
    BY <1>2, <2>2 DEF Puts, Written
<1>4. ~log[l].uncommitted
  BY <1>1, <1>2, NothingMissing DEF isComplete
<1>5. ~Pending(i)
  <2>1. run[l].pc \notin {"scan", "note"} /\ \A t \in ToSet(queue) : ~(t.op = "batch" /\ t.of = l)
    BY <1>1, <1>2, <1>4 DEF Busy
  <2> QED
    BY <2>1 DEF Pending
<1>6. Done(i)
  BY <1>2, <1>5 DEF Done
<1>7. ~Past(i)
  <2>1. limit[l] \in Nat
    BY <1>1, <1>2, LimitsAre
  <2> QED
    BY <1>2, <2>1 DEF Past
<1> QED
  BY <1>1, <1>3, <1>6, <1>7 DEF PassedIn, In

\* A bounded read that answers `complete` holds every record this device knew of,
\* whatever arrived, was committed, decided, cut or lost with the process while it
\* read (_bounded of lib/space.js, missing and isComplete of lib/index/indexer.js).
\* A scene that reads is tame: a log is not cut in one whose process dies, as #cut
\* saves a place past a batch that is not committed and the next process goes by
\* that; and nothing is deleted or taken down, as readers hear of a commit only
\* once its blocks are cleared.
THEOREM CompleteSafe ==
    ASSUME \A s \in Scenes : Tame(s)
    PROVE  Spec => HonestComplete
<1> DEFINE Inv == Shape /\ OneTask /\ Tame(scene) /\ (scene.reads => ReadInv) /\ Fresh /\ ReadsOnly
<1>1. Init => Inv
  <2> SUFFICES ASSUME Init PROVE Inv
    OBVIOUS
  <2>1. Shape /\ OneTask /\ ReadInv
    BY InitShape, InitOneTask, InitReadable
  <2>2. Tame(scene) /\ reader = NoReader
    BY DEF Init
  <2> QED
    BY <2>1, <2>2 DEF NoReader, Fresh, ReadsOnly
<1>2. Inv /\ [Next]_vars => Inv'
  <2> SUFFICES ASSUME Inv, [Next]_vars PROVE Inv'
    OBVIOUS
  <2>1. Shape' /\ OneTask'
    BY StepShape, OneTaskStep
  <2>2. SceneKept /\ (scene'.crashes = scene.crashes \/ scene.crashes # 0)
    BY SceneStays
  <2>3. Tame(scene)' /\ scene'.reads = scene.reads
    BY <2>2, TameStays DEF SceneKept
  <2>4. scene'.reads => ReadInv'
    BY <2>1, <2>3, ReadableStays DEF Readable
  <2>5. Fresh' /\ ReadsOnly'
    BY <2>3, FreshStays DEF ReadsOnly
  <2> QED
    BY <2>1, <2>3, <2>4, <2>5
<1>3. Inv /\ ReadEnd /\ isComplete /\ reader.fresh => Standing \ Unrestored \subseteq reader.answer
  <2> SUFFICES ASSUME Inv, ReadEnd, isComplete, reader.fresh PROVE Standing \subseteq reader.answer
    OBVIOUS
  <2>1. reader.pc = "read" /\ Prompt
    BY DEF ReadEnd
  <2>2. Readable
    BY <2>1 DEF ReadsOnly, Readable
  <2>3. after = {}
    BY <2>1, <2>2, ReadableIs DEF Prompt, NoneCleared
  <2>4. \A i \in Standing : i \in DOMAIN rows
    BY <2>2, <2>3, StandingDone
  <2>5. DOMAIN rows \in SUBSET reader.answer
    BY <2>1, <2>3 DEF Fresh
  <2> QED
    BY <2>4, <2>5
<1>4. Inv => (ReadEnd /\ isComplete /\ reader.fresh => Standing \ Unrestored \subseteq reader.answer)
  BY <1>3
<1> QED
  BY <1>1, <1>2, <1>4, PTL DEF Spec, HonestComplete
=============================================================================
