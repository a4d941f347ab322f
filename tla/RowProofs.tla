----------------------------- MODULE RowProofs -----------------------------
(***************************************************************************)
(* What the rows of module Indexer are, for any logs, records, batches and *)
(* restarts: what the blocks make of the records, whatever the order the   *)
(* blocks came in (RowsMatchBlocks).  For scenes in which blocks alone say *)
(* what the rows are, without decisions (BlocksOnly).                      *)
(*                                                                         *)
(* The invariant says of each row that it is what the changes kept make of *)
(* its record (Good), of each block that was passed that it had its effect *)
(* (PassedHere), and of what had an effect that its block is here, or was  *)
(* taken away, and is passed or will be again (EntriesPlaced).             *)
(***************************************************************************)
EXTENDS IndexerProofs

-----------------------------------------------------------------------------
(* Scenes in which blocks alone say what the rows are.                     *)

\* A change names a record of its type, if it names a block there is.
NamesRecords(s) ==
    \A l \in Logs : \A n \in DOMAIN s.content[l] :
        LET c == s.content[l][n]
        IN  c.kind # "put" /\ c.on \in Ids /\ c.on[2] \in DOMAIN s.content[c.on[1]] =>
                s.content[c.on[1]][c.on[2]].kind = "put" /\ s.content[c.on[1]][c.on[2]].type = c.type

\* Nobody deletes what counts once per member.
VotesKept(s) ==
    \A l \in Logs : \A n \in DOMAIN s.content[l] :
        s.content[l][n].kind = "delete" => s.content[l][n].type \notin OnePerMember

BlocksOnly(s) == s.decide = {} /\ NamesRecords(s) /\ VotesKept(s)

\* Does block d, a delete, take record i away?
takesAway(d, i) == Block(d).kind = "delete" /\ Target(d) = i /\ mayChange(d, i)
Taken(ch, i) == \E d \in ch : takesAway(d, i)
WipedBy(ch, x) == Taken(ch, x) \/ (x \in Changed /\ Block(x).kind = "edit" /\ Taken(ch, Target(x)))

LEMMA BlocksOnlyIs ==
    ASSUME SceneOK(scene), BlocksOnly(scene)
    PROVE  /\ \A c \in Changed : Target(c) \in Written => Block(Target(c)).kind = "put" /\ Block(Target(c)).type = Block(c).type
           /\ \A d \in Written : Block(d).kind = "delete" => Block(d).type \notin OnePerMember
           /\ \A c \in Changed : c \in Written /\ Target(c) \in Ids
<1>1. \A c \in Written : c[1] \in Logs /\ c[2] \in DOMAIN scene.content[c[1]]
  BY BlockIs, IdsFinite DEF Written
<1>2. \A c \in Changed : c \in Written /\ Target(c) \in Ids /\ Block(c).kind # "put"
  BY BlockIs DEF Changed
<1>3. ASSUME NEW c \in Changed, Target(c) \in Written
      PROVE  Block(Target(c)).kind = "put" /\ Block(Target(c)).type = Block(c).type
  BY <1>1, <1>2, <1>3 DEF BlocksOnly, NamesRecords, Block, Target
<1>4. \A d \in Written : Block(d).kind = "delete" => Block(d).type \notin OnePerMember
  BY <1>1 DEF BlocksOnly, VotesKept, Block
<1> QED
  BY <1>2, <1>3, <1>4

-----------------------------------------------------------------------------
(* Rows that are what the changes kept make of their records.              *)

\* v wins over the others of S.
Wins(v, S) == v \in S /\ \A j \in S \ {v} : compare(v, j)
On(ch, i) == {c \in ch : Target(c) = i}
Beaten(r, i) == Block(i).type \in OnePerMember /\ \E j \in DOMAIN r : Group(j) = Group(i) /\ compare(j, i)
RowGood(r, ch, i) ==
    /\ Block(i).kind = "put" /\ ~Taken(ch, i)
    /\ Wins(r[i].v, {i} \cup AllowedIn(i, On(ch, i)))
    /\ ~r[i].hidden
    /\ r[i].superseded <=> Beaten(r, i)
Good(r, ch) == \A i \in DOMAIN r : RowGood(r, ch, i)
\* A put looks for changes that came before it whenever there are some.
Told(ch, targets) == memo.had # None /\ (~memo.had.changes => \A c \in ch : Target(c) \in targets)

\* The latest of some wins; what wins over some and a version, over both.
LEMMA VersionWins ==
    ASSUME SceneOK(scene), NEW S \in SUBSET Written, NEW v, Wins(v, S), NEW i, NEW cs \in SUBSET Changed
    PROVE  Wins(Version(i, v, cs), S \cup AllowedIn(i, cs))
<1> DEFINE A == AllowedIn(i, cs)
           m == latest(A)
           w == Version(i, v, cs)
<1>1. A \in SUBSET Written /\ v \in Written /\ v \in S /\ \A j \in S \ {v} : compare(v, j)
  BY DEF AllowedIn, Changed, Wins
<1>2. w = IF A # {} /\ compare(m, v) THEN m ELSE v
  BY DEF Version
<1>3. A # {} => m \in A /\ \A j \in A \ {m} : compare(m, j)
  BY <1>1, LatestIs
<1> HIDE DEF A, m, w
<1>4. CASE A # {} /\ compare(m, v)
  <2>1. m \in Written /\ w = m /\ m \in A
    BY <1>1, <1>2, <1>3, <1>4
  <2>2. \A j \in S \ {m} : compare(m, j)
    BY <1>1, <1>4, <2>1, OneWins
  <2> QED
    BY <1>3, <2>1, <2>2 DEF Wins, A, w
<1>5. CASE ~(A # {} /\ compare(m, v))
  <2>1. w = v
    BY <1>2, <1>5
  <2>2. \A j \in A \ {v} : compare(v, j)
    <3> SUFFICES ASSUME NEW j \in A, j # v PROVE compare(v, j)
      OBVIOUS
    <3>1. m \in A /\ m \in Written /\ ~compare(m, v) /\ (j # m => compare(m, j)) /\ j \in Written
      BY <1>1, <1>3, <1>5
    <3>2. v = m \/ compare(v, m)
      BY <1>1, <3>1, OneWins
    <3> QED
      BY <1>1, <3>1, <3>2, OneWins
  <2> QED
    BY <1>1, <2>1, <2>2 DEF Wins, A, w
<1> QED
  BY <1>4, <1>5

\* What block b does to the index.
Moved(ix, s, b) ==
    /\ ix.changes \in SUBSET s.changes /\ \A c \in s.changes : c \in ix.changes \/ c = b
    /\ \A j \in DOMAIN s.rows : j \in DOMAIN ix.rows \/ j = b
    /\ \A j \in DOMAIN ix.rows : j \in DOMAIN s.rows \/ Taken(s.changes, j)
    /\ \A d \in s.wiped : d \in ix.wiped \/ (d \in s.changes /\ Block(d).kind = "delete")
    /\ \A x \in s.clears : x \in ix.clears \/ WipedBy(s.changes, x)
    /\ Good(s.rows, s.changes) /\ Told(s.changes, s.targets)

\* The row of a record is as good with other rows and a change of another.
LEMMA RowStaysGood ==
    ASSUME NEW r, NEW q, NEW ch, NEW dh, NEW i, RowGood(r, ch, i),
           q[i].v = r[i].v, q[i].hidden = r[i].hidden, q[i].superseded = r[i].superseded,
           On(dh, i) = On(ch, i), Beaten(q, i) <=> Beaten(r, i)
    PROVE  RowGood(q, dh, i)
<1>1. Taken(dh, i) <=> Taken(ch, i)
  BY DEF Taken, takesAway, On
<1> QED
  BY <1>1 DEF RowGood

LEMMA AllowedMore ==
    ASSUME NEW ch, NEW c, NEW i, Target(c) = i
    PROVE  {i} \cup AllowedIn(i, On(ch \cup {c}, i)) = ({i} \cup AllowedIn(i, On(ch, i))) \cup AllowedIn(i, {c})
BY DEF AllowedIn, On

\* An edit or a delete leaves good rows.
LEMMA ChangeMoves ==
    ASSUME SceneOK(scene), BlocksOnly(scene), NEW ix \in Ix, NEW c \in Changed, mods[Target(c)] # "removed",
           Good(ix.rows, ix.changes), Told(ix.changes, ix.targets)
    PROVE  Moved(ix, takeChange(ix, c), c) /\ c \in takeChange(ix, c).changes
<1> DEFINE i == Target(c)
           s == takeChange(ix, c)
           v == Version(i, ix.rows[i].v, {c})
           W == With(ix.rows[i], v)
<1>1. /\ s.changes = ix.changes \cup {c} /\ s.targets = ix.targets \cup {i}
      /\ i \notin DOMAIN ix.rows =>
            /\ s.rows = ix.rows /\ s.clears = ix.clears
            /\ s.wiped = ix.wiped \cup (IF Block(c).kind = "delete" THEN {c} ELSE {})
      /\ i \in DOMAIN ix.rows /\ DeletesIn(i, {c}) = {} => s.rows = Put(ix.rows, i, W) /\ s.clears = ix.clears /\ s.wiped = ix.wiped
      /\ i \in DOMAIN ix.rows /\ DeletesIn(i, {c}) # {} =>
            /\ s.rows = Drop(ix.rows, i) /\ s.wiped = ix.wiped
            /\ s.clears = ix.clears \cup {i} \cup {d \in Of(s, i) : Block(d).kind = "edit"}
  BY TakeChangeIs
<1>2. ix.rows \in Rows /\ ix.changes \in SUBSET Changed /\ DOMAIN ix.rows \in SUBSET Written /\ \A j \in DOMAIN ix.rows : ix.rows[j] \in WrittenRow
  BY RowsAre DEF Ix
<1>3. c \in Written /\ (i \in Written => Block(i).kind = "put" /\ Block(i).type = Block(c).type)
  BY BlocksOnlyIs
<1> HIDE DEF s, v
<1>4. ix.changes \in SUBSET s.changes /\ (\A d \in s.changes : d \in ix.changes \/ d = c) /\ c \in s.changes
      /\ Told(s.changes, s.targets)
  BY <1>1 DEF Told
<1>5. ASSUME NEW j \in DOMAIN ix.rows, j # i, i \in DOMAIN ix.rows => DeletesIn(i, {c}) = {} \/ Block(i).type \notin OnePerMember,
             DOMAIN s.rows = DOMAIN ix.rows \/ (i \in DOMAIN ix.rows /\ DeletesIn(i, {c}) # {} /\ DOMAIN s.rows = DOMAIN ix.rows \ {i}),
             s.rows[j] = ix.rows[j]
      PROVE  RowGood(s.rows, s.changes, j)
  <2>1. RowGood(ix.rows, ix.changes, j)
    BY DEF Good
  <2>2. On(s.changes, j) = On(ix.changes, j)
    BY <1>1, <1>5 DEF On
  <2>3. Beaten(s.rows, j) <=> Beaten(ix.rows, j)
    <3>1. CASE DOMAIN s.rows = DOMAIN ix.rows
      BY <3>1 DEF Beaten
    <3>2. CASE DOMAIN s.rows = DOMAIN ix.rows \ {i} /\ Block(i).type \notin OnePerMember
      <4>1. Block(j).type \in OnePerMember => Group(i) # Group(j)
        BY <3>2 DEF Group
      <4> QED
        BY <3>2, <4>1 DEF Beaten
    <3> QED
      BY <1>5, <3>1, <3>2
  <2> QED
    BY <1>5, <2>1, <2>2, <2>3, RowStaysGood
<1>6. CASE i \notin DOMAIN ix.rows
  <2>1. s.rows = ix.rows /\ s.clears = ix.clears /\ s.wiped = ix.wiped \cup (IF Block(c).kind = "delete" THEN {c} ELSE {})
    BY <1>1, <1>6
  <2>2. \A d \in s.wiped : d \in ix.wiped \/ (d \in s.changes /\ Block(d).kind = "delete")
    BY <1>4, <2>1
  <2>3. Good(s.rows, s.changes)
    BY <1>5, <1>6, <2>1 DEF Good
  <2> QED
    BY <1>4, <2>1, <2>2, <2>3 DEF Moved, s
<1>7. CASE i \in DOMAIN ix.rows /\ DeletesIn(i, {c}) = {}
  <2>1. s.rows = Put(ix.rows, i, W) /\ s.clears = ix.clears /\ s.wiped = ix.wiped
    BY <1>1, <1>7
  <2>2. RowGood(ix.rows, ix.changes, i) /\ i \in Written /\ ix.rows[i] \in WrittenRow /\ ix.rows[i].v \in Written
    BY <1>2, <1>7 DEF Good, WrittenRow
  <2>3. v \in Written /\ {c} \in SUBSET Changed
    BY <2>2, VersionIs DEF v
  <2>4. W \in WrittenRow /\ W.v = v /\ W.hidden = ix.rows[i].hidden /\ W.superseded = ix.rows[i].superseded
    BY <2>2, <2>3 DEF With, WrittenRow
  <2> HIDE DEF W
  <2>5. DOMAIN s.rows = DOMAIN ix.rows /\ s.rows[i] = W /\ \A j \in DOMAIN ix.rows \ {i} : s.rows[j] = ix.rows[j]
    <3>1. /\ DOMAIN Put(ix.rows, i, W) = DOMAIN ix.rows \cup {i} /\ Put(ix.rows, i, W)[i] = W
          /\ \A j \in DOMAIN ix.rows \ {i} : Put(ix.rows, i, W)[j] = ix.rows[j]
      <4> DEFINE f == ix.rows
      <4>1. f \in Rows
        BY <1>2
      <4> HIDE DEF f, i
      <4>2. DOMAIN Put(f, i, W) = DOMAIN f \cup {i} /\ Put(f, i, W)[i] = W /\ \A j \in DOMAIN f \ {i} : Put(f, i, W)[j] = f[j]
        <5>1. i \in Written /\ W \in WrittenRow
          BY <2>2, <2>4
        <5> QED
          BY <4>1, <5>1, PutIs
      <4> QED
        BY <4>2 DEF f
    <3> QED
      BY <1>7, <2>1, <3>1
  <2>6. RowGood(s.rows, s.changes, i)
    <3>1. Wins(ix.rows[i].v, {i} \cup AllowedIn(i, On(ix.changes, i))) /\ Block(i).kind = "put" /\ ~Taken(ix.changes, i)
          /\ ~ix.rows[i].hidden /\ (ix.rows[i].superseded <=> Beaten(ix.rows, i))
      BY <2>2 DEF RowGood
    <3>2. {i} \cup AllowedIn(i, On(ix.changes, i)) \in SUBSET Written
      BY <1>2, <2>2 DEF AllowedIn, On, Changed
    <3>3. Wins(v, ({i} \cup AllowedIn(i, On(ix.changes, i))) \cup AllowedIn(i, {c}))
      BY <2>3, <3>1, <3>2, VersionWins DEF v
    <3>4. Wins(v, {i} \cup AllowedIn(i, On(s.changes, i)))
      BY <1>1, <3>3, AllowedMore
    <3>5. ~takesAway(c, i)
      BY <1>7 DEF takesAway, DeletesIn, AllowedIn
    <3>6. ~Taken(s.changes, i)
      BY <1>1, <3>1, <3>5 DEF Taken
    <3>7. Beaten(s.rows, i) <=> Beaten(ix.rows, i)
      BY <2>5 DEF Beaten
    <3> QED
      BY <2>4, <2>5, <3>1, <3>4, <3>6, <3>7 DEF RowGood
  <2>7. \A j \in DOMAIN ix.rows : j # i => RowGood(s.rows, s.changes, j)
    BY <1>5, <1>7, <2>5
  <2>8. Good(s.rows, s.changes)
    BY <2>5, <2>6, <2>7 DEF Good
  <2> QED
    BY <1>4, <2>1, <2>5, <2>8 DEF Moved, s
<1>8. CASE i \in DOMAIN ix.rows /\ DeletesIn(i, {c}) # {}
  <2>1. /\ s.rows = Drop(ix.rows, i) /\ s.wiped = ix.wiped
        /\ s.clears = ix.clears \cup {i} \cup {d \in Of(s, i) : Block(d).kind = "edit"}
    BY <1>1, <1>8
  <2>2. takesAway(c, i) /\ Block(c).kind = "delete" /\ i \in Written
    BY <1>2, <1>8 DEF takesAway, DeletesIn, AllowedIn
  <2>3. Block(i).type \notin OnePerMember
    BY <1>3, <2>2, BlocksOnlyIs
  <2>4. DOMAIN s.rows = DOMAIN ix.rows \ {i} /\ \A j \in DOMAIN ix.rows \ {i} : s.rows[j] = ix.rows[j]
    <3> DEFINE f == ix.rows
    <3>1. f \in Rows
      BY <1>2
    <3> HIDE DEF f, i
    <3>2. DOMAIN Drop(f, i) = DOMAIN f \ {i} /\ \A j \in DOMAIN f \ {i} : Drop(f, i)[j] = f[j]
      BY <3>1, DropIs
    <3> QED
      BY <2>1, <3>2 DEF f
  <2>5. Taken(s.changes, i)
    BY <1>4, <2>2 DEF Taken
  <2>6. \A x \in s.clears : x \in ix.clears \/ WipedBy(s.changes, x)
    <3>1. s.changes \in SUBSET Changed
      BY <1>1, <1>2
    <3>2. \A d \in Of(s, i) : d \in Changed /\ Target(d) = i
      BY <3>1 DEF Of
    <3> QED
      BY <2>1, <2>5, <3>2 DEF WipedBy
  <2>7. Good(s.rows, s.changes)
    BY <1>5, <1>8, <2>3, <2>4 DEF Good
  <2> QED
    BY <1>4, <2>1, <2>4, <2>5, <2>6, <2>7 DEF Moved, s
<1> QED
  BY <1>6, <1>7, <1>8

\* A put whose row counts or not: what it does to its group.
LEMMA GroupBeaten ==
    ASSUME SceneOK(scene), NEW ix \in Ix, NEW i \in Written, Good(ix.rows, ix.changes)
    PROVE  /\ (\E k \in Active(ix, i) : ~compare(i, k)) <=>
                 Block(i).type \in OnePerMember /\ \E j \in DOMAIN ix.rows : Group(j) = Group(i) /\ compare(j, i)
           /\ \A j \in DOMAIN ix.rows \ {i} :
                 ix.rows[j].superseded \/ (j \in Active(ix, i) /\ compare(i, j)) <=>
                     Block(j).type \in OnePerMember /\ \E k \in DOMAIN ix.rows \cup {i} : Group(k) = Group(j) /\ compare(k, j)
<1> DEFINE R == Rivals(ix, i)
           r == ix.rows
<1>1. r \in Rows /\ DOMAIN r \in SUBSET Written
  BY RowsAre DEF Ix
<1>2. R = IF Block(i).type \in OnePerMember THEN {j \in DOMAIN r : Group(j) = Group(i) /\ j # i} ELSE {}
  BY DEF Rivals
<1>3. \A j \in DOMAIN r : r[j].superseded <=> Beaten(r, j)
  BY DEF Good, RowGood
<1>4. \A j : Group(j) = Group(i) => Block(j).type = Block(i).type
  BY DEF Group
<1>5. \A k : k \in Active(ix, i) <=> k \in R /\ ~r[k].superseded
  BY DEF Active
<1>6. \A j \in Written : ~compare(j, j)
  BY OneWins
<1> HIDE DEF R, r
<1>7. ASSUME NEW k \in Active(ix, i), ~compare(i, k)
      PROVE  Block(i).type \in OnePerMember /\ \E j \in DOMAIN r : Group(j) = Group(i) /\ compare(j, i)
  <2>1. k \in DOMAIN r /\ k \in Written /\ k # i /\ Group(k) = Group(i) /\ Block(i).type \in OnePerMember
    BY <1>1, <1>2, <1>5
  <2>2. compare(k, i)
    BY <1>7, <2>1, OneWins
  <2> QED
    BY <2>1, <2>2
<1>8. ASSUME Block(i).type \in OnePerMember, NEW j \in DOMAIN r, Group(j) = Group(i), compare(j, i)
      PROVE  \E k \in Active(ix, i) : ~compare(i, k)
  <2>1. j \in R /\ j \in Written
    BY <1>1, <1>2, <1>6, <1>8
  <2>2. R \in SUBSET Written /\ R # {}
    BY <1>1, <1>2, <2>1
  <2> DEFINE m == latest(R)
  <2>3. m \in R /\ \A k \in R \ {m} : compare(m, k)
    BY <2>2, LatestIs
  <2> HIDE DEF m
  <2>4. m \in Written /\ m \in DOMAIN r /\ Group(m) = Group(i) /\ m # i
    BY <1>1, <1>2, <2>3
  <2>5. compare(m, i)
    BY <1>8, <2>1, <2>3, <2>4, OneWins
  <2>6. ~compare(i, m)
    BY <2>4, <2>5, OneWins
  <2>7. ~Beaten(r, m)
    <3> SUFFICES ASSUME NEW k \in DOMAIN r, Group(k) = Group(m), compare(k, m) PROVE FALSE
      BY DEF Beaten
    <3>1. k # i /\ k \in Written /\ k # m
      BY <1>1, <1>6, <2>4, <2>6
    <3>2. k \in R
      BY <1>2, <1>8, <2>4, <3>1
    <3> QED
      BY <2>3, <2>4, <3>1, <3>2, OneWins
  <2> QED
    BY <1>3, <1>5, <2>3, <2>4, <2>6, <2>7
<1>9. ASSUME NEW j \in DOMAIN r, j # i
      PROVE  r[j].superseded \/ (j \in Active(ix, i) /\ compare(i, j)) <=>
                 Block(j).type \in OnePerMember /\ \E k \in DOMAIN r \cup {i} : Group(k) = Group(j) /\ compare(k, j)
  <2>1. r[j].superseded <=> Block(j).type \in OnePerMember /\ \E k \in DOMAIN r : Group(k) = Group(j) /\ compare(k, j)
    BY <1>3 DEF Beaten
  <2>2. j \in Active(ix, i) <=> Block(j).type \in OnePerMember /\ Group(i) = Group(j) /\ ~r[j].superseded
    BY <1>2, <1>4, <1>5, <1>9
  <2> QED
    BY <2>1, <2>2
<1>10. (\E k \in Active(ix, i) : ~compare(i, k)) <=>
          Block(i).type \in OnePerMember /\ \E j \in DOMAIN r : Group(j) = Group(i) /\ compare(j, i)
  BY <1>7, <1>8
<1> QED
  BY <1>9, <1>10 DEF r

\* A put leaves good rows.
LEMMA PutMoves ==
    ASSUME SceneOK(scene), BlocksOnly(scene), NEW ix \in Ix, NEW i \in Written, Block(i).kind = "put", mods[i] = None, memo \in Memo,
           Good(ix.rows, ix.changes), Told(ix.changes, ix.targets)
    PROVE  Moved(ix, takePut(ix, i), i) /\ (i \in DOMAIN takePut(ix, i).rows \/ Taken(takePut(ix, i).changes, i))
<1> DEFINE s == takePut(ix, i)
           P == PendingOf(ix, i)
           known == memo.had.records /\ i \in DOMAIN ix.rows
<1>1. ix.rows \in Rows /\ ix.changes \in SUBSET Changed /\ DOMAIN ix.rows \in SUBSET Written /\ \A j \in DOMAIN ix.rows : ix.rows[j] \in WrittenRow
  BY RowsAre DEF Ix
<1>2. mods[i] # "removed" /\ (mods[i] = "hidden") = FALSE
  BY IndexAssumption
<1>3. P = On(ix.changes, i) /\ Of(ix, i) = On(ix.changes, i)
  <2>1. Of(ix, i) = On(ix.changes, i)
    BY DEF Of, On
  <2>2. memo.had.changes \in BOOLEAN /\ (~memo.had.changes => \A c \in ix.changes : Target(c) \in ix.targets)
    BY DEF Told, Memo
  <2>3. i \notin ix.targets /\ ~memo.had.changes => On(ix.changes, i) = {}
    BY <2>2 DEF On
  <2> QED
    BY <2>1, <2>3 DEF PendingOf
<1>4. /\ s.changes = ix.changes /\ s.targets = ix.targets /\ s.wiped = ix.wiped
      /\ known => s = ix
      /\ ~known /\ DeletesIn(i, P) # {} =>
            /\ s.rows = Drop(ix.rows, i)
            /\ s.clears = ix.clears \cup {i} \cup {c \in Of(ix, i) : Block(c).kind = "edit"}
      /\ ~known /\ DeletesIn(i, P) = {} =>
            /\ s.clears = ix.clears /\ DOMAIN s.rows = DOMAIN ix.rows \cup {i}
            /\ s.rows[i].v = Version(i, i, P) /\ s.rows[i].hidden = FALSE
            /\ s.rows[i].superseded = \E k \in Active(ix, i) : ~compare(i, k)
            /\ \A j \in DOMAIN ix.rows \ {i} :
                  /\ s.rows[j].v = ix.rows[j].v /\ s.rows[j].hidden = ix.rows[j].hidden
                  /\ s.rows[j].superseded = (ix.rows[j].superseded \/ (j \in Active(ix, i) /\ compare(i, j)))
  BY <1>2, TakePutIs
<1> HIDE DEF s, known
<1>5. CASE known
  BY <1>4, <1>5 DEF Moved, s, known
<1>6. CASE ~known /\ DeletesIn(i, P) # {}
  <2>1. /\ s.rows = Drop(ix.rows, i)
        /\ s.clears = ix.clears \cup {i} \cup {c \in Of(ix, i) : Block(c).kind = "edit"}
    BY <1>4, <1>6
  <2>2. Taken(ix.changes, i)
    BY <1>3, <1>6 DEF Taken, takesAway, DeletesIn, AllowedIn, On
  <2>3. i \notin DOMAIN ix.rows
    BY <2>2 DEF Good, RowGood
  <2>4. DOMAIN s.rows = DOMAIN ix.rows /\ \A j \in DOMAIN ix.rows : s.rows[j] = ix.rows[j]
    <3> DEFINE f == ix.rows
    <3>1. f \in Rows
      BY <1>1
    <3> HIDE DEF f
    <3>2. DOMAIN Drop(f, i) = DOMAIN f \ {i} /\ \A j \in DOMAIN f \ {i} : Drop(f, i)[j] = f[j]
      BY <3>1, DropIs
    <3> QED
      BY <2>1, <2>3, <3>2 DEF f
  <2>5. ASSUME NEW j \in DOMAIN s.rows PROVE RowGood(s.rows, s.changes, j)
    <3>1. RowGood(ix.rows, ix.changes, j) /\ (Beaten(s.rows, j) <=> Beaten(ix.rows, j))
      BY <2>4 DEF Good, Beaten
    <3> QED
      BY <1>4, <2>4, <3>1, RowStaysGood
  <2>6. \A x \in s.clears : x \in ix.clears \/ WipedBy(s.changes, x)
    <3>1. \A c \in Of(ix, i) : c \in Changed /\ Target(c) = i
      BY <1>1 DEF Of
    <3> QED
      BY <1>4, <2>1, <2>2, <3>1 DEF WipedBy
  <2> QED
    BY <1>4, <2>2, <2>4, <2>5, <2>6 DEF Moved, Good, s
<1>7. CASE ~known /\ DeletesIn(i, P) = {}
  <2>1. /\ s.clears = ix.clears /\ DOMAIN s.rows = DOMAIN ix.rows \cup {i}
        /\ s.rows[i].v = Version(i, i, P) /\ s.rows[i].hidden = FALSE
        /\ s.rows[i].superseded = \E k \in Active(ix, i) : ~compare(i, k)
        /\ \A j \in DOMAIN ix.rows \ {i} :
              /\ s.rows[j].v = ix.rows[j].v /\ s.rows[j].hidden = ix.rows[j].hidden
              /\ s.rows[j].superseded = (ix.rows[j].superseded \/ (j \in Active(ix, i) /\ compare(i, j)))
    BY <1>4, <1>7
  <2>2. /\ (\E k \in Active(ix, i) : ~compare(i, k)) <=>
              Block(i).type \in OnePerMember /\ \E j \in DOMAIN ix.rows : Group(j) = Group(i) /\ compare(j, i)
        /\ \A j \in DOMAIN ix.rows \ {i} :
              ix.rows[j].superseded \/ (j \in Active(ix, i) /\ compare(i, j)) <=>
                  Block(j).type \in OnePerMember /\ \E k \in DOMAIN ix.rows \cup {i} : Group(k) = Group(j) /\ compare(k, j)
    BY GroupBeaten
  <2>3. RowGood(s.rows, s.changes, i)
    <3>1. ~Taken(s.changes, i)
      BY <1>3, <1>4, <1>7 DEF Taken, takesAway, DeletesIn, AllowedIn, On
    <3>2. Wins(i, {i}) /\ {i} \in SUBSET Written /\ P \in SUBSET Changed
      BY <1>1, <1>3 DEF Wins, On
    <3>3. Wins(Version(i, i, P), {i} \cup AllowedIn(i, P))
      BY <3>2, VersionWins
    <3>4. Beaten(s.rows, i) <=> Block(i).type \in OnePerMember /\ \E j \in DOMAIN ix.rows : Group(j) = Group(i) /\ compare(j, i)
      <4>1. ~compare(i, i)
        BY OneWins
      <4> QED
        BY <2>1, <4>1 DEF Beaten
    <3>5. s.rows[i].superseded <=> Beaten(s.rows, i)
      BY <2>1, <2>2, <3>4
    <3> QED
      BY <1>3, <1>4, <2>1, <3>1, <3>3, <3>5 DEF RowGood
  <2>4. ASSUME NEW j \in DOMAIN ix.rows, j # i PROVE RowGood(s.rows, s.changes, j)
    <3>1. Beaten(s.rows, j) <=> Block(j).type \in OnePerMember /\ \E k \in DOMAIN ix.rows \cup {i} : Group(k) = Group(j) /\ compare(k, j)
      BY <2>1 DEF Beaten
    <3>2. s.rows[j].superseded <=> Beaten(s.rows, j)
      BY <2>1, <2>2, <2>4, <3>1
    <3>3. RowGood(ix.rows, ix.changes, j) /\ s.rows[j].v = ix.rows[j].v /\ s.rows[j].hidden = ix.rows[j].hidden
      BY <2>1, <2>4 DEF Good
    <3> QED
      BY <1>4, <3>2, <3>3 DEF RowGood
  <2> QED
    BY <1>4, <2>1, <2>3, <2>4 DEF Moved, Good, s
<1> QED
  BY <1>5, <1>6, <1>7

\* Block x had its effect: a put has its row or was taken away, a change is kept.
Handled(r, ch, x) == IF Block(x).kind = "put" THEN x \in DOMAIN r \/ Taken(ch, x) ELSE x \in ch

LEMMA TakenMore ==
    ASSUME NEW ch, NEW dh, ch \in SUBSET dh
    PROVE  (\A x : Taken(ch, x) => Taken(dh, x)) /\ (\A x : WipedBy(ch, x) => WipedBy(dh, x))
BY DEF Taken, WipedBy

LEMMA HandledMore ==
    ASSUME NEW r, NEW q, NEW ch, NEW dh, ch \in SUBSET dh, \A j \in DOMAIN r : j \in DOMAIN q \/ Taken(dh, j)
    PROVE  \A x : Handled(r, ch, x) => Handled(q, dh, x)
BY TakenMore DEF Handled

-----------------------------------------------------------------------------
(* What a batch does to the index.                                         *)

\* A batch's block does what it says.
LEMMA BlockMoves ==
    ASSUME SceneOK(scene), BlocksOnly(scene), \A i \in Ids : mods[i] = None, memo \in Memo, NEW t \in BatchTask,
           NEW ix \in Ix, NEW n \in DOMAIN t.blocks, \A l \in Logs : log[l].limit = Inf,
           Good(ix.rows, ix.changes), Told(ix.changes, ix.targets)
    PROVE  LET s == step(t, ix, t.blocks[n])
           IN  Moved(ix, s, t.blocks[n]) /\ Handled(s.rows, s.changes, t.blocks[n])
<1> DEFINE i == t.blocks[n]
           s == step(t, ix, i)
<1>1. t.op = "batch" /\ i \in Written
  BY DEF BatchTask
<1>2. ~(i[2] >= log[i[1]].limit)
  <2>1. i[2] \in Spots /\ log[i[1]].limit = Inf
    BY <1>1, WhereWritten
  <2> QED
    BY <2>1, PlacesAre DEF Spots
<1>3. s = IF Block(i).kind = "put" THEN takePut(ix, i) ELSE takeChange(ix, i)
  BY <1>1, <1>2 DEF step, one
<1> HIDE DEF i, s
<1>4. CASE Block(i).kind = "put"
  <2>1. mods[i] = None
    BY <1>1 DEF Written
  <2>2. Moved(ix, takePut(ix, i), i) /\ (i \in DOMAIN takePut(ix, i).rows \/ Taken(takePut(ix, i).changes, i))
    BY <1>1, <1>4, <2>1, PutMoves
  <2>3. s = takePut(ix, i)
    BY <1>3, <1>4
  <2>4. Moved(ix, s, i) /\ (i \in DOMAIN s.rows \/ Taken(s.changes, i))
    BY <2>2, <2>3
  <2>5. Handled(s.rows, s.changes, i)
    BY <1>4, <2>4 DEF Handled
  <2> QED
    BY <2>4, <2>5 DEF i, s
<1>5. CASE Block(i).kind # "put"
  <2>1. i \in Changed
    BY <1>1, <1>5 DEF Changed
  <2>2. mods[Target(i)] # "removed"
    BY <2>1, BlocksOnlyIs, IndexAssumption
  <2>3. Moved(ix, takeChange(ix, i), i) /\ i \in takeChange(ix, i).changes
    BY <2>1, <2>2, ChangeMoves
  <2> QED
    BY <1>3, <1>5, <2>3 DEF Handled, i, s
<1> QED
  BY <1>4, <1>5

\* The index ix after the blocks of B.
Batched(ix, B) ==
    /\ changes \in SUBSET ix.changes /\ \A c \in ix.changes : c \in changes \/ c \in B
    /\ \A j \in DOMAIN ix.rows : j \in DOMAIN rows \/ j \in B
    /\ \A j \in DOMAIN rows : j \in DOMAIN ix.rows \/ Taken(ix.changes, j)
    /\ \A d \in ix.wiped : d \in ix.changes /\ Block(d).kind = "delete"
    /\ \A x \in ix.clears : WipedBy(ix.changes, x)
    /\ Good(ix.rows, ix.changes) /\ Told(ix.changes, ix.targets)

LEMMA BatchedMore ==
    ASSUME NEW ix, NEW s, NEW B, NEW b \in B, Batched(ix, B), Moved(ix, s, b)
    PROVE  Batched(s, B)
<1>1. ix.changes \in SUBSET s.changes
  BY DEF Moved
<1>2. changes \in SUBSET s.changes /\ \A c \in s.changes : c \in changes \/ c \in B
  BY DEF Batched, Moved
<1>3. \A j \in DOMAIN s.rows : j \in DOMAIN rows \/ j \in B
  BY DEF Batched, Moved
<1>4. \A j \in DOMAIN rows : j \in DOMAIN s.rows \/ Taken(s.changes, j)
  BY <1>1, TakenMore DEF Batched, Moved
<1>5. \A d \in s.wiped : d \in s.changes /\ Block(d).kind = "delete"
  BY <1>1 DEF Batched, Moved
<1>6. \A x \in s.clears : WipedBy(s.changes, x)
  BY <1>1, TakenMore DEF Batched, Moved
<1> QED
  BY <1>2, <1>3, <1>4, <1>5, <1>6 DEF Batched, Moved

LEMMA BatchEffect ==
    ASSUME Shape, BlocksOnly(scene), \A i \in Ids : mods[i] = None, NEW t \in BatchTask,
           \A l \in Logs : log[l].limit = Inf,
           Good(rows, changes), Told(changes, memo.targets)
    PROVE  LET ix == Effect(t)
           IN  ix \in Ix /\ Batched(ix, ToSet(t.blocks)) /\ \A x \in ToSet(t.blocks) : Handled(ix.rows, ix.changes, x)
<1> DEFINE B == ToSet(t.blocks)
           m == Len(t.blocks)
           P(n, ix) == Batched(ix, B) /\ \A k \in 1 .. n : Handled(ix.rows, ix.changes, t.blocks[k])
           S == {p \in (0 .. m) \X Ix : P(p[1], p[2])}
<1>1. t.blocks \in Seq(Written) /\ DOMAIN t.blocks = 1 .. m /\ m \in Nat /\ t \in Task
  BY DEF BatchTask, Task
<1>2. \A n \in 1 .. m : t.blocks[n] \in B
  BY <1>1 DEF ToSet
<1>3. \A n, ix : <<n, ix>> \in S <=> n \in 0 .. m /\ ix \in Ix /\ P(n, ix)
  OBVIOUS
<1>4. P(0, Before)
  BY DEF Before, Batched
<1>5. ASSUME NEW n \in 1 .. m, NEW ix \in Ix, P(n - 1, ix) PROVE P(n, step(t, ix, t.blocks[n]))
  <2> DEFINE b == t.blocks[n]
             s == step(t, ix, b)
  <2>1. Good(ix.rows, ix.changes) /\ Told(ix.changes, ix.targets)
    BY <1>5 DEF Batched
  <2>2. Moved(ix, s, b) /\ Handled(s.rows, s.changes, b)
    BY <1>1, <1>2, <2>1, BlockMoves DEF Shape, TaskShape
  <2>3. b \in B
    BY <1>2
  <2> HIDE DEF s
  <2>4. Batched(s, B)
    BY <1>5, <2>2, <2>3, BatchedMore
  <2>5. \A x : Handled(ix.rows, ix.changes, x) => Handled(s.rows, s.changes, x)
    <3>1. ix.changes \in SUBSET s.changes /\ \A j \in DOMAIN ix.rows : j \in DOMAIN s.rows \/ Taken(s.changes, j)
      BY <2>2 DEF Moved
    <3> QED
      BY <3>1, HandledMore
  <2>6. \A k \in 1 .. n : k = n \/ k \in 1 .. n - 1
    BY <1>1
  <2>7. \A k \in 1 .. n : Handled(s.rows, s.changes, t.blocks[k])
    BY <1>5, <2>2, <2>5, <2>6
  <2> QED
    BY <2>4, <2>7 DEF s
<1> HIDE DEF P
<1>6. <<0, Before>> \in S
  BY <1>1, <1>3, <1>4, EffectIs
<1>7. \A n \in 1 .. m : \A ix : <<n - 1, ix>> \in S => <<n, step(t, ix, t.blocks[n])>> \in S
  <2> SUFFICES ASSUME NEW n \in 1 .. m, NEW ix, <<n - 1, ix>> \in S PROVE <<n, step(t, ix, t.blocks[n])>> \in S
    OBVIOUS
  <2>1. ix \in Ix /\ P(n - 1, ix)
    BY <1>3
  <2>2. step(t, ix, t.blocks[n]) \in Ix
    BY <1>1, <2>1, StepIs DEF Shape
  <2>3. P(n, step(t, ix, t.blocks[n]))
    BY <1>5, <2>1
  <2>4. n \in 0 .. m
    BY <1>1
  <2> QED
    BY <1>3, <2>2, <2>3, <2>4
<1>8. <<m, Effect(t)>> \in S
  <2> HIDE DEF S
  <2> QED
    BY <1>1, <1>6, <1>7, EffectBy
<1>9. P(m, Effect(t)) /\ Effect(t) \in Ix
  BY <1>3, <1>8
<1> DEFINE ix == Effect(t)
<1> HIDE DEF ix
<1>10. P(m, ix) /\ ix \in Ix
  BY <1>9 DEF ix
<1>11. \A x \in B : \E k \in 1 .. m : x = t.blocks[k]
  BY <1>1 DEF ToSet
<1>12. Batched(ix, B) /\ \A x \in B : Handled(ix.rows, ix.changes, x)
  BY <1>10, <1>11 DEF P
<1> QED
  BY <1>10, <1>12 DEF ix

-----------------------------------------------------------------------------
(* Judging good rows again changes nothing that counts.                    *)

Rights(ix) ==
    /\ ix.changes = changes /\ ix.clears = {} /\ ix.wiped = {} /\ DOMAIN ix.rows = DOMAIN rows
    /\ Good(ix.rows, changes)

LEMMA ResettleMoves ==
    ASSUME SceneOK(scene), NEW ix \in Ix, Rights(ix), NEW i \in DOMAIN ix.rows
    PROVE  Rights(resettle(ix, i))
<1> DEFINE s == resettle(ix, i)
           r == ix.rows
           ch == ix.changes
<1>1. ix.rows \in Rows /\ DOMAIN r \in SUBSET Written /\ i \in Written /\ ch \in SUBSET Changed /\ Of(ix, i) = On(ch, i)
  BY RowsAre DEF Ix, Of, On
<1>2. Good(r, ch) /\ RowGood(r, ch, i)
  BY DEF Rights, Good
<1>3. DeletesIn(i, Of(ix, i)) = {}
  BY <1>1, <1>2 DEF RowGood, Taken, takesAway, DeletesIn, AllowedIn, On
<1>4. /\ s.changes = ch /\ s.wiped = ix.wiped
      /\ s.clears = ix.clears /\ DOMAIN s.rows = DOMAIN r /\ s.rows[i].v = Version(i, i, Of(ix, i))
      /\ s.rows[i].hidden = r[i].hidden /\ s.rows[i].superseded = r[i].superseded
      /\ \A j \in DOMAIN r \ {i} : s.rows[j] = r[j]
  BY <1>3, ResettleIs DEF Rejudged
<1> HIDE DEF s, r, ch
<1>5. Wins(s.rows[i].v, {i} \cup AllowedIn(i, On(ch, i)))
  <2>1. Wins(i, {i}) /\ {i} \in SUBSET Written /\ Of(ix, i) \in SUBSET Changed
    BY <1>1 DEF Wins, On
  <2>2. Wins(Version(i, i, Of(ix, i)), {i} \cup AllowedIn(i, Of(ix, i)))
    BY <2>1, VersionWins
  <2> QED
    BY <1>1, <1>4, <2>2
<1>6. \A j : Beaten(s.rows, j) <=> Beaten(r, j)
  BY <1>4 DEF Beaten
<1>7. ASSUME NEW j \in DOMAIN r PROVE RowGood(s.rows, ch, j)
  <2>1. RowGood(r, ch, j)
    BY <1>2 DEF Good
  <2>2. CASE j = i
    BY <1>4, <1>5, <1>6, <2>1, <2>2 DEF RowGood
  <2>3. CASE j # i
    BY <1>4, <1>6, <2>1, <2>3, RowStaysGood
  <2> QED
    BY <2>2, <2>3
<1>8. Good(s.rows, ch)
  BY <1>4, <1>7 DEF Good
<1> QED
  BY <1>4, <1>8 DEF Rights, s, r, ch

LEMMA RightsEffect ==
    ASSUME Shape, NEW t \in RightsTask, Good(rows, changes)
    PROVE  Effect(t) \in Ix /\ Rights(Effect(t))
<1> DEFINE m == Len(t.blocks)
           S == {p \in (0 .. m) \X Ix : Rights(p[2])}
<1>1. t.blocks \in Seq(Ids) /\ DOMAIN t.blocks = 1 .. m /\ m \in Nat /\ t \in Task /\ t.op = "rights"
  BY DEF RightsTask, Task
<1>2. Rights(Before) /\ Before \in Ix
  BY <1>1, EffectIs DEF Before, Rights
<1>3. <<0, Before>> \in S
  BY <1>1, <1>2
<1>4. \A n \in 1 .. m : \A ix : <<n - 1, ix>> \in S => <<n, step(t, ix, t.blocks[n])>> \in S
  <2> SUFFICES ASSUME NEW n \in 1 .. m, NEW ix, <<n - 1, ix>> \in S PROVE <<n, step(t, ix, t.blocks[n])>> \in S
    OBVIOUS
  <2> DEFINE i == t.blocks[n]
  <2>1. ix \in Ix /\ Rights(ix)
    OBVIOUS
  <2>2. step(t, ix, i) \in Ix
    BY <1>1, <2>1, StepIs DEF Shape
  <2>3. step(t, ix, i) = IF i \in DOMAIN ix.rows /\ Shared(i) THEN resettle(ix, i) ELSE ix
    BY <1>1 DEF step
  <2> HIDE DEF i
  <2>4. Rights(step(t, ix, i))
    BY <2>1, <2>3, ResettleMoves DEF Shape
  <2>5. n \in 0 .. m
    BY <1>1
  <2> QED
    BY <2>2, <2>4, <2>5 DEF i
<1>5. <<m, Effect(t)>> \in S
  <2> HIDE DEF S
  <2> QED
    BY <1>1, <1>3, <1>4, EffectBy
<1> QED
  BY <1>5

-----------------------------------------------------------------------------
(* What holds of the rows while nothing is decided.                        *)

Untouched ==
    /\ \A l \in Logs : Uncut(l)
    /\ \A i \in Ids : mods[i] = None
    /\ \A t \in TaskSet : t.op \in {"batch", "rights"}

Here(x) == Handled(rows, changes, x)
Wiped(x) == WipedBy(changes, x)
Safe(x) == x[2] \in held[x[1]] \/ Wiped(x)

\* What was passed had its effect, and what a batch, or the disk, says to be done.
PassedHere == \A x \in Written : Done(x) => Here(x)
BatchesHere ==
    \A t \in ToSet(queue) : t.op = "batch" =>
        \A x \in Written : x[1] = t.of /\ x[2] < t.indexed => x \in ToSet(t.blocks) \/ Here(x)
SavedHere == \A x \in Written : x[2] < saved[x[1]].indexed => Here(x)

\* A committed task clears what was taken away, and names deletes.
Wiping ==
    \A a \in after : (\A d \in a.wiped : d \in changes /\ Block(d).kind = "delete") /\ \A x \in a.clears : Wiped(x)

\* What has its effect is within the log, can be opened, and is passed or will be;
\* it is only missing if it was taken away.
Reached(x) ==
    \/ x[2] < log[x[1]].scanned \/ run[x[1]].pc \in {"start", "take"}
    \/ run[x[1]].pc \in {"scan", "note", "queued"} /\ x[2] < run[x[1]].end
Placed(x) ==
    /\ x \notin scene.locked /\ x[2] < length[x[1]] /\ Safe(x)
    /\ x[2] \in log[x[1]].holes => Wiped(x)
    /\ run[x[1]].pc = "note" /\ run[x[1]].look = x[2] => Wiped(x)
    /\ Reached(x)
EntriesPlaced == \A x \in DOMAIN rows \cup changes : Placed(x)

\* So is what a run, or its batch, brings.
RunsCarry == \A l \in Logs : run[l].pc \in {"scan", "note"} => \A s \in ToSet(run[l].batch) : Safe(<<l, s>>)
Carried(t, x) ==
    /\ x[1] = t.of /\ x \notin scene.locked /\ x[2] < log[t.of].scanned /\ x[2] \notin log[t.of].holes /\ Safe(x)
TasksCarry == \A t \in ToSet(queue) : t.op = "batch" => \A x \in ToSet(t.blocks) : Carried(t, x)

\* A run knows whether there were changes, and of which records.
Remembered ==
    /\ \A l \in Logs : run[l].pc \in {"scan", "note", "queued"} => memo.had # None
    /\ memo.had # None => Told(changes, memo.targets)
GoodRows == Good(rows, changes)

RowInv ==
    /\ Untouched /\ PassedHere /\ BatchesHere /\ SavedHere /\ Wiping
    /\ EntriesPlaced /\ RunsCarry /\ TasksCarry /\ Remembered /\ GoodRows
Rowed == Shape /\ OneTask /\ BlocksOnly(scene) /\ RowInv

LEMMA RowedIs ==
    ASSUME Rowed
    PROVE  /\ Shape /\ OneTask /\ BlocksOnly(scene) /\ SceneOK(scene) /\ scene.decide = {} /\ memo \in Memo
           /\ Untouched /\ PassedHere /\ BatchesHere /\ SavedHere /\ Wiping
           /\ EntriesPlaced /\ RunsCarry /\ TasksCarry /\ Remembered /\ GoodRows
           /\ DOMAIN rows \in SUBSET Written /\ changes \in SUBSET Changed /\ changes \in SUBSET Written
<1>1. rows \in Rows /\ changes \in SUBSET Changed
  BY DEF Rowed, Shape, DiskShape
<1>2. DOMAIN rows \in SUBSET Written
  BY <1>1, RowsAre
<1> QED
  BY <1>1, <1>2 DEF Rowed, RowInv, BlocksOnly, Shape, TaskShape, Changed

\* A step loses nothing: what it clears was taken away.
Gentle ==
    /\ SameBlocks /\ scene'.decide = scene.decide /\ elimit' = elimit /\ scene'.locked \in SUBSET scene.locked
    /\ \A l \in Logs : length'[l] >= length[l] /\ \A s \in held[l] : s \in held'[l] \/ Wiped(<<l, s>>)
    /\ changes \in SUBSET changes' /\ \A j \in DOMAIN rows : j \in DOMAIN rows' \/ Taken(changes', j)

LEMMA TakenStays ==
    ASSUME SameBlocks, elimit' = elimit
    PROVE  /\ Written' = Written /\ Changed' = Changed /\ \A i : Block(i)' = Block(i)
           /\ \A d, i : takesAway(d, i)' <=> takesAway(d, i)
           /\ \A c, i : mayChange(c, i)' <=> mayChange(c, i)
<1>1. /\ Written' = Written /\ Changed' = Changed /\ \A i : Block(i)' = Block(i)
  BY BlocksStay
<1>2. \A c, i : mayChange(c, i)' <=> mayChange(c, i)
  BY <1>1 DEF mayChange, mayEdit
<1>3. \A d, i : takesAway(d, i)' <=> takesAway(d, i)
  BY <1>1, <1>2 DEF takesAway, Target
<1> QED
  BY <1>1, <1>2, <1>3

LEMMA HereStays ==
    ASSUME Gentle
    PROVE  /\ \A x : Here(x) => Here(x)'
           /\ \A x : Wiped(x) => Wiped(x)'
           /\ \A x : WipedBy(changes', x) => Wiped(x)'
           /\ \A x : Handled(rows', changes', x) => Here(x)'
           /\ \A x : Safe(x) /\ x[1] \in Logs /\ x = <<x[1], x[2]>> => Safe(x)'
           /\ Written' = Written /\ Changed' = Changed /\ \A i : Block(i)' = Block(i)
<1>1. /\ Written' = Written /\ Changed' = Changed /\ \A i : Block(i)' = Block(i)
      /\ \A d, i : takesAway(d, i)' <=> takesAway(d, i)
  BY TakenStays DEF Gentle
<1>2. changes \in SUBSET changes' /\ \A j \in DOMAIN rows : j \in DOMAIN rows' \/ Taken(changes', j)
  BY DEF Gentle
<1>3. \A x : WipedBy(changes', x) => Wiped(x)'
  BY <1>1 DEF WipedBy, Wiped, Taken, Target
<1>4. \A x : Handled(rows', changes', x) => Here(x)'
  BY <1>1 DEF Handled, Here, Taken
<1>5. \A x : Wiped(x) => Wiped(x)'
  BY <1>2, <1>3, TakenMore DEF Wiped
<1>6. \A x : Here(x) => Here(x)'
  BY <1>2, <1>4, HandledMore DEF Here
<1>7. ASSUME NEW x, Safe(x), x[1] \in Logs, x = <<x[1], x[2]>> PROVE Safe(x)'
  BY <1>5, <1>7 DEF Safe, Gentle
<1> QED
  BY <1>1, <1>3, <1>4, <1>5, <1>6, <1>7

LEMMA GoodStays ==
    ASSUME SameBlocks, elimit' = elimit, Good(rows', changes')
    PROVE  GoodRows'
<1>1. /\ Written' = Written /\ Changed' = Changed /\ \A i : Block(i)' = Block(i)
      /\ \A d, i : takesAway(d, i)' <=> takesAway(d, i)
      /\ \A c, i : mayChange(c, i)' <=> mayChange(c, i)
  BY TakenStays
<1>2. \A i, j : compare(i, j)' <=> compare(i, j)
  BY BlocksStay
<1> SUFFICES ASSUME NEW i \in DOMAIN rows' PROVE RowGood(rows, changes, i)'
  BY DEF GoodRows, Good
<1>3. RowGood(rows', changes', i)
  BY DEF Good
<1>4. Taken(changes, i)' <=> Taken(changes', i)
  BY <1>1 DEF Taken
<1>5. Beaten(rows, i)' <=> Beaten(rows', i)
  BY <1>1, <1>2 DEF Beaten, Group, Target
<1>6. AllowedIn(i, On(changes, i))' = AllowedIn(i, On(changes', i))
  BY <1>1 DEF AllowedIn, On, Target
<1> DEFINE v == rows'[i].v
           S == {i} \cup AllowedIn(i, On(changes', i))
<1>7. Wins(rows[i].v, {i} \cup AllowedIn(i, On(changes, i)))' <=> Wins(v, S)
  <2> HIDE DEF S
  <2>1. ({i} \cup AllowedIn(i, On(changes, i)))' = S
    BY <1>6 DEF S
  <2> QED
    BY <1>2, <2>1 DEF Wins
<1> QED
  BY <1>1, <1>3, <1>4, <1>5, <1>7 DEF RowGood

LEMMA InitRowInv == ASSUME Init, BlocksOnly(scene) PROVE RowInv
<1>1. /\ log = [l \in Logs |-> Entry(1, Inf)] /\ limit = [l \in Logs |-> Inf] /\ queue = << >> /\ after = {}
      /\ saved = [l \in Logs |-> [indexed |-> 1, cut |-> Inf]] /\ run = [l \in Logs |-> [Idle EXCEPT !.pc = IF length[l] > 1 THEN "start" ELSE "idle"]]
      /\ mods = [i \in Ids |-> None] /\ DOMAIN rows = {} /\ changes = {} /\ memo = [NoMemo EXCEPT !.rights = elimit]
  BY DEF Init
<1>2. ToSet(queue) = {} /\ TaskSet = {} /\ memo.had = None
  BY <1>1 DEF ToSet, TaskSet, NoMemo
<1>3. ASSUME NEW l \in Logs
      PROVE  run[l].pc \notin {"scan", "note", "queued"} /\ log[l].scanned = 1 /\ saved[l].indexed = 1 /\ Uncut(l)
  <2> DEFINE p == IF length[l] > 1 THEN "start" ELSE "idle"
  <2>1. p \in {"idle", "start"} /\ run[l] = [Idle EXCEPT !.pc = p]
    BY <1>1
  <2> HIDE DEF p
  <2>2. run[l].pc = p
    BY <2>1, IdleIs
  <2>3. log[l].scanned = 1 /\ log[l].limit = Inf /\ log[l].cut = Inf /\ limit[l] = Inf /\ saved[l].cut = Inf /\ saved[l].indexed = 1
    BY <1>1 DEF Entry
  <2> QED
    BY <2>1, <2>2, <2>3 DEF Uncut
<1>4. Untouched /\ BatchesHere /\ Wiping /\ EntriesPlaced /\ RunsCarry /\ TasksCarry /\ Remembered /\ GoodRows
  BY <1>1, <1>2, <1>3 DEF Untouched, BatchesHere, Wiping, EntriesPlaced, RunsCarry, TasksCarry, Remembered, GoodRows, Good
<1>5. PassedHere /\ SavedHere
  <2>1. \A x \in Written : x[1] \in Logs /\ x[2] \in Spots /\ x[2] \in Nat /\ x[2] >= 1
    BY WhereWritten, PlacesAre
  <2> QED
    BY <1>3, <2>1 DEF PassedHere, SavedHere, Done
<1> QED
  BY <1>4, <1>5 DEF RowInv

-----------------------------------------------------------------------------
(* What a gentle step keeps.                                               *)

LEMMA PassedHereStays ==
    ASSUME Gentle, PassedHere, \A x \in Written : Done(x)' => Done(x) \/ Here(x)'
    PROVE  PassedHere'
BY HereStays DEF PassedHere

LEMMA BatchesHereStays ==
    ASSUME Gentle, BatchesHere,
           \A t \in ToSet(queue') : t \in ToSet(queue) \/ t.op # "batch"
              \/ \A x \in Written : x[1] = t.of /\ x[2] < t.indexed => x \in ToSet(t.blocks) \/ Here(x)'
    PROVE  BatchesHere'
<1>1. \A t \in ToSet(queue') : t.op = "batch" =>
        \A x \in Written' : x[1] = t.of /\ x[2] < t.indexed => x \in ToSet(t.blocks) \/ Here(x)'
  BY HereStays DEF BatchesHere
<1> QED
  BY <1>1 DEF BatchesHere, ToSet

LEMMA SavedHereStays ==
    ASSUME Gentle, SavedHere, \A x \in Written : x[2] < saved'[x[1]].indexed => x[2] < saved[x[1]].indexed \/ Here(x)'
    PROVE  SavedHere'
BY HereStays DEF SavedHere

LEMMA WipingStays ==
    ASSUME Gentle, Wiping,
           \A a \in after' :
              \/ \E b \in after : a.clears \in SUBSET b.clears /\ a.wiped = b.wiped
              \/ (\A d \in a.wiped : d \in changes' /\ Block(d).kind = "delete") /\ \A x \in a.clears : Wiped(x)'
    PROVE  Wiping'
<1>1. changes \in SUBSET changes' /\ (\A x : Wiped(x) => Wiped(x)') /\ \A i : Block(i)' = Block(i)
  BY HereStays DEF Gentle
<1>2. \A a \in after' : (\A d \in a.wiped : d \in changes' /\ Block(d).kind = "delete") /\ \A x \in a.clears : Wiped(x)'
  BY <1>1 DEF Wiping
<1>3. \A a \in after' : (\A d \in a.wiped : d \in changes' /\ Block(d)'.kind = "delete") /\ \A x \in a.clears : Wiped(x)'
  BY <1>1, <1>2
<1> QED
  BY <1>3 DEF Wiping

\* A log's place for what has its effect.
Settled(x) ==
    /\ x[2] \in log'[x[1]].holes => x[2] \in log[x[1]].holes \/ Wiped(x)
    /\ run'[x[1]].pc = "note" /\ run'[x[1]].look = x[2] => Wiped(x) \/ (run[x[1]].pc = "note" /\ run[x[1]].look = x[2])
    /\ Reached(x)'

LEMMA PlacedStays ==
    ASSUME Shape, Shape', Gentle, NEW x \in Written, Placed(x), Settled(x)
    PROVE  Placed(x)'
<1>1. (Wiped(x) => Wiped(x)') /\ Safe(x)'
  BY WhereWritten, HereStays DEF Placed
<1>2. x \notin scene'.locked
  BY DEF Gentle, Placed
<1>3. x[2] < length'[x[1]]
  <2>1. x[1] \in Logs /\ x[2] \in Nat
    BY WhereWritten
  <2>2. length[x[1]] \in Nat /\ length'[x[1]] \in Nat
    BY <2>1, PlacesAre DEF Shape, DiskShape
  <2> QED
    BY <2>1, <2>2 DEF Gentle, Placed
<1> QED
  BY <1>1, <1>2, <1>3 DEF Placed, Settled

LEMMA EntriesStay ==
    ASSUME Rowed, Shape', Gentle, \A x \in DOMAIN rows \cup changes : Settled(x),
           \A x \in DOMAIN rows' \cup changes' : x \in DOMAIN rows \cup changes \/ Placed(x)'
    PROVE  EntriesPlaced'
BY RowedIs, PlacedStays DEF EntriesPlaced

LEMMA RunsCarryStay ==
    ASSUME Shape, Gentle, RunsCarry,
           \A l \in Logs : run'[l].pc \in {"scan", "note"} =>
              \A s \in ToSet(run'[l].batch) : s \in held[l] \/ (run[l].pc \in {"scan", "note"} /\ s \in ToSet(run[l].batch))
    PROVE  RunsCarry'
<1>1. ASSUME NEW l \in Logs, run'[l].pc \in {"scan", "note"}, NEW s \in ToSet(run'[l].batch) PROVE Safe(<<l, s>>)'
  <2>1. Safe(<<l, s>>)
    BY <1>1 DEF RunsCarry, Safe
  <2> DEFINE x == <<l, s>>
  <2>2. x[1] \in Logs /\ x = <<x[1], x[2]>>
    OBVIOUS
  <2> HIDE DEF x
  <2>3. Safe(x)'
    BY <2>1, <2>2, HereStays DEF x
  <2> QED
    BY <2>3 DEF x
<1> QED
  BY <1>1 DEF RunsCarry, ToSet

LEMMA TasksCarryStay ==
    ASSUME Shape, Shape', Gentle, TasksCarry,
           \A l \in Logs : log'[l].scanned >= log[l].scanned,
           \A t \in ToSet(queue') : t.op = "batch" =>
              \/ t \in ToSet(queue) /\ log'[t.of].holes \in SUBSET log[t.of].holes
              \/ \A x \in ToSet(t.blocks) : Carried(t, x)'
    PROVE  TasksCarry'
<1>1. ASSUME NEW t \in ToSet(queue), t.op = "batch", log'[t.of].holes \in SUBSET log[t.of].holes, NEW x \in ToSet(t.blocks)
      PROVE  Carried(t, x)'
  <2>1. Carried(t, x) /\ t.of \in Logs /\ x \in Written
    <3>1. t \in Task /\ t.of \in Logs
      BY <1>1, TaskStays
    <3>2. t \in BatchTask
      BY <1>1, <3>1 DEF Task, CutTask, ModerateTask, RightsTask
    <3>3. t.blocks \in Seq(Written)
      BY <3>2 DEF BatchTask
    <3> QED
      BY <1>1, <3>1, <3>3 DEF TasksCarry, ToSet
  <2>2. x[1] \in Logs /\ x = <<x[1], x[2]>> /\ x[2] \in Nat
    BY <2>1, WhereWritten
  <2>3. log[t.of].scanned \in Nat /\ log'[t.of].scanned \in Nat /\ log'[t.of].scanned >= log[t.of].scanned
    BY <2>1, PlacesAre DEF Shape, LogShape, LogEntry
  <2>4. Safe(x)' /\ x \notin scene'.locked
    BY <2>1, <2>2, HereStays DEF Carried, Gentle
  <2> QED
    BY <1>1, <2>1, <2>2, <2>3, <2>4 DEF Carried
<1>2. \A t \in ToSet(queue') : t.op = "batch" => \A x \in ToSet(t.blocks) : Carried(t, x)'
  BY <1>1
<1> QED
  BY <1>2 DEF TasksCarry, ToSet

-----------------------------------------------------------------------------
(* The steps that leave the index alone.                                   *)

\* The run of some log may be the first since the process opened the space.
MemoKept ==
    /\ memo'.targets = memo.targets
    /\ memo'.had = memo.had \/ (memo'.had # None /\ (~memo'.had.changes => changes = {}))

\* Grows, loses no block but those taken away, and decides nothing.
Mildly ==
    /\ UNCHANGED decided /\ MemoKept
    /\ \A l \in Logs : length'[l] >= length[l] /\ \A s \in held[l] : s \in held'[l] \/ Wiped(<<l, s>>)
    /\ \A t \in ToSet(queue') : t \in ToSet(queue) \/ t.op = "rights"

LEMMA SameMildly ==
    ASSUME Shape, UNCHANGED <<length, held, decided, memo>>, \A t \in ToSet(queue') : t \in ToSet(queue) \/ t.op = "rights"
    PROVE  Mildly
<1>1. \A l \in Logs : length[l] \in Nat
  BY PlacesAre DEF Shape, DiskShape
<1> QED
  BY <1>1 DEF Mildly, MemoKept

LEMMA LogMildly ==
    ASSUME Rowed, NEW l \in Logs, Grow(l) \/ RunTake(l) \/ RunEnd(l) \/ HoleTimer(l) \/ \E s \in Known(l) : Download(l, s)
    PROVE  Mildly
<1>1. Shape /\ \A k \in Logs : length[k] \in Nat
  BY RowedIs, PlacesAre DEF Shape, DiskShape
<1>2. CASE Grow(l)
  <2>1. length' = [length EXCEPT ![l] = length[l] + 1] /\ UNCHANGED <<scene, held, disk, decided, queue, after, hearing, memo, reader>>
    BY <1>1, <1>2, GrowDoes
  <2>2. \A k \in Logs : length'[k] >= length[k]
    BY <1>1, <2>1 DEF Shape, DiskShape
  <2> QED
    BY <2>1, <2>2 DEF Mildly, MemoKept
<1>3. CASE RunTake(l)
  <2> DEFINE r == [changes |-> changes # {}, records |-> DOMAIN rows # {}]
  <2>1. UNCHANGED <<length, held, decided, queue>> /\ memo \in Memo
        /\ memo' = [memo EXCEPT !.had = IF memo.had # None THEN memo.had ELSE r]
    BY <1>1, <1>3 DEF RunTake, Shape, TaskShape
  <2>2. r.changes = (changes # {}) /\ r # None
    <3>1. r \in [changes : BOOLEAN, records : BOOLEAN]
      OBVIOUS
    <3>2. r.changes = (changes # {})
      OBVIOUS
    <3> HIDE DEF r
    <3> QED
      BY <3>1, <3>2, IndexAssumption
  <2> HIDE DEF r
  <2>3. memo'.targets = memo.targets /\ memo'.had = IF memo.had # None THEN memo.had ELSE r
    BY <2>1 DEF Memo
  <2>4. MemoKept
    BY <2>2, <2>3 DEF MemoKept
  <2> QED
    BY <1>1, <2>1, <2>4 DEF Mildly
<1>4. CASE RunEnd(l) \/ HoleTimer(l)
  <2>1. UNCHANGED <<length, held, decided, memo, queue>>
    BY <1>4 DEF RunEnd, HoleTimer
  <2> QED
    BY <1>1, <2>1, SameMildly
<1>5. ASSUME NEW s \in Known(l), Download(l, s) PROVE Mildly
  <2>1. held' = [held EXCEPT ![l] = held[l] \cup {s}] /\ UNCHANGED <<scene, length, disk, decided, queue, after, hearing, memo, reader>>
    BY <1>1, <1>5, DownloadDoes
  <2>2. \A k \in Logs : held[k] \in SUBSET held'[k]
    BY <1>1, <2>1 DEF Shape, DiskShape
  <2> QED
    BY <1>1, <2>1, <2>2 DEF Mildly, MemoKept
<1> QED
  BY <1>2, <1>3, <1>4, <1>5

LEMMA ClearMildly ==
    ASSUME Rowed, NEW a \in after, NEW i \in a.clears, Clear(a, i)
    PROVE  Mildly
<1>1. Shape /\ Wiping /\ \A k \in Logs : length[k] \in Nat
  BY RowedIs, PlacesAre DEF Shape, DiskShape
<1>2. /\ i \in Ids /\ held' = [held EXCEPT ![i[1]] = held[i[1]] \ {i[2]}]
      /\ UNCHANGED <<scene, length, disk, decided, log, run, queue, hearing, memo, reader>>
  BY <1>1, ClearDoes
<1>3. i = <<i[1], i[2]>> /\ Wiped(i)
  BY <1>1, <1>2 DEF Wiping, Ids
<1>4. ASSUME NEW l \in Logs, NEW s \in held[l] PROVE s \in held'[l] \/ Wiped(<<l, s>>)
  <2>1. CASE l = i[1] /\ s = i[2]
    BY <1>3, <2>1
  <2>2. CASE ~(l = i[1] /\ s = i[2])
    BY <1>1, <1>2, <2>2 DEF Shape, DiskShape
  <2> QED
    BY <2>1, <2>2
<1> QED
  BY <1>1, <1>2, <1>4 DEF Mildly, MemoKept

LEMMA HearingMildly ==
    ASSUME Rowed, NEW h \in hearing, Moderate(h) \/ Reauthorize(h)
    PROVE  Mildly
<1>1. Shape /\ Untouched /\ memo \in Memo
  BY RowedIs
<1>2. CASE Moderate(h)
  <2>1. Todo(h) = {}
    <3>1. h \in Hearing
      BY <1>1 DEF Shape, TaskShape
    <3>2. h.touched \in SUBSET Ids
      BY <3>1 DEF Hearing
    <3> QED
      BY <1>1, <3>2 DEF Untouched, Todo
  <2>2. UNCHANGED <<length, held, decided, memo, queue>>
    BY <1>1, <1>2, <2>1, ModerateDoes
  <2> QED
    BY <1>1, <2>2, SameMildly
<1>3. CASE Reauthorize(h)
  <2> DEFINE u == [op |-> "rights", of |-> h.n, blocks |-> << >>]
  <2>1. UNCHANGED <<length, held, decided>> /\ (memo' = memo \/ memo' = [memo EXCEPT !.rights = elimit])
        /\ (queue' = queue \/ (queue' = Append(queue, u) /\ u \in RightsTask))
    BY <1>1, <1>3, ReauthorizeDoes
  <2>2. u.op = "rights"
    OBVIOUS
  <2> HIDE DEF u
  <2>3. MemoKept
    BY <1>1, <2>1 DEF MemoKept, Memo
  <2>4. \A t \in ToSet(queue') : t \in ToSet(queue) \/ t.op = "rights"
    <3>1. CASE queue' = Append(queue, u) /\ u \in RightsTask
      <4>1. ToSet(queue') = ToSet(queue) \cup {u}
        <5>1. queue \in Seq(Task) /\ u \in Task
          BY <1>1, <3>1 DEF Shape, TaskShape, Task
        <5> QED
          BY <3>1, <5>1, AppendIs
      <4> QED
        BY <2>2, <4>1
    <3> QED
      BY <2>1, <3>1
  <2>5. \A k \in Logs : length[k] \in Nat
    BY <1>1, PlacesAre DEF Shape, DiskShape
  <2> QED
    BY <2>1, <2>3, <2>4, <2>5 DEF Mildly
<1> QED
  BY <1>2, <1>3

LEMMA AsideMildly ==
    ASSUME Rowed, Aside
    PROVE  Mildly
<1>1. Shape /\ Untouched /\ scene.decide = {}
  BY RowedIs
<1>2. CASE Unlock \/ ReadRows \/ ReadEnd \/ UNCHANGED vars
  <2>1. UNCHANGED <<length, held, decided, memo, queue>>
    BY <1>2 DEF Unlock, ReadRows, ReadEnd, vars
  <2> QED
    BY <1>1, <2>1, SameMildly
<1>3. ASSUME NEW a \in after, FinishCut(a) \/ FinishDecision(a) PROVE Mildly
  <2>1. a.op # "cut"
    BY <1>1 DEF Untouched, TaskSet
  <2>2. FinishDecision(a)
    BY <1>3, <2>1 DEF FinishCut
  <2>3. UNCHANGED <<length, held, decided, memo, queue>>
    BY <2>2 DEF FinishDecision, Finish
  <2> QED
    BY <1>1, <2>3, SameMildly
<1> QED
  BY <1>1, <1>2, <1>3, LogMildly, ClearMildly, HearingMildly DEF Aside

LEMMA AsideRowed ==
    ASSUME Rowed, Shape', Aside
    PROVE  RowInv'
<1>1. /\ Shape /\ OneTask /\ Untouched /\ PassedHere /\ BatchesHere /\ SavedHere /\ Wiping
      /\ EntriesPlaced /\ RunsCarry /\ TasksCarry /\ Remembered /\ GoodRows
      /\ DOMAIN rows \in SUBSET Written /\ changes \in SUBSET Written
  BY RowedIs
<1>2. Keeps /\ Mildly
  BY <1>1, AsideKeeps, AsideMildly
<1>3. /\ SceneKept /\ rows' = rows /\ changes' = changes /\ saved' = saved
      /\ limit' = limit /\ elimit' = elimit /\ mods' = mods
      /\ \A l \in Logs : Kept(l) /\ RunMoves(l)
      /\ ToSet(queue) \in SUBSET ToSet(queue') /\ \A t \in ToSet(queue') : t \in ToSet(queue) \/ t.op = "rights"
      /\ \A a \in after' : \E b \in after : a.op = b.op /\ a.of = b.of /\ a.clears \in SUBSET b.clears /\ a.wiped = b.wiped
  BY <1>2 DEF Keeps, Mildly, disk, decided
<1>4. Gentle
  BY <1>2, <1>3 DEF Gentle, Mildly, SceneKept, SameBlocks
<1>5. Untouched'
  <2>1. \A l \in Logs : Uncut(l)'
    BY <1>1, <1>3 DEF Untouched, Uncut, Kept
  <2>2. \A t \in ToSet(queue') \cup after' : t.op \in {"batch", "rights"}
    BY <1>1, <1>3 DEF Untouched, TaskSet
  <2> QED
    BY <1>1, <1>3, <2>1, <2>2 DEF Untouched, TaskSet
<1>6. PassedHere'
  <2>1. ASSUME NEW x \in Written, Done(x)' PROVE Done(x)
    <3>1. x[1] \in Logs
      BY WhereWritten
    <3>2. Kept(x[1]) /\ RunMoves(x[1])
      BY <1>3, <3>1
    <3>3. ~Pending(x)' /\ x[2] < log[x[1]].scanned /\ x[2] \notin log[x[1]].holes
      BY <2>1, <3>2 DEF Done, Kept
    <3>4. ~\E t \in ToSet(queue) : t.op = "batch" /\ t.of = x[1] /\ x \in ToSet(t.blocks)
      <4>1. ~\E t \in ToSet(queue') : t.op = "batch" /\ t.of = x[1] /\ x \in ToSet(t.blocks)
        BY <3>3 DEF Pending, ToSet
      <4> QED
        BY <1>3, <4>1
    <3>5. ~Pending(x)
      <4>1. run[x[1]].pc \in {"scan", "note"} => run'[x[1]] = run[x[1]]
        BY <3>2 DEF RunMoves, Takes
      <4> QED
        BY <3>3, <3>4, <4>1 DEF Pending
    <3> QED
      BY <3>3, <3>5 DEF Done
  <2> QED
    BY <1>1, <1>4, <2>1, PassedHereStays
<1>7. BatchesHere' /\ SavedHere' /\ Wiping'
  <2>1. \A t \in ToSet(queue') : t \in ToSet(queue) \/ t.op # "batch"
    BY <1>3
  <2>2. BatchesHere'
    BY <1>1, <1>4, <2>1, BatchesHereStays
  <2>3. SavedHere'
    BY <1>1, <1>3, <1>4, SavedHereStays
  <2>4. \A a \in after' : \E b \in after : a.clears \in SUBSET b.clears /\ a.wiped = b.wiped
    BY <1>3
  <2>5. Wiping'
    BY <1>1, <1>4, <2>4, WipingStays
  <2> QED
    BY <2>2, <2>3, <2>5
<1>8. EntriesPlaced'
  <2>1. ASSUME NEW x \in DOMAIN rows \cup changes PROVE Settled(x)
    <3>1. x[1] \in Logs /\ Placed(x) /\ x[2] \in Nat
      BY <1>1, WhereWritten DEF EntriesPlaced
    <3> DEFINE l == x[1]
    <3>2. Kept(l) /\ RunMoves(l) /\ log[l].limit = Inf
      BY <1>1, <1>3, <3>1 DEF Untouched, Uncut
    <3>3. run'[l].pc = "note" => run'[l] = run[l]
      BY <3>2 DEF RunMoves, Takes
    <3>4. Reached(x)'
      <4>1. CASE Takes(l)
        <5>1. run'[l].pc = "scan" /\ run'[l].end = length[l] /\ x[2] < length[l]
          <6>1. length[l] \in Places
            BY <1>1, <3>1 DEF Shape, DiskShape
          <6> QED
            BY <3>1, <3>2, <4>1, <6>1, PlacesAre DEF Takes, Placed, Places
        <5> QED
          BY <5>1 DEF Reached
      <4>2. CASE ~Takes(l)
        <5>1. log'[l].scanned = log[l].scanned /\ (run'[l] = run[l] \/ run'[l].pc = "start" \/ run[l].pc = "leaving")
          BY <3>2, <4>2 DEF RunMoves, Kept
        <5> QED
          BY <3>1, <5>1 DEF Placed, Reached
      <4> QED
        BY <4>1, <4>2
    <3> QED
      BY <3>2, <3>3, <3>4 DEF Settled, Kept
  <2> QED
    BY <1>3, <1>4, <2>1, EntriesStay
<1>9. RunsCarry'
  <2>1. ASSUME NEW l \in Logs, run'[l].pc \in {"scan", "note"}, NEW s \in ToSet(run'[l].batch)
        PROVE  s \in held[l] \/ (run[l].pc \in {"scan", "note"} /\ s \in ToSet(run[l].batch))
    <3>1. RunMoves(l)
      BY <1>3
    <3> QED
      BY <2>1, <3>1 DEF RunMoves, Takes
  <2> QED
    BY <1>1, <1>4, <2>1, RunsCarryStay
<1>10. TasksCarry'
  <2>1. \A l \in Logs : log'[l].scanned >= log[l].scanned
    <3>1. \A l \in Logs : log[l].scanned \in Nat
      BY <1>1, PlacesAre DEF Shape, LogShape, LogEntry
    <3> QED
      BY <1>3, <3>1 DEF Kept
  <2>2. ASSUME NEW t \in ToSet(queue'), t.op = "batch" PROVE t \in ToSet(queue) /\ log'[t.of].holes \in SUBSET log[t.of].holes
    BY <1>1, <1>3, <2>2, TaskStays DEF Kept
  <2> QED
    BY <1>1, <1>4, <2>1, <2>2, TasksCarryStay
<1>11. Remembered'
  <2>1. MemoKept /\ (memo.had # None => memo'.had = memo.had)
    BY <1>2 DEF Keeps, Mildly
  <2>2. ASSUME NEW l \in Logs, run'[l].pc \in {"scan", "note", "queued"} PROVE memo'.had # None
    <3>1. RunMoves(l)
      BY <1>3
    <3> QED
      BY <1>1, <2>1, <2>2, <3>1 DEF RunMoves, Takes, Remembered
  <2>3. memo'.had # None => Told(changes, memo.targets)'
    <3>1. \A i : Target(i)' = Target(i)
      BY <1>4, TakenStays DEF Gentle, Target
    <3>2. memo'.had # None => (~memo'.had.changes => \A c \in changes : Target(c) \in memo.targets)
      BY <1>1, <2>1 DEF MemoKept, Remembered, Told
    <3>3. memo'.targets = memo.targets
      BY <2>1 DEF MemoKept
    <3> QED
      BY <1>3, <3>1, <3>2, <3>3 DEF Told
  <2> QED
    BY <2>2, <2>3 DEF Remembered
<1>12. GoodRows'
  BY <1>1, <1>3, <1>4, GoodStays DEF GoodRows, Gentle
<1> QED
  BY <1>5, <1>6, <1>7, <1>8, <1>9, <1>10, <1>11, <1>12 DEF RowInv

\* No batch waits of a log whose run is not waiting for it.
LEMMA NoBatchOf ==
    ASSUME Rowed, NEW l \in Logs, run[l].pc # "queued"
    PROVE  \A t \in ToSet(queue) : t.op = "batch" => t.of # l
BY RowedIs, TaskStays, AwaitedIs DEF OneTask, Awaited

\* A run goes on, and its batch may be queued.
LEMMA RunRowed ==
    ASSUME Rowed, Shape', NEW l \in Logs, OnlyLog(l), UNCHANGED <<scene, length, held, disk, decided, after, memo>>,
           run[l].pc \in {"scan", "note"}, log'[l].limit = log[l].limit, log'[l].cut = log[l].cut, log'[l].scanned >= log[l].scanned,
           ToSet(queue) \in SUBSET ToSet(queue'),
           \A t \in ToSet(queue') : t \in ToSet(queue) \/
              /\ t.op = "batch" /\ t.of = l /\ \A x \in ToSet(t.blocks) : Carried(t, x)'
              /\ \A x \in Written : x[1] = l /\ x[2] < t.indexed => x \in ToSet(t.blocks) \/ Here(x),
           \A x \in Written : x[1] = l /\ Done(x)' => Done(x) \/ Here(x),
           \A x \in DOMAIN rows \cup changes : x[1] = l => Settled(x),
           run'[l].pc \in {"scan", "note"} => \A s \in ToSet(run'[l].batch) : s \in held[l] \/ s \in ToSet(run[l].batch)
    PROVE  RowInv'
<1>1. /\ Shape /\ OneTask /\ Untouched /\ PassedHere /\ BatchesHere /\ SavedHere /\ Wiping
      /\ EntriesPlaced /\ RunsCarry /\ TasksCarry /\ Remembered /\ GoodRows
      /\ DOMAIN rows \in SUBSET Written /\ changes \in SUBSET Written
  BY RowedIs
<1>2. /\ rows' = rows /\ changes' = changes /\ saved' = saved /\ limit' = limit /\ elimit' = elimit /\ mods' = mods
      /\ \A k \in Logs \ {l} : log'[k] = log[k] /\ run'[k] = run[k]
      /\ \A t \in ToSet(queue) : t.op = "batch" => t.of # l
  BY NoBatchOf DEF disk, decided, OnlyLog
<1>3. Gentle
  <2>1. \A k \in Logs : length[k] \in Nat
    BY <1>1, PlacesAre DEF Shape, DiskShape
  <2> QED
    BY <1>2, <2>1 DEF Gentle, SameBlocks
<1>4. Untouched'
  <2>1. \A k \in Logs : Uncut(k)'
    <3> TAKE k \in Logs
    <3>1. log'[k].limit = log[k].limit /\ log'[k].cut = log[k].cut
      BY <1>2
    <3> QED
      BY <1>1, <1>2, <3>1 DEF Untouched, Uncut
  <2>2. \A t \in ToSet(queue') \cup after' : t.op \in {"batch", "rights"}
    BY <1>1 DEF Untouched, TaskSet
  <2> QED
    BY <1>1, <1>2, <2>1, <2>2 DEF Untouched, TaskSet
<1>5. PassedHere'
  <2>1. ASSUME NEW x \in Written, Done(x)' PROVE Done(x) \/ Here(x)'
    <3>1. x[1] \in Logs
      BY WhereWritten
    <3>2. Here(x) => Here(x)'
      BY <1>3, HereStays
    <3>3. CASE x[1] = l
      BY <2>1, <3>2, <3>3
    <3>4. CASE x[1] # l
      <4>1. log'[x[1]] = log[x[1]] /\ run'[x[1]] = run[x[1]]
        BY <1>2, <3>1, <3>4
      <4>2. ~Pending(x)' /\ x[2] < log[x[1]].scanned /\ x[2] \notin log[x[1]].holes
        BY <2>1, <4>1 DEF Done
      <4>3. ~\E t \in ToSet(queue) : t.op = "batch" /\ t.of = x[1] /\ x \in ToSet(t.blocks)
        <5>1. ~\E t \in ToSet(queue') : t.op = "batch" /\ t.of = x[1] /\ x \in ToSet(t.blocks)
          BY <4>2 DEF Pending, ToSet
        <5> QED
          BY <5>1
      <4>4. ~Pending(x)
        BY <4>1, <4>2, <4>3 DEF Pending
      <4> QED
        BY <4>2, <4>4 DEF Done
    <3> QED
      BY <3>3, <3>4
  <2> QED
    BY <1>1, <1>3, <2>1, PassedHereStays
<1>6. BatchesHere'
  <2>1. \A x : Here(x) => Here(x)'
    BY <1>3, HereStays
  <2>2. \A t \in ToSet(queue') : t \in ToSet(queue) \/ t.op # "batch"
              \/ \A x \in Written : x[1] = t.of /\ x[2] < t.indexed => x \in ToSet(t.blocks) \/ Here(x)'
    BY <2>1
  <2> QED
    BY <1>1, <1>3, <2>2, BatchesHereStays
<1>7. SavedHere' /\ Wiping'
  <2>1. SavedHere'
    BY <1>1, <1>2, <1>3, SavedHereStays
  <2>2. \A a \in after' : \E b \in after : a.clears \in SUBSET b.clears /\ a.wiped = b.wiped
    OBVIOUS
  <2>3. Wiping'
    BY <1>1, <1>3, <2>2, WipingStays
  <2> QED
    BY <2>1, <2>3
<1>8. EntriesPlaced'
  <2>1. ASSUME NEW x \in DOMAIN rows \cup changes PROVE Settled(x)
    <3>1. x[1] \in Logs /\ Placed(x)
      BY <1>1, WhereWritten DEF EntriesPlaced
    <3>2. CASE x[1] # l
      BY <1>2, <3>1, <3>2 DEF Settled, Placed, Reached
    <3> QED
      BY <3>2
  <2> QED
    BY <1>2, <1>3, <2>1, EntriesStay
<1>9. RunsCarry'
  <2>1. ASSUME NEW k \in Logs, run'[k].pc \in {"scan", "note"}, NEW s \in ToSet(run'[k].batch)
        PROVE  s \in held[k] \/ (run[k].pc \in {"scan", "note"} /\ s \in ToSet(run[k].batch))
    <3>1. CASE k = l
      BY <2>1, <3>1
    <3>2. CASE k # l
      BY <1>2, <2>1, <3>2
    <3> QED
      BY <3>1, <3>2
  <2> QED
    BY <1>1, <1>3, <2>1, RunsCarryStay
<1>10. TasksCarry'
  <2>1. \A k \in Logs : log'[k].scanned >= log[k].scanned
    <3>1. \A k \in Logs : log[k].scanned \in Nat
      BY <1>1, PlacesAre DEF Shape, LogShape, LogEntry
    <3> QED
      BY <1>2, <3>1
  <2>2. ASSUME NEW t \in ToSet(queue'), t.op = "batch"
        PROVE  (t \in ToSet(queue) /\ log'[t.of].holes \in SUBSET log[t.of].holes) \/ \A x \in ToSet(t.blocks) : Carried(t, x)'
    <3>1. CASE t \in ToSet(queue)
      BY <1>1, <1>2, <2>2, <3>1, TaskStays
    <3> QED
      BY <3>1
  <2> QED
    BY <1>1, <1>3, <2>1, <2>2, TasksCarryStay
<1>11. Remembered'
  <2>1. \A k \in Logs : run'[k].pc \in {"scan", "note", "queued"} => memo.had # None
    BY <1>1, <1>2 DEF Remembered
  <2>2. \A i : Target(i)' = Target(i)
    BY <1>3, TakenStays DEF Gentle, Target
  <2> QED
    BY <1>1, <1>2, <2>1, <2>2 DEF Remembered, Told
<1>12. GoodRows'
  BY <1>1, <1>2, <1>3, GoodStays DEF GoodRows, Gentle
<1> QED
  BY <1>4, <1>5, <1>6, <1>7, <1>8, <1>9, <1>10, <1>11, <1>12 DEF RowInv

LEMMA ScanRowed ==
    ASSUME Rowed, Shape', NEW l \in Logs, RunScan(l)
    PROVE  RowInv'
<1> DEFINE s == log[l].scanned
<1>1. Shape /\ EntriesPlaced /\ DOMAIN rows \in SUBSET Written /\ changes \in SUBSET Written
  BY RowedIs
<1>2. UNCHANGED <<scene, length, held, disk, decided, queue, after, memo>>
  BY DEF RunScan
<1>3. /\ run[l].pc = "scan" /\ OnlyLog(l) /\ s \in Nat
      /\ log'[l].scanned = s + 1 /\ log'[l].limit = log[l].limit
      /\ log'[l].cut = log[l].cut /\ log'[l].holes = log[l].holes /\ run'[l].end = run[l].end
      /\ s \in held[l] => run'[l].pc = "scan" /\ ToSet(run'[l].batch) = ToSet(run[l].batch) \cup {s}
      /\ s \notin held[l] => run'[l].pc = "note" /\ run'[l].batch = run[l].batch /\ run'[l].look = s
  BY <1>1, RunScanDoes, PlacesAre
<1> HIDE DEF s
<1>4. ASSUME NEW x \in Written, x[1] = l, Done(x)' PROVE Done(x)
  <2>1. x[2] \in Nat
    BY WhereWritten
  <2>2. x[2] < s + 1 /\ x[2] \notin log[l].holes /\ ~Pending(x)'
    BY <1>3, <1>4 DEF Done
  <2>3. x[2] # s /\ x[2] \notin ToSet(run[l].batch)
    BY <1>3, <1>4, <2>2 DEF Pending
  <2>4. ~\E t \in ToSet(queue) : t.op = "batch" /\ t.of = x[1] /\ x \in ToSet(t.blocks)
    BY <1>2, <2>2 DEF Pending
  <2>5. ~Pending(x)
    BY <1>3, <1>4, <2>3, <2>4 DEF Pending
  <2>6. x[2] < s
    BY <1>3, <2>1, <2>2, <2>3
  <2> QED
    BY <1>4, <2>2, <2>5, <2>6 DEF Done, s
<1>5. ASSUME NEW x \in DOMAIN rows \cup changes, x[1] = l PROVE Settled(x)
  <2>1. Placed(x) /\ x[2] \in Nat
    BY <1>1, WhereWritten DEF EntriesPlaced
  <2>2. Reached(x)'
    <3>1. x[2] < s \/ x[2] < run[l].end
      BY <1>3, <1>5, <2>1 DEF Placed, Reached, s
    <3>2. run'[l].pc \in {"scan", "note"}
      BY <1>3
    <3> QED
      BY <1>3, <1>5, <2>1, <3>1, <3>2 DEF Reached
  <2>3. run'[l].pc = "note" /\ run'[l].look = x[2] => Wiped(x)
    BY <1>3, <1>5, <2>1 DEF Placed, Safe
  <2> QED
    BY <1>3, <1>5, <2>2, <2>3 DEF Settled
<1>6. log'[l].scanned >= log[l].scanned
  BY <1>3 DEF s
<1>7. run'[l].pc \in {"scan", "note"} => \A k \in ToSet(run'[l].batch) : k \in held[l] \/ k \in ToSet(run[l].batch)
  BY <1>3
<1> QED
  BY <1>2, <1>3, <1>4, <1>5, <1>6, <1>7, RunRowed

\* Of a record there is, a delete by its author, whichever it names, takes it away.
LEMMA NamedTaken ==
    ASSUME Rowed, NEW x \in Written, NEW c \in changes, Target(c) = x, Block(c).kind = "delete", Author[c[1]] = Author[x[1]]
    PROVE  Here(x)
<1>1. Block(x).kind = "put" /\ Block(x).type = Block(c).type
  BY RowedIs, BlocksOnlyIs
<1>2. takesAway(c, x)
  BY <1>1 DEF takesAway, mayChange
<1> QED
  BY <1>1, <1>2 DEF Here, Handled, Taken

LEMMA NoteRowed ==
    ASSUME Rowed, Shape', NEW l \in Logs, RunNote(l)
    PROVE  RowInv'
<1> DEFINE s == run[l].look
<1>1. Shape /\ Untouched /\ EntriesPlaced /\ DOMAIN rows \in SUBSET Written /\ changes \in SUBSET Written
  BY RowedIs
<1>2. UNCHANGED <<scene, length, held, disk, decided, queue, after, memo>>
  BY DEF RunNote
<1>3. /\ s \in Spots /\ run[l].pc = "note" /\ OnlyLog(l)
      /\ log'[l].scanned = log[l].scanned /\ log'[l].limit = log[l].limit /\ log'[l].cut = log[l].cut
      /\ log'[l].holes = IF wipedByAuthor(<<l, s>>) THEN log[l].holes ELSE log[l].holes \cup {s}
      /\ run'[l].end = run[l].end /\ run'[l].pc = "scan" /\ run'[l].batch = run[l].batch
      /\ log[l].scanned \in Nat
  BY <1>1, RunNoteDoes, PlacesAre DEF Shape, LogShape, LogEntry
<1> HIDE DEF s
<1>4. ASSUME NEW x \in Written, x[1] = l, Done(x)' PROVE Done(x) \/ Here(x)
  <2>1. x[2] < log[l].scanned /\ x[2] \notin log[l].holes /\ ~Pending(x)' /\ x = <<l, x[2]>> /\ x \in Ids
    BY <1>3, <1>4, WhereWritten DEF Done, Written
  <2>2. CASE x[2] # s
    <3>1. x[2] \notin ToSet(run[l].batch)
      BY <1>3, <1>4, <2>1 DEF Pending
    <3>2. ~\E t \in ToSet(queue) : t.op = "batch" /\ t.of = x[1] /\ x \in ToSet(t.blocks)
      BY <1>2, <2>1 DEF Pending
    <3>3. ~Pending(x)
      BY <1>4, <2>2, <3>1, <3>2 DEF Pending, s
    <3> QED
      BY <1>4, <2>1, <3>3 DEF Done
  <2>3. CASE x[2] = s
    <3>1. wipedByAuthor(x)
      BY <1>3, <1>4, <2>1, <2>3 DEF Done
    <3>2. mods[x] # "removed"
      BY <1>1, <2>1, IndexAssumption DEF Untouched
    <3>3. PICK c \in changes : Target(c) = x /\ Block(c).kind = "delete" /\ Author[c[1]] = Author[x[1]]
      BY <3>1, <3>2 DEF wipedByAuthor
    <3> QED
      BY <3>3, NamedTaken
  <2> QED
    BY <2>2, <2>3
<1>5. ASSUME NEW x \in DOMAIN rows \cup changes, x[1] = l PROVE Settled(x)
  <2>1. Placed(x)
    BY <1>1 DEF EntriesPlaced
  <2>2. Reached(x)'
    BY <1>3, <1>5, <2>1 DEF Placed, Reached
  <2>3. x[2] \in log'[l].holes => x[2] \in log[l].holes \/ Wiped(x)
    BY <1>3, <1>5, <2>1 DEF Placed, s
  <2> QED
    BY <1>3, <1>5, <2>2, <2>3 DEF Settled
<1>6. log'[l].scanned >= log[l].scanned
  BY <1>3
<1> QED
  BY <1>2, <1>3, <1>4, <1>5, <1>6, RunRowed

LEMMA BatchRowed ==
    ASSUME Rowed, Shape', NEW l \in Logs, RunBatch(l)
    PROVE  RowInv'
<1> DEFINE B == ToSet(run[l].batch)
           O == Open(l)
<1>1. Shape /\ PassedHere /\ EntriesPlaced /\ RunsCarry /\ DOMAIN rows \in SUBSET Written /\ changes \in SUBSET Written
  BY RowedIs
<1>2. UNCHANGED <<scene, length, held, disk, decided, after, memo>>
  BY DEF RunBatch
<1>3. /\ OnlyLog(l) /\ run[l].pc = "scan" /\ log[l].scanned \in Nat
      /\ log'[l].scanned = log[l].scanned /\ log'[l].limit = log[l].limit /\ log'[l].cut = log[l].cut
      /\ log'[l].holes = (log[l].holes \cup B) \ O
      /\ \/ /\ O = {} /\ queue' = queue
            /\ run'[l].pc \in {"take", "start", "leaving"}
            /\ run'[l].pc \in {"start", "leaving"} => ~(log[l].scanned < run[l].end)
         \/ /\ run'[l].pc = "queued" /\ run'[l].end = run[l].end
            /\ \E t \in BatchTask :
                  /\ queue' = Append(queue, t) /\ t.of = l
                  /\ ToSet(t.blocks) = {<<l, s>> : s \in O}
                  /\ t.indexed <= log[l].scanned /\ \A s \in log'[l].holes : t.indexed <= s
  BY <1>1, RunBatchDoes, PlacesAre DEF Shape, LogShape, LogEntry
<1>4. /\ \A s \in O : s \in B /\ <<l, s>> \notin scene.locked /\ s < log[l].scanned
      /\ \A s \in B : s \in O \/ <<l, s>> \in scene.locked
      /\ run[l].end \in Nat /\ \A s \in B : Safe(<<l, s>>)
  <2>1. LogOK(log[l], run[l], length[l])
    BY <1>1 DEF Shape, LogShape
  <2> QED
    BY <1>1, <1>3, <2>1, PlacesAre DEF Open, LogOK, RunEntry, RunsCarry
<1> HIDE DEF B, O
<1>5. \A t \in ToSet(queue) : t.op = "batch" => t.of # l
  BY <1>3, NoBatchOf
<1>6. ASSUME NEW x \in Written, x[1] = l, x[2] < log[l].scanned, x[2] \notin log'[l].holes, x[2] \notin O PROVE Done(x)
  <2>1. x[2] \notin log[l].holes /\ x[2] \notin B
    BY <1>3, <1>6
  <2>2. ~Pending(x)
    BY <1>3, <1>5, <1>6, <2>1 DEF Pending, B
  <2> QED
    BY <1>6, <2>1, <2>2 DEF Done
<1>7. ASSUME NEW x \in DOMAIN rows \cup changes, x[1] = l PROVE Settled(x)
  <2>1. Placed(x) /\ x = <<l, x[2]>> /\ x[2] \in Nat
    BY <1>1, <1>7, WhereWritten DEF EntriesPlaced
  <2>2. x[2] \in log'[l].holes => x[2] \in log[l].holes
    BY <1>3, <1>4, <2>1 DEF Placed
  <2>3. Reached(x)'
    <3>1. x[2] < log[l].scanned \/ x[2] < run[l].end
      BY <1>3, <1>7, <2>1 DEF Placed, Reached
    <3> QED
      BY <1>3, <1>4, <1>7, <2>1, <3>1 DEF Reached
  <2> QED
    BY <1>3, <1>7, <2>2, <2>3 DEF Settled
<1>8. CASE O = {} /\ queue' = queue /\ run'[l].pc \in {"take", "start", "leaving"}
  <2>1. ASSUME NEW x \in Written, x[1] = l, Done(x)' PROVE Done(x)
    BY <1>3, <1>6, <1>8, <2>1 DEF Done
  <2>2. log'[l].scanned >= log[l].scanned
    BY <1>3
  <2> QED
    BY <1>2, <1>3, <1>7, <1>8, <2>1, <2>2, RunRowed
<1>9. ASSUME run'[l].pc = "queued", NEW u \in BatchTask, queue' = Append(queue, u), u.of = l,
             ToSet(u.blocks) = {<<l, s>> : s \in O}, u.indexed <= log[l].scanned, \A s \in log'[l].holes : u.indexed <= s
      PROVE  RowInv'
  <2>1. queue \in Seq(Task) /\ u \in Task /\ u.op = "batch" /\ u.indexed \in Nat
    BY <1>1, PlacesAre DEF Shape, TaskShape, Task, BatchTask
  <2>2. ToSet(queue') = ToSet(queue) \cup {u}
    BY <1>9, <2>1, AppendIs
  <2>3. ASSUME NEW x \in ToSet(u.blocks) PROVE Carried(u, x)'
    <3>1. PICK s \in O : x = <<l, s>>
      BY <1>9, <2>3
    <3>2. Safe(x) /\ x[1] = l /\ x[2] = s /\ x \notin scene.locked
      BY <1>4, <3>1
    <3>3. s < log'[l].scanned /\ s \notin log'[l].holes
      BY <1>3, <1>4
    <3>4. Safe(x)'
      <4>1. Gentle
        <5>1. \A k \in Logs : length[k] \in Nat
          BY <1>1, PlacesAre DEF Shape, DiskShape
        <5> QED
          BY <1>2, <5>1 DEF Gentle, SameBlocks, disk, decided
      <4> QED
        BY <3>1, <3>2, <4>1, HereStays
    <3> QED
      BY <1>2, <1>9, <3>2, <3>3, <3>4 DEF Carried
  <2>4. ASSUME NEW x \in Written, x[1] = l, x[2] < u.indexed PROVE x \in ToSet(u.blocks) \/ Here(x)
    <3>1. x[2] \in Nat /\ x = <<l, x[2]>>
      BY <2>4, WhereWritten
    <3>2. \A s \in log'[l].holes : s \in Nat
      <4>1. log'[l] \in LogEntry
        BY <1>3 DEF OnlyLog
      <4> QED
        BY <4>1, PlacesAre DEF LogEntry
    <3>3. x[2] < log[l].scanned /\ x[2] \notin log'[l].holes
      BY <1>3, <1>9, <2>1, <2>4, <3>1, <3>2
    <3>4. CASE x[2] \in O
      BY <1>9, <3>1, <3>4
    <3>5. CASE x[2] \notin O
      BY <1>1, <1>6, <2>4, <3>3, <3>5 DEF PassedHere
    <3> QED
      BY <3>4, <3>5
  <2>5. ASSUME NEW x \in Written, x[1] = l, Done(x)' PROVE Done(x)
    <3>1. x = <<l, x[2]>>
      BY <2>5, WhereWritten
    <3>2. x[2] < log[l].scanned /\ x[2] \notin log'[l].holes /\ ~Pending(x)'
      BY <1>3, <2>5 DEF Done
    <3>3. ~\E t \in ToSet(queue') : t.op = "batch" /\ t.of = x[1] /\ x \in ToSet(t.blocks)
      BY <3>2 DEF Pending, ToSet
    <3>4. x[2] \notin O
      BY <1>9, <2>1, <2>2, <2>5, <3>1, <3>3
    <3> QED
      BY <1>6, <2>5, <3>2, <3>4
  <2>6. log'[l].scanned >= log[l].scanned
    BY <1>3
  <2>7. \A t \in ToSet(queue') : t \in ToSet(queue) \/
              /\ t.op = "batch" /\ t.of = l /\ \A x \in ToSet(t.blocks) : Carried(t, x)'
              /\ \A x \in Written : x[1] = l /\ x[2] < t.indexed => x \in ToSet(t.blocks) \/ Here(x)
    BY <1>9, <2>1, <2>2, <2>3, <2>4
  <2>8. ToSet(queue) \in SUBSET ToSet(queue')
    BY <2>2
  <2> QED
    BY <1>2, <1>3, <1>7, <1>9, <2>5, <2>6, <2>7, <2>8, RunRowed
<1> QED
  BY <1>3, <1>8, <1>9

-----------------------------------------------------------------------------
(* The steps that write the index.                                         *)

\* A committed batch: what its blocks say is in the index with the log's place.
LEMMA CommitBatchRowed ==
    ASSUME Rowed, Shape', NEW t \in ToSet(queue), WritesBatch(t)
    PROVE  RowInv'
<1> DEFINE l == t.of
           B == ToSet(t.blocks)
           ix == Effect(t)
<1>1. /\ Shape /\ OneTask /\ BlocksOnly(scene) /\ Untouched /\ PassedHere /\ BatchesHere /\ SavedHere /\ Wiping
      /\ EntriesPlaced /\ RunsCarry /\ TasksCarry /\ Remembered /\ GoodRows /\ memo \in Memo
      /\ DOMAIN rows \in SUBSET Written /\ changes \in SUBSET Written
  BY RowedIs
<1>2. /\ t \in Task /\ t \in BatchTask /\ l \in Logs /\ t.op = "batch" /\ run' = run
      /\ \A k \in Logs : /\ log'[k].scanned = log[k].scanned /\ log'[k].limit = log[k].limit /\ log'[k].cut = log[k].cut
                         /\ log'[k].holes = log[k].holes
  <2>1. /\ t \in BatchTask /\ OnlyLog(l) /\ t \in Task /\ l \in Logs /\ t.op = "batch" /\ run' = run
        /\ log'[l].scanned = log[l].scanned /\ log'[l].limit = log[l].limit /\ log'[l].cut = log[l].cut
        /\ log'[l].holes = log[l].holes
    BY <1>1, CommitBatchDoes, TaskStays DEF WritesBatch
  <2> QED
    BY <2>1 DEF OnlyLog
<1>3. saved'[l].indexed = t.indexed /\ saved'[l].cut = log[l].cut /\ \A k \in Logs \ {l} : saved'[k] = saved[k]
  <2>1. saved \in [Logs -> [indexed : Places, cut : 1 .. Inf]]
    BY <1>1 DEF Shape, DiskShape
  <2> QED
    BY <1>2, <2>1 DEF WritesBatch
<1>4. run[l].pc = "queued" /\ t.blocks \in Seq(Written) /\ \A x \in B : x \in Written
  <2>1. run[l].pc = "queued"
    BY <1>1, <1>2, TaskStays, AwaitedIs DEF OneTask, Awaited
  <2> QED
    BY <1>2, <2>1 DEF BatchTask, ToSet
<1>5. ix \in Ix /\ Batched(ix, B) /\ \A x \in B : Handled(ix.rows, ix.changes, x)
  <2>1. (\A i \in Ids : mods[i] = None) /\ \A k \in Logs : log[k].limit = Inf
    BY <1>1 DEF Untouched, Uncut
  <2>2. Told(changes, memo.targets)
    BY <1>1, <1>2, <1>4 DEF Remembered
  <2>3. Good(rows, changes)
    BY <1>1 DEF GoodRows
  <2> QED
    BY <1>1, <1>2, <2>1, <2>2, <2>3, BatchEffect
<1>6. Apply(t, ix) /\ memo' = [memo EXCEPT !.targets = ix.targets]
  BY DEF WritesBatch
<1> HIDE DEF ix
<1>7. /\ SameBlocks /\ UNCHANGED <<scene, length, held, decided>> /\ rows' = ix.rows /\ changes' = ix.changes
      /\ limit' = limit /\ elimit' = elimit /\ mods' = mods
  BY <1>1, <1>5, <1>6, ApplyDoes DEF decided
<1>8. ToSet(queue) = ToSet(queue') \cup {t} /\ \A u \in ToSet(queue') : u \in ToSet(queue) /\ (u.op = "batch" => u.of # l)
  <2>1. RunsWait
    BY <1>2 DEF RunsWait
  <2>2. ToSet(queue) = ToSet(queue') \cup {t} /\ \A u \in ToSet(queue') : Name(u) # Name(t)
    BY <1>1, <1>5, <1>6, <2>1, OneCommitted
  <2> QED
    BY <1>2, <2>2 DEF Name
<1> DEFINE b == ix.rows # rows
           a == [op |-> t.op, of |-> t.of, clears |-> ix.clears, wiped |-> ix.wiped, noted |-> b]
<1>9. after' = after \cup {a} /\ a.clears = ix.clears /\ a.wiped = ix.wiped /\ a.op = "batch"
  <2>1. after' = after \cup {a}
    BY <1>1, <1>5, <1>6, ApplyDoes
  <2> HIDE DEF b
  <2> QED
    BY <1>2, <2>1
<1> HIDE DEF a
<1>10. Gentle
  <2>1. \A k \in Logs : length[k] \in Nat
    BY <1>1, PlacesAre DEF Shape, DiskShape
  <2>2. changes \in SUBSET changes' /\ \A j \in DOMAIN rows : j \in DOMAIN rows' \/ Taken(changes', j)
    BY <1>5, <1>7 DEF Batched
  <2> QED
    BY <1>7, <2>1, <2>2 DEF Gentle
<1>11. Untouched'
  <2>1. \A k \in Logs : Uncut(k)'
    BY <1>1, <1>2, <1>3, <1>7 DEF Untouched, Uncut
  <2>2. \A u \in ToSet(queue') \cup after' : u.op \in {"batch", "rights"}
    BY <1>1, <1>8, <1>9 DEF Untouched, TaskSet
  <2> QED
    BY <1>1, <1>7, <2>1, <2>2 DEF Untouched, TaskSet
<1>12. \A x \in B : Here(x)'
  BY <1>5, <1>7, <1>10, HereStays
<1>13. PassedHere'
  <2>1. ASSUME NEW x \in Written, Done(x)' PROVE Done(x) \/ Here(x)'
    <3>1. x[1] \in Logs
      BY WhereWritten
    <3>2. x[2] < log[x[1]].scanned /\ x[2] \notin log[x[1]].holes /\ ~Pending(x)'
      BY <1>2, <2>1, <3>1 DEF Done
    <3>3. ~\E u \in ToSet(queue') : u.op = "batch" /\ u.of = x[1] /\ x \in ToSet(u.blocks)
      BY <3>2 DEF Pending, ToSet
    <3>4. CASE x \in B
      BY <1>12, <3>4
    <3>5. CASE x \notin B
      <4>1. ~Pending(x)
        BY <1>2, <1>8, <3>2, <3>3, <3>5 DEF Pending
      <4> QED
        BY <3>2, <4>1 DEF Done
    <3> QED
      BY <3>4, <3>5
  <2> QED
    BY <1>1, <1>10, <2>1, PassedHereStays
<1>14. BatchesHere'
  BY <1>1, <1>8, <1>10, BatchesHereStays
<1>15. SavedHere'
  <2>1. ASSUME NEW x \in Written, x[2] < saved'[x[1]].indexed PROVE x[2] < saved[x[1]].indexed \/ Here(x)'
    <3>1. x[1] \in Logs
      BY WhereWritten
    <3>2. CASE x[1] = l
      <4>1. x \in B \/ Here(x)
        BY <1>1, <1>2, <1>3, <2>1, <3>2 DEF BatchesHere
      <4> QED
        BY <1>10, <1>12, <4>1, HereStays
    <3>3. CASE x[1] # l
      BY <1>3, <2>1, <3>1, <3>3
    <3> QED
      BY <3>2, <3>3
  <2> QED
    BY <1>1, <1>10, <2>1, SavedHereStays
<1>16. Wiping'
  <2>1. (\A d \in a.wiped : d \in changes' /\ Block(d).kind = "delete") /\ \A x \in a.clears : Wiped(x)'
    <3>1. \A x \in a.clears : WipedBy(changes', x)
      BY <1>5, <1>7, <1>9 DEF Batched
    <3>2. \A x \in a.clears : Wiped(x)'
      BY <1>10, <3>1, HereStays
    <3> QED
      BY <1>5, <1>7, <1>9, <3>2 DEF Batched
  <2>2. \A c \in after' :
              \/ \E d \in after : c.clears \in SUBSET d.clears /\ c.wiped = d.wiped
              \/ (\A d \in c.wiped : d \in changes' /\ Block(d).kind = "delete") /\ \A x \in c.clears : Wiped(x)'
    BY <1>9, <2>1
  <2> QED
    BY <1>1, <1>10, <2>2, WipingStays
<1>17. EntriesPlaced'
  <2>1. ASSUME NEW x \in DOMAIN rows \cup changes PROVE Settled(x)
    <3>1. x[1] \in Logs /\ Placed(x)
      BY <1>1, WhereWritten DEF EntriesPlaced
    <3> QED
      BY <1>2, <3>1 DEF Settled, Placed, Reached
  <2>2. ASSUME NEW x \in B PROVE Placed(x)'
    <3>1. Carried(t, x) /\ x = <<x[1], x[2]>> /\ x[1] = l /\ x[2] \in Nat
      <4>1. Carried(t, x)
        BY <1>1, <1>2 DEF TasksCarry
      <4> QED
        BY <1>4, <4>1, WhereWritten DEF Carried
    <3>2. Safe(x)'
      BY <1>2, <1>10, <3>1, HereStays DEF Carried
    <3>3. log[l].scanned <= length[l] /\ log[l].scanned \in Nat /\ length[l] \in Nat
      BY <1>1, <1>2, PlacesAre DEF Shape, LogShape, LogEntry, DiskShape, LogOK
    <3>4. x[2] < length'[l] /\ x[2] \notin log'[l].holes /\ x[2] < log'[l].scanned /\ run'[l].pc # "note" /\ x \notin scene'.locked
      BY <1>2, <1>4, <1>7, <3>1, <3>3 DEF Carried
    <3> QED
      BY <3>1, <3>2, <3>4 DEF Placed, Reached
  <2>3. \A x \in DOMAIN rows' \cup changes' : x \in DOMAIN rows \cup changes \/ x \in B
    BY <1>5, <1>7 DEF Batched
  <2> QED
    BY <1>10, <2>1, <2>2, <2>3, EntriesStay
<1>18. RunsCarry'
  <2>1. \A k \in Logs : run'[k].pc \in {"scan", "note"} =>
              \A s \in ToSet(run'[k].batch) : s \in held[k] \/ (run[k].pc \in {"scan", "note"} /\ s \in ToSet(run[k].batch))
    BY <1>2
  <2> QED
    BY <1>1, <1>10, <2>1, RunsCarryStay
<1>19. TasksCarry'
  <2>1. \A k \in Logs : log'[k].scanned >= log[k].scanned
    <3>1. \A k \in Logs : log[k].scanned \in Nat
      BY <1>1, PlacesAre DEF Shape, LogShape, LogEntry
    <3> QED
      BY <1>2, <3>1
  <2>2. \A u \in ToSet(queue') : u.op = "batch" =>
              \/ u \in ToSet(queue) /\ log'[u.of].holes \in SUBSET log[u.of].holes
              \/ \A x \in ToSet(u.blocks) : Carried(u, x)'
    BY <1>1, <1>2, <1>8, TaskStays
  <2> QED
    BY <1>1, <1>10, <2>1, <2>2, TasksCarryStay
<1>20. Remembered'
  <2> DEFINE T == ix.targets
  <2>1. memo'.had = memo.had /\ memo'.targets = ix.targets
    <3>1. memo' = [memo EXCEPT !.targets = T]
      BY <1>6
    <3> HIDE DEF T
    <3>2. memo'.had = memo.had /\ memo'.targets = T
      BY <1>1, <3>1 DEF Memo
    <3> QED
      BY <3>2 DEF T
  <2>2. Told(ix.changes, ix.targets)
    BY <1>5 DEF Batched
  <2>3. \A i : Target(i)' = Target(i)
    BY <1>10, TakenStays DEF Gentle, Target
  <2>4. Told(changes, memo.targets)'
    BY <1>7, <2>1, <2>2, <2>3 DEF Told
  <2>5. \A k \in Logs : run'[k].pc \in {"scan", "note", "queued"} => memo'.had # None
    BY <1>1, <1>2, <2>1 DEF Remembered
  <2> QED
    BY <2>4, <2>5 DEF Remembered
<1>21. GoodRows'
  <2>1. Good(rows', changes')
    BY <1>5, <1>7 DEF Batched
  <2> QED
    BY <1>7, <2>1, GoodStays
<1> QED
  BY <1>11, <1>13, <1>14, <1>15, <1>16, <1>17, <1>18, <1>19, <1>20, <1>21 DEF RowInv

\* The rows judged again are the rows there were.
LEMMA CommitRightsRowed ==
    ASSUME Rowed, Shape', NEW t \in ToSet(queue), WritesRights(t)
    PROVE  RowInv'
<1> DEFINE u == Judged(t)
           ix == Effect(u)
<1>1. /\ Shape /\ OneTask /\ Untouched /\ PassedHere /\ BatchesHere /\ SavedHere /\ Wiping
      /\ EntriesPlaced /\ RunsCarry /\ TasksCarry /\ Remembered /\ GoodRows
      /\ DOMAIN rows \in SUBSET Written /\ changes \in SUBSET Written
  BY RowedIs
<1>2. t.op = "rights" /\ u \in RightsTask /\ UNCHANGED <<saved, log, run, memo>> /\ Apply(t, ix)
  BY <1>1, JudgedIs DEF WritesRights
<1>3. ix \in Ix /\ Rights(ix)
  <2> HIDE DEF u
  <2> QED
    BY <1>1, <1>2, RightsEffect DEF GoodRows
<1> HIDE DEF ix, u
<1>4. /\ SameBlocks /\ UNCHANGED <<scene, length, held, decided>> /\ rows' = ix.rows /\ changes' = ix.changes
      /\ limit' = limit /\ elimit' = elimit /\ mods' = mods
  BY <1>1, <1>2, <1>3, ApplyDoes DEF decided
<1>5. ToSet(queue) = ToSet(queue') \cup {t}
  <2>1. RunsWait
    BY <1>2 DEF RunsWait
  <2> QED
    BY <1>1, <1>2, <1>3, <2>1, OneCommitted
<1> DEFINE b == ix.rows # rows
           a == [op |-> t.op, of |-> t.of, clears |-> ix.clears, wiped |-> ix.wiped, noted |-> b]
<1>6. after' = after \cup {a} /\ a.clears = {} /\ a.wiped = {} /\ a.op = "rights"
  <2>1. after' = after \cup {a}
    BY <1>1, <1>2, <1>3, ApplyDoes
  <2> HIDE DEF b
  <2> QED
    BY <1>2, <1>3, <2>1 DEF Rights
<1> HIDE DEF a
<1>7. changes' = changes /\ DOMAIN rows' = DOMAIN rows /\ Good(rows', changes')
  BY <1>3, <1>4 DEF Rights
<1>8. Gentle
  <2>1. \A k \in Logs : length[k] \in Nat
    BY <1>1, PlacesAre DEF Shape, DiskShape
  <2> QED
    BY <1>4, <1>7, <2>1 DEF Gentle
<1>9. Untouched'
  <2>1. \A k \in Logs : Uncut(k)'
    BY <1>1, <1>2, <1>4 DEF Untouched, Uncut
  <2>2. \A v \in ToSet(queue') \cup after' : v.op \in {"batch", "rights"}
    BY <1>1, <1>5, <1>6 DEF Untouched, TaskSet
  <2> QED
    BY <1>1, <1>4, <2>1, <2>2 DEF Untouched, TaskSet
<1>10. PassedHere'
  <2>1. ASSUME NEW x \in Written, Done(x)' PROVE Done(x)
    <3>1. x[2] < log[x[1]].scanned /\ x[2] \notin log[x[1]].holes /\ ~Pending(x)'
      BY <1>2, <2>1 DEF Done
    <3>2. ~\E v \in ToSet(queue') : v.op = "batch" /\ v.of = x[1] /\ x \in ToSet(v.blocks)
      BY <3>1 DEF Pending, ToSet
    <3>3. ~Pending(x)
      BY <1>2, <1>5, <3>1, <3>2 DEF Pending
    <3> QED
      BY <3>1, <3>3 DEF Done
  <2> QED
    BY <1>1, <1>8, <2>1, PassedHereStays
<1>11. BatchesHere' /\ SavedHere'
  BY <1>1, <1>2, <1>5, <1>8, BatchesHereStays, SavedHereStays
<1>12. Wiping'
  <2>1. \A c \in after' :
              \/ \E d \in after : c.clears \in SUBSET d.clears /\ c.wiped = d.wiped
              \/ (\A d \in c.wiped : d \in changes' /\ Block(d).kind = "delete") /\ \A x \in c.clears : Wiped(x)'
    BY <1>6
  <2> QED
    BY <1>1, <1>8, <2>1, WipingStays
<1>13. EntriesPlaced'
  <2>1. \A x \in DOMAIN rows \cup changes : Settled(x)
    BY <1>1, <1>2 DEF EntriesPlaced, Settled, Placed, Reached
  <2> QED
    BY <1>7, <1>8, <2>1, EntriesStay
<1>14. RunsCarry' /\ TasksCarry'
  <2>1. \A k \in Logs : log'[k].scanned >= log[k].scanned
    <3>1. \A k \in Logs : log[k].scanned \in Nat
      BY <1>1, PlacesAre DEF Shape, LogShape, LogEntry
    <3> QED
      BY <1>2, <3>1
  <2>2. RunsCarry'
    BY <1>1, <1>2, <1>8, RunsCarryStay
  <2>3. \A v \in ToSet(queue') : v.op = "batch" =>
              \/ v \in ToSet(queue) /\ log'[v.of].holes \in SUBSET log[v.of].holes
              \/ \A x \in ToSet(v.blocks) : Carried(v, x)'
    BY <1>2, <1>5
  <2> QED
    BY <1>1, <1>8, <2>1, <2>2, <2>3, TasksCarryStay
<1>15. Remembered'
  <2>1. \A i : Target(i)' = Target(i)
    BY <1>8, TakenStays DEF Gentle, Target
  <2> QED
    BY <1>1, <1>2, <1>7, <2>1 DEF Remembered, Told
<1>16. GoodRows'
  BY <1>4, <1>7, GoodStays
<1> QED
  BY <1>9, <1>10, <1>11, <1>12, <1>13, <1>14, <1>15, <1>16 DEF RowInv

LEMMA CommitsRowed ==
    ASSUME Rowed, Shape', CommitBatch \/ CommitCut \/ CommitModeration \/ CommitRights
    PROVE  RowInv'
<1>1. Shape
  BY RowedIs
<1>2. PICK t \in ToSet(queue), ix \in Ix : Writes(t, ix)
  BY <1>1, CommitApplies
<1>3. t.op \in {"batch", "rights"}
  BY RowedIs, TaskStays DEF Untouched
<1>4. CASE t.op = "batch"
  <2>1. WritesBatch(t)
    BY <1>2, <1>4 DEF Writes
  <2> QED
    BY <2>1, CommitBatchRowed
<1>5. CASE t.op = "rights"
  <2>1. WritesRights(t)
    BY <1>2, <1>5 DEF Writes
  <2> QED
    BY <2>1, CommitRightsRowed
<1> QED
  BY <1>3, <1>4, <1>5

\* A batch's run goes on; the holes its deletes name were of records taken away.
LEMMA FinishRowed ==
    ASSUME Rowed, Shape', NEW a \in after, FinishBatch(a)
    PROVE  RowInv'
<1>1. /\ Shape /\ OneTask /\ Untouched /\ PassedHere /\ BatchesHere /\ SavedHere /\ Wiping
      /\ EntriesPlaced /\ RunsCarry /\ TasksCarry /\ Remembered /\ GoodRows
      /\ DOMAIN rows \in SUBSET Written /\ changes \in SUBSET Written
  BY RowedIs
<1>2. /\ a.op = "batch" /\ after' = after \ {a} /\ UNCHANGED <<scene, length, held, disk, decided, queue, memo>> /\ SameBlocks
  BY <1>1, FinishBatchDoes, FinishDoes
<1>3. rows' = rows /\ changes' = changes /\ saved' = saved /\ limit' = limit /\ elimit' = elimit /\ mods' = mods
  BY <1>2 DEF disk, decided
<1> DEFINE T == [Idle EXCEPT !.pc = "take"]
<1>4. T.pc = "take" /\ run[a.of].pc = "queued"
  <2>1. a \in TaskSet
    BY DEF TaskSet
  <2> QED
    BY <1>1, <1>2, <2>1, IdleIs, AwaitedIs DEF OneTask, Awaited
<1>5. \A l \in Logs : run'[l] = (IF l = a.of THEN T ELSE IF WipedHoles(a, l) # {} THEN Started(l) ELSE run[l])
  BY <1>1, FinishBatchDoes
<1> HIDE DEF T
<1>6. \A l \in Logs : \/ run[l].pc = "queued" /\ run'[l].pc = "take"
                      \/ run[l].pc = "idle" /\ run'[l].pc = "start"
                      \/ run'[l] = run[l]
  <2> TAKE l \in Logs
  <2>1. Started(l) = run[l] \/ (run[l].pc = "idle" /\ Started(l).pc = "start")
    BY <1>1, StartedIs DEF Shape
  <2> QED
    BY <1>4, <1>5, <2>1
<1>7. \A l \in Logs : /\ log'[l].scanned = log[l].scanned /\ log'[l].limit = log[l].limit /\ log'[l].cut = log[l].cut
                      /\ log'[l].holes = log[l].holes \ WipedHoles(a, l)
  BY <1>1, FinishBatchDoes DEF Looked
<1>8. Gentle
  <2>1. \A k \in Logs : length[k] \in Nat
    BY <1>1, PlacesAre DEF Shape, DiskShape
  <2> QED
    BY <1>2, <1>3, <2>1 DEF Gentle
<1>9. Untouched'
  <2>1. \A k \in Logs : Uncut(k)'
    BY <1>1, <1>3, <1>7 DEF Untouched, Uncut
  <2>2. \A t \in ToSet(queue') \cup after' : t.op \in {"batch", "rights"}
    BY <1>1, <1>2 DEF Untouched, TaskSet
  <2> QED
    BY <1>1, <1>3, <2>1, <2>2 DEF Untouched, TaskSet
<1>10. PassedHere'
  <2>1. ASSUME NEW x \in Written, Done(x)' PROVE Done(x) \/ Here(x)'
    <3>1. x[1] \in Logs /\ x = <<x[1], x[2]>>
      BY WhereWritten
    <3>2. x[2] < log[x[1]].scanned /\ x[2] \notin log'[x[1]].holes /\ ~Pending(x)'
      BY <1>7, <2>1, <3>1 DEF Done
    <3>3. ~Pending(x)
      <4>1. ~\E t \in ToSet(queue) : t.op = "batch" /\ t.of = x[1] /\ x \in ToSet(t.blocks)
        BY <1>2, <3>2 DEF Pending
      <4>2. run[x[1]].pc \in {"scan", "note"} => run'[x[1]] = run[x[1]]
        BY <1>6, <3>1
      <4> QED
        BY <3>2, <4>1, <4>2 DEF Pending
    <3>4. CASE x[2] \notin log[x[1]].holes
      BY <3>2, <3>3, <3>4 DEF Done
    <3>5. CASE x[2] \in log[x[1]].holes
      <4>1. x[2] \in WipedHoles(a, x[1])
        BY <1>7, <3>1, <3>2, <3>5
      <4>2. PICK c \in a.wiped : Target(c) = x /\ Author[c[1]] = Author[x[1]]
        BY <3>1, <4>1 DEF WipedHoles
      <4>3. c \in changes /\ Block(c).kind = "delete"
        BY <1>1 DEF Wiping
      <4>4. Here(x)
        BY <4>2, <4>3, NamedTaken
      <4> QED
        BY <1>8, <4>4, HereStays
    <3> QED
      BY <3>4, <3>5
  <2> QED
    BY <1>1, <1>8, <2>1, PassedHereStays
<1>11. BatchesHere' /\ SavedHere'
  BY <1>1, <1>2, <1>3, <1>8, BatchesHereStays, SavedHereStays
<1>12. Wiping'
  <2>1. \A c \in after' : \E b \in after : c.clears \in SUBSET b.clears /\ c.wiped = b.wiped
    BY <1>2
  <2> QED
    BY <1>1, <1>8, <2>1, WipingStays
<1>13. EntriesPlaced'
  <2>1. ASSUME NEW x \in DOMAIN rows \cup changes PROVE Settled(x)
    <3>1. x[1] \in Logs /\ Placed(x)
      BY <1>1, WhereWritten DEF EntriesPlaced
    <3>2. Reached(x)'
      BY <1>6, <1>7, <3>1 DEF Placed, Reached
    <3>3. run'[x[1]].pc = "note" => run'[x[1]] = run[x[1]]
      BY <1>6, <3>1
    <3> QED
      BY <1>7, <3>1, <3>2, <3>3 DEF Settled
  <2> QED
    BY <1>3, <1>8, <2>1, EntriesStay
<1>14. RunsCarry'
  <2>1. \A k \in Logs : run'[k].pc \in {"scan", "note"} =>
              \A s \in ToSet(run'[k].batch) : s \in held[k] \/ (run[k].pc \in {"scan", "note"} /\ s \in ToSet(run[k].batch))
    BY <1>6
  <2> QED
    BY <1>1, <1>8, <2>1, RunsCarryStay
<1>15. TasksCarry'
  <2>1. \A k \in Logs : log'[k].scanned >= log[k].scanned
    <3>1. \A k \in Logs : log[k].scanned \in Nat
      BY <1>1, PlacesAre DEF Shape, LogShape, LogEntry
    <3> QED
      BY <1>7, <3>1
  <2>2. \A t \in ToSet(queue') : t.op = "batch" =>
              \/ t \in ToSet(queue) /\ log'[t.of].holes \in SUBSET log[t.of].holes
              \/ \A x \in ToSet(t.blocks) : Carried(t, x)'
    BY <1>1, <1>2, <1>7, TaskStays
  <2> QED
    BY <1>1, <1>8, <2>1, <2>2, TasksCarryStay
<1>16. Remembered'
  <2>1. \A i : Target(i)' = Target(i)
    BY <1>8, TakenStays DEF Gentle, Target
  <2>2. \A k \in Logs : run'[k].pc \in {"scan", "note", "queued"} => run'[k] = run[k]
    BY <1>6
  <2> QED
    BY <1>1, <1>2, <1>3, <2>1, <2>2 DEF Remembered, Told
<1>17. GoodRows'
  BY <1>1, <1>3, <1>8, GoodStays DEF GoodRows, Gentle
<1> QED
  BY <1>9, <1>10, <1>11, <1>12, <1>13, <1>14, <1>15, <1>16, <1>17 DEF RowInv

\* A process that opens again scans what is not on disk, and each log that has blocks.
LEMMA CrashRowed ==
    ASSUME Rowed, Shape', Crash
    PROVE  RowInv'
<1>1. /\ Shape /\ Untouched /\ SavedHere /\ EntriesPlaced /\ GoodRows
      /\ DOMAIN rows \in SUBSET Written /\ changes \in SUBSET Written
  BY RowedIs
<1>2. /\ UNCHANGED <<length, held, disk, decided>> /\ queue' = << >> /\ after' = {} /\ memo' = NoMemo /\ SameBlocks
      /\ \A l \in Logs : /\ log'[l].scanned = saved[l].indexed /\ log'[l].limit = saved[l].cut /\ log'[l].cut = saved[l].cut
                         /\ log'[l].holes = {} /\ run'[l].pc = (IF length[l] > 1 THEN "start" ELSE "idle")
  BY <1>1, CrashDoes
<1>3. /\ rows' = rows /\ changes' = changes /\ saved' = saved /\ limit' = limit /\ elimit' = elimit /\ mods' = mods
      /\ ToSet(queue') = {} /\ memo'.had = None
  BY <1>2 DEF disk, decided, ToSet, NoMemo
<1>4. Gentle
  <2>1. \A k \in Logs : length[k] \in Nat
    BY <1>1, PlacesAre DEF Shape, DiskShape
  <2> QED
    BY <1>1, <1>2, <1>3, <2>1, CrashKept DEF Gentle, SceneKept
<1>5. Untouched'
  <2>1. \A k \in Logs : Uncut(k)'
    BY <1>1, <1>2, <1>3 DEF Untouched, Uncut
  <2>2. ToSet(queue') \cup after' = {}
    BY <1>2, <1>3
  <2> QED
    BY <1>1, <1>3, <2>1, <2>2 DEF Untouched, TaskSet
<1>6. \A l \in Logs : run'[l].pc \notin {"scan", "note", "queued"}
  BY <1>2
<1>7. SavedHere'
  BY <1>1, <1>3, <1>4, SavedHereStays
<1>8. PassedHere'
  <2>1. ASSUME NEW x \in Written', Done(x)' PROVE Here(x)'
    <3>1. x \in Written /\ x[1] \in Logs
      BY <1>4, HereStays, WhereWritten
    <3>2. x[2] < saved[x[1]].indexed
      BY <1>2, <2>1, <3>1 DEF Done
    <3> QED
      BY <1>1, <1>4, <3>1, <3>2, HereStays DEF SavedHere
  <2> QED
    BY <2>1 DEF PassedHere
<1>9. BatchesHere' /\ TasksCarry' /\ Wiping' /\ RunsCarry' /\ Remembered'
  BY <1>2, <1>3, <1>6 DEF BatchesHere, TasksCarry, Wiping, RunsCarry, Remembered
<1>10. EntriesPlaced'
  <2>1. ASSUME NEW x \in DOMAIN rows \cup changes PROVE Settled(x)
    <3>1. x[1] \in Logs /\ Placed(x) /\ x[2] \in Nat /\ x[2] >= 1
      BY <1>1, WhereWritten, PlacesAre DEF EntriesPlaced
    <3>2. length[x[1]] > 1
      <4>1. length[x[1]] \in Nat /\ x[2] < length[x[1]]
        BY <1>1, <3>1, PlacesAre DEF Shape, DiskShape, Placed
      <4> QED
        BY <3>1, <4>1
    <3>3. run'[x[1]].pc = "start" /\ log'[x[1]].holes = {}
      BY <1>2, <3>1, <3>2
    <3> QED
      BY <3>3 DEF Settled, Reached
  <2> QED
    BY <1>3, <1>4, <2>1, EntriesStay
<1>11. GoodRows'
  BY <1>1, <1>3, <1>4, GoodStays DEF GoodRows, Gentle
<1> QED
  BY <1>5, <1>7, <1>8, <1>9, <1>10, <1>11 DEF RowInv

LEMMA RowedStays ==
    ASSUME Rowed, Shape', [Next]_vars
    PROVE  RowInv'
<1>1. Shape /\ Untouched
  BY RowedIs
<1>2. UNCHANGED vars \/ Step
  BY NextSteps
<1>3. \A l \in Logs : ~CutBegin(l)
  BY <1>1 DEF CutBegin, Untouched, Uncut
<1> QED
  BY <1>1, <1>2, <1>3, AsideRowed, ScanRowed, NoteRowed, BatchRowed, CommitsRowed, FinishRowed, CrashRowed
     DEF Step, Aside

LEMMA SameContent ==
    ASSUME NEW s, NEW t, t.content = s.content, t.decide = s.decide, BlocksOnly(s)
    PROVE  BlocksOnly(t)
<1>1. NamesRecords(t)
  <2> DEFINE M == s.content
  <2>1. t.content = M /\ s.content = M
    OBVIOUS
  <2> HIDE DEF M
  <2>2. NamesRecords(s)
    BY DEF BlocksOnly
  <2> QED
    BY <2>1, <2>2 DEF NamesRecords
<1>2. VotesKept(t)
  BY DEF BlocksOnly, VotesKept
<1> QED
  BY <1>1, <1>2 DEF BlocksOnly

LEMMA BlocksOnlyStays ==
    ASSUME SceneKept, BlocksOnly(scene)
    PROVE  BlocksOnly(scene)'
<1>1. scene'.content = scene.content /\ scene'.decide = scene.decide
  BY DEF SceneKept
<1>2. BlocksOnly(scene')
  BY <1>1, SameContent
<1> QED
  BY <1>2

-----------------------------------------------------------------------------
(* Once nothing is under way.                                              *)

\* What counts is passed, and so has its effect.
LEMMA CountingHere ==
    ASSUME Rowed, Quiet, NEW i \in Counting
    PROVE  i \in Written /\ Here(i)
<1>1. Shape /\ PassedHere
  BY RowedIs
<1>2. i \in Ids /\ i[1] \in Logs /\ i[2] \in Nat /\ i[2] < log[i[1]].scanned /\ i[2] \notin log[i[1]].holes
  BY DEF Counting, Ids
<1> DEFINE l == i[1]
<1>3. i \in Written
  <2>1. log[l].scanned <= length[l] /\ length[l] <= Len(scene.content[l]) + 1 /\ log[l].scanned \in Nat /\ length[l] \in Nat
        /\ Len(scene.content[l]) \in Nat
    <3>1. LogOK(log[l], run[l], length[l]) /\ log[l].scanned \in Places /\ length[l] \in Places
      BY <1>1, <1>2 DEF Shape, LogShape, LogEntry, DiskShape
    <3>2. scene.content[l] \in Seq(BlockType)
      BY <1>1, <1>2 DEF Shape, SceneOK, Scene
    <3> QED
      BY <1>1, <1>2, <3>1, <3>2, PlacesAre DEF Shape, DiskShape, LogOK
  <2>2. i[2] <= Len(scene.content[l])
    BY <1>2, <2>1
  <2> QED
    BY <1>2, <2>2 DEF Written
<1>4. ~Pending(i)
  <2>1. run[l].pc = "idle" /\ ToSet(queue) = {}
    BY <1>2 DEF Quiet, ToSet
  <2> QED
    BY <2>1 DEF Pending
<1> QED
  BY <1>1, <1>2, <1>3, <1>4 DEF PassedHere, Done

\* What has its effect, and was not taken away, counts.
LEMMA EntriesCount ==
    ASSUME Rowed, Quiet, NEW x \in DOMAIN rows \cup changes, ~Wiped(x)
    PROVE  x \in Counting
<1>1. Untouched /\ EntriesPlaced /\ x \in Written
  BY RowedIs
<1>2. x \in Ids /\ x[1] \in Logs /\ x[2] \in Spots
  BY <1>1, WhereWritten DEF Written
<1>3. Placed(x) /\ run[x[1]].pc = "idle" /\ limit[x[1]] = Inf
  BY <1>1, <1>2 DEF EntriesPlaced, Quiet, Untouched, Uncut
<1>4. x[2] < log[x[1]].scanned /\ x[2] \notin log[x[1]].holes
  BY <1>3 DEF Placed, Reached
<1>5. x[2] < limit[x[1]]
  BY <1>2, <1>3, PlacesAre
<1> QED
  BY <1>2, <1>4, <1>5 DEF Counting

\* A change is of a record: no delete takes one away.
LEMMA ChangesStand ==
    ASSUME Rowed, NEW c \in changes
    PROVE  ~Taken(changes, c) /\ Block(c).kind # "put"
<1>1. SceneOK(scene) /\ BlocksOnly(scene) /\ changes \in SUBSET Changed
  BY RowedIs
<1>2. \A d \in changes : Target(d) # c
  BY <1>1, BlocksOnlyIs DEF Changed
<1> QED
  BY <1>1, <1>2 DEF Taken, takesAway, Changed

LEMMA RowCounts ==
    ASSUME Rowed, Quiet, NEW i \in DOMAIN rows
    PROVE  i \in Counting /\ Block(i).kind = "put" /\ Allowed(i) = AllowedIn(i, On(changes, i))
<1>1. Block(i).kind = "put" /\ ~Taken(changes, i)
  BY RowedIs DEF GoodRows, Good, RowGood
<1>2. i \in Counting
  <2>1. ~Wiped(i)
    BY <1>1 DEF Wiped, WipedBy
  <2> QED
    BY <2>1, EntriesCount
<1>3. ASSUME NEW c \in Allowed(i) PROVE c \in AllowedIn(i, On(changes, i))
  <2>1. c \in Counting /\ Block(c).kind # "put" /\ Target(c) = i /\ mayChange(c, i)
    BY <1>3 DEF Allowed
  <2>2. c \in changes
    BY <2>1, CountingHere DEF Here, Handled
  <2> QED
    BY <2>1, <2>2 DEF AllowedIn, On
<1>4. ASSUME NEW c \in AllowedIn(i, On(changes, i)) PROVE c \in Allowed(i)
  <2>1. c \in changes /\ Target(c) = i /\ mayChange(c, i)
    BY <1>4 DEF AllowedIn, On
  <2>2. ~Wiped(c) /\ Block(c).kind # "put"
    BY <1>1, <2>1, ChangesStand DEF Wiped, WipedBy
  <2>3. c \in Counting
    BY <2>1, <2>2, EntriesCount
  <2> QED
    BY <2>1, <2>2, <2>3 DEF Allowed
<1> QED
  BY <1>1, <1>2, <1>3, <1>4

LEMMA StandingIs ==
    ASSUME Rowed, Quiet
    PROVE  DOMAIN rows = Standing
<1>1. ASSUME NEW i \in DOMAIN rows PROVE i \in Standing
  <2>1. i \in Counting /\ Block(i).kind = "put" /\ Allowed(i) = AllowedIn(i, On(changes, i))
    BY RowCounts
  <2>2. mods[i] # "removed"
    <3>1. i \in Ids
      BY <2>1 DEF Counting
    <3> QED
      BY <3>1, RowedIs, IndexAssumption DEF Untouched
  <2>3. ~Taken(changes, i)
    BY RowedIs DEF GoodRows, Good, RowGood
  <2>4. \A c \in Allowed(i) : Block(c).kind # "delete"
    BY <2>1, <2>3 DEF Taken, takesAway, AllowedIn, On
  <2> QED
    BY <2>1, <2>2, <2>4 DEF Standing
<1>2. ASSUME NEW i \in Standing PROVE i \in DOMAIN rows
  <2>1. i \in Counting /\ Block(i).kind = "put" /\ \A c \in Allowed(i) : Block(c).kind # "delete"
    BY <1>2 DEF Standing
  <2>2. i \in DOMAIN rows \/ Taken(changes, i)
    BY <2>1, CountingHere DEF Here, Handled
  <2>3. ASSUME NEW d \in changes, takesAway(d, i) PROVE FALSE
    <3>1. Block(d).kind = "delete" /\ Target(d) = i /\ mayChange(d, i)
      BY <2>3 DEF takesAway
    <3>2. ~Wiped(d) /\ Block(d).kind # "put"
      BY <3>1, ChangesStand DEF Wiped, WipedBy
    <3>3. d \in Counting
      BY <3>2, EntriesCount
    <3> QED
      BY <2>1, <3>1, <3>2, <3>3 DEF Allowed
  <2> QED
    BY <2>2, <2>3 DEF Taken
<1> QED
  BY <1>1, <1>2

LEMMA RowIs ==
    ASSUME Rowed, Quiet, NEW i \in DOMAIN rows
    PROVE  rows[i] = RowOf(i)
<1> DEFINE S == {i} \cup Allowed(i)
           r == rows[i]
           p == Block(i).type \in OnePerMember /\ \E j \in Standing : Group(j) = Group(i) /\ compare(j, i)
<1>1. RowGood(rows, changes, i) /\ SceneOK(scene)
  BY RowedIs DEF GoodRows, Good
<1>2. r = [v |-> r.v, superseded |-> r.superseded, hidden |-> r.hidden] /\ r.hidden \in BOOLEAN /\ r.superseded \in BOOLEAN
  <2>1. rows \in Rows
    BY RowedIs DEF Shape, DiskShape
  <2>2. r \in WrittenRow
    BY <2>1, RowsAre
  <2> QED
    BY <2>2 DEF WrittenRow
<1>3. i \in Counting /\ Allowed(i) = AllowedIn(i, On(changes, i))
  BY RowCounts
<1>4. S \in SUBSET Written
  <2>1. \A c \in Allowed(i) : c \in Counting
    BY DEF Allowed
  <2> QED
    BY <1>3, <2>1, CountingHere
<1>5. r.v = latest(S)
  <2>1. r.v \in S /\ \A j \in S \ {r.v} : compare(r.v, j)
    BY <1>1, <1>3 DEF RowGood, Wins
  <2> HIDE DEF S
  <2> QED
    BY <1>1, <1>4, <2>1, LatestIs
<1>6. r.hidden = (mods[i] = "hidden")
  <2>1. i \in Ids
    BY <1>3 DEF Counting
  <2>2. mods[i] # "hidden"
    BY <2>1, RowedIs, IndexAssumption DEF Untouched
  <2> QED
    BY <1>1, <1>2, <2>2 DEF RowGood
<1>7. r.superseded = p
  <2>1. r.superseded <=> p
    BY <1>1, StandingIs DEF RowGood, Beaten
  <2> HIDE DEF r, p
  <2>2. p \in BOOLEAN
    BY DEF p
  <2> QED
    BY <1>2, <2>1, <2>2
<1> HIDE DEF r
<1>8. RowOf(i) = [v |-> latest(S), hidden |-> mods[i] = "hidden", superseded |-> p]
  BY DEF RowOf
<1> HIDE DEF S, p
<1>9. RowOf(i) = [v |-> r.v, hidden |-> r.hidden, superseded |-> r.superseded]
  BY <1>5, <1>6, <1>7, <1>8
<1> QED
  BY <1>2, <1>9 DEF r

\* The rows are what the blocks make of the records, whatever the order they came
\* in, were batched or read again in, and however often the process died in
\* between (takePut, takeChange, settle and reauthorize of lib/index/indexer.js).
\* Where blocks alone say what the rows are: nothing is decided; a change names a
\* record of its type, as a delete of another block would settle its hole; and
\* nobody deletes a vote, as the one before it does not come back.
THEOREM RowsSafe ==
    ASSUME \A s \in Scenes : BlocksOnly(s)
    PROVE  Spec => []RowsMatchBlocks
<1> DEFINE Inv == Rowed
<1>1. Init => Inv
  <2> SUFFICES ASSUME Init PROVE Inv
    OBVIOUS
  <2>1. Shape /\ OneTask
    BY InitShape, InitOneTask
  <2>2. BlocksOnly(scene)
    BY DEF Init
  <2> QED
    BY <2>1, <2>2, InitRowInv DEF Rowed
<1>2. Inv /\ [Next]_vars => Inv'
  <2> SUFFICES ASSUME Inv, [Next]_vars PROVE Inv'
    OBVIOUS
  <2>1. Shape /\ OneTask /\ BlocksOnly(scene)
    BY RowedIs
  <2>2. Shape' /\ OneTask'
    BY <2>1, StepShape, OneTaskStep
  <2>3. BlocksOnly(scene)'
    BY <2>1, SceneStays, BlocksOnlyStays
  <2>4. RowInv'
    BY <2>2, RowedStays
  <2> QED
    BY <2>2, <2>3, <2>4 DEF Rowed
<1>3. Inv => RowsMatchBlocks
  <2> SUFFICES ASSUME Inv, Quiet
      PROVE  DOMAIN rows \subseteq Standing /\ Standing \ DOMAIN rows \subseteq Unrestored /\ \A i \in DOMAIN rows : rows[i] = RowOf(i)
    BY DEF RowsMatchBlocks
  <2> QED
    BY StandingIs, RowIs
<1> QED
  BY <1>1, <1>2, <1>3, PTL DEF Spec
=============================================================================
