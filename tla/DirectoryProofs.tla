-------------------------- MODULE DirectoryProofs --------------------------
(***************************************************************************)
(* The log directory, for any members, logs and scenes: whoever uses a log *)
(* has its core (UsesKeepCore), members keep to their bounds               *)
(* (DirectoryTypeOK), and the answers an exchange waits for are on their   *)
(* way (WaitingCounted).                                                   *)
(***************************************************************************)
EXTENDS Directory, FiniteSetTheorems, WellFoundedInduction, TLAPS

-----------------------------------------------------------------------------
(* Sequences.                                                              *)

\* The places I of a sequence are numbered from 1, so those(q, I) holds elements
\* of q at places of I, and as many.
LEMMA Those ==
    ASSUME NEW S, NEW q \in Seq(S), NEW I \in SUBSET (DOMAIN q)
    PROVE  /\ those(q, I) \in Seq(S)
           /\ Len(those(q, I)) = Cardinality(I) /\ Cardinality(I) <= Len(q)
           /\ \A n \in DOMAIN those(q, I) : \E i \in I : those(q, I)[n] = q[i]
<1> DEFINE upTo(i) == {j \in I : j <= i}
           rank == [i \in I |-> Cardinality(upTo(i))]
           c == Cardinality(I)
<1>1. /\ DOMAIN q = 1..Len(q) /\ Len(q) \in Nat /\ \A i \in I : i \in Int
      /\ IsFiniteSet(DOMAIN q) /\ Cardinality(DOMAIN q) = Len(q)
  <2>1. DOMAIN q = 1..Len(q) /\ Len(q) \in Nat
    OBVIOUS
  <2>2. \A i \in I : i \in Int
    BY <2>1
  <2>3. IsFiniteSet(1..Len(q)) /\ Cardinality(1..Len(q)) = Len(q)
    <3>1. 1 \in Int /\ Len(q) \in Int /\ (~ (1 > Len(q)) \/ Len(q) = 0)
      BY <2>1
    <3> QED
      BY <2>1, <3>1, FS_Interval
  <2> QED
    BY <2>1, <2>2, <2>3
<1>2. IsFiniteSet(I) /\ c \in Nat /\ c <= Len(q)
  BY <1>1, FS_Subset, FS_CardinalityType
<1>3. \A i \in I : upTo(i) \in SUBSET I /\ i \in upTo(i)
  BY <1>1
<1>4. ASSUME NEW i \in I PROVE rank[i] \in 1..c
  <2>1. IsFiniteSet(upTo(i)) /\ Cardinality(upTo(i)) \in Nat /\ Cardinality(upTo(i)) <= c
    BY <1>2, <1>3, FS_Subset, FS_CardinalityType
  <2>2. upTo(i) # {}
    BY <1>3
  <2>3. Cardinality(upTo(i)) # 0
    BY <2>1, <2>2, FS_EmptySet
  <2> HIDE DEF upTo
  <2> QED
    BY <1>2, <2>1, <2>3
<1>5. ASSUME NEW i \in I, NEW j \in I, rank[i] = rank[j] PROVE i = j
  <2>1. ASSUME NEW x \in I, NEW y \in I, rank[x] = rank[y], x < y PROVE FALSE
    <3>1. upTo(x) \in SUBSET upTo(y) /\ y \in upTo(y) /\ y \notin upTo(x)
      BY <1>1, <2>1
    <3>2. IsFiniteSet(upTo(y))
      BY <1>2, <1>3, FS_Subset
    <3>3. Cardinality(upTo(x)) = Cardinality(upTo(y))
      BY <2>1
    <3> HIDE DEF upTo
    <3> QED
      BY <3>1, <3>2, <3>3, FS_Subset
  <2>2. i < j \/ j < i \/ i = j
    BY <1>1
  <2> HIDE DEF rank
  <2> QED
    BY <1>5, <2>1, <2>2
<1>6. rank \in Injection(I, 1..c)
  <2> HIDE DEF rank
  <2>1. rank \in [I -> 1..c]
    BY <1>4 DEF rank
  <2> QED
    BY <1>5, <2>1 DEF Injection, IsInjective
<1>7. ASSUME NEW n \in 1..c PROVE \E i \in I : Cardinality(upTo(i)) = n
  <2>1. rank \in Surjection(I, 1..c)
    <3>1. IsFiniteSet(1..c) /\ Cardinality(1..c) = c
      BY <1>2, FS_Interval
    <3> QED
      BY <1>6, <3>1, FS_Injection
  <2>2. PICK i \in I : rank[i] = n
    BY <2>1 DEF Surjection
  <2> QED
    BY <2>2
<1> DEFINE at(n) == CHOOSE i \in I : Cardinality(upTo(i)) = n
<1>8. \A n \in 1..c : at(n) \in I
  BY <1>7
<1>9. those(q, I) = [n \in 1..c |-> q[at(n)]]
  BY DEF those
<1> HIDE DEF at, c
<1>10. \A i \in I : q[i] \in S
  OBVIOUS
<1>11. \A n \in 1..c : those(q, I)[n] = q[at(n)] /\ q[at(n)] \in S
  BY <1>8, <1>9, <1>10
<1>12. those(q, I) \in Seq(S) /\ Len(those(q, I)) = c /\ DOMAIN those(q, I) = 1..c
  BY <1>2, <1>9, <1>11
<1> QED
  BY <1>2, <1>8, <1>11, <1>12 DEF c

\* X has places I of a sequence, and those J of one put after it.
Places(n, k, I, J, X) ==
    /\ I \subseteq 1..n /\ J \subseteq 1..k /\ X \subseteq 1..(n + k)
    /\ \A i \in 1..n : i \in X <=> i \in I
    /\ \A j \in 1..k : n + j \in X <=> j \in J

LEMMA PlacesAdd ==
    ASSUME NEW n \in Nat, NEW k \in Nat, NEW I, NEW J, NEW X, Places(n, k, I, J, X)
    PROVE  /\ Cardinality(I) \in Nat /\ Cardinality(J) \in Nat
           /\ Cardinality(X) = Cardinality(I) + Cardinality(J)
<1>0. /\ I \subseteq 1..n /\ J \subseteq 1..k /\ X \subseteq 1..(n + k)
      /\ \A i \in 1..n : i \in X <=> i \in I
      /\ \A j \in 1..k : n + j \in X <=> j \in J
  BY DEF Places
<1> DEFINE K == {n + j : j \in J}
           f == [j \in J |-> n + j]
<1>1. IsFiniteSet(I) /\ IsFiniteSet(J) /\ Cardinality(I) \in Nat /\ Cardinality(J) \in Nat
  <2>1. IsFiniteSet(1..n) /\ IsFiniteSet(1..k)
    <3>1. 1 \in Int /\ n \in Int /\ k \in Int
      OBVIOUS
    <3> QED
      BY <3>1, FS_Interval
  <2>2. IsFiniteSet(I) /\ IsFiniteSet(J)
    BY <1>0, <2>1, FS_Subset
  <2> QED
    BY <2>2, FS_CardinalityType
<1>2. f \in Bijection(J, K)
  <2>1. \A j \in J : j \in Nat
    BY <1>0
  <2>2. f \in [J -> K] /\ \A y \in K : \E j \in J : f[j] = y
    OBVIOUS
  <2>3. \A i, j \in J : f[i] = f[j] => i = j
    BY <2>1
  <2> HIDE DEF f, K
  <2> QED
    BY <2>2, <2>3 DEF Bijection, Injection, Surjection, IsInjective
<1>3. IsFiniteSet(K) /\ Cardinality(K) = Cardinality(J)
  BY <1>1, <1>2, FS_Bijection DEF ExistsBijection
<1>4. I \cap K = {} /\ Cardinality({}) = 0
  <2>1. \A j \in J : n + j > n
    BY <1>0
  <2>2. \A i \in I : i \in Nat /\ i <= n
    BY <1>0
  <2>3. I \cap K = {}
    BY <2>1, <2>2
  <2> QED
    BY <2>3, FS_EmptySet
<1>5. Cardinality(I \cup K) = Cardinality(I) + Cardinality(K) - Cardinality(I \cap K)
  BY <1>1, <1>3, FS_Union
<1>6. \A i \in 1..(n + k) : i \in 1..n \/ (i - n \in 1..k /\ i = n + (i - n))
  OBVIOUS
<1>7. X = I \cup K
  BY <1>0, <1>6
<1> HIDE DEF K
<1>8. Cardinality(I \cap K) = 0
  BY <1>4
<1>9. Cardinality(X) = Cardinality(I \cup K)
  BY <1>7
<1>10. Cardinality(K) \in Nat
  BY <1>1, <1>3
<1> QED
  BY <1>1, <1>3, <1>5, <1>8, <1>9, <1>10

\* The messages of two sequences that ask for an answer, or are one.
LEMMA CountConcat ==
    ASSUME NEW S, NEW q \in Seq(S), NEW r \in Seq(S)
    PROVE  /\ toAnswer(q) \in Nat /\ answers(q) \in Nat /\ toAnswer(r) \in Nat /\ answers(r) \in Nat
           /\ toAnswer(q \o r) = toAnswer(q) + toAnswer(r)
           /\ answers(q \o r) = answers(q) + answers(r)
<1>1. /\ DOMAIN q = 1..Len(q) /\ DOMAIN r = 1..Len(r) /\ Len(q) \in Nat /\ Len(r) \in Nat
      /\ DOMAIN (q \o r) = 1..(Len(q) + Len(r))
      /\ \A i \in 1..Len(q) : (q \o r)[i] = q[i]
      /\ \A j \in 1..Len(r) : (q \o r)[Len(q) + j] = r[j]
  OBVIOUS
<1> DEFINE A(s) == {i \in DOMAIN s : answered(s[i])}
           D(s) == {i \in DOMAIN s : s[i].type = "keys" /\ s[i].kind = "done"}
<1>2. \A n, k \in Nat : (\A i \in 1..n : i \in 1..(n + k)) /\ (\A j \in 1..k : n + j \in 1..(n + k))
  OBVIOUS
<1>3. /\ A(q) \subseteq 1..Len(q) /\ A(r) \subseteq 1..Len(r) /\ A(q \o r) \subseteq 1..(Len(q) + Len(r))
      /\ D(q) \subseteq 1..Len(q) /\ D(r) \subseteq 1..Len(r) /\ D(q \o r) \subseteq 1..(Len(q) + Len(r))
  BY <1>1
<1>4. /\ \A i \in 1..Len(q) : i \in A(q \o r) <=> i \in A(q)
      /\ \A j \in 1..Len(r) : Len(q) + j \in A(q \o r) <=> j \in A(r)
  BY <1>1, <1>2 DEF answered
<1>5. /\ \A i \in 1..Len(q) : i \in D(q \o r) <=> i \in D(q)
      /\ \A j \in 1..Len(r) : Len(q) + j \in D(q \o r) <=> j \in D(r)
  BY <1>1, <1>2
<1>6. toAnswer(q) = Cardinality(A(q)) /\ toAnswer(r) = Cardinality(A(r)) /\ toAnswer(q \o r) = Cardinality(A(q \o r))
  BY DEF toAnswer
<1>7. answers(q) = Cardinality(D(q)) /\ answers(r) = Cardinality(D(r)) /\ answers(q \o r) = Cardinality(D(q \o r))
  BY DEF answers
<1> HIDE DEF A, D
<1>8. /\ Cardinality(A(q)) \in Nat /\ Cardinality(A(r)) \in Nat
      /\ Cardinality(A(q \o r)) = Cardinality(A(q)) + Cardinality(A(r))
  <2>1. Places(Len(q), Len(r), A(q), A(r), A(q \o r))
    BY <1>3, <1>4 DEF Places
  <2> QED
    BY <1>1, <2>1, PlacesAdd
<1>9. /\ Cardinality(D(q)) \in Nat /\ Cardinality(D(r)) \in Nat
      /\ Cardinality(D(q \o r)) = Cardinality(D(q)) + Cardinality(D(r))
  <2>1. Places(Len(q), Len(r), D(q), D(r), D(q \o r))
    BY <1>3, <1>5 DEF Places
  <2> QED
    BY <1>1, <2>1, PlacesAdd
<1> QED
  BY <1>6, <1>7, <1>8, <1>9

LEMMA CountOne ==
    /\ toAnswer(<<>>) = 0 /\ answers(<<>>) = 0
    /\ \A x : /\ toAnswer(<<x>>) = IF answered(x) THEN 1 ELSE 0
              /\ answers(<<x>>) = IF x.type = "keys" /\ x.kind = "done" THEN 1 ELSE 0
<1>1. \A p : {i \in DOMAIN <<p>> : answered(<<p>>[i])} = IF answered(p) THEN {1} ELSE {}
  OBVIOUS
<1>2. \A p : {i \in DOMAIN <<p>> : <<p>>[i].type = "keys" /\ <<p>>[i].kind = "done"} =
                 IF p.type = "keys" /\ p.kind = "done" THEN {1} ELSE {}
  OBVIOUS
<1>3. Cardinality({}) = 0 /\ Cardinality({1}) = 1
  BY FS_EmptySet, FS_Singleton
<1>4. /\ {i \in DOMAIN <<>> : answered(<<>>[i])} = {}
      /\ {i \in DOMAIN <<>> : <<>>[i].type = "keys" /\ <<>>[i].kind = "done"} = {}
  OBVIOUS
<1> QED
  BY <1>1, <1>2, <1>3, <1>4 DEF toAnswer, answers

\* The first message is counted, and the rest.
LEMMA CountHead ==
    ASSUME NEW S, NEW q \in Seq(S), q # <<>>
    PROVE  /\ Tail(q) \in Seq(S) /\ Head(q) \in S
           /\ toAnswer(q) = toAnswer(Tail(q)) + (IF answered(Head(q)) THEN 1 ELSE 0)
           /\ answers(q) = answers(Tail(q)) + (IF Head(q).type = "keys" /\ Head(q).kind = "done" THEN 1 ELSE 0)
<1>1. /\ Tail(q) \in Seq(S) /\ Head(q) \in S /\ <<Head(q)>> \in Seq(S)
      /\ q = <<Head(q)>> \o Tail(q)
  OBVIOUS
<1>2. /\ toAnswer(q) = toAnswer(<<Head(q)>>) + toAnswer(Tail(q))
      /\ answers(q) = answers(<<Head(q)>>) + answers(Tail(q))
      /\ toAnswer(Tail(q)) \in Nat /\ answers(Tail(q)) \in Nat
  BY <1>1, CountConcat
<1> QED
  BY <1>1, <1>2, CountOne
-----------------------------------------------------------------------------
(* Recursion.                                                              *)

LEMMA Induct ==
    ASSUME NEW T, 0 \in T, \A n \in Nat : n \in T => n + 1 \in T
    PROVE  \A n \in Nat : n \in T
<1> DEFINE Bad == {n \in Nat : n \notin T}
           before == OpToRel(<, Nat)
<1> SUFFICES ASSUME Bad # {} PROVE FALSE
  OBVIOUS
<1>1. before = {p \in Nat \X Nat : p[1] < p[2]}
  BY DEF OpToRel
<1> HIDE DEF before
<1>2. PICK m \in Bad : \A y \in Bad : <<y, m>> \notin before
  BY NatLessThanWellFounded, WFMin DEF before
<1>3. m \in Nat /\ m \notin T /\ m # 0
  BY <1>2
<1>4. m - 1 \in Nat /\ m - 1 < m /\ (m - 1) + 1 = m
  BY <1>3
<1>5. m - 1 \in T
  BY <1>1, <1>2, <1>3, <1>4
<1> QED
  BY <1>3, <1>4, <1>5

\* A function that goes step by step through S.
Stepwise(D, a, G, f) == f = [n \in D |-> IF n = 0 THEN a ELSE G[n][f[n - 1]]]

\* There is one, on numbers or up to one of them, and it stays in S.
LEMMA StepwiseExists ==
    ASSUME NEW S, NEW a \in S, NEW G \in [Nat -> [S -> S]],
           NEW D \in SUBSET Nat, \A n \in D : n # 0 => n - 1 \in D
    PROVE  \E f \in [D -> S] : Stepwise(D, a, G, f)
<1> DEFINE Right(n, h) == /\ h[0] = a
                          /\ \A i \in Nat : i < n => h[i + 1] = G[i + 1][h[i]]
           T == {n \in Nat : \E h \in [Nat -> S] : Right(n, h)}
<1>1. 0 \in T
  <2>1. Right(0, [n \in Nat |-> a])
    OBVIOUS
  <2> QED
    BY <2>1
<1>2. ASSUME NEW n \in Nat, n \in T PROVE n + 1 \in T
  <2>1. PICK h \in [Nat -> S] : Right(n, h)
    BY <1>2
  <2> DEFINE g == [h EXCEPT ![n + 1] = G[n + 1][h[n]]]
  <2>2. g \in [Nat -> S] /\ n + 1 \in Nat
    OBVIOUS
  <2>3. g[0] = a
    BY <2>1
  <2>4. ASSUME NEW i \in Nat, i < n + 1 PROVE g[i + 1] = G[i + 1][g[i]]
    <3>1. g[i] = h[i]
      BY <2>4
    <3>2. CASE i = n
      BY <3>1, <3>2
    <3>3. CASE i < n
      <4>1. g[i + 1] = h[i + 1]
        BY <3>3
      <4> QED
        BY <2>1, <3>1, <3>3, <4>1
    <3> QED
      BY <2>4, <3>2, <3>3
  <2> HIDE DEF g
  <2> QED
    BY <2>2, <2>3, <2>4
<1>3. \A n \in Nat : \E h \in [Nat -> S] : Right(n, h)
  <2> HIDE DEF Right
  <2>1. \A n \in Nat : n \in T
    <3> HIDE DEF T
    <3> QED
      BY <1>1, <1>2, Induct
  <2> QED
    BY <2>1
<1>4. ASSUME NEW n \in Nat, NEW k \in Nat, n <= k, NEW g, NEW h, Right(n, g), Right(k, h)
      PROVE  \A i \in Nat : i <= n => g[i] = h[i]
  <2> DEFINE U == {i \in Nat : i <= n => g[i] = h[i]}
  <2>1. 0 \in U
    BY <1>4
  <2>2. ASSUME NEW i \in Nat, i \in U PROVE i + 1 \in U
    <3> SUFFICES ASSUME i + 1 <= n PROVE g[i + 1] = h[i + 1]
      OBVIOUS
    <3>1. i < n /\ i <= n /\ i < k
      BY <1>4
    <3> QED
      BY <1>4, <2>2, <3>1
  <2>3. \A i \in Nat : i \in U
    <3> HIDE DEF U
    <3> QED
      BY <2>1, <2>2, Induct
  <2> QED
    BY <2>3
<1> DEFINE H(n) == CHOOSE h \in [Nat -> S] : Right(n, h)
           f == [n \in D |-> H(n)[n]]
<1>5. \A n \in Nat : H(n) \in [Nat -> S] /\ Right(n, H(n))
  <2> HIDE DEF Right
  <2> QED
    BY <1>3
<1> HIDE DEF H
<1>6. f \in [D -> S]
  BY <1>5
<1>7. ASSUME NEW n \in D PROVE f[n] = IF n = 0 THEN a ELSE G[n][f[n - 1]]
  <2>1. CASE n = 0
    BY <1>5, <2>1
  <2>2. CASE n # 0
    <3>1. n - 1 \in D /\ n - 1 \in Nat /\ n - 1 < n /\ n - 1 <= n /\ (n - 1) + 1 = n
      BY <2>2
    <3>2. H(n)[n] = G[n][H(n)[n - 1]]
      BY <1>5, <3>1
    <3>3. H(n - 1)[n - 1] = H(n)[n - 1]
      <4>1. Right(n, H(n)) /\ Right(n - 1, H(n - 1))
        BY <1>5, <3>1
      <4>2. n - 1 <= n - 1 /\ n \in Nat
        BY <3>1
      <4> HIDE DEF Right
      <4> QED
        BY <1>4, <3>1, <4>1, <4>2
    <3> QED
      BY <2>2, <3>1, <3>2, <3>3
  <2> QED
    BY <2>1, <2>2
<1>8. f = [n \in D |-> f[n]]
  OBVIOUS
<1> HIDE DEF f
<1>9. Stepwise(D, a, G, f)
  BY <1>7, <1>8 DEF Stepwise
<1> QED
  BY <1>6, <1>9
-----------------------------------------------------------------------------
(* Header fetches.                                                         *)

Fetch == [queue : Seq(Keys), run : [Keys -> {"no", "plain", "urgent"}], dropped : BOOLEAN]

\* Within the bounds, and nothing both waits and is under way.
FetchOK(f) ==
    /\ f \in Fetch
    /\ Cardinality(running(f, "plain")) <= FETCHES /\ Cardinality(running(f, "urgent")) <= FETCHES
    /\ Len(f.queue) <= MAX_QUEUE
    /\ \A k \in Keys : f.run[k] # "no" => k \notin ToSet(f.queue)

LEMMA RunningFinite ==
    ASSUME NEW f, NEW how
    PROVE  IsFiniteSet(running(f, how)) /\ Cardinality(running(f, how)) \in Nat
<1>1. running(f, how) \in SUBSET Keys
  BY DEF running
<1> QED
  BY <1>1, DirectoryAssumption, FS_Subset, FS_CardinalityType

LEMMA ExceptKey ==
    ASSUME NEW q \in Seq(Keys), NEW k
    PROVE  /\ except(q, k) \in Seq(Keys) /\ Len(except(q, k)) <= Len(q)
           /\ ToSet(except(q, k)) \subseteq ToSet(q) \ {k}
<1> DEFINE I == {n \in DOMAIN q : q[n] # k}
<1>1. I \in SUBSET (DOMAIN q)
  OBVIOUS
<1>2. /\ those(q, I) \in Seq(Keys)
      /\ Len(those(q, I)) = Cardinality(I) /\ Cardinality(I) <= Len(q)
      /\ \A n \in DOMAIN those(q, I) : \E i \in I : those(q, I)[n] = q[i]
  BY <1>1, Those
<1>3. except(q, k) = those(q, I)
  BY DEF except
<1> QED
  BY <1>2, <1>3 DEF ToSet

LEMMA AppendSet ==
    ASSUME NEW S, NEW q \in Seq(S), NEW x \in S
    PROVE  /\ Append(q, x) \in Seq(S) /\ Len(Append(q, x)) = Len(q) + 1 /\ Len(q) \in Nat
           /\ ToSet(Append(q, x)) \subseteq ToSet(q) \cup {x}
<1>1. /\ Append(q, x) \in Seq(S) /\ Len(Append(q, x)) = Len(q) + 1 /\ Len(q) \in Nat
      /\ DOMAIN q = 1..Len(q) /\ DOMAIN Append(q, x) = 1..(Len(q) + 1)
  OBVIOUS
<1>2. \A i \in 1..(Len(q) + 1) : Append(q, x)[i] = IF i = Len(q) + 1 THEN x ELSE q[i]
  OBVIOUS
<1>3. \A i \in 1..(Len(q) + 1) : i = Len(q) + 1 \/ i \in 1..Len(q)
  BY <1>1
<1> QED
  BY <1>1, <1>2, <1>3 DEF ToSet

\* Nothing starts; one may wait more.
LEMMA FetchWaits ==
    ASSUME NEW f, FetchOK(f), NEW g \in Fetch, g.run = f.run, Len(g.queue) <= MAX_QUEUE,
           NEW k, k \in Keys => f.run[k] = "no", ToSet(g.queue) \subseteq ToSet(f.queue) \cup {k}
    PROVE  FetchOK(g)
<1>1. running(g, "plain") = running(f, "plain") /\ running(g, "urgent") = running(f, "urgent")
  BY DEF running
<1> QED
  BY <1>1 DEF FetchOK

\* One starts.
LEMMA FetchStarts ==
    ASSUME NEW f, FetchOK(f), NEW g \in Fetch, NEW how \in {"plain", "urgent"}, NEW k \in Keys,
           f.run[k] = "no", g.run = [f.run EXCEPT ![k] = how], g.queue = except(f.queue, k),
           Cardinality(running(f, how)) < FETCHES
    PROVE  FetchOK(g)
<1>1. f.queue \in Seq(Keys) /\ f.run \in [Keys -> {"no", "plain", "urgent"}]
  BY DEF FetchOK, Fetch
<1>2. /\ except(f.queue, k) \in Seq(Keys) /\ Len(except(f.queue, k)) <= Len(f.queue)
      /\ ToSet(except(f.queue, k)) \subseteq ToSet(f.queue) \ {k}
  BY <1>1, ExceptKey
<1>3. \A j \in Keys : g.run[j] = IF j = k THEN how ELSE f.run[j]
  BY <1>1
<1>4. \A other \in {"plain", "urgent"} :
          running(g, other) = IF other = how THEN running(f, other) \cup {k} ELSE running(f, other)
  BY <1>3 DEF running
<1>5. k \notin running(f, how)
  BY DEF running
<1>6. Cardinality(running(g, how)) <= FETCHES
  <2>1. Cardinality(running(f, how) \cup {k}) = Cardinality(running(f, how)) + 1
    BY <1>5, RunningFinite, FS_AddElement
  <2>2. running(g, how) = running(f, how) \cup {k}
    BY <1>4
  <2>3. Cardinality(running(f, how)) + 1 <= FETCHES
    <3>1. Cardinality(running(f, how)) \in Nat /\ FETCHES \in Nat
      BY RunningFinite, DirectoryAssumption
    <3> QED
      BY <3>1
  <2> QED
    BY <2>1, <2>2, <2>3
<1>7. \A other \in {"plain", "urgent"} : Cardinality(running(g, other)) <= FETCHES
  BY <1>4, <1>6 DEF FetchOK
<1>8. Len(g.queue) <= MAX_QUEUE
  <2>1. Len(f.queue) \in Nat /\ Len(except(f.queue, k)) \in Nat /\ Len(f.queue) <= MAX_QUEUE /\ MAX_QUEUE \in Nat
    BY <1>1, <1>2, DirectoryAssumption DEF FetchOK
  <2> QED
    BY <1>2, <2>1
<1>9. \A j \in Keys : g.run[j] # "no" => j \notin ToSet(g.queue)
  BY <1>2, <1>3 DEF FetchOK
<1> QED
  BY <1>7, <1>8, <1>9 DEF FetchOK

\* A fetch that is asked for starts, waits, or is forgotten.
LEMMA StartOK ==
    ASSUME NEW f, FetchOK(f), NEW k \in Keys, f.run[k] = "no", NEW urgent \in BOOLEAN
    PROVE  /\ FetchOK(start(f, k, urgent))
           /\ \A j \in Keys : j # k => start(f, k, urgent).run[j] = f.run[j]
           /\ ToSet(start(f, k, urgent).queue) \subseteq ToSet(f.queue) \cup {k}
<1>1. /\ f \in Fetch /\ f.queue \in Seq(Keys) /\ f.run \in [Keys -> {"no", "plain", "urgent"}]
      /\ Len(f.queue) \in Nat /\ Len(f.queue) <= MAX_QUEUE
  BY DEF FetchOK, Fetch
<1>2. SUFFICES ASSUME NEW g, g = start(f, k, urgent)
               PROVE  /\ FetchOK(g) /\ \A j \in Keys : j # k => g.run[j] = f.run[j]
                      /\ ToSet(g.queue) \subseteq ToSet(f.queue) \cup {k}
  OBVIOUS
<1>3. \/ g = f \/ g = [f EXCEPT !.dropped = TRUE]
      \/ /\ g = [f EXCEPT !.queue = IF k \in ToSet(f.queue) THEN @ ELSE Append(@, k)]
         /\ Len(f.queue) < MAX_QUEUE
      \/ \E how \in {"plain", "urgent"} : /\ g = [f EXCEPT !.queue = except(@, k), !.run[k] = how]
                                          /\ Cardinality(running(f, how)) < FETCHES
  <2>1. Len(f.queue) \in Nat /\ MAX_QUEUE \in Nat /\ FETCHES \in Nat
    BY <1>1, DirectoryAssumption
  <2>2. Cardinality(running(f, "plain")) \in Nat
    BY RunningFinite
  <2>3. /\ ~ (Len(f.queue) >= MAX_QUEUE) => Len(f.queue) < MAX_QUEUE
        /\ ~ (Cardinality(running(f, "plain")) >= FETCHES) => Cardinality(running(f, "plain")) < FETCHES
    BY <2>1, <2>2
  <2> QED
    BY <1>2, <2>3 DEF start
<1>4. CASE g = f
  BY <1>4
<1>5. CASE g = [f EXCEPT !.dropped = TRUE]
  <2>1. g \in Fetch /\ g.queue = f.queue /\ g.run = f.run
    BY <1>1, <1>5 DEF Fetch
  <2> QED
    BY <1>1, <2>1, FetchWaits
<1>6. CASE /\ g = [f EXCEPT !.queue = IF k \in ToSet(f.queue) THEN @ ELSE Append(@, k)]
           /\ Len(f.queue) < MAX_QUEUE
  <2>1. /\ Append(f.queue, k) \in Seq(Keys) /\ Len(Append(f.queue, k)) = Len(f.queue) + 1
        /\ ToSet(Append(f.queue, k)) \subseteq ToSet(f.queue) \cup {k}
    BY <1>1, AppendSet
  <2>2. g.run = f.run /\ g.queue = IF k \in ToSet(f.queue) THEN f.queue ELSE Append(f.queue, k)
    BY <1>1, <1>6 DEF Fetch
  <2>3. g = [f EXCEPT !.queue = g.queue] /\ g.queue \in Seq(Keys)
    BY <1>1, <1>6, <2>1, <2>2
  <2>4. g \in Fetch
    BY <1>1, <2>3 DEF Fetch
  <2>5. Len(g.queue) <= MAX_QUEUE
    BY <1>1, <1>6, <2>1, <2>2, DirectoryAssumption
  <2>6. ToSet(g.queue) \subseteq ToSet(f.queue) \cup {k}
    BY <2>1, <2>2
  <2> QED
    BY <2>2, <2>4, <2>5, <2>6, FetchWaits
<1>7. ASSUME NEW how \in {"plain", "urgent"}, g = [f EXCEPT !.queue = except(@, k), !.run[k] = how],
             Cardinality(running(f, how)) < FETCHES
      PROVE  /\ FetchOK(g) /\ \A j \in Keys : j # k => g.run[j] = f.run[j]
             /\ ToSet(g.queue) \subseteq ToSet(f.queue) \cup {k}
  <2>1. g.queue = except(f.queue, k) /\ g.run = [f.run EXCEPT ![k] = how] /\ g.dropped = f.dropped
    BY <1>1, <1>7 DEF Fetch
  <2>2. except(f.queue, k) \in Seq(Keys) /\ ToSet(except(f.queue, k)) \subseteq ToSet(f.queue) \ {k}
    BY <1>1, ExceptKey
  <2>3. g = [[f EXCEPT !.queue = g.queue] EXCEPT !.run = g.run]
    BY <1>1, <1>7, <2>1 DEF Fetch
  <2>4. g.queue \in Seq(Keys) /\ g.run \in [Keys -> {"no", "plain", "urgent"}]
    BY <1>1, <2>1, <2>2
  <2>5. g \in Fetch
    BY <1>1, <2>3, <2>4 DEF Fetch
  <2>6. \A j \in Keys : j # k => g.run[j] = f.run[j]
    BY <1>1, <2>1
  <2> QED
    BY <1>7, <2>1, <2>2, <2>5, <2>6, FetchStarts
<1> QED
  BY <1>3, <1>4, <1>5, <1>6, <1>7


\* From f to g, at m: only logs of ks start or wait, and only logs neither held nor
\* refused start.
Only(m, f, ks, g) ==
    /\ \A k \in Keys : g.run[k] # "no" =>
           f.run[k] # "no" \/ (k \in ks /\ ~logs[m][k].held /\ k \notin refused[m])
    /\ ToSet(g.queue) \subseteq ToSet(f.queue) \cup ks

LEMMA ConsiderOK ==
    ASSUME NEW m, NEW f, NEW ks, NEW g, FetchOK(g), Only(m, f, ks, g),
           NEW k \in Keys, (k \in ks) \/ (k \in ToSet(f.queue) /\ ks = ToSet(f.queue)), NEW urgent \in BOOLEAN
    PROVE  FetchOK(consider(m, g, k, urgent)) /\ Only(m, f, ks, consider(m, g, k, urgent))
<1> SUFFICES ASSUME NEW h, h = consider(m, g, k, urgent) PROVE FetchOK(h) /\ Only(m, f, ks, h)
  OBVIOUS
<1>1. \/ h = g
      \/ h = start(g, k, urgent) /\ g.run[k] = "no" /\ ~logs[m][k].held /\ k \notin refused[m]
  BY DEF consider
<1>2. CASE h = start(g, k, urgent) /\ g.run[k] = "no" /\ ~logs[m][k].held /\ k \notin refused[m]
  <2>1. /\ FetchOK(h) /\ \A j \in Keys : j # k => h.run[j] = g.run[j]
        /\ ToSet(h.queue) \subseteq ToSet(g.queue) \cup {k}
    BY <1>2, StartOK
  <2> QED
    BY <1>2, <2>1 DEF Only
<1> QED
  BY <1>1, <1>2

\* The keys of a set, in some order.
LEMMA KeysInOrder ==
    ASSUME NEW ks \in SUBSET Keys
    PROVE  SetToSeq(ks) \in Seq(ks)
<1>1. IsFiniteSet(ks) /\ Cardinality(ks) \in Nat /\ ExistsBijection(1 .. Cardinality(ks), ks)
  BY DirectoryAssumption, FS_Subset, FS_CardinalityType
<1>2. \E q \in [1 .. Cardinality(ks) -> ks] : IsInjective(q)
  BY <1>1 DEF ExistsBijection, Bijection, Injection
<1>3. SetToSeq(ks) \in [1 .. Cardinality(ks) -> ks]
  BY <1>2 DEF SetToSeq
<1> QED
  BY <1>1, <1>3

\* A function that goes on as it began stays in S.
LEMMA StaysIn ==
    ASSUME NEW S, NEW D \in SUBSET Nat, \A n \in D : n # 0 => n - 1 \in D, NEW g,
           \A n \in D : n = 0 => g[n] \in S,
           \A n \in D : n # 0 /\ g[n - 1] \in S => g[n] \in S
    PROVE  \A n \in D : g[n] \in S
<1> DEFINE T == {n \in Nat : n \in D => g[n] \in S}
<1>1. 0 \in T
  OBVIOUS
<1>2. ASSUME NEW n \in Nat, n \in T PROVE n + 1 \in T
  <2>1. n + 1 # 0 /\ (n + 1) - 1 = n /\ n + 1 \in Nat
    OBVIOUS
  <2> QED
    BY <1>2, <2>1
<1>3. \A n \in Nat : n \in T
  <2> HIDE DEF T
  <2> QED
    BY <1>1, <1>2, Induct
<1> QED
  BY <1>3

\* Logs considered one after the other.
Considering(m, f, s, g) ==
    g = [n \in 0 .. Len(s) |-> IF n = 0 THEN f ELSE consider(m, g[n - 1], s[n], FALSE)]

LEMMA ConsiderAllOK ==
    ASSUME NEW m, NEW f, FetchOK(f), NEW ks \in SUBSET Keys
    PROVE  FetchOK(considerAll(m, f, ks)) /\ Only(m, f, ks, considerAll(m, f, ks))
<1> DEFINE s == SetToSeq(ks)
           S == {g \in Fetch : FetchOK(g) /\ Only(m, f, ks, g)}
           G == [n \in Nat |-> [h \in S |-> IF n \in DOMAIN s THEN consider(m, h, s[n], FALSE) ELSE h]]
           D == 0 .. Len(s)
<1>1. /\ s \in Seq(ks) /\ Len(s) \in Nat /\ DOMAIN s = 1 .. Len(s) /\ D \in SUBSET Nat
      /\ \A n \in D : n # 0 => n - 1 \in D /\ n \in DOMAIN s
      /\ 0 \in D /\ Len(s) \in D
  BY KeysInOrder
<1>2. f \in S
  BY DEF FetchOK, Only
<1>3. \A n \in DOMAIN s : s[n] \in ks /\ s[n] \in Keys
  BY <1>1
<1> HIDE DEF s
<1>4. ASSUME NEW n \in DOMAIN s, NEW h \in S PROVE consider(m, h, s[n], FALSE) \in S
  <2>1. FetchOK(h) /\ Only(m, f, ks, h) /\ s[n] \in Keys /\ s[n] \in ks
    BY <1>3
  <2>2. FetchOK(consider(m, h, s[n], FALSE)) /\ Only(m, f, ks, consider(m, h, s[n], FALSE))
    <3>1. PICK k \in Keys : k = s[n]
      BY <2>1
    <3>2. k \in ks
      BY <2>1, <3>1
    <3>3. FetchOK(consider(m, h, k, FALSE)) /\ Only(m, f, ks, consider(m, h, k, FALSE))
      <4> HIDE DEF S, G, D
      <4> QED
        BY <2>1, <3>2, ConsiderOK
    <3> QED
      BY <3>1, <3>3
  <2> QED
    BY <2>2 DEF FetchOK
<1> HIDE DEF S
<1>5. G \in [Nat -> [S -> S]]
  BY <1>4
<1>6. PICK e \in [D -> S] : Stepwise(D, f, G, e)
  <2> HIDE DEF G, D
  <2> QED
    BY <1>1, <1>2, <1>5, StepwiseExists
<1>7. Considering(m, f, s, e)
  <2>1. ASSUME NEW n \in D PROVE e[n] = IF n = 0 THEN f ELSE consider(m, e[n - 1], s[n], FALSE)
    <3>1. e[n] = IF n = 0 THEN f ELSE G[n][e[n - 1]]
      <4> HIDE DEF G, D
      <4> QED
        BY <1>6 DEF Stepwise
    <3>2. n # 0 => n \in Nat /\ n \in DOMAIN s /\ e[n - 1] \in S
      BY <1>1
    <3>3. n # 0 => G[n][e[n - 1]] = consider(m, e[n - 1], s[n], FALSE)
      BY <3>2
    <3> QED
      BY <3>1, <3>3
  <2>2. e = [n \in D |-> e[n]]
    OBVIOUS
  <2> HIDE DEF G
  <2> QED
    BY <2>1, <2>2 DEF Considering
<1>8. \E g : Considering(m, f, s, g) /\ considerAll(m, f, ks) = g[Len(s)]
  BY <1>7 DEF considerAll, Considering, s
<1>9. PICK g : Considering(m, f, s, g) /\ considerAll(m, f, ks) = g[Len(s)]
  BY <1>8
<1>10. \A n \in D : g[n] = IF n = 0 THEN f ELSE consider(m, g[n - 1], s[n], FALSE)
  BY <1>9 DEF Considering
<1>11. \A n \in D : g[n] \in S
  <2>1. \A n \in D : n = 0 => g[n] \in S
    BY <1>2, <1>10
  <2>2. \A n \in D : n # 0 /\ g[n - 1] \in S => g[n] \in S
    BY <1>1, <1>4, <1>10
  <2> HIDE DEF D
  <2> QED
    BY <1>1, <2>1, <2>2, StaysIn
<1>12. g[Len(s)] \in S
  BY <1>1, <1>11
<1> QED
  BY <1>9, <1>12 DEF S

\* The first of those waiting leaves the queue.
LEMMA QueueTail ==
    ASSUME NEW m, NEW f, NEW g, FetchOK(g), Only(m, f, ToSet(f.queue), g), g.queue # <<>>
    PROVE  /\ FetchOK([g EXCEPT !.queue = Tail(@)]) /\ Only(m, f, ToSet(f.queue), [g EXCEPT !.queue = Tail(@)])
           /\ Head(g.queue) \in Keys /\ Head(g.queue) \in ToSet(f.queue)
<1>1. /\ g \in Fetch /\ g.queue \in Seq(Keys) /\ Len(g.queue) \in Nat /\ Len(g.queue) <= MAX_QUEUE
      /\ Tail(g.queue) \in Seq(Keys) /\ Len(Tail(g.queue)) = Len(g.queue) - 1 /\ Len(g.queue) > 0
  BY DEF FetchOK, Fetch
<1>2. ToSet(Tail(g.queue)) \subseteq ToSet(g.queue)
  <2>1. DOMAIN g.queue = 1 .. Len(g.queue) /\ DOMAIN Tail(g.queue) = 1 .. Len(g.queue) - 1
    BY <1>1
  <2>2. \A i \in 1 .. Len(g.queue) - 1 : Tail(g.queue)[i] = g.queue[i + 1] /\ i + 1 \in 1 .. Len(g.queue)
    BY <1>1
  <2> QED
    BY <2>1, <2>2 DEF ToSet
<1>3. Head(g.queue) \in ToSet(g.queue) /\ Head(g.queue) \in Keys
  <2>1. 1 \in DOMAIN g.queue /\ Head(g.queue) = g.queue[1] /\ Head(g.queue) \in Keys
    BY <1>1
  <2> QED
    BY <2>1 DEF ToSet
<1>4. ToSet(g.queue) \subseteq ToSet(f.queue)
  BY DEF Only
<1>5. ASSUME NEW h, h = [g EXCEPT !.queue = Tail(@)]
      PROVE  FetchOK(h) /\ Only(m, f, ToSet(f.queue), h)
  <2>1. h \in Fetch /\ h.run = g.run /\ h.queue = Tail(g.queue)
    BY <1>1, <1>5 DEF Fetch
  <2>2. running(h, "plain") = running(g, "plain") /\ running(h, "urgent") = running(g, "urgent")
    BY <2>1 DEF running
  <2>3. Len(h.queue) <= MAX_QUEUE
    BY <1>1, <2>1, DirectoryAssumption
  <2>4. FetchOK(h)
    BY <1>2, <2>1, <2>2, <2>3 DEF FetchOK
  <2>5. Only(m, f, ToSet(f.queue), h)
    BY <1>2, <2>1 DEF Only
  <2> QED
    BY <2>4, <2>5
<1> QED
  BY <1>3, <1>4, <1>5

\* Those waiting take their turn.
turn(m, g) ==
    IF g.queue = <<>> \/ Cardinality(running(g, "plain")) >= FETCHES THEN g
    ELSE consider(m, [g EXCEPT !.queue = Tail(@)], Head(g.queue), FALSE)
Turns(m, f, g) == g = [n \in Nat |-> IF n = 0 THEN f ELSE turn(m, g[n - 1])]

LEMMA NextFetchOK ==
    ASSUME NEW m, NEW f, FetchOK(f)
    PROVE  FetchOK(nextFetch(m, f)) /\ Only(m, f, ToSet(f.queue), nextFetch(m, f))
<1> DEFINE S == {g \in Fetch : FetchOK(g) /\ Only(m, f, ToSet(f.queue), g)}
           G == [n \in Nat |-> [h \in S |-> turn(m, h)]]
<1>1. f \in S /\ Len(f.queue) \in Nat
  BY DEF FetchOK, Only, Fetch
<1>2. ASSUME NEW h \in S PROVE turn(m, h) \in S
  <2>1. CASE h.queue = <<>> \/ Cardinality(running(h, "plain")) >= FETCHES
    BY <2>1 DEF turn
  <2>2. CASE ~ (h.queue = <<>> \/ Cardinality(running(h, "plain")) >= FETCHES)
    <3>1. PICK j : j = [h EXCEPT !.queue = Tail(@)]
      OBVIOUS
    <3>2. /\ FetchOK(j) /\ Only(m, f, ToSet(f.queue), j)
          /\ Head(h.queue) \in Keys /\ Head(h.queue) \in ToSet(f.queue)
      BY <2>2, <3>1, QueueTail
    <3>3. /\ FetchOK(consider(m, j, Head(h.queue), FALSE))
          /\ Only(m, f, ToSet(f.queue), consider(m, j, Head(h.queue), FALSE))
      BY <3>2, ConsiderOK
    <3>4. turn(m, h) = consider(m, j, Head(h.queue), FALSE)
      BY <2>2, <3>1 DEF turn
    <3> QED
      BY <3>3, <3>4 DEF FetchOK
  <2> QED
    BY <2>1, <2>2
<1> HIDE DEF S
<1>3. G \in [Nat -> [S -> S]]
  BY <1>2
<1>4. PICK e \in [Nat -> S] : Stepwise(Nat, f, G, e)
  <2>1. Nat \in SUBSET Nat /\ \A n \in Nat : n # 0 => n - 1 \in Nat
    OBVIOUS
  <2> HIDE DEF G
  <2> QED
    BY <1>1, <1>3, <2>1, StepwiseExists
<1>5. Turns(m, f, e)
  <2>1. ASSUME NEW n \in Nat PROVE e[n] = IF n = 0 THEN f ELSE turn(m, e[n - 1])
    <3>1. e[n] = IF n = 0 THEN f ELSE G[n][e[n - 1]]
      <4> HIDE DEF G
      <4> QED
        BY <1>4 DEF Stepwise
    <3>2. n # 0 => e[n - 1] \in S
      OBVIOUS
    <3> QED
      BY <3>1, <3>2
  <2>2. e = [n \in Nat |-> e[n]]
    OBVIOUS
  <2> HIDE DEF G
  <2> QED
    BY <2>1, <2>2 DEF Turns
<1>6. PICK g : Turns(m, f, g) /\ nextFetch(m, f) = g[Len(f.queue)]
  <2>1. \E g : Turns(m, f, g) /\ nextFetch(m, f) = g[Len(f.queue)]
    BY <1>5 DEF nextFetch, Turns, turn
  <2> QED
    BY <2>1
<1>7. \A n \in Nat : g[n] = IF n = 0 THEN f ELSE turn(m, g[n - 1])
  BY <1>6 DEF Turns
<1>8. \A n \in Nat : g[n] \in S
  <2>1. \A n \in Nat : n = 0 => g[n] \in S
    BY <1>1, <1>7
  <2>2. \A n \in Nat : n # 0 /\ g[n - 1] \in S => g[n] \in S
    BY <1>2, <1>7
  <2>3. Nat \in SUBSET Nat /\ \A n \in Nat : n # 0 => n - 1 \in Nat
    OBVIOUS
  <2> QED
    BY <2>1, <2>2, <2>3, StaysIn
<1> QED
  BY <1>1, <1>6, <1>8 DEF S

-----------------------------------------------------------------------------
(* A log and a read of it.                                                 *)

Log == [held : BOOLEAN, length : Nat, listed : Int, limit : Nat, claim : Int, saved : Int, core : BOOLEAN,
        opening : BOOLEAN, closing : BOOLEAN, uses : Int, timer : BOOLEAN, busy : BOOLEAN, look : BOOLEAN]

\* What is used is open or about to be, and the uses are those of a download (busy)
\* and of the read r.
CoreUsed(l, r) ==
    /\ l.uses = (IF l.busy THEN 1 ELSE 0) + (IF r = "no" THEN 0 ELSE 1)
    /\ r = "reads" => l.core
    /\ r = "waits" => l.opening
    /\ ~(l.core /\ l.closing)
    /\ l.busy => l.held /\ (l.core \/ l.opening)

\* An author's own log is open for as long as it is held.
OwnOpen(l) == (l.held => l.core) /\ ~l.opening /\ ~l.closing /\ ~l.timer /\ ~l.busy

LogOK(o, l, r) ==
    /\ l \in Log /\ CoreUsed(l, r) /\ l.listed <= l.length
    /\ o => OwnOpen(l)
    /\ ~o => (l.opening => ~l.core)

\* A log is followed: held, or what was opened of it not closed yet.
live(l) == l.held \/ l.core \/ l.opening \/ l.closing

\* An author's log is no longer held, or followed, than it was.
Follows(l, g) == g.held = l.held /\ (live(g) => live(l))

\* One thing of a log set.
LEMMA LogWith ==
    ASSUME NEW l \in Log
    PROVE  /\ \A b \in BOOLEAN : /\ [l EXCEPT !.held = b] \in Log /\ [l EXCEPT !.core = b] \in Log
                                 /\ [l EXCEPT !.opening = b] \in Log /\ [l EXCEPT !.closing = b] \in Log
                                 /\ [l EXCEPT !.timer = b] \in Log /\ [l EXCEPT !.busy = b] \in Log
                                 /\ [l EXCEPT !.look = b] \in Log
           /\ \A n \in Int : /\ [l EXCEPT !.listed = n] \in Log /\ [l EXCEPT !.claim = n] \in Log
                             /\ [l EXCEPT !.saved = n] \in Log /\ [l EXCEPT !.uses = n] \in Log
           /\ \A n \in Nat : [l EXCEPT !.length = n] \in Log /\ [l EXCEPT !.limit = n] \in Log
BY DEF Log

\* What g leaves of l as it was, but for uses and what depends on them.
Same(l, g) ==
    /\ g.held = l.held /\ g.length = l.length /\ g.listed = l.listed /\ g.limit = l.limit
    /\ g.saved = l.saved /\ g.core = l.core /\ g.closing = l.closing

LEMMA OpenLog ==
    ASSUME NEW l \in Log
    PROVE  /\ open(l) \in Log /\ Same(l, open(l)) /\ open(l).uses = l.uses + 1 /\ open(l).busy = l.busy
           /\ open(l).opening <=> (l.opening \/ ~l.core)
           /\ ~open(l).timer
<1>1. PICK b \in BOOLEAN : b <=> (l.opening \/ ~l.core)
  OBVIOUS
<1>2. l.uses + 1 \in Int
  BY DEF Log
<1>3. PICK g \in Log : g = [l EXCEPT !.uses = l.uses + 1]
  BY <1>2, LogWith
<1>4. PICK h \in Log : h = [g EXCEPT !.timer = FALSE]
  BY LogWith
<1>5. PICK e \in Log : e = [h EXCEPT !.opening = b]
  BY LogWith
<1>6. Same(l, g) /\ g.uses = l.uses + 1 /\ g.busy = l.busy /\ g.opening = l.opening
  BY <1>3 DEF Log, Same
<1>7. Same(l, h) /\ h.uses = l.uses + 1 /\ h.busy = l.busy /\ h.timer = FALSE /\ h.opening = l.opening
  BY <1>4, <1>6 DEF Log, Same
<1>8. Same(l, e) /\ e.uses = l.uses + 1 /\ e.busy = l.busy /\ e.timer = FALSE /\ e.opening = b
  BY <1>5, <1>7 DEF Log, Same
<1>9. b = (l.opening \/ ~l.core)
  BY <1>1
<1>10. open(l) = e
  BY <1>3, <1>4, <1>5, <1>9 DEF open, Log
<1> QED
  BY <1>1, <1>8, <1>10

LEMMA IdleLog ==
    ASSUME NEW m, NEW k, NEW l \in Log
    PROVE  /\ idle(m, k, l) \in Log /\ Same(l, idle(m, k, l)) /\ idle(m, k, l).uses = l.uses
           /\ idle(m, k, l).busy = l.busy /\ idle(m, k, l).opening = l.opening
           /\ own(m, k) => idle(m, k, l).timer = l.timer
<1>1. PICK b \in BOOLEAN : b = (l.timer \/ (l.uses = 0 /\ l.core /\ ~own(m, k)))
  BY DEF Log
<1>2. idle(m, k, l) = [l EXCEPT !.timer = b]
  BY <1>1 DEF idle
<1> QED
  BY <1>1, <1>2, LogWith DEF Log, Same

LEMMA AttachLog ==
    ASSUME NEW l \in Log
    PROVE  /\ [[l EXCEPT !.core = TRUE] EXCEPT !.look = l.busy] \in Log
           /\ attach(l) = measure([[l EXCEPT !.core = TRUE] EXCEPT !.look = l.busy])
<1>1. PICK g \in Log : g = [l EXCEPT !.core = TRUE]
  BY LogWith
<1>2. l.busy \in BOOLEAN
  BY DEF Log
<1>3. [g EXCEPT !.look = l.busy] \in Log
  BY <1>2, LogWith
<1>4. [[l EXCEPT !.core = TRUE] EXCEPT !.look = l.busy] = [l EXCEPT !.core = TRUE, !.look = l.busy]
  OBVIOUS
<1> QED
  BY <1>1, <1>3, <1>4 DEF attach

LEMMA MeasureLog ==
    ASSUME NEW l \in Log
    PROVE  /\ measure(l) \in Log
           /\ measure(l).listed = (IF l.held THEN counted(l) ELSE l.listed)
           /\ counted(l) \in Nat /\ counted(l) <= l.length
           /\ measure(l) = [[l EXCEPT !.listed = measure(l).listed] EXCEPT !.claim = measure(l).claim]
<1>1. counted(l) \in Nat /\ counted(l) <= l.length
  BY DEF Log, counted, least
<1>2. l.claim \in Int /\ l.listed \in Int
  BY DEF Log
<1>3. measure(l) = [[l EXCEPT !.listed = IF l.held THEN counted(l) ELSE @]
                          EXCEPT !.claim = IF counted(l) >= least(@, l.limit) THEN 0 ELSE @]
  BY DEF measure, Log
<1>4. /\ (IF l.held THEN counted(l) ELSE l.listed) \in Int
      /\ (IF counted(l) >= least(l.claim, l.limit) THEN 0 ELSE l.claim) \in Int
  BY <1>1, <1>2
<1> QED
  BY <1>1, <1>3, <1>4 DEF Log

LEMMA MeasureOK ==
    ASSUME NEW m, NEW k, NEW r, NEW l \in Log, CoreUsed(l, r), l.held \/ l.listed <= l.length,
           own(m, k) => OwnOpen(l), ~own(m, k) => (l.opening => ~l.core)
    PROVE  LogOK(own(m, k), measure(l), r) /\ Follows(l, measure(l))
<1> SUFFICES ASSUME NEW g, g = measure(l) PROVE LogOK(own(m, k), g, r) /\ Follows(l, g)
  OBVIOUS
<1>1. /\ g \in Log /\ g.listed = (IF l.held THEN counted(l) ELSE l.listed)
      /\ counted(l) \in Nat /\ counted(l) <= l.length
      /\ g = [[l EXCEPT !.listed = g.listed] EXCEPT !.claim = g.claim]
  BY MeasureLog
<1>2. /\ g.held = l.held /\ g.length = l.length /\ g.core = l.core /\ g.opening = l.opening
      /\ g.closing = l.closing /\ g.uses = l.uses /\ g.timer = l.timer /\ g.busy = l.busy
  BY <1>1 DEF Log
<1> QED
  BY <1>1, <1>2 DEF LogOK, CoreUsed, OwnOpen, Follows, live

LEMMA CheckOK ==
    ASSUME NEW m, NEW k, NEW r \in {"no", "waits", "reads"}, NEW l, LogOK(own(m, k), l, r)
    PROVE  LogOK(own(m, k), check(m, k, l), r) /\ Follows(l, check(m, k, l))
<1> SUFFICES ASSUME NEW g, g = check(m, k, l) PROVE LogOK(own(m, k), g, r) /\ Follows(l, g)
  OBVIOUS
<1>0. l \in Log
  BY DEF LogOK
<1>1. PICK a \in Log, c \in Log : a = [l EXCEPT !.busy = TRUE] /\ c = [l EXCEPT !.busy = FALSE]
  BY <1>0, LogWith
<1>2. \/ g = l
      \/ l.held /\ ~own(m, k) /\ l.busy = FALSE /\ g = open(a)
      \/ l.held /\ ~own(m, k) /\ l.busy = TRUE /\ g = release(m, k, c)
  BY <1>0, <1>1 DEF check, Log
<1>3. /\ Same(l, a) /\ a.uses = l.uses /\ a.opening = l.opening /\ a.busy = TRUE
      /\ Same(l, c) /\ c.uses = l.uses /\ c.opening = l.opening /\ c.busy = FALSE
  BY <1>0, <1>1 DEF Log, Same
<1>4. CASE l.held /\ ~own(m, k) /\ l.busy = FALSE /\ g = open(a)
  <2>1. /\ g \in Log /\ Same(l, g) /\ g.uses = l.uses + 1 /\ g.busy = TRUE
        /\ g.opening <=> (l.opening \/ ~l.core)
    <3>1. /\ g \in Log /\ Same(a, g) /\ g.uses = a.uses + 1 /\ g.busy = a.busy
          /\ g.opening <=> (a.opening \/ ~a.core)
      BY <1>4, OpenLog
    <3> QED
      BY <1>3, <3>1 DEF Same
  <2>2. l.uses \in Int
    BY <1>0 DEF Log
  <2> QED
    BY <1>0, <1>4, <2>1, <2>2 DEF LogOK, CoreUsed, Follows, live, Same
<1>5. CASE l.held /\ ~own(m, k) /\ l.busy = TRUE /\ g = release(m, k, c)
  <2>1. PICK d \in Log : d = [c EXCEPT !.uses = @ - 1]
    <3>1. c.uses - 1 \in Int
      BY DEF Log
    <3> QED
      BY <3>1, LogWith
  <2>2. Same(c, d) /\ d.uses = c.uses - 1 /\ d.opening = c.opening /\ d.busy = c.busy
    BY <2>1 DEF Log, Same
  <2>3. g = idle(m, k, d)
    BY <1>5, <2>1 DEF release
  <2>4. g \in Log /\ Same(l, g) /\ g.uses = l.uses - 1 /\ g.busy = FALSE /\ g.opening = l.opening
    BY <1>3, <2>2, <2>3, IdleLog DEF Same
  <2>5. l.uses \in Int
    BY <1>0 DEF Log
  <2> QED
    BY <1>0, <1>5, <2>4, <2>5 DEF LogOK, CoreUsed, Follows, live, Same
<1>6. CASE g = l
  BY <1>6 DEF Follows
<1> QED
  BY <1>2, <1>4, <1>5, <1>6

LEMMA ClaimOK ==
    ASSUME NEW m, NEW k, NEW r \in {"no", "waits", "reads"}, NEW l, LogOK(own(m, k), l, r), NEW n \in Int
    PROVE  LogOK(own(m, k), claim(m, k, l, n), r) /\ Follows(l, claim(m, k, l, n))
<1>1. PICK a : a = [l EXCEPT !.claim = n]
  OBVIOUS
<1>2. l \in Log /\ a \in Log
  BY <1>1, LogWith DEF LogOK
<1>3. Same(l, a) /\ a.uses = l.uses /\ a.opening = l.opening /\ a.busy = l.busy /\ a.timer = l.timer
  BY <1>1, <1>2 DEF Log, Same
<1>4. LogOK(own(m, k), a, r) /\ Follows(l, a)
  BY <1>2, <1>3 DEF LogOK, CoreUsed, OwnOpen, Follows, live, Same
<1>5. LogOK(own(m, k), check(m, k, a), r) /\ Follows(a, check(m, k, a))
  BY <1>4, CheckOK
<1>6. claim(m, k, l, n) = l \/ claim(m, k, l, n) = check(m, k, a)
  BY <1>1 DEF claim
<1> QED
  BY <1>4, <1>5, <1>6 DEF Follows

\* What attach does to a held log.
LEMMA AttachOK ==
    ASSUME NEW l \in Log, l.held
    PROVE  /\ attach(l) \in Log /\ attach(l).listed <= attach(l).length
           /\ attach(l).held /\ attach(l).core /\ attach(l).closing = l.closing /\ attach(l).opening = l.opening
           /\ attach(l).uses = l.uses /\ attach(l).busy = l.busy /\ attach(l).timer = l.timer
<1>1. PICK a \in Log : a = [[l EXCEPT !.core = TRUE] EXCEPT !.look = l.busy]
  BY AttachLog
<1>2. attach(l) = measure(a)
  BY <1>1, AttachLog
<1>3. /\ a.held = l.held /\ a.length = l.length /\ a.core = TRUE /\ a.opening = l.opening
      /\ a.closing = l.closing /\ a.uses = l.uses /\ a.timer = l.timer /\ a.busy = l.busy
  BY <1>1 DEF Log
<1>4. PICK g \in Log : g = measure(a)
  BY MeasureLog
<1>5. /\ g.listed = counted(a) /\ counted(a) \in Nat /\ counted(a) <= a.length
      /\ g = [[a EXCEPT !.listed = g.listed] EXCEPT !.claim = g.claim]
  <2>1. /\ g.listed = (IF a.held THEN counted(a) ELSE a.listed)
        /\ counted(a) \in Nat /\ counted(a) <= a.length
        /\ g = [[a EXCEPT !.listed = g.listed] EXCEPT !.claim = g.claim]
    BY <1>4, MeasureLog
  <2> QED
    BY <1>3, <2>1
<1>6. /\ g.held = a.held /\ g.length = a.length /\ g.core = a.core /\ g.opening = a.opening
      /\ g.closing = a.closing /\ g.uses = a.uses /\ g.timer = a.timer /\ g.busy = a.busy
  BY <1>5 DEF Log
<1> QED
  BY <1>2, <1>3, <1>4, <1>5, <1>6

\* A log kept, that was not: of another it was followed by nobody.
LEMMA AcceptOK ==
    ASSUME NEW m, NEW k, NEW r \in {"no", "waits", "reads"}, NEW l, LogOK(own(m, k), l, r), ~l.held,
           ~own(m, k) => ~live(l), limitOf(m, k) \in Nat
    PROVE  LogOK(own(m, k), accept(m, k, l), r) /\ accept(m, k, l).held
<1>1. PICK n \in Nat : n = IF l.length = 0 THEN 1 ELSE l.length
  BY DEF LogOK, Log
<1>2. PICK limit \in Nat : limit = IF own(m, k) THEN Inf ELSE limitOf(m, k)
  BY DEF Inf
<1>0. l \in Log
  BY DEF LogOK
<1>3. PICK a \in Log : a = [l EXCEPT !.held = TRUE]
  BY <1>0, LogWith
<1>4. PICK c \in Log : c = [a EXCEPT !.length = n]
  BY LogWith
<1>5. PICK d \in Log : d = [c EXCEPT !.limit = limit]
  BY LogWith
<1>6. PICK e \in Log : e = [d EXCEPT !.claim = 0]
  <2>1. 0 \in Int
    OBVIOUS
  <2> QED
    BY <2>1, LogWith
<1>7. /\ e.held = TRUE /\ e.core = l.core /\ e.opening = l.opening /\ e.closing = l.closing
      /\ e.uses = l.uses /\ e.timer = l.timer /\ e.busy = l.busy
  BY <1>0, <1>3, <1>4, <1>5, <1>6 DEF Log
<1>8. e = [l EXCEPT !.held = TRUE, !.length = IF @ = 0 THEN 1 ELSE @,
                    !.limit = IF own(m, k) THEN Inf ELSE limitOf(m, k), !.claim = 0]
  BY <1>0, <1>1, <1>2, <1>3, <1>4, <1>5, <1>6 DEF Log
<1>9. PICK g \in Log : g = attach(e)
  BY <1>7, AttachOK
<1>10. /\ g.listed <= g.length /\ g.held /\ g.core /\ g.closing = l.closing /\ g.opening = l.opening
       /\ g.uses = l.uses /\ g.busy = l.busy /\ g.timer = l.timer
  BY <1>7, <1>9, AttachOK
<1>11. accept(m, k, l) = idle(m, k, g)
  BY <1>8, <1>9 DEF accept
<1>12. PICK h \in Log : h = idle(m, k, g)
  BY IdleLog
<1>13. /\ Same(g, h) /\ h.uses = g.uses /\ h.busy = g.busy /\ h.opening = g.opening
       /\ own(m, k) => h.timer = g.timer
  BY <1>12, IdleLog
<1>14. CoreUsed(l, r) /\ (own(m, k) => OwnOpen(l))
  BY DEF LogOK
<1>15. l.busy = FALSE /\ l.closing = FALSE /\ l.opening = FALSE
  BY <1>0, <1>14 DEF CoreUsed, OwnOpen, live, Log
<1>16. LogOK(own(m, k), h, r)
  <2>1. CoreUsed(h, r)
    BY <1>10, <1>13, <1>14, <1>15 DEF CoreUsed, Same
  <2>2. h.listed <= h.length
    BY <1>10, <1>13 DEF Same
  <2>3. own(m, k) => OwnOpen(h)
    BY <1>10, <1>13, <1>14, <1>15 DEF OwnOpen, Same
  <2> QED
    BY <1>10, <1>13, <1>15, <2>1, <2>2, <2>3 DEF LogOK
<1> QED
  BY <1>10, <1>11, <1>12, <1>13, <1>16 DEF Same

\* A log cut is held while something of it counts.
LEMMA CutOK ==
    ASSUME NEW m, NEW k, NEW r \in {"no", "waits", "reads"}, NEW l, LogOK(own(m, k), l, r), l.held, NEW limit \in Nat
    PROVE  LogOK(own(m, k), cut(m, k, l, limit), r) /\ (cut(m, k, l, limit).held <=> limit > 1)
<1>0. l \in Log /\ CoreUsed(l, r) /\ l.listed <= l.length
  BY DEF LogOK
<1>1. PICK b \in BOOLEAN : b <=> (l.opening \/ (~l.core /\ l.length > limit))
  OBVIOUS
<1>2. PICK a \in Log : a = [l EXCEPT !.limit = limit]
  BY <1>0, LogWith
<1>3. PICK c \in Log : c = [a EXCEPT !.opening = b]
  BY LogWith
<1>4. /\ c.held = TRUE /\ c.listed = l.listed /\ c.length = l.length /\ c.core = l.core /\ c.opening = b
      /\ c.closing = l.closing /\ c.uses = l.uses /\ c.timer = l.timer /\ c.busy = l.busy
  BY <1>0, <1>2, <1>3 DEF Log
<1>5. b = (l.opening \/ (~l.core /\ l.length > limit))
  BY <1>1
<1>6. c = [l EXCEPT !.limit = limit, !.opening = @ \/ (~l.core /\ l.length > limit)]
  BY <1>0, <1>2, <1>3, <1>5 DEF Log
<1>7. PICK d \in Log : d = [c EXCEPT !.held = FALSE, !.listed = -1, !.busy = FALSE]
  <2>1. PICK e \in Log : e = [c EXCEPT !.held = FALSE]
    BY LogWith
  <2>2. PICK g \in Log : g = [e EXCEPT !.listed = -1]
    <3>1. -1 \in Int
      OBVIOUS
    <3> QED
      BY <3>1, LogWith
  <2>3. PICK h \in Log : h = [g EXCEPT !.busy = FALSE]
    BY LogWith
  <2> QED
    BY <2>1, <2>2, <2>3
<1>8. /\ d.held = FALSE /\ d.listed = -1 /\ d.length = l.length /\ d.core = l.core /\ d.opening = b
      /\ d.closing = l.closing /\ d.uses = l.uses /\ d.timer = l.timer /\ d.busy = FALSE
  BY <1>4, <1>7 DEF Log
<1>9. cut(m, k, l, limit) = IF limit > 1 THEN c ELSE IF l.busy THEN release(m, k, d) ELSE d
  BY <1>6, <1>7 DEF cut
<1>10. (own(m, k) => ~b /\ l.core) /\ (~own(m, k) => (b => ~l.core)) /\ (r = "waits" => b) /\ (l.opening => b)
  BY <1>1 DEF LogOK, OwnOpen, CoreUsed
<1>11. CASE limit > 1
  <2>1. CoreUsed(c, r) /\ (own(m, k) => OwnOpen(c))
    BY <1>0, <1>4, <1>10 DEF LogOK, CoreUsed, OwnOpen
  <2> QED
    BY <1>0, <1>4, <1>9, <1>10, <1>11, <2>1 DEF LogOK
<1>12. l.length \in Nat /\ l.uses \in Int /\ l.busy \in BOOLEAN
  BY <1>0 DEF Log
<1>13. CASE ~ (limit > 1) /\ l.busy = FALSE
  <2>1. CoreUsed(d, r) /\ (own(m, k) => OwnOpen(d)) /\ d.listed <= d.length
    BY <1>0, <1>8, <1>10, <1>12, <1>13 DEF LogOK, CoreUsed, OwnOpen
  <2> QED
    BY <1>8, <1>9, <1>10, <1>13, <2>1 DEF LogOK
<1>14. CASE ~ (limit > 1) /\ l.busy = TRUE
  <2>1. ~own(m, k)
    BY <1>14 DEF LogOK, OwnOpen
  <2>2. PICK e \in Log : e = [d EXCEPT !.uses = @ - 1]
    <3>1. d.uses - 1 \in Int
      BY <1>8, <1>12
    <3> QED
      BY <3>1, LogWith
  <2>3. Same(d, e) /\ e.uses = l.uses - 1 /\ e.opening = b /\ e.busy = FALSE
    BY <1>8, <2>2 DEF Log, Same
  <2>4. PICK g \in Log : g = idle(m, k, e)
    BY IdleLog
  <2>5. Same(e, g) /\ g.uses = l.uses - 1 /\ g.opening = b /\ g.busy = FALSE
    BY <2>3, <2>4, IdleLog
  <2>6. cut(m, k, l, limit) = g
    BY <1>9, <1>14, <2>2, <2>4 DEF release
  <2>7. CoreUsed(g, r) /\ g.listed <= g.length
    BY <1>0, <1>8, <1>10, <1>12, <1>14, <2>3, <2>5 DEF CoreUsed, Same
  <2> QED
    BY <1>8, <1>10, <1>14, <2>1, <2>3, <2>5, <2>6, <2>7 DEF LogOK, Same
<1> QED
  BY <1>11, <1>12, <1>13, <1>14

LEMMA NoLogOK ==
    ASSUME NEW m, NEW k
    PROVE  NoLog \in Log /\ LogOK(own(m, k), NoLog, "no") /\ ~NoLog.held /\ ~live(NoLog)
<1>1. NoLog \in Log
  <2>1. 99 \in Nat /\ 0 \in Nat /\ -1 \in Int
    OBVIOUS
  <2> QED
    BY <2>1 DEF NoLog, Log, Inf
<1> QED
  BY <1>1 DEF NoLog, LogOK, CoreUsed, OwnOpen, live

\* A log opened again is used by nobody.
LEMMA ReopenedOK ==
    ASSUME NEW m, NEW k, NEW l \in Log
    PROVE  LogOK(own(m, k), reopened(m, k, l), "no") /\ (live(reopened(m, k, l)) => l.held /\ reopened(m, k, l).held)
<1>1. PICK f \in Log : f = [NoLog EXCEPT !.held = TRUE, !.length = l.length, !.limit = l.limit, !.saved = l.saved]
  <2>1. l.length \in Nat /\ l.limit \in Nat /\ l.saved \in Int
    BY DEF Log
  <2>2. PICK a \in Log : a = [NoLog EXCEPT !.held = TRUE]
    BY NoLogOK, LogWith
  <2>3. PICK b \in Log : b = [a EXCEPT !.length = l.length]
    BY <2>1, LogWith
  <2>4. PICK c \in Log : c = [b EXCEPT !.limit = l.limit]
    BY <2>1, LogWith
  <2>5. PICK d \in Log : d = [c EXCEPT !.saved = l.saved]
    BY <2>1, LogWith
  <2> QED
    BY <2>2, <2>3, <2>4, <2>5
<1>2. /\ f.held = TRUE /\ f.core = FALSE /\ f.opening = FALSE /\ f.closing = FALSE /\ f.uses = 0
      /\ f.timer = FALSE /\ f.busy = FALSE /\ f.length = l.length
  BY <1>1 DEF NoLog
<1> SUFFICES ASSUME NEW g, g = reopened(m, k, l)
             PROVE  LogOK(own(m, k), g, "no") /\ (live(g) => l.held /\ g.held)
  OBVIOUS
<1>3. \/ /\ ~l.held \/ l.length <= 1
         /\ g = [NoLog EXCEPT !.length = IF own(m, k) THEN 0 ELSE @]
      \/ l.held /\ own(m, k) /\ g = attach(f)
      \/ l.held /\ ~own(m, k) /\ l.saved >= 0 /\ g = measure([f EXCEPT !.length = l.saved])
      \/ l.held /\ ~own(m, k) /\ g = idle(m, k, attach(f))
  BY <1>1 DEF reopened
<1>4. CASE g = [NoLog EXCEPT !.length = IF own(m, k) THEN 0 ELSE @]
  <2>1. NoLog.length = 0 /\ NoLog \in Log
    BY NoLogOK DEF NoLog
  <2>2. g = NoLog
    BY <1>4, <2>1 DEF NoLog
  <2> QED
    BY <2>2, NoLogOK
<1>5. /\ attach(f) \in Log /\ attach(f).listed <= attach(f).length
      /\ attach(f).held /\ attach(f).core /\ ~attach(f).closing /\ ~attach(f).opening
      /\ attach(f).uses = 0 /\ attach(f).busy = FALSE /\ attach(f).timer = FALSE
  BY <1>2, AttachOK
<1>6. CASE l.held /\ own(m, k) /\ g = attach(f)
  BY <1>5, <1>6 DEF LogOK, CoreUsed, OwnOpen, live
<1>7. CASE l.held /\ ~own(m, k) /\ l.saved >= 0 /\ g = measure([f EXCEPT !.length = l.saved])
  <2>1. l.saved \in Nat
    BY <1>7 DEF Log
  <2>2. PICK a \in Log : a = [f EXCEPT !.length = l.saved]
    BY <2>1, LogWith
  <2>3. /\ a.held = TRUE /\ a.core = FALSE /\ a.opening = FALSE /\ a.closing = FALSE /\ a.uses = 0
        /\ a.timer = FALSE /\ a.busy = FALSE
    BY <1>2, <2>2 DEF Log
  <2>4. /\ g \in Log /\ g.listed = counted(a)
        /\ counted(a) \in Nat /\ counted(a) <= a.length
        /\ g = [[a EXCEPT !.listed = g.listed] EXCEPT !.claim = g.claim]
    BY <1>7, <2>2, <2>3, MeasureLog
  <2>5. /\ g.held = TRUE /\ g.core = FALSE /\ g.opening = FALSE /\ g.closing = FALSE /\ g.uses = 0
        /\ g.timer = FALSE /\ g.busy = FALSE /\ g.length = a.length
    BY <2>3, <2>4 DEF Log
  <2> QED
    BY <1>7, <2>4, <2>5 DEF LogOK, CoreUsed, live
<1>8. CASE l.held /\ ~own(m, k) /\ g = idle(m, k, attach(f))
  <2>1. /\ g \in Log /\ Same(attach(f), g) /\ g.uses = 0 /\ g.busy = FALSE /\ ~g.opening
    BY <1>5, <1>8, IdleLog
  <2> QED
    BY <1>5, <1>8, <2>1 DEF LogOK, CoreUsed, live, Same
<1> QED
  BY <1>3, <1>4, <1>6, <1>7, <1>8

-----------------------------------------------------------------------------
(* The inductive invariant of cores.                                       *)

\* Of another's log k at m.  While it is followed it is not asked for again, and
\* once dropped it is refused; what is fetched or held is not; one that waits for a
\* membership was a good one, and is refused for good if at all.
KeyOK(m, k) ==
    ~own(m, k) =>
        /\ live(logs[m][k]) => /\ fetch[m].run[k] = "no" /\ k \notin ToSet(pending[m])
                               /\ logs[m][k].held \/ k \in refused[m]
        /\ fetch[m].run[k] # "no" => k \notin refused[m]
        /\ logs[m][k].held => k \notin refused[m]
        /\ k \in ToSet(pending[m]) => k \notin scene.bad /\ (k \in refused[m] => ~mayRetry(m, k))

MemberOK(m) ==
    /\ FetchOK(fetch[m])
    /\ pending[m] \in Seq(Keys) /\ Len(pending[m]) <= MAX_PENDING
    /\ \A k \in Keys : LogOK(own(m, k), logs[m][k], reader[m][k]) /\ KeyOK(m, k)

Shape ==
    /\ scene \in Scene
    /\ stage \in [Members -> [Keys -> Nat]]
    /\ \A m \in Members, k \in Keys : stage[m][k] \in 1 .. Len(scene.course[k])
    /\ logs \in [Members -> [Keys -> Log]]
    /\ pending \in [Members -> Seq(Keys)]
    /\ refused \in [Members -> SUBSET Keys]
    /\ fetch \in [Members -> Fetch]
    /\ reader \in [Members -> [Keys -> {"no", "waits", "reads"}]]

CoreInv == Shape /\ \A m \in Members : MemberOK(m)

\* The scene stays what it is, but for what is left to happen.
SceneKept == /\ scene' \in Scene /\ scene'.own = scene.own /\ scene'.course = scene.course /\ scene'.bad = scene.bad

LEMMA SceneKeeps ==
    ASSUME scene \in Scene
    PROVE  /\ UNCHANGED scene => SceneKept
           /\ \A R \in SUBSET (Members \X Keys) : scene' = [scene EXCEPT !.reads = R] => SceneKept
           /\ \A n \in Nat : scene' = [scene EXCEPT !.slow = n] => SceneKept
           /\ \A n \in Nat : scene' = [scene EXCEPT !.breaks = n] => SceneKept
           /\ \A S \in SUBSET Members : scene' = [scene EXCEPT !.crashes = S] => SceneKept
<1>1. UNCHANGED scene => SceneKept
  BY DEF SceneKept
<1>2. \A R \in SUBSET (Members \X Keys) : scene' = [scene EXCEPT !.reads = R] => SceneKept
  BY DEF SceneKept, Scene
<1>3. \A n \in Nat : scene' = [scene EXCEPT !.slow = n] => SceneKept
  BY DEF SceneKept, Scene
<1>4. \A n \in Nat : scene' = [scene EXCEPT !.breaks = n] => SceneKept
  BY DEF SceneKept, Scene
<1>5. \A S \in SUBSET Members : scene' = [scene EXCEPT !.crashes = S] => SceneKept
  BY DEF SceneKept, Scene
<1> QED
  BY <1>1, <1>2, <1>3, <1>4, <1>5

\* A member nothing happens to.
LEMMA MemberKept ==
    ASSUME NEW m, MemberOK(m), SceneKept,
           logs'[m] = logs[m], reader'[m] = reader[m], pending'[m] = pending[m], refused'[m] = refused[m],
           fetch'[m] = fetch[m], stage'[m] = stage[m]
    PROVE  MemberOK(m)'
<1>1. \A k \in Keys : own(m, k)' = own(m, k) /\ mayRetry(m, k)' = mayRetry(m, k)
  BY DEF own, mayRetry, SceneKept
<1>2. \A k \in Keys : LogOK(own(m, k), logs[m][k], reader[m][k])'
  BY <1>1 DEF MemberOK
<1>3. FetchOK(fetch[m])'
  BY DEF MemberOK
<1>4. ASSUME NEW k \in Keys PROVE KeyOK(m, k)'
  <2>1. KeyOK(m, k)
    BY DEF MemberOK
  <2> QED
    BY <1>1, <2>1 DEF KeyOK, SceneKept
<1> QED
  BY <1>2, <1>3, <1>4 DEF MemberOK

\* A log that is no more held, asked for or refused than it was.
LEMMA KeyKept ==
    ASSUME NEW m, NEW k \in Keys, KeyOK(m, k), SceneKept, Follows(logs[m][k], logs'[m][k]),
           fetch'[m].run[k] # "no" => fetch[m].run[k] # "no" \/ (~logs[m][k].held /\ k \notin refused[m]),
           k \in ToSet(pending'[m]) => k \in ToSet(pending[m]),
           k \in refused'[m] <=> k \in refused[m],
           mayRetry(m, k)' => mayRetry(m, k)
    PROVE  KeyOK(m, k)'
<1>1. own(m, k)' = own(m, k)
  BY DEF own, SceneKept
<1> QED
  BY <1>1 DEF KeyOK, Follows, SceneKept

\* One log of a member changes, or a read of it, and is followed as before.
LEMMA LogStep ==
    ASSUME CoreInv, SceneKept, NEW m \in Members, NEW k \in Keys, NEW l, NEW r \in {"no", "waits", "reads"},
           logs' = [logs EXCEPT ![m][k] = l], reader' = [reader EXCEPT ![m][k] = r],
           LogOK(own(m, k), l, r), Follows(logs[m][k], l), UNCHANGED <<stage, pending, refused, fetch>>
    PROVE  CoreInv'
<1>1. Shape /\ \A n \in Members : MemberOK(n)
  BY DEF CoreInv
<1>2. /\ logs' \in [Members -> [Keys -> Log]] /\ reader' \in [Members -> [Keys -> {"no", "waits", "reads"}]]
      /\ logs'[m][k] = l /\ reader'[m][k] = r
      /\ \A j \in Keys : j # k => logs'[m][j] = logs[m][j] /\ reader'[m][j] = reader[m][j]
      /\ \A n \in Members : n # m => logs'[n] = logs[n] /\ reader'[n] = reader[n]
  BY <1>1 DEF Shape, LogOK
<1>3. Shape'
  BY <1>1, <1>2 DEF Shape, SceneKept
<1>4. \A j \in Keys : own(m, j)' = own(m, j) /\ mayRetry(m, j)' = mayRetry(m, j)
  BY DEF own, mayRetry, SceneKept
<1>5. MemberOK(m)'
  <2>1. FetchOK(fetch[m])' /\ pending'[m] \in Seq(Keys) /\ Len(pending'[m]) <= MAX_PENDING
    BY <1>1 DEF MemberOK
  <2>2. ASSUME NEW j \in Keys PROVE LogOK(own(m, j), logs[m][j], reader[m][j])' /\ KeyOK(m, j)'
    <3>1. LogOK(own(m, j), logs[m][j], reader[m][j]) /\ KeyOK(m, j)
      BY <1>1 DEF MemberOK
    <3>2. LogOK(own(m, j), logs[m][j], reader[m][j])'
      BY <1>2, <1>4, <3>1
    <3>3. Follows(logs[m][j], logs'[m][j])
      <4>1. CASE j = k
        BY <1>2, <4>1
      <4>2. CASE j # k
        BY <1>2, <4>2 DEF Follows
      <4> QED
        BY <4>1, <4>2
    <3>4. fetch'[m].run[j] = fetch[m].run[j] /\ pending'[m] = pending[m] /\ refused'[m] = refused[m]
      OBVIOUS
    <3>5. KeyOK(m, j)'
      BY <1>4, <3>1, <3>3, <3>4, KeyKept
    <3> QED
      BY <3>2, <3>5
  <2> QED
    BY <2>1, <2>2 DEF MemberOK
<1>6. ASSUME NEW n \in Members, n # m PROVE MemberOK(n)'
  <2>1. MemberOK(n) /\ logs'[n] = logs[n] /\ reader'[n] = reader[n]
    BY <1>1, <1>2, <1>6
  <2>2. pending'[n] = pending[n] /\ refused'[n] = refused[n] /\ fetch'[n] = fetch[n] /\ stage'[n] = stage[n]
    OBVIOUS
  <2> QED
    BY <2>1, <2>2, MemberKept
<1> QED
  BY <1>3, <1>5, <1>6 DEF CoreInv

\* What is known of a log.
LEMMA LogFacts ==
    ASSUME CoreInv, NEW m \in Members, NEW k \in Keys
    PROVE  /\ logs[m][k] \in Log /\ reader[m][k] \in {"no", "waits", "reads"}
           /\ LogOK(own(m, k), logs[m][k], reader[m][k]) /\ KeyOK(m, k)
           /\ scene \in Scene
           /\ reader = [reader EXCEPT ![m][k] = reader[m][k]]
BY DEF CoreInv, Shape, MemberOK

LEMMA OpenCoreOK ==
    ASSUME CoreInv, NEW m \in Members, NEW k \in Keys, OpenCore(m, k)
    PROVE  CoreInv'
<1> DEFINE l == logs[m][k]
           r == reader[m][k]
<1>1. /\ l \in Log /\ r \in {"no", "waits", "reads"} /\ LogOK(own(m, k), l, r) /\ SceneKept
      /\ CoreUsed(l, r) /\ l.opening = TRUE /\ l.closing = FALSE /\ l.listed <= l.length
      /\ UNCHANGED <<stage, pending, refused, fetch>>
  BY LogFacts, SceneKeeps DEF OpenCore, LogOK, Log
<1>2. ~own(m, k) /\ l.core = FALSE
  BY <1>1 DEF LogOK, OwnOpen, Log
<1>3. CASE l.held
  <2>1. PICK a \in Log : a = attach(l)
    BY <1>1, <1>3, AttachOK
  <2>2. /\ a.listed <= a.length /\ a.held /\ a.core /\ ~a.closing /\ a.uses = l.uses /\ a.busy = l.busy
    BY <1>1, <1>3, <2>1, AttachOK
  <2>3. PICK b \in Log : b = [a EXCEPT !.opening = FALSE]
    BY LogWith
  <2>4. Same(a, b) /\ b.uses = a.uses /\ b.busy = a.busy /\ b.opening = FALSE
    BY <2>3 DEF Log, Same
  <2>5. PICK g \in Log : g = idle(m, k, b)
    BY IdleLog
  <2>6. Same(b, g) /\ g.uses = b.uses /\ g.busy = b.busy /\ g.opening = FALSE
    BY <2>4, <2>5, IdleLog
  <2>7. PICK s \in {"no", "waits", "reads"} : s = IF r = "waits" THEN "reads" ELSE r
    BY <1>1
  <2>8. logs' = [logs EXCEPT ![m][k] = g] /\ reader' = [reader EXCEPT ![m][k] = s]
    BY <1>3, <2>1, <2>3, <2>5, <2>7 DEF OpenCore, set
  <2>9. LogOK(own(m, k), g, s) /\ Follows(l, g)
    <3> HIDE DEF l, r
    <3>1. CoreUsed(g, s) /\ g.listed <= g.length
      BY <1>1, <2>2, <2>4, <2>6, <2>7 DEF CoreUsed, Same
    <3> QED
      BY <1>1, <1>2, <1>3, <2>2, <2>4, <2>6, <3>1 DEF LogOK, Follows, live, Same
  <2> HIDE DEF r
  <2> QED
    BY <1>1, <2>8, <2>9, LogStep
<1>4. CASE ~l.held
  <2>1. PICK a \in Log : a = [l EXCEPT !.opening = FALSE]
    BY <1>1, LogWith
  <2>2. PICK b \in Log : b = [a EXCEPT !.uses = 0]
    <3>1. 0 \in Int
      OBVIOUS
    <3> QED
      BY <3>1, LogWith
  <2>3. PICK g \in Log : g = [b EXCEPT !.busy = FALSE]
    BY LogWith
  <2>4. Same(l, g) /\ g.uses = 0 /\ g.busy = FALSE /\ g.opening = FALSE
    BY <1>1, <2>1, <2>2, <2>3 DEF Log, Same
  <2>5. PICK s \in {"no", "waits", "reads"} : s = IF r = "waits" THEN "no" ELSE r
    BY <1>1
  <2>6. logs' = [logs EXCEPT ![m][k] = g] /\ reader' = [reader EXCEPT ![m][k] = s]
    BY <1>4, <2>1, <2>2, <2>3, <2>5 DEF OpenCore, set
  <2>7. LogOK(own(m, k), g, s) /\ Follows(l, g)
    <3> HIDE DEF l, r
    <3>1. CoreUsed(g, s) /\ g.listed <= g.length
      BY <1>1, <1>2, <2>4, <2>5 DEF CoreUsed, Same
    <3> QED
      BY <1>1, <1>2, <1>4, <2>4, <3>1 DEF LogOK, Follows, live, Same
  <2> HIDE DEF r
  <2> QED
    BY <1>1, <2>6, <2>7, LogStep
<1> QED
  BY <1>3, <1>4

LEMMA CloseCoreOK ==
    ASSUME CoreInv, NEW m \in Members, NEW k \in Keys, CloseCore(m, k)
    PROVE  CoreInv'
<1> DEFINE l == logs[m][k]
           r == reader[m][k]
<1>1. /\ l \in Log /\ r \in {"no", "waits", "reads"} /\ LogOK(own(m, k), l, r) /\ SceneKept
      /\ CoreUsed(l, r) /\ l.timer /\ l.listed <= l.length
      /\ UNCHANGED <<stage, pending, refused, fetch>> /\ reader' = [reader EXCEPT ![m][k] = r]
  BY LogFacts, SceneKeeps DEF CloseCore, LogOK
<1>2. ~own(m, k)
  BY <1>1 DEF LogOK, OwnOpen
<1>3. PICK a \in Log : a = [l EXCEPT !.timer = FALSE]
  BY <1>1, LogWith
<1>4. Same(l, a) /\ a.uses = l.uses /\ a.busy = l.busy /\ a.opening = l.opening
  BY <1>1, <1>3 DEF Log, Same
<1>5. logs' = [logs EXCEPT ![m][k] = IF a.uses > 0 \/ ~a.core \/ a.opening THEN a
                                     ELSE [measure(a) EXCEPT !.core = FALSE, !.closing = TRUE]]
  BY <1>3 DEF CloseCore, set
<1> HIDE DEF l, r
<1>6. LogOK(own(m, k), a, r) /\ Follows(l, a)
  BY <1>1, <1>2, <1>4 DEF LogOK, CoreUsed, Follows, live, Same
<1>7. CASE a.uses > 0 \/ ~a.core \/ a.opening
  <2>1. logs' = [logs EXCEPT ![m][k] = a]
    BY <1>5, <1>7
  <2> QED
    BY <1>1, <1>6, <2>1, LogStep DEF l
<1>8. CASE ~ (a.uses > 0 \/ ~a.core \/ a.opening)
  <2>1. PICK b \in Log : b = measure(a)
    BY MeasureLog
  <2>2. LogOK(own(m, k), b, r) /\ b.held = a.held /\ b.uses = a.uses /\ b.busy = a.busy /\ b.opening = a.opening
    <3>1. CoreUsed(a, r) /\ a.listed <= a.length /\ (~own(m, k) => (a.opening => ~a.core))
      BY <1>6 DEF LogOK
    <3>2. LogOK(own(m, k), b, r)
      BY <1>2, <2>1, <3>1, MeasureOK
    <3>3. b = [[a EXCEPT !.listed = b.listed] EXCEPT !.claim = b.claim]
      BY <2>1, MeasureLog
    <3> QED
      BY <3>2, <3>3 DEF Log
  <2>3. PICK c \in Log : c = [b EXCEPT !.core = FALSE]
    BY LogWith
  <2>4. PICK g \in Log : g = [c EXCEPT !.closing = TRUE]
    BY LogWith
  <2>5. /\ g.held = b.held /\ g.uses = b.uses /\ g.busy = b.busy /\ g.opening = b.opening /\ g.core = FALSE
        /\ g.listed = b.listed /\ g.length = b.length
    BY <2>3, <2>4 DEF Log
  <2>6. logs' = [logs EXCEPT ![m][k] = g]
    BY <1>5, <1>8, <2>1, <2>3, <2>4
  <2>7. a.uses \in Int /\ a.busy \in BOOLEAN
    BY DEF Log
  <2>8. r = "no" /\ ~a.busy
    BY <1>1, <1>6, <1>8, <2>7 DEF LogOK, CoreUsed
  <2>9. LogOK(own(m, k), g, r) /\ Follows(l, g)
    <3>1. b.listed <= b.length /\ b.uses = 0 /\ ~b.opening
      BY <1>8, <2>2, <2>7, <2>8 DEF LogOK, CoreUsed
    <3> QED
      BY <1>2, <1>4, <1>8, <2>2, <2>5, <2>8, <3>1 DEF LogOK, CoreUsed, Follows, live, Same
  <2> QED
    BY <1>1, <2>6, <2>9, LogStep DEF l
<1> QED
  BY <1>7, <1>8

LEMMA CoreClosedOK ==
    ASSUME CoreInv, NEW m \in Members, NEW k \in Keys, CoreClosed(m, k)
    PROVE  CoreInv'
<1> DEFINE l == logs[m][k]
           r == reader[m][k]
<1>1. /\ l \in Log /\ r \in {"no", "waits", "reads"} /\ LogOK(own(m, k), l, r) /\ SceneKept
      /\ CoreUsed(l, r) /\ l.closing
      /\ UNCHANGED <<stage, pending, refused, fetch>> /\ reader' = [reader EXCEPT ![m][k] = r]
  BY LogFacts, SceneKeeps DEF CoreClosed, LogOK
<1>2. PICK a \in Log : a = [l EXCEPT !.closing = FALSE]
  BY <1>1, LogWith
<1>3. PICK g \in Log : g = [a EXCEPT !.saved = l.length]
  <2>1. l.length \in Int
    BY <1>1 DEF Log
  <2> QED
    BY <2>1, LogWith
<1>4. /\ g.held = l.held /\ g.length = l.length /\ g.listed = l.listed /\ g.core = l.core /\ g.uses = l.uses
      /\ g.busy = l.busy /\ g.opening = l.opening /\ g.timer = l.timer /\ g.closing = FALSE
  BY <1>1, <1>2, <1>3 DEF Log
<1>5. logs' = [logs EXCEPT ![m][k] = g]
  BY <1>2, <1>3 DEF CoreClosed, set
<1>6. LogOK(own(m, k), g, r) /\ Follows(l, g)
  <2> HIDE DEF l, r
  <2> QED
    BY <1>1, <1>4 DEF LogOK, CoreUsed, OwnOpen, Follows, live
<1> HIDE DEF r
<1> QED
  BY <1>1, <1>5, <1>6, LogStep

LEMMA UseOK ==
    ASSUME CoreInv, NEW m \in Members, NEW k \in Keys, Use(m, k)
    PROVE  CoreInv'
<1> DEFINE l == logs[m][k]
<1>1. /\ l \in Log /\ reader[m][k] = "no" /\ LogOK(own(m, k), l, "no") /\ CoreUsed(l, "no") /\ l.held
      /\ UNCHANGED <<stage, pending, refused, fetch>>
  BY LogFacts DEF Use, LogOK
<1>2. SceneKept
  <2>1. scene \in Scene /\ scene.reads \ {<<m, k>>} \in SUBSET (Members \X Keys)
    BY DEF CoreInv, Shape, Scene
  <2> QED
    BY <2>1, SceneKeeps DEF Use
<1>3. PICK g \in Log : g = open(l)
  BY <1>1, OpenLog
<1>4. PICK s \in {"no", "waits", "reads"} : s = IF l.core THEN "reads" ELSE "waits"
  OBVIOUS
<1>5. logs' = [logs EXCEPT ![m][k] = g] /\ reader' = [reader EXCEPT ![m][k] = s]
  BY <1>3, <1>4 DEF Use, set
<1>6. /\ Same(l, g) /\ g.uses = l.uses + 1 /\ g.busy = l.busy
      /\ g.opening <=> (l.opening \/ ~l.core)
      /\ ~g.timer
  BY <1>1, <1>3, OpenLog
<1>7. LogOK(own(m, k), g, s) /\ Follows(l, g)
  <2> HIDE DEF l
  <2>1. l.uses \in Int
    BY <1>1 DEF Log
  <2>2. CoreUsed(g, s)
    BY <1>1, <1>4, <1>6, <2>1 DEF CoreUsed, Same
  <2>3. own(m, k) => OwnOpen(g)
    BY <1>1, <1>6 DEF LogOK, OwnOpen, Same
  <2> QED
    BY <1>1, <1>6, <2>2, <2>3 DEF LogOK, Follows, live, Same
<1> QED
  BY <1>1, <1>2, <1>5, <1>7, LogStep

LEMMA ReleaseOK ==
    ASSUME CoreInv, NEW m \in Members, NEW k \in Keys, Release(m, k)
    PROVE  CoreInv'
<1> DEFINE l == logs[m][k]
<1>1. /\ l \in Log /\ LogOK(own(m, k), l, "reads") /\ CoreUsed(l, "reads") /\ SceneKept
      /\ UNCHANGED <<stage, pending, refused, fetch>>
      /\ reader' = [reader EXCEPT ![m][k] = "no"]
  BY LogFacts, SceneKeeps DEF Release, LogOK
<1>2. l.uses \in Int
  BY <1>1 DEF Log
<1>3. PICK a \in Log : a = [l EXCEPT !.uses = @ - 1]
  <2>1. l.uses - 1 \in Int
    BY <1>2
  <2> QED
    BY <1>1, <2>1, LogWith
<1>4. Same(l, a) /\ a.uses = l.uses - 1 /\ a.busy = l.busy /\ a.opening = l.opening /\ a.timer = l.timer
  BY <1>1, <1>3 DEF Log, Same
<1>5. PICK g \in Log : g = idle(m, k, a)
  BY IdleLog
<1>6. Same(a, g) /\ g.uses = a.uses /\ g.busy = a.busy /\ g.opening = a.opening /\ (own(m, k) => g.timer = a.timer)
  BY <1>5, IdleLog
<1>7. logs' = [logs EXCEPT ![m][k] = g]
  BY <1>3, <1>5 DEF Release, set, release
<1>8. LogOK(own(m, k), g, "no") /\ Follows(l, g)
  <2> HIDE DEF l
  <2>1. CoreUsed(g, "no")
    BY <1>1, <1>2, <1>4, <1>6 DEF CoreUsed, Same
  <2>2. own(m, k) => OwnOpen(g)
    BY <1>1, <1>4, <1>6 DEF LogOK, OwnOpen, Same
  <2> QED
    BY <1>1, <1>4, <1>6, <2>1, <2>2 DEF LogOK, Follows, live, Same
<1> QED
  BY <1>1, <1>7, <1>8, LogStep

LEMMA CheckStepOK ==
    ASSUME CoreInv, NEW m \in Members, NEW k \in Keys, Check(m, k) \/ Expire(m, k)
    PROVE  CoreInv'
<1> DEFINE l == logs[m][k]
           r == reader[m][k]
<1>1. /\ l \in Log /\ r \in {"no", "waits", "reads"} /\ LogOK(own(m, k), l, r) /\ SceneKept
      /\ UNCHANGED <<stage, pending, refused, fetch>> /\ reader' = [reader EXCEPT ![m][k] = r]
  BY LogFacts, SceneKeeps DEF Check, Expire
<1>2. PICK a \in Log : /\ a = [l EXCEPT !.look = FALSE] \/ a = [l EXCEPT !.claim = 0]
                       /\ logs' = [logs EXCEPT ![m][k] = check(m, k, a)]
  <2>1. [l EXCEPT !.look = FALSE] \in Log
    BY <1>1, LogWith
  <2>2. [l EXCEPT !.claim = 0] \in Log
    <3>1. 0 \in Int
      OBVIOUS
    <3> QED
      BY <1>1, <3>1, LogWith
  <2> QED
    BY <2>1, <2>2 DEF Check, Expire, set
<1>3. Same(l, a) /\ a.uses = l.uses /\ a.busy = l.busy /\ a.opening = l.opening /\ a.timer = l.timer
  BY <1>1, <1>2 DEF Log, Same
<1> HIDE DEF l, r
<1>4. LogOK(own(m, k), a, r) /\ Follows(l, a)
  BY <1>1, <1>3 DEF LogOK, CoreUsed, OwnOpen, Follows, live, Same
<1>5. LogOK(own(m, k), check(m, k, a), r) /\ Follows(a, check(m, k, a))
  BY <1>1, <1>4, CheckOK
<1>6. Follows(l, check(m, k, a))
  BY <1>4, <1>5 DEF Follows
<1>7. PICK g : g = check(m, k, a)
  OBVIOUS
<1> QED
  BY <1>1, <1>2, <1>5, <1>6, <1>7, LogStep DEF l

LEMMA DownloadOK ==
    ASSUME CoreInv, NEW m \in Members, NEW p \in Members, NEW k \in Keys, Download(m, p, k)
    PROVE  CoreInv'
<1> DEFINE l == logs[m][k]
           r == reader[m][k]
<1>1. /\ l \in Log /\ r \in {"no", "waits", "reads"} /\ LogOK(own(m, k), l, r) /\ SceneKept
      /\ CoreUsed(l, r) /\ l.held /\ ~own(m, k) /\ logs[p][k].length \in Nat
      /\ UNCHANGED <<stage, pending, refused, fetch>> /\ reader' = [reader EXCEPT ![m][k] = r]
  BY LogFacts, SceneKeeps DEF Download, LogOK, Log
<1>2. PICK a \in Log : a = [l EXCEPT !.length = logs[p][k].length]
  BY <1>1, LogWith
<1>3. PICK b \in Log : b = [a EXCEPT !.look = l.busy]
  <2>1. l.busy \in BOOLEAN
    BY <1>1 DEF Log
  <2> QED
    BY <2>1, LogWith
<1>4. /\ b.held = l.held /\ b.core = l.core /\ b.closing = l.closing /\ b.uses = l.uses /\ b.busy = l.busy
      /\ b.opening = l.opening
  BY <1>1, <1>2, <1>3 DEF Log
<1>5. logs' = [logs EXCEPT ![m][k] = measure(b)]
  BY <1>2, <1>3 DEF Download, set
<1> HIDE DEF l, r
<1>6. CoreUsed(b, r) /\ (~own(m, k) => (b.opening => ~b.core)) /\ Follows(l, b)
  BY <1>1, <1>4 DEF LogOK, CoreUsed, Follows, live
<1>7. LogOK(own(m, k), measure(b), r) /\ Follows(b, measure(b))
  BY <1>1, <1>4, <1>6, MeasureOK
<1>8. Follows(l, measure(b))
  BY <1>6, <1>7 DEF Follows
<1>9. PICK g : g = measure(b)
  OBVIOUS
<1> QED
  BY <1>1, <1>5, <1>7, <1>8, <1>9, LogStep DEF l
-----------------------------------------------------------------------------
(* Messages.                                                               *)

Prefix == Seq(1 .. PARTS)
Message ==
    [type : {"summary"}, digest : SUBSET Item]
    \cup [type : {"ranges"}, prefix : Prefix, parts : [1 .. PARTS -> SUBSET Item]]
    \cup [type : {"keys"}, prefix : Prefix, kind : {"done", "send", "mine", "lack"}, items : SUBSET Item]
    \cup [type : {"notice"}, key : Keys]

Wires == wire \in [Links -> Seq(Message)]

LEMMA MessageKinds ==
    ASSUME NEW x \in Message
    PROVE  /\ x.type \in {"summary", "ranges", "keys", "notice"}
           /\ x.type = "summary" => x.digest \in SUBSET Item
           /\ x.type = "ranges" => x.prefix \in Prefix /\ x.parts \in [1 .. PARTS -> SUBSET Item]
           /\ x.type = "keys" => /\ x.prefix \in Prefix /\ x.kind \in {"done", "send", "mine", "lack"}
                                 /\ x.items \in SUBSET Item
           /\ x.type = "notice" => x.key \in Keys
BY DEF Message

LEMMA ItemsOK ==
    ASSUME CoreInv, NEW m \in Members
    PROVE  /\ items(m) \in SUBSET Item
           /\ \A prefix : inRange(m, prefix) \in SUBSET Item
<1>1. \A k \in Keys : logs[m][k].listed \in Int
  BY DEF CoreInv, Shape, Log
<1>2. items(m) \in SUBSET Item
  BY <1>1 DEF items, itemsOf, Item
<1> QED
  BY <1>2 DEF inRange

\* What is sent is a message.
LEMMA SentOK ==
    ASSUME CoreInv, NEW m \in Members
    PROVE  /\ Summary(m) \in Message
           /\ \A prefix \in Prefix : Ranges(m, prefix) \in Message /\ Done(prefix) \in Message
           /\ \A prefix \in Prefix, kind \in {"done", "send", "mine", "lack"}, S \in SUBSET Item :
                  KeysOf(prefix, kind, S) \in Message
           /\ \A k \in Keys : Notice(k) \in Message
<1>1. Summary(m) \in Message
  BY ItemsOK DEF Summary, Message
<1>2. ASSUME NEW prefix \in Prefix PROVE Ranges(m, prefix) \in Message
  <2>1. parts(m, prefix) \in [1 .. PARTS -> SUBSET Item]
    BY ItemsOK DEF parts
  <2> QED
    BY <2>1 DEF Ranges, Message
<1>3. \A prefix \in Prefix, kind \in {"done", "send", "mine", "lack"}, S \in SUBSET Item :
          KeysOf(prefix, kind, S) \in Message
  BY DEF KeysOf, Message
<1>4. \A prefix \in Prefix : Done(prefix) \in Message
  BY <1>3 DEF Done
<1>5. \A k \in Keys : Notice(k) \in Message
  BY DEF Notice, Message
<1> QED
  BY <1>1, <1>2, <1>3, <1>4, <1>5

-----------------------------------------------------------------------------
(* Steps at one member.                                                    *)

LEMMA OneMember ==
    ASSUME CoreInv, SceneKept, NEW m \in Members, Shape', MemberOK(m)',
           \A n \in Members : n # m =>
               /\ logs'[n] = logs[n] /\ reader'[n] = reader[n] /\ pending'[n] = pending[n]
               /\ refused'[n] = refused[n] /\ fetch'[n] = fetch[n] /\ stage'[n] = stage[n]
    PROVE  CoreInv'
<1>1. ASSUME NEW n \in Members, n # m PROVE MemberOK(n)'
  <2>1. MemberOK(n)
    BY DEF CoreInv
  <2> QED
    BY <1>1, <2>1, MemberKept
<1> QED
  BY <1>1 DEF CoreInv

\* Headers start to be fetched, of logs neither held nor refused, and logs are
\* followed as before.
LEMMA FetchStep ==
    ASSUME CoreInv, SceneKept, NEW m \in Members,
           NEW g, FetchOK(g), fetch' = [fetch EXCEPT ![m] = g],
           \A k \in Keys : g.run[k] # "no" => fetch[m].run[k] # "no" \/ (~logs[m][k].held /\ k \notin refused[m]),
           NEW ls \in [Keys -> Log], logs' = [logs EXCEPT ![m] = ls],
           \A k \in Keys : LogOK(own(m, k), ls[k], reader[m][k]) /\ Follows(logs[m][k], ls[k]),
           UNCHANGED <<stage, pending, refused, reader>>
    PROVE  CoreInv'
<1>1. Shape /\ MemberOK(m)
  BY DEF CoreInv
<1>2. /\ logs' \in [Members -> [Keys -> Log]] /\ fetch' \in [Members -> Fetch]
      /\ logs'[m] = ls /\ fetch'[m] = g
      /\ \A n \in Members : n # m => logs'[n] = logs[n] /\ fetch'[n] = fetch[n]
  BY <1>1 DEF Shape, FetchOK
<1>3. Shape'
  BY <1>1, <1>2 DEF Shape, SceneKept
<1>4. \A j \in Keys : own(m, j)' = own(m, j) /\ mayRetry(m, j)' = mayRetry(m, j)
  BY DEF own, mayRetry, SceneKept
<1>5. FetchOK(fetch[m])' /\ pending'[m] \in Seq(Keys) /\ Len(pending'[m]) <= MAX_PENDING
  BY <1>1, <1>2 DEF MemberOK
<1>6. ASSUME NEW j \in Keys PROVE LogOK(own(m, j), logs[m][j], reader[m][j])' /\ KeyOK(m, j)'
  <2>1. KeyOK(m, j)
    BY <1>1 DEF MemberOK
  <2>2. LogOK(own(m, j), logs[m][j], reader[m][j])'
    BY <1>2, <1>4
  <2>3. Follows(logs[m][j], logs'[m][j])
    BY <1>2
  <2>4. fetch'[m].run[j] # "no" => fetch[m].run[j] # "no" \/ (~logs[m][j].held /\ j \notin refused[m])
    BY <1>2
  <2>5. pending'[m] = pending[m] /\ refused'[m] = refused[m]
    OBVIOUS
  <2> QED
    BY <1>4, <2>1, <2>2, <2>3, <2>4, <2>5, KeyKept
<1>7. MemberOK(m)'
  BY <1>5, <1>6 DEF MemberOK
<1> QED
  BY <1>2, <1>3, <1>7, OneMember

LEMMA DroppedOK ==
    ASSUME NEW f, FetchOK(f), NEW b \in BOOLEAN
    PROVE  FetchOK([f EXCEPT !.dropped = b]) /\ [f EXCEPT !.dropped = b].run = f.run
<1>1. PICK g : g = [f EXCEPT !.dropped = b]
  OBVIOUS
<1>2. g \in Fetch /\ g.run = f.run /\ g.queue = f.queue
  BY <1>1 DEF FetchOK, Fetch
<1>3. running(g, "plain") = running(f, "plain") /\ running(g, "urgent") = running(f, "urgent")
  BY <1>2 DEF running
<1> QED
  BY <1>1, <1>2, <1>3 DEF FetchOK

\* The first message on its way from p.
LEMMA FirstMessage ==
    ASSUME Wires, NEW m \in Members, NEW p \in Members, NEW type, first(m, p, type)
    PROVE  /\ m # p /\ <<m, p>> \in Links /\ <<p, m>> \in Links
           /\ wire[<<p, m>>] \in Seq(Message) /\ wire[<<p, m>>] # <<>> /\ wire[<<m, p>>] \in Seq(Message)
           /\ msg(m, p) \in Message /\ msg(m, p).type = type
<1>1. m # p /\ wire[<<p, m>>] # <<>> /\ msg(m, p).type = type
  BY DEF first, up, msg
<1>2. <<m, p>> \in Links /\ <<p, m>> \in Links
  BY <1>1 DEF Links
<1>3. wire[<<p, m>>] \in Seq(Message) /\ wire[<<m, p>>] \in Seq(Message)
  BY <1>2 DEF Wires
<1>4. Head(wire[<<p, m>>]) \in Message
  BY <1>1, <1>3
<1> QED
  BY <1>1, <1>2, <1>3, <1>4 DEF msg

LEMMA NoticeCore ==
    ASSUME CoreInv, Wires, NEW m \in Members, NEW p \in Members, OnNotice(m, p)
    PROVE  CoreInv'
<1> DEFINE k == msg(m, p).key
<1>1. k \in Keys
  BY FirstMessage, MessageKinds DEF OnNotice
<1>2. FetchOK(fetch[m]) /\ logs \in [Members -> [Keys -> Log]]
  BY DEF CoreInv, MemberOK, Shape
<1>3. Only(m, fetch[m], {k}, fetch[m])
  BY DEF Only
<1> HIDE DEF k
<1>4. PICK f : f = consider(m, fetch[m], k, TRUE)
  OBVIOUS
<1>5. FetchOK(f) /\ Only(m, fetch[m], {k}, f)
  <2>1. PICK u \in BOOLEAN : u = TRUE
    OBVIOUS
  <2>2. k \in {k}
    OBVIOUS
  <2>3. FetchOK(consider(m, fetch[m], k, u)) /\ Only(m, fetch[m], {k}, consider(m, fetch[m], k, u))
    BY <1>1, <1>2, <1>3, <2>2, ConsiderOK
  <2> QED
    BY <1>4, <2>1, <2>3
<1>6. PICK g : g = [f EXCEPT !.dropped = FALSE]
  OBVIOUS
<1>7. FetchOK(g) /\ g.run = f.run
  <2>1. FALSE \in BOOLEAN
    OBVIOUS
  <2> QED
    BY <1>5, <1>6, <2>1, DroppedOK
<1>8. fetch' = [fetch EXCEPT ![m] = g]
  BY <1>4, <1>6 DEF OnNotice, k
<1>9. \A j \in Keys : g.run[j] # "no" => fetch[m].run[j] # "no" \/ (~logs[m][j].held /\ j \notin refused[m])
  BY <1>5, <1>7 DEF Only
<1>10. /\ logs[m] \in [Keys -> Log] /\ logs' = [logs EXCEPT ![m] = logs[m]]
       /\ \A j \in Keys : LogOK(own(m, j), logs[m][j], reader[m][j]) /\ Follows(logs[m][j], logs[m][j])
  BY <1>2, LogFacts DEF OnNotice, Follows
<1>11. SceneKept /\ UNCHANGED <<stage, pending, refused, reader>>
  BY SceneKeeps DEF OnNotice, CoreInv, Shape
<1> QED
  BY <1>7, <1>8, <1>9, <1>10, <1>11, FetchStep

LEMMA LearntOK ==
    ASSUME NEW m, NEW x \in Message, x.type = "keys", NEW expected
    PROVE  learnt(m, x, expected) \in SUBSET Item
<1>1. x.items \in SUBSET Item
  BY MessageKinds
<1> QED
  BY <1>1 DEF learnt

\* What a key message comes to.
LEMMA KeysHeard ==
    ASSUME Wires, NEW m \in Members, NEW p \in Members, OnKeys(m, p)
    PROVE  \E learn, f, now : /\ learn \in SUBSET Item /\ f = considerAll(m, fetch[m], newIn(m, learn))
                              /\ hear(m, p, learn, f, now)
<1> DEFINE x == msg(m, p)
           expected == {e.items : e \in {e \in chan[<<m, p>>].expect : x.kind = "mine" /\ e.prefix = x.prefix}}
<1>1. x \in Message /\ x.type = "keys"
  BY FirstMessage DEF OnKeys
<1>2. learnt(m, x, expected) \in SUBSET Item
  BY <1>1, LearntOK
<1>3. \E learn, f, now : /\ learn = learnt(m, x, expected) /\ f = considerAll(m, fetch[m], newIn(m, learn))
                         /\ hear(m, p, learn, f, now)
  BY DEF OnKeys
<1> HIDE DEF expected, x
<1> QED
  BY <1>2, <1>3

LEMMA KeysCore ==
    ASSUME CoreInv, Wires, NEW m \in Members, NEW p \in Members, OnKeys(m, p)
    PROVE  CoreInv'
<1>1. PICK learn, f, now : /\ learn \in SUBSET Item /\ f = considerAll(m, fetch[m], newIn(m, learn))
                           /\ hear(m, p, learn, f, now)
  BY KeysHeard
<1>2. FetchOK(fetch[m]) /\ logs \in [Members -> [Keys -> Log]]
  BY DEF CoreInv, MemberOK, Shape
<1>3. newIn(m, learn) \in SUBSET Keys
  BY <1>1 DEF newIn, Item
<1>4. FetchOK(f) /\ Only(m, fetch[m], newIn(m, learn), f)
  BY <1>1, <1>2, <1>3, ConsiderAllOK
<1>5. PICK g : g = [f EXCEPT !.dropped = FALSE]
  OBVIOUS
<1>6. FetchOK(g) /\ g.run = f.run /\ fetch' = [fetch EXCEPT ![m] = g]
  <2>1. FALSE \in BOOLEAN
    OBVIOUS
  <2> QED
    BY <1>1, <1>4, <1>5, <2>1, DroppedOK DEF hear
<1>7. \A j \in Keys : g.run[j] # "no" => fetch[m].run[j] # "no" \/ (~logs[m][j].held /\ j \notin refused[m])
  BY <1>4, <1>6 DEF Only
<1> DEFINE ls == [k \in Keys |-> IF logs[m][k].held /\ \E i \in learn : i[1] = k
                                 THEN claim(m, k, logs[m][k], (CHOOSE i \in learn : i[1] = k)[2]) ELSE logs[m][k]]
<1>8. logs' = [logs EXCEPT ![m] = ls]
  BY <1>1, <1>2 DEF hear
<1>9. ASSUME NEW k \in Keys PROVE LogOK(own(m, k), ls[k], reader[m][k]) /\ Follows(logs[m][k], ls[k])
  <2>1. /\ LogOK(own(m, k), logs[m][k], reader[m][k]) /\ Follows(logs[m][k], logs[m][k])
        /\ reader[m][k] \in {"no", "waits", "reads"}
    BY LogFacts DEF Follows
  <2>2. CASE logs[m][k].held /\ \E i \in learn : i[1] = k
    <3>1. PICK n \in Int : n = (CHOOSE i \in learn : i[1] = k)[2]
      BY <1>1, <2>2 DEF Item
    <3>2. LogOK(own(m, k), claim(m, k, logs[m][k], n), reader[m][k]) /\ Follows(logs[m][k], claim(m, k, logs[m][k], n))
      BY <2>1, ClaimOK
    <3> QED
      BY <2>2, <3>1, <3>2
  <2> QED
    BY <2>1, <2>2
<1>10. ls \in [Keys -> Log]
  BY <1>9 DEF LogOK
<1>11. SceneKept /\ UNCHANGED <<stage, pending, refused, reader>>
  BY SceneKeeps DEF OnKeys, CoreInv, Shape
<1> HIDE DEF ls
<1> QED
  BY <1>6, <1>7, <1>8, <1>9, <1>10, <1>11, FetchStep

\* A fetch is over, and others start.
LEMMA EndedOK ==
    ASSUME CoreInv, NEW m \in Members, NEW k \in Keys, fetch[m].run[k] # "no", NEW ls, ended(m, k, ls)
    PROVE  \E g : /\ FetchOK(g) /\ fetch' = [fetch EXCEPT ![m] = g] /\ g.run[k] = "no"
                  /\ \A j \in Keys : g.run[j] # "no" =>
                         fetch[m].run[j] # "no" \/ (~logs[m][j].held /\ j \notin refused[m])
<1>1. FetchOK(fetch[m])
  BY DEF CoreInv, MemberOK
<1>2. PICK f : f = [fetch[m] EXCEPT !.run[k] = "no"]
  OBVIOUS
<1>3. /\ f \in Fetch /\ f.queue = fetch[m].queue
      /\ \A j \in Keys : f.run[j] = IF j = k THEN "no" ELSE fetch[m].run[j]
  BY <1>1, <1>2 DEF FetchOK, Fetch
<1>4. FetchOK(f)
  <2>1. ASSUME NEW how \in {"plain", "urgent"} PROVE Cardinality(running(f, how)) <= FETCHES
    <3>1. running(f, how) \in SUBSET running(fetch[m], how)
      BY <1>3 DEF running
    <3>2. /\ Cardinality(running(f, how)) <= Cardinality(running(fetch[m], how))
          /\ Cardinality(running(f, how)) \in Nat /\ Cardinality(running(fetch[m], how)) \in Nat
      BY <3>1, RunningFinite, FS_Subset
    <3>3. Cardinality(running(fetch[m], how)) <= FETCHES /\ FETCHES \in Nat
      BY <1>1, DirectoryAssumption DEF FetchOK
    <3> QED
      BY <3>2, <3>3
  <2> QED
    BY <1>1, <1>3, <2>1 DEF FetchOK
<1>5. PICK g : g = nextFetch(m, f)
  OBVIOUS
<1>6. FetchOK(g) /\ Only(m, f, ToSet(f.queue), g)
  BY <1>4, <1>5, NextFetchOK
<1>7. k \notin ToSet(f.queue)
  BY <1>1, <1>3 DEF FetchOK
<1>8. g.run[k] = "no"
  BY <1>3, <1>6, <1>7 DEF Only
<1>9. \A j \in Keys : g.run[j] # "no" => fetch[m].run[j] # "no" \/ (~logs[m][j].held /\ j \notin refused[m])
  BY <1>3, <1>6 DEF Only
<1>10. fetch' = [fetch EXCEPT ![m] = g]
  BY <1>2, <1>5 DEF ended
<1> QED
  BY <1>6, <1>8, <1>9, <1>10

LEMMA TimeoutCore ==
    ASSUME CoreInv, NEW m \in Members, NEW k \in Keys, FetchTimeout(m, k)
    PROVE  CoreInv'
<1>1. fetch[m].run[k] # "no" /\ ended(m, k, logs[m]) /\ UNCHANGED <<stage, pending, refused, reader, logs>>
  BY DEF FetchTimeout
<1>2. PICK g : /\ FetchOK(g) /\ fetch' = [fetch EXCEPT ![m] = g]
               /\ \A j \in Keys : g.run[j] # "no" =>
                      fetch[m].run[j] # "no" \/ (~logs[m][j].held /\ j \notin refused[m])
  BY <1>1, EndedOK
<1>3. SceneKept
  <2> DEFINE served == \E p \in peers(m) : logs[p][k].held
  <2>1. scene \in Scene /\ scene.slow \in Nat
    BY DEF CoreInv, Shape, Scene
  <2>2. (served => scene.slow > 0) /\ scene' = [scene EXCEPT !.slow = IF served THEN @ - 1 ELSE @]
    BY DEF FetchTimeout
  <2> HIDE DEF served
  <2>3. \E n \in Nat : scene' = [scene EXCEPT !.slow = n]
    <3>1. CASE served
      <4>1. scene' = [scene EXCEPT !.slow = scene.slow - 1] /\ scene.slow - 1 \in Nat
        BY <2>1, <2>2, <3>1
      <4> QED
        BY <4>1
    <3>2. CASE ~served
      BY <2>1, <2>2, <3>2
    <3> QED
      BY <3>1, <3>2
  <2> QED
    BY <2>1, <2>3, SceneKeeps
<1>4. /\ logs[m] \in [Keys -> Log] /\ logs' = [logs EXCEPT ![m] = logs[m]]
      /\ \A j \in Keys : LogOK(own(m, j), logs[m][j], reader[m][j]) /\ Follows(logs[m][j], logs[m][j])
  BY <1>1, LogFacts DEF Follows, CoreInv, Shape
<1> QED
  BY <1>1, <1>2, <1>3, <1>4, FetchStep

\* m has as much of the decisions as it had, but for those about the author of k.
StageKept(m, k) ==
    /\ stage' \in [Members -> [Keys -> Nat]]
    /\ \A n \in Members, j \in Keys : stage'[n][j] \in 1 .. Len(scene.course[j])
    /\ \A n \in Members : n # m => stage'[n] = stage[n]
    /\ \A j \in Keys : j # k => stage'[m][j] = stage[m][j]

\* The logs of m but k are what they were.
KeyTurned(m, k, g, l, q, R) ==
    /\ fetch' = [fetch EXCEPT ![m] = g]
    /\ \A j \in Keys : j # k /\ g.run[j] # "no" =>
           fetch[m].run[j] # "no" \/ (~logs[m][j].held /\ j \notin refused[m])
    /\ logs' = [logs EXCEPT ![m][k] = l]
    /\ q \in Seq(Keys) /\ pending' = [pending EXCEPT ![m] = q]
    /\ Len(q) <= MAX_PENDING /\ ToSet(q) \subseteq ToSet(pending[m]) \cup {k}
    /\ R \in SUBSET Keys /\ refused' = [refused EXCEPT ![m] = R]
    /\ \A j \in Keys : j # k => (j \in R <=> j \in refused[m])

LEMMA KeyTurn ==
    ASSUME CoreInv, SceneKept, NEW m \in Members, NEW k \in Keys, StageKept(m, k), UNCHANGED reader,
           NEW g, FetchOK(g), NEW l \in Log, LogOK(own(m, k), l, reader[m][k]), NEW q, NEW R,
           KeyTurned(m, k, g, l, q, R), KeyOK(m, k)'
    PROVE  CoreInv'
<1>1. Shape /\ MemberOK(m)
  BY DEF CoreInv
<1>2. /\ logs' \in [Members -> [Keys -> Log]] /\ logs'[m][k] = l
      /\ \A j \in Keys : j # k => logs'[m][j] = logs[m][j]
      /\ \A n \in Members : n # m => logs'[n] = logs[n]
  BY <1>1 DEF Shape, KeyTurned
<1>3. /\ fetch' \in [Members -> Fetch] /\ fetch'[m] = g
      /\ \A n \in Members : n # m => fetch'[n] = fetch[n]
  BY <1>1 DEF Shape, KeyTurned, FetchOK
<1>4. /\ pending' \in [Members -> Seq(Keys)] /\ pending'[m] = q
      /\ \A n \in Members : n # m => pending'[n] = pending[n]
  BY <1>1 DEF Shape, KeyTurned
<1>5. /\ refused' \in [Members -> SUBSET Keys] /\ refused'[m] = R
      /\ \A n \in Members : n # m => refused'[n] = refused[n]
  BY <1>1 DEF Shape, KeyTurned
<1>6. Shape'
  BY <1>1, <1>2, <1>3, <1>4, <1>5 DEF Shape, SceneKept, StageKept
<1>7. \A j \in Keys : own(m, j)' = own(m, j) /\ (j # k => mayRetry(m, j)' = mayRetry(m, j))
  BY DEF own, mayRetry, SceneKept, StageKept
<1>8. FetchOK(fetch[m])' /\ pending'[m] \in Seq(Keys) /\ Len(pending'[m]) <= MAX_PENDING
  BY <1>3, <1>4 DEF KeyTurned
<1>9. ASSUME NEW j \in Keys PROVE LogOK(own(m, j), logs[m][j], reader[m][j])' /\ KeyOK(m, j)'
  <2>1. LogOK(own(m, j), logs[m][j], reader[m][j]) /\ KeyOK(m, j)
    BY <1>1 DEF MemberOK
  <2>2. LogOK(own(m, j), logs[m][j], reader[m][j])'
    BY <1>2, <1>7, <2>1
  <2>3. CASE j = k
    BY <2>2, <2>3
  <2>4. CASE j # k
    <3>1. Follows(logs[m][j], logs'[m][j])
      BY <1>2, <2>4 DEF Follows
    <3>2. /\ fetch'[m].run[j] # "no" => fetch[m].run[j] # "no" \/ (~logs[m][j].held /\ j \notin refused[m])
          /\ j \in ToSet(pending'[m]) => j \in ToSet(pending[m])
          /\ j \in refused'[m] <=> j \in refused[m]
      BY <1>3, <1>4, <1>5, <2>4 DEF KeyTurned
    <3>3. mayRetry(m, j)' => mayRetry(m, j)
      BY <1>7, <2>4
    <3>4. KeyOK(m, j)'
      BY <2>1, <3>1, <3>2, <3>3, KeyKept
    <3> QED
      BY <2>2, <3>4
  <2> QED
    BY <2>3, <2>4
<1>10. MemberOK(m)'
  BY <1>8, <1>9 DEF MemberOK
<1>11. \A n \in Members : n # m => reader'[n] = reader[n] /\ stage'[n] = stage[n]
  BY DEF StageKept
<1> QED
  BY <1>2, <1>3, <1>4, <1>5, <1>6, <1>10, <1>11, OneMember

LEMMA LimitNat ==
    ASSUME CoreInv, NEW m \in Members, NEW k \in Keys
    PROVE  limitOf(m, k) \in Nat /\ scene.course[k] \in Seq(Nat) /\ stage[m][k] \in 1 .. Len(scene.course[k])
<1>1. scene.course[k] \in Seq(Nat) /\ stage[m][k] \in 1 .. Len(scene.course[k])
  BY DEF CoreInv, Shape, Scene
<1> QED
  BY <1>1 DEF limitOf

LEMMA KeepWaiting ==
    ASSUME NEW q \in Seq(Keys), Len(q) <= MAX_PENDING, NEW k \in Keys
    PROVE  /\ keepWaiting(q, k) \in Seq(Keys) /\ Len(keepWaiting(q, k)) <= MAX_PENDING
           /\ ToSet(keepWaiting(q, k)) \subseteq ToSet(q) \cup {k}
<1>1. Len(q) \in Nat /\ MAX_PENDING \in Nat \ {0}
  BY DirectoryAssumption
<1>2. PICK room : room = IF Len(q) >= MAX_PENDING THEN Tail(q) ELSE q
  OBVIOUS
<1>3. room \in Seq(Keys) /\ Len(room) < MAX_PENDING /\ ToSet(room) \subseteq ToSet(q)
  <2>1. CASE Len(q) >= MAX_PENDING
    <3>1. Len(q) = MAX_PENDING /\ Len(q) > 0 /\ q # <<>>
      BY <1>1, <2>1
    <3>2. Tail(q) \in Seq(Keys) /\ Len(Tail(q)) = Len(q) - 1
      BY <3>1
    <3>3. DOMAIN q = 1 .. Len(q) /\ DOMAIN Tail(q) = 1 .. Len(q) - 1
      BY <3>2
    <3>4. \A i \in 1 .. Len(q) - 1 : Tail(q)[i] = q[i + 1] /\ i + 1 \in 1 .. Len(q)
      BY <1>1, <3>1
    <3>5. ToSet(Tail(q)) \subseteq ToSet(q)
      BY <3>3, <3>4 DEF ToSet
    <3> QED
      BY <1>1, <1>2, <2>1, <3>1, <3>2, <3>5
  <2>2. CASE ~ (Len(q) >= MAX_PENDING)
    BY <1>1, <1>2, <2>2
  <2> QED
    BY <2>1, <2>2
<1>4. keepWaiting(q, k) = IF k \in ToSet(room) THEN room ELSE Append(room, k)
  BY <1>2 DEF keepWaiting
<1>5. /\ Append(room, k) \in Seq(Keys) /\ Len(Append(room, k)) = Len(room) + 1 /\ Len(room) \in Nat
      /\ ToSet(Append(room, k)) \subseteq ToSet(room) \cup {k}
  BY <1>3, AppendSet
<1> QED
  BY <1>1, <1>3, <1>4, <1>5

LEMMA FetchHeaderCore ==
    ASSUME CoreInv, NEW m \in Members, NEW k \in Keys, FetchHeader(m, k)
    PROVE  CoreInv'
<1> DEFINE good == k \notin scene.bad
           ok == good /\ limitOf(m, k) > 1
           l == logs[m][k]
<1>1. fetch[m].run[k] # "no" /\ UNCHANGED <<scene, stage, reader>>
  BY DEF FetchHeader
<1>2. /\ SceneKept /\ StageKept(m, k) /\ Shape /\ MemberOK(m)
      /\ pending[m] \in Seq(Keys) /\ Len(pending[m]) <= MAX_PENDING /\ refused[m] \in SUBSET Keys
      /\ \A j \in Keys : own(m, j)' = own(m, j) /\ mayRetry(m, j)' = mayRetry(m, j)
  BY <1>1, SceneKeeps DEF CoreInv, Shape, StageKept, MemberOK, own, mayRetry
<1>3. /\ l \in Log /\ LogOK(own(m, k), l, reader[m][k]) /\ KeyOK(m, k) /\ limitOf(m, k) \in Nat
      /\ reader[m][k] \in {"no", "waits", "reads"}
  BY LogFacts, LimitNat
<1>4. ~own(m, k) => ~live(l) /\ k \notin refused[m]
  BY <1>1, <1>3 DEF KeyOK
<1>5. PICK ls : ended(m, k, ls)
  BY DEF FetchHeader
<1>6. PICK g : /\ FetchOK(g) /\ fetch' = [fetch EXCEPT ![m] = g] /\ g.run[k] = "no"
               /\ \A j \in Keys : g.run[j] # "no" =>
                      fetch[m].run[j] # "no" \/ (~logs[m][j].held /\ j \notin refused[m])
  BY <1>1, <1>5, EndedOK
<1>7. fetch'[m].run[k] = "no"
  BY <1>2, <1>6 DEF Shape
<1>8. /\ pending = [pending EXCEPT ![m] = pending[m]] /\ refused = [refused EXCEPT ![m] = refused[m]]
      /\ logs = [logs EXCEPT ![m][k] = l]
      /\ ToSet(pending[m]) \subseteq ToSet(pending[m]) \cup {k}
  BY <1>2 DEF Shape
<1>9. CASE /\ ok /\ set(m, k, IF l.held THEN l ELSE accept(m, k, l))
           /\ pending' = [pending EXCEPT ![m] = except(@, k)] /\ UNCHANGED refused
  <2>1. PICK a : a = IF l.held THEN l ELSE accept(m, k, l)
    OBVIOUS
  <2>2. LogOK(own(m, k), a, reader[m][k]) /\ a \in Log /\ (~own(m, k) => a.held)
    <3>1. ~l.held => LogOK(own(m, k), accept(m, k, l), reader[m][k]) /\ accept(m, k, l).held
      <4> HIDE DEF l
      <4> QED
        BY <1>3, <1>4, AcceptOK
    <3>2. LogOK(own(m, k), a, reader[m][k])
      BY <1>3, <2>1, <3>1
    <3> QED
      BY <1>4, <2>1, <3>1, <3>2 DEF LogOK, live
  <2>3. PICK q : q = except(pending[m], k)
    OBVIOUS
  <2>4. q \in Seq(Keys) /\ Len(q) <= Len(pending[m]) /\ ToSet(q) \subseteq ToSet(pending[m]) \ {k}
    BY <1>2, <2>3, ExceptKey
  <2>5. Len(q) <= MAX_PENDING
    <3>1. Len(q) \in Nat /\ Len(pending[m]) \in Nat /\ MAX_PENDING \in Nat
      BY <1>2, <2>4, DirectoryAssumption
    <3> QED
      BY <1>2, <2>4, <3>1
  <2>6. logs' = [logs EXCEPT ![m][k] = a] /\ pending' = [pending EXCEPT ![m] = q]
    BY <1>9, <2>1, <2>3 DEF set
  <2>7. KeyTurned(m, k, g, a, q, refused[m])
    BY <1>2, <1>6, <1>8, <1>9, <2>4, <2>5, <2>6 DEF KeyTurned
  <2>8. KeyOK(m, k)'
    <3>1. logs'[m][k] = a /\ pending'[m] = q /\ refused'[m] = refused[m]
      BY <1>2, <1>9, <2>6 DEF Shape
    <3>2. k \notin ToSet(q)
      BY <2>4
    <3> QED
      BY <1>2, <1>4, <1>7, <2>2, <3>1, <3>2 DEF KeyOK
  <2> QED
    BY <1>1, <1>2, <1>6, <2>2, <2>7, <2>8, KeyTurn
<1>10. CASE /\ ~ok /\ good /\ mayRetry(m, k)
            /\ pending' = [pending EXCEPT ![m] = keepWaiting(@, k)] /\ UNCHANGED <<logs, refused>>
  <2>1. PICK q : q = keepWaiting(pending[m], k)
    OBVIOUS
  <2>2. q \in Seq(Keys) /\ Len(q) <= MAX_PENDING /\ ToSet(q) \subseteq ToSet(pending[m]) \cup {k}
    BY <1>2, <2>1, KeepWaiting
  <2>3. KeyTurned(m, k, g, l, q, refused[m])
    BY <1>2, <1>6, <1>8, <1>10, <2>1, <2>2 DEF KeyTurned
  <2>4. KeyOK(m, k)'
    <3>1. logs'[m][k] = l /\ refused'[m] = refused[m]
      BY <1>10
    <3>2. k \notin scene'.bad
      BY <1>1, <1>10
    <3> QED
      BY <1>2, <1>4, <1>7, <3>1, <3>2 DEF KeyOK, live
  <2> HIDE DEF l
  <2> QED
    BY <1>1, <1>2, <1>3, <1>6, <2>3, <2>4, KeyTurn
<1>11. CASE /\ ~ok /\ ~(good /\ mayRetry(m, k))
            /\ refused' = [refused EXCEPT ![m] = @ \cup {k}] /\ UNCHANGED <<logs, pending>>
  <2>1. PICK R \in SUBSET Keys : R = refused[m] \cup {k}
    BY <1>2
  <2>2. KeyTurned(m, k, g, l, pending[m], R)
    BY <1>2, <1>6, <1>8, <1>11, <2>1 DEF KeyTurned
  <2>3. KeyOK(m, k)'
    <3>1. logs'[m][k] = l /\ pending'[m] = pending[m]
      BY <1>11
    <3>2. ~own(m, k) /\ k \in ToSet(pending[m]) => k \notin scene'.bad /\ ~mayRetry(m, k)
      BY <1>1, <1>3, <1>11 DEF KeyOK
    <3> QED
      BY <1>2, <1>4, <1>7, <3>1, <3>2 DEF KeyOK, live
  <2> HIDE DEF l
  <2> QED
    BY <1>1, <1>2, <1>3, <1>6, <2>2, <2>3, KeyTurn
<1> QED
  BY <1>9, <1>10, <1>11 DEF FetchHeader

LEMMA DecideCore ==
    ASSUME CoreInv, NEW m \in Members, NEW k \in Keys, Decide(m, k)
    PROVE  CoreInv'
<1> DEFINE l == logs[m][k]
           n == stage[m][k]
           r == reader[m][k]
<1>1. /\ SceneKept /\ Shape /\ MemberOK(m) /\ UNCHANGED <<scene, pending, reader>>
      /\ pending[m] \in Seq(Keys) /\ Len(pending[m]) <= MAX_PENDING /\ refused[m] \in SUBSET Keys
      /\ FetchOK(fetch[m]) /\ own(m, k)' = own(m, k)
  BY SceneKeeps DEF Decide, CoreInv, Shape, MemberOK, own
<1>2. l \in Log /\ LogOK(own(m, k), l, r) /\ KeyOK(m, k) /\ r \in {"no", "waits", "reads"}
  BY LogFacts
<1>3. /\ scene.course[k] \in Seq(Nat) /\ n \in 1 .. Len(scene.course[k]) /\ n < Len(scene.course[k])
      /\ n + 1 \in 1 .. Len(scene.course[k])
  BY LimitNat DEF Decide
<1>4. PICK limit \in Nat : limit = scene.course[k][n + 1]
  BY <1>3
<1>5. PICK cuts \in BOOLEAN : cuts <=> (l.held /\ limit # l.limit /\ limit # Inf)
  OBVIOUS
<1>6. PICK a : a = IF cuts THEN cut(m, k, l, limit) ELSE l
  OBVIOUS
<1>7. PICK g : g = IF k \in ToSet(pending[m]) /\ limit > 1 /\ k \notin active(fetch[m])
                   THEN [start(fetch[m], k, FALSE) EXCEPT !.dropped = FALSE] ELSE fetch[m]
  OBVIOUS
<1>8. PICK R : R = IF cuts /\ limit <= 1 THEN refused[m] \cup {k} ELSE refused[m]
  OBVIOUS
<1>9. logs' = [logs EXCEPT ![m][k] = a]
  BY <1>4, <1>5, <1>6 DEF Decide, set
<1>10. fetch' = [fetch EXCEPT ![m] = g]
  BY <1>4, <1>7 DEF Decide
<1>11. refused' = [refused EXCEPT ![m] = R]
  BY <1>1, <1>4, <1>5, <1>8 DEF Decide
<1>12. StageKept(m, k) /\ stage'[m][k] = n + 1
  <2>1. stage' = [stage EXCEPT ![m][k] = n + 1]
    BY DEF Decide
  <2>2. stage \in [Members -> [Keys -> Nat]] /\ n + 1 \in Nat
    BY <1>1, <1>3 DEF Shape
  <2> HIDE DEF n
  <2> QED
    BY <1>1, <1>3, <2>1, <2>2 DEF StageKept, Shape
<1>13. LogOK(own(m, k), a, r) /\ a \in Log /\ (cuts => (a.held <=> limit > 1))
  <2>1. CASE cuts
    <3> HIDE DEF l, r
    <3> QED
      BY <1>2, <1>5, <1>6, <2>1, CutOK DEF LogOK
  <2>2. CASE ~cuts
    BY <1>2, <1>6, <2>2
  <2> QED
    BY <2>1, <2>2
<1>14. FetchOK(g) /\ (\A j \in Keys : j # k => g.run[j] = fetch[m].run[j])
  <2>1. CASE k \notin active(fetch[m])
    <3>1. fetch[m].run[k] = "no"
      BY <2>1 DEF active
    <3>2. PICK u \in BOOLEAN : u = FALSE
      OBVIOUS
    <3>3. PICK s : s = start(fetch[m], k, u)
      OBVIOUS
    <3>4. FetchOK(s) /\ \A j \in Keys : j # k => s.run[j] = fetch[m].run[j]
      BY <1>1, <3>1, <3>3, StartOK
    <3>5. FetchOK([s EXCEPT !.dropped = u]) /\ [s EXCEPT !.dropped = u].run = s.run
      BY <3>4, DroppedOK
    <3>6. g = [s EXCEPT !.dropped = u] \/ g = fetch[m]
      BY <1>7, <3>2, <3>3
    <3> QED
      BY <1>1, <3>4, <3>5, <3>6
  <2>2. CASE k \in active(fetch[m])
    BY <1>1, <1>7, <2>2
  <2> QED
    BY <2>1, <2>2
<1>15. KeyTurned(m, k, g, a, pending[m], R)
  <2>1. pending' = [pending EXCEPT ![m] = pending[m]]
    BY <1>1 DEF Shape
  <2>2. R \in SUBSET Keys /\ \A j \in Keys : j # k => (j \in R <=> j \in refused[m])
    BY <1>1, <1>8
  <2> QED
    BY <1>1, <1>9, <1>10, <1>11, <1>14, <2>1, <2>2 DEF KeyTurned
<1>16. KeyOK(m, k)'
  <2> SUFFICES ASSUME ~own(m, k) PROVE KeyOK(m, k)'
    BY <1>1 DEF KeyOK
  <2>1. /\ logs'[m][k] = a /\ pending'[m] = pending[m] /\ fetch'[m] = g /\ refused'[m] = R /\ scene' = scene
    BY <1>1, <1>9, <1>10, <1>11 DEF Shape
  <2>2. /\ live(l) => fetch[m].run[k] = "no" /\ k \notin ToSet(pending[m]) /\ (l.held \/ k \in refused[m])
        /\ fetch[m].run[k] # "no" => k \notin refused[m]
        /\ l.held => k \notin refused[m]
        /\ k \in ToSet(pending[m]) => k \notin scene.bad /\ (k \in refused[m] => ~mayRetry(m, k))
    BY <1>2 DEF KeyOK
  <2>3. CASE cuts
    <3>1. live(l) /\ l.held
      BY <1>5, <2>3 DEF live
    <3>2. g = fetch[m]
      BY <1>7, <2>2, <3>1
    <3>3. a.held \/ k \in R
      BY <1>8, <1>13, <2>3
    <3>4. a.held => k \notin R
      BY <1>8, <1>13, <2>2, <2>3, <3>1
    <3> QED
      BY <2>1, <2>2, <3>1, <3>2, <3>3, <3>4 DEF KeyOK
  <2>4. CASE ~cuts
    <3>1. a = l /\ R = refused[m]
      BY <1>6, <1>8, <2>4
    <3>2. mayRetry(m, k)' => mayRetry(m, k)
      <4>1. stage'[m][k] = n + 1 /\ n \in Nat /\ scene' = scene
        BY <1>1, <1>3, <1>12
      <4>2. \A i \in n + 2 .. Len(scene.course[k]) : i \in n + 1 .. Len(scene.course[k])
        BY <1>3, <4>1
      <4>3. (n + 1) + 1 = n + 2
        BY <4>1
      <4> QED
        BY <4>1, <4>2, <4>3 DEF mayRetry
    <3>3. CASE k \in ToSet(pending[m]) /\ limit > 1
      <4>1. mayRetry(m, k)
        <5>1. n + 1 \in n + 1 .. Len(scene.course[k])
          BY <1>3
        <5> QED
          BY <1>4, <3>3, <5>1 DEF mayRetry
      <4>2. k \notin refused[m] /\ ~live(l)
        BY <2>2, <3>3, <4>1
      <4> QED
        BY <2>1, <2>2, <3>1, <3>3, <4>2 DEF KeyOK, live
    <3>4. CASE ~ (k \in ToSet(pending[m]) /\ limit > 1)
      <4>1. g = fetch[m]
        BY <1>7, <3>4
      <4> QED
        BY <2>1, <2>2, <3>1, <3>2, <4>1 DEF KeyOK
    <3> QED
      BY <3>3, <3>4
  <2> QED
    BY <2>3, <2>4
<1> QED
  BY <1>1, <1>12, <1>13, <1>14, <1>15, <1>16, KeyTurn

LEMMA WriteCore ==
    ASSUME CoreInv, NEW m \in Members, NEW k \in Keys, Write(m, k)
    PROVE  CoreInv'
<1> DEFINE l == logs[m][k]
           r == reader[m][k]
<1>1. /\ SceneKept /\ Shape /\ MemberOK(m) /\ own(m, k) /\ UNCHANGED <<refused, fetch, reader>>
      /\ pending[m] \in Seq(Keys) /\ Len(pending[m]) <= MAX_PENDING /\ refused[m] \in SUBSET Keys
      /\ FetchOK(fetch[m]) /\ own(m, k)' /\ StageKept(m, k)
      /\ refused' = [refused EXCEPT ![m] = refused[m]] /\ fetch' = [fetch EXCEPT ![m] = fetch[m]]
      /\ pending = [pending EXCEPT ![m] = pending[m]]
  BY SceneKeeps DEF Write, CoreInv, Shape, MemberOK, own, StageKept
<1>2. /\ l \in Log /\ LogOK(own(m, k), l, r) /\ r \in {"no", "waits", "reads"} /\ limitOf(m, k) \in Nat
      /\ CoreUsed(l, r) /\ OwnOpen(l)
  BY <1>1, LogFacts, LimitNat DEF LogOK
<1>3. PICK b \in Log : b = [l EXCEPT !.length = @ + 1]
  <2>1. l.length + 1 \in Nat
    BY <1>2 DEF Log
  <2> QED
    BY <1>2, <2>1, LogWith
<1>4. PICK a : a = IF l.held THEN measure(b) ELSE accept(m, k, l)
  OBVIOUS
<1>5. logs' = [logs EXCEPT ![m][k] = a]
  BY <1>3, <1>4 DEF Write, set
<1>6. LogOK(own(m, k), a, r) /\ a \in Log
  <2>1. CASE l.held
    <3>1. /\ b.held = l.held /\ b.core = l.core /\ b.opening = l.opening /\ b.closing = l.closing
          /\ b.uses = l.uses /\ b.timer = l.timer /\ b.busy = l.busy
      BY <1>2, <1>3 DEF Log
    <3>2. CoreUsed(b, r) /\ OwnOpen(b) /\ b.held
      BY <1>2, <2>1, <3>1 DEF CoreUsed, OwnOpen
    <3>3. LogOK(own(m, k), measure(b), r)
      BY <1>1, <3>2, MeasureOK
    <3> QED
      BY <1>4, <2>1, <3>3 DEF LogOK
  <2>2. CASE ~l.held
    <3>1. LogOK(own(m, k), accept(m, k, l), r)
      <4> HIDE DEF l, r
      <4>1. ~own(m, k) => ~live(l)
        BY <1>1
      <4> QED
        BY <1>2, <2>2, <4>1, AcceptOK
    <3> QED
      BY <1>4, <2>2, <3>1 DEF LogOK
  <2> QED
    BY <2>1, <2>2
<1>7. PICK q : q = IF l.held THEN pending[m] ELSE except(pending[m], k)
  OBVIOUS
<1>8. q \in Seq(Keys) /\ Len(q) <= MAX_PENDING /\ ToSet(q) \subseteq ToSet(pending[m]) \cup {k}
  <2>1. /\ except(pending[m], k) \in Seq(Keys) /\ Len(except(pending[m], k)) <= Len(pending[m])
        /\ ToSet(except(pending[m], k)) \subseteq ToSet(pending[m]) \ {k}
    BY <1>1, ExceptKey
  <2>2. Len(except(pending[m], k)) \in Nat /\ Len(pending[m]) \in Nat /\ MAX_PENDING \in Nat
    BY <1>1, <2>1, DirectoryAssumption
  <2>3. Len(except(pending[m], k)) <= MAX_PENDING
    BY <1>1, <2>1, <2>2
  <2> QED
    BY <1>1, <1>7, <2>1, <2>3
<1>9. pending' = [pending EXCEPT ![m] = q]
  BY <1>1, <1>7 DEF Write
<1>10. KeyTurned(m, k, fetch[m], a, q, refused[m])
  BY <1>1, <1>5, <1>8, <1>9 DEF KeyTurned
<1>11. KeyOK(m, k)'
  BY <1>1 DEF KeyOK
<1> QED
  BY <1>1, <1>6, <1>10, <1>11, KeyTurn

LEMMA NoFetchOK == NoFetch \in Fetch /\ FetchOK(NoFetch) /\ \A k \in Keys : NoFetch.run[k] = "no"
<1> DEFINE none == <<>>
<1>0. none \in Seq(Keys)
  OBVIOUS
<1> HIDE DEF none
<1>1. PICK q \in Seq(Keys) : q = none
  BY <1>0
<1>2. PICK r \in [Keys -> {"no", "plain", "urgent"}] : r = [k \in Keys |-> "no"]
  OBVIOUS
<1>3. PICK f : f = NoFetch
  OBVIOUS
<1>4. f = [queue |-> q, run |-> r, dropped |-> FALSE]
  BY <1>1, <1>2, <1>3 DEF NoFetch, none
<1>5. f \in Fetch /\ f.queue = <<>> /\ \A k \in Keys : f.run[k] = "no"
  <2>1. f \in Fetch /\ f.queue = q /\ f.run = r
    BY <1>4 DEF Fetch
  <2> QED
    BY <1>1, <1>2, <2>1 DEF none
<1>6. running(f, "plain") = {} /\ running(f, "urgent") = {}
  BY <1>5 DEF running
<1>7. Cardinality({}) = 0 /\ FETCHES \in Nat /\ MAX_QUEUE \in Nat /\ Len(<<>>) = 0
  BY FS_EmptySet, DirectoryAssumption
<1>8. Cardinality({}) <= FETCHES /\ Len(<<>>) <= MAX_QUEUE
  BY <1>7
<1>9. /\ Cardinality(running(f, "plain")) <= FETCHES /\ Cardinality(running(f, "urgent")) <= FETCHES
      /\ Len(f.queue) <= MAX_QUEUE
  BY <1>5, <1>6, <1>8
<1> QED
  BY <1>3, <1>5, <1>9 DEF FetchOK

LEMMA CrashCore ==
    ASSUME CoreInv, NEW m \in Members, Crash(m)
    PROVE  CoreInv'
<1>1. /\ Shape /\ UNCHANGED stage
      /\ logs' = [logs EXCEPT ![m] = [k \in Keys |-> reopened(m, k, @[k])]]
      /\ pending' = [pending EXCEPT ![m] = <<>>] /\ refused' = [refused EXCEPT ![m] = {}]
      /\ fetch' = [fetch EXCEPT ![m] = NoFetch] /\ reader' = [reader EXCEPT ![m] = [k \in Keys |-> "no"]]
  BY DEF Crash, CoreInv
<1>2. SceneKept
  <2>1. scene \in Scene /\ scene.crashes \ {m} \in SUBSET Members
    BY <1>1 DEF Shape, Scene
  <2> QED
    BY <2>1, SceneKeeps DEF Crash
<1> DEFINE ls == [k \in Keys |-> reopened(m, k, logs[m][k])]
<1>3. ASSUME NEW k \in Keys
      PROVE  LogOK(own(m, k), ls[k], "no") /\ (live(ls[k]) => ls[k].held)
  <2>1. logs[m][k] \in Log
    BY <1>1 DEF Shape
  <2> QED
    BY <2>1, ReopenedOK
<1>4. ls \in [Keys -> Log]
  BY <1>3 DEF LogOK
<1>5. logs' = [logs EXCEPT ![m] = ls]
  BY <1>1
<1> HIDE DEF ls
<1>6. NoFetch \in Fetch /\ FetchOK(NoFetch) /\ \A k \in Keys : NoFetch.run[k] = "no"
  BY NoFetchOK
<1>7. /\ logs' \in [Members -> [Keys -> Log]] /\ logs'[m] = ls
      /\ fetch' \in [Members -> Fetch] /\ fetch'[m] = NoFetch
      /\ pending' \in [Members -> Seq(Keys)] /\ pending'[m] = <<>>
      /\ refused' \in [Members -> SUBSET Keys] /\ refused'[m] = {}
      /\ reader' \in [Members -> [Keys -> {"no", "waits", "reads"}]]
      /\ \A k \in Keys : reader'[m][k] = "no"
  BY <1>1, <1>4, <1>5, <1>6 DEF Shape
<1>8. \A n \in Members : n # m =>
          /\ logs'[n] = logs[n] /\ reader'[n] = reader[n] /\ pending'[n] = pending[n]
          /\ refused'[n] = refused[n] /\ fetch'[n] = fetch[n] /\ stage'[n] = stage[n]
  BY <1>1 DEF Shape
<1>9. Shape'
  BY <1>1, <1>2, <1>7 DEF Shape, SceneKept
<1>10. MemberOK(m)'
  <2>1. \A k \in Keys : own(m, k)' = own(m, k)
    BY <1>2 DEF own, SceneKept
  <2>2. FetchOK(fetch[m])'
    BY <1>6, <1>7
  <2>3. pending'[m] \in Seq(Keys) /\ Len(pending'[m]) <= MAX_PENDING /\ ToSet(pending'[m]) = {}
    BY <1>7, DirectoryAssumption DEF ToSet
  <2>4. ASSUME NEW k \in Keys PROVE LogOK(own(m, k), logs[m][k], reader[m][k])' /\ KeyOK(m, k)'
    <3>1. LogOK(own(m, k), logs[m][k], reader[m][k])'
      BY <1>3, <1>7, <2>1
    <3>2. /\ fetch'[m].run[k] = "no" /\ k \notin ToSet(pending'[m]) /\ k \notin refused'[m]
          /\ live(logs'[m][k]) => logs'[m][k].held
      BY <1>3, <1>6, <1>7, <2>3
    <3> QED
      BY <3>1, <3>2 DEF KeyOK
  <2> QED
    BY <2>2, <2>3, <2>4 DEF MemberOK
<1> QED
  BY <1>2, <1>8, <1>9, <1>10, OneMember

\* What goes on between members changes no log.
LEMMA WireCore ==
    ASSUME CoreInv, UNCHANGED <<stage, logs, pending, refused, fetch, reader>>, SceneKept
    PROVE  CoreInv'
<1>1. Shape'
  BY DEF CoreInv, Shape, SceneKept
<1>2. ASSUME NEW m \in Members PROVE MemberOK(m)'
  <2>1. MemberOK(m)
    BY DEF CoreInv
  <2> QED
    BY <2>1, MemberKept
<1> QED
  BY <1>1, <1>2 DEF CoreInv

LEMMA InitCore ==
    ASSUME Init
    PROVE  CoreInv
<1>1. /\ scene \in Scene /\ stage = scene.stage /\ scene.holds \in [Members -> [Keys -> Nat]]
      /\ \A m \in Members, k \in Keys : stage[m][k] \in 1 .. Len(scene.course[k])
      /\ stage \in [Members -> [Keys -> Nat]]
  BY SceneAssumption DEF Init, Scene
<1>2. ASSUME NEW m \in Members, NEW k \in Keys
      PROVE  LogOK(own(m, k), logs[m][k], "no") /\ (live(logs[m][k]) => logs[m][k].held)
  <2>1. PICK n \in Nat : n = scene.holds[m][k]
    BY <1>1
  <2>2. PICK l : l = [NoLog EXCEPT !.held = TRUE, !.length = n, !.saved = n, !.listed = n]
    OBVIOUS
  <2>3. logs[m][k] = IF n = 0 THEN NoLog ELSE IF own(m, k) THEN [l EXCEPT !.core = TRUE] ELSE l
    BY <2>1, <2>2 DEF Init
  <2>4. n \in Nat /\ n \in Int
    OBVIOUS
  <2>5. /\ l \in Log /\ l.held /\ l.listed = n /\ l.length = n /\ ~l.core /\ ~l.opening /\ ~l.closing
        /\ l.uses = 0 /\ ~l.busy /\ ~l.timer
    <3>1. PICK a \in Log : a = [NoLog EXCEPT !.held = TRUE]
      BY NoLogOK, LogWith
    <3>2. PICK b \in Log : b = [a EXCEPT !.length = n]
      BY LogWith
    <3>3. PICK c \in Log : c = [b EXCEPT !.saved = n]
      BY <2>4, LogWith
    <3>4. PICK d \in Log : d = [c EXCEPT !.listed = n]
      BY <2>4, LogWith
    <3>5. l = d
      BY <2>2, <3>1, <3>2, <3>3, <3>4
    <3>6. /\ l.held /\ l.listed = n /\ l.length = n /\ ~l.core /\ ~l.opening /\ ~l.closing
          /\ l.uses = 0 /\ ~l.busy /\ ~l.timer
      BY <2>2 DEF NoLog
    <3> QED
      BY <3>5, <3>6
  <2>6. CASE n = 0
    BY <2>3, <2>6, NoLogOK
  <2>7. CASE n # 0 /\ ~own(m, k)
    BY <2>3, <2>5, <2>7 DEF LogOK, CoreUsed, live
  <2>8. CASE n # 0 /\ own(m, k)
    <3>1. PICK a \in Log : a = [l EXCEPT !.core = TRUE]
      BY <2>5, LogWith
    <3>2. /\ a.held = l.held /\ a.listed = n /\ a.length = n /\ a.core = TRUE /\ a.opening = l.opening
          /\ a.closing = l.closing /\ a.uses = 0 /\ a.busy = l.busy /\ a.timer = l.timer
      BY <2>5, <3>1 DEF Log
    <3>3. logs[m][k] = a
      BY <2>3, <2>8, <3>1
    <3>4. /\ a.held /\ a.listed = n /\ a.length = n /\ a.core /\ ~a.opening /\ ~a.closing
          /\ a.uses = 0 /\ ~a.busy /\ ~a.timer
      BY <2>5, <3>1, <3>2 DEF Log
    <3>5. CoreUsed(a, "no") /\ OwnOpen(a) /\ a.listed <= a.length
      BY <2>4, <3>4 DEF CoreUsed, OwnOpen
    <3>6. LogOK(own(m, k), a, "no") /\ live(a) /\ a.held
      BY <3>1, <3>4, <3>5 DEF LogOK, live
    <3> QED
      BY <3>3, <3>6
  <2> QED
    BY <2>6, <2>7, <2>8
<1>3. \A m \in Members, k \in Keys : logs[m][k] \in Log
  BY <1>2 DEF LogOK
<1>4. NoFetch \in Fetch /\ FetchOK(NoFetch) /\ \A k \in Keys : NoFetch.run[k] = "no"
  BY NoFetchOK
<1>5. Shape
  <2>1. /\ pending \in [Members -> Seq(Keys)] /\ refused \in [Members -> SUBSET Keys]
        /\ fetch \in [Members -> Fetch] /\ reader \in [Members -> [Keys -> {"no", "waits", "reads"}]]
    <3>1. /\ pending = [m \in Members |-> <<>>] /\ refused = [m \in Members |-> {}]
          /\ fetch = [m \in Members |-> NoFetch] /\ reader = [m \in Members |-> [k \in Keys |-> "no"]]
      BY DEF Init
    <3>2. pending \in [Members -> Seq(Keys)]
      BY <3>1
    <3>3. fetch \in [Members -> Fetch]
      BY <1>4, <3>1
    <3> QED
      BY <3>1, <3>2, <3>3
  <2>2. logs = [m \in Members |-> [k \in Keys |-> logs[m][k]]]
    BY DEF Init
  <2>3. logs \in [Members -> [Keys -> Log]]
    BY <1>3, <2>2
  <2> QED
    BY <1>1, <2>1, <2>3 DEF Shape
<1>6. ASSUME NEW m \in Members PROVE MemberOK(m)
  <2>1. /\ fetch[m] = NoFetch /\ pending[m] = <<>> /\ refused[m] = {}
        /\ \A k \in Keys : reader[m][k] = "no"
    BY DEF Init
  <2>2. pending[m] \in Seq(Keys) /\ Len(pending[m]) <= MAX_PENDING /\ ToSet(pending[m]) = {}
    BY <2>1, DirectoryAssumption DEF ToSet
  <2>3. ASSUME NEW k \in Keys PROVE LogOK(own(m, k), logs[m][k], reader[m][k]) /\ KeyOK(m, k)
    BY <1>2, <1>4, <2>1, <2>2 DEF KeyOK
  <2> QED
    BY <1>4, <2>1, <2>2, <2>3 DEF MemberOK
<1> QED
  BY <1>5, <1>6 DEF CoreInv

-----------------------------------------------------------------------------
(* The answers an exchange waits for are on their way.                     *)

back(e) == <<e[2], e[1]>>

ChanOK(c) ==
    /\ {"x", "theirs"} \subseteq DOMAIN c
    /\ c.theirs \in {None} \cup SUBSET Item /\ c.x \in {None} \cup Exchange

\* One end of a channel waits for as many answers as are on their way to it or
\* are still to be given.
Linked(e) ==
    chan[e] # None =>
        ChanOK(chan[e]) /\ waitingOf(chan[e]) = toAnswer(wire[e]) + answers(wire[back(e)])

NetInv == Wires /\ chan = [e \in Links |-> chan[e]] /\ \A e \in Links : Linked(e)

LEMMA Back ==
    ASSUME NEW e \in Links
    PROVE  back(e) \in Links /\ back(e) # e /\ back(back(e)) = e
BY DEF Links, back

LEMMA ExchangeWith ==
    ASSUME NEW x \in Exchange
    PROVE  /\ \A n \in Nat : [x EXCEPT !.waiting = n] \in Exchange /\ [x EXCEPT !.waiting = n].waiting = n
           /\ \A t \in {None} \cup SUBSET Item :
                  [x EXCEPT !.theirs = t] \in Exchange /\ [x EXCEPT !.theirs = t].waiting = x.waiting
           /\ \A S \in SUBSET Keys :
                  [x EXCEPT !.checks = S] \in Exchange /\ [x EXCEPT !.checks = S].waiting = x.waiting
           /\ \A b \in BOOLEAN :
                  [x EXCEPT !.dropped = b] \in Exchange /\ [x EXCEPT !.dropped = b].waiting = x.waiting
BY DEF Exchange

LEMMA ExchangeOK ==
    ASSUME NEW c, ChanOK(c)
    PROVE  /\ exchange(c) \in Exchange /\ exchange(c).waiting = waitingOf(c) /\ waitingOf(c) \in Nat
<1>1. c.theirs \in {None} \cup SUBSET Item /\ c.x \in {None} \cup Exchange
  BY DEF ChanOK
<1>2. CASE c.x = None
  <2>1. 0 \in Nat /\ {} \in SUBSET Keys
    OBVIOUS
  <2>2. PICK n \in Nat, S \in SUBSET Keys, b \in BOOLEAN : n = 0 /\ S = {} /\ b = FALSE
    BY <2>1
  <2>3. PICK x : x = [theirs |-> c.theirs, waiting |-> n, checks |-> S, dropped |-> b]
    OBVIOUS
  <2>4. x \in Exchange /\ x.waiting = n
    BY <1>1, <2>3 DEF Exchange
  <2>5. exchange(c) = x
    BY <1>2, <2>2, <2>3 DEF exchange
  <2> QED
    BY <1>2, <2>2, <2>4, <2>5 DEF waitingOf
<1>3. CASE c.x # None
  <2>1. PICK x \in Exchange : x = c.x
    BY <1>1, <1>3
  <2>2. x.waiting \in Nat
    BY DEF Exchange
  <2>3. PICK y \in Exchange : y = [x EXCEPT !.theirs = c.theirs] /\ y.waiting = x.waiting
    BY <1>1, ExchangeWith
  <2> QED
    BY <1>3, <2>1, <2>2, <2>3 DEF exchange, waitingOf
<1> QED
  BY <1>2, <1>3

\* Questions sent are waited for.
LEMMA SentWaits ==
    ASSUME NEW c, ChanOK(c), NEW out, toAnswer(out) \in Nat
    PROVE  /\ ChanOK(sent(c, out)) /\ sent(c, out).x \in Exchange
           /\ waitingOf(sent(c, out)) = waitingOf(c) + toAnswer(out)
<1>1. PICK x \in Exchange : x = exchange(c) /\ x.waiting = waitingOf(c) /\ x.waiting \in Nat
  BY ExchangeOK
<1>2. PICK n \in Nat : n = x.waiting + toAnswer(out)
  BY <1>1
<1>3. PICK y \in Exchange : y = [x EXCEPT !.waiting = n]
  BY ExchangeWith
<1>9. y.waiting = n
  BY <1>3 DEF Exchange
<1>4. y = [exchange(c) EXCEPT !.waiting = @ + toAnswer(out)]
  BY <1>1, <1>2, <1>3
<1>5. PICK d : d = [c EXCEPT !.x = y]
  OBVIOUS
<1>6. sent(c, out) = d
  BY <1>4, <1>5 DEF sent
<1>7. DOMAIN d = DOMAIN c /\ d.x = y /\ d.theirs = c.theirs
  BY <1>5 DEF ChanOK
<1>8. y # None
  BY ExchangeAssumption
<1> QED
  BY <1>1, <1>2, <1>6, <1>7, <1>8, <1>9 DEF ChanOK, waitingOf

\* An answer is waited for no more.
LEMMA GoesOnWaits ==
    ASSUME NEW c, ChanOK(c), c.x \in Exchange, NEW done \in BOOLEAN, done => waitingOf(c) > 0
    PROVE  /\ ChanOK(goesOn(c, done))
           /\ waitingOf(goesOn(c, done)) = waitingOf(c) - (IF done THEN 1 ELSE 0)
<1>1. PICK x \in Exchange : x = c.x /\ x # None /\ x.waiting \in Nat
  BY ExchangeAssumption DEF Exchange
<1>2. waitingOf(c) = x.waiting
  BY <1>1 DEF waitingOf
<1>9. waitingOf(c) - (IF done THEN 1 ELSE 0) = IF done THEN x.waiting - 1 ELSE x.waiting
  BY <1>1, <1>2
<1>3. PICK d : d = [c EXCEPT !.x = None]
  OBVIOUS
<1>4. ChanOK(d) /\ waitingOf(d) = 0
  BY <1>3 DEF ChanOK, waitingOf
<1>5. CASE x.waiting = 0
  <2>1. goesOn(c, done) = d /\ ~done
    BY <1>1, <1>2, <1>3, <1>5 DEF goesOn
  <2> QED
    BY <1>4, <1>5, <1>9, <2>1
<1>6. CASE x.waiting # 0 /\ ~done
  <2>1. goesOn(c, done) = c
    BY <1>1, <1>6 DEF goesOn
  <2> QED
    BY <1>2, <1>6, <1>9, <2>1
<1>7. CASE x.waiting > 1 /\ done
  <2>1. PICK n \in Nat : n = x.waiting - 1
    BY <1>1, <1>7
  <2>2. PICK y \in Exchange : y = [x EXCEPT !.waiting = n]
    BY ExchangeWith
  <2>6. y.waiting = n
    BY <2>2 DEF Exchange
  <2>3. PICK e : e = [c EXCEPT !.x = y]
    OBVIOUS
  <2>4. goesOn(c, done) = e
    BY <1>1, <1>7, <2>1, <2>2, <2>3 DEF goesOn, answeredOnce
  <2>5. e.x = y /\ y # None /\ ChanOK(e)
    BY <2>3, ExchangeAssumption DEF ChanOK
  <2> QED
    BY <1>7, <1>9, <2>1, <2>4, <2>5, <2>6 DEF waitingOf
<1>8. CASE x.waiting = 1 /\ done
  <2>1. PICK e : e = [c EXCEPT !.x = None,
                       !.ending = Append(@, [theirs |-> c.x.theirs, checks |-> c.x.checks, dropped |-> c.x.dropped])]
    OBVIOUS
  <2>2. goesOn(c, done) = e
    BY <1>1, <1>8, <2>1 DEF goesOn, answeredOnce
  <2>3. DOMAIN e = DOMAIN c /\ e.x = None /\ e.theirs = c.theirs
    BY <2>1 DEF ChanOK
  <2>4. waitingOf(e) = 0 /\ ChanOK(e)
    BY <2>3 DEF ChanOK, waitingOf
  <2>5. x.waiting - 1 = 0
    BY <1>8
  <2> QED
    BY <1>8, <1>9, <2>2, <2>4, <2>5
<1> QED
  BY <1>1, <1>5, <1>6, <1>7, <1>8

LEMMA SettleWaits ==
    ASSUME NEW c, ChanOK(c), NEW mine
    PROVE  ChanOK(settle(c, mine)) /\ waitingOf(settle(c, mine)) = waitingOf(c)
<1>1. /\ DOMAIN settle(c, mine) = DOMAIN c /\ settle(c, mine).x = c.x /\ settle(c, mine).theirs = c.theirs
  BY DEF settle, ChanOK
<1> QED
  BY <1>1 DEF ChanOK, waitingOf

\* Nothing that is counted comes, goes or is waited for.
LEMMA NetKept ==
    ASSUME NetInv, Wires', chan' = [e \in Links |-> chan'[e]],
           \A e \in Links : chan'[e] # None =>
               /\ chan[e] # None
               /\ ChanOK(chan'[e]) /\ waitingOf(chan'[e]) = waitingOf(chan[e])
               /\ toAnswer(wire'[e]) = toAnswer(wire[e])
               /\ answers(wire'[back(e)]) = answers(wire[back(e)])
    PROVE  NetInv'
<1>1. ASSUME NEW e \in Links PROVE Linked(e)'
  <2> SUFFICES ASSUME chan'[e] # None
               PROVE  /\ ChanOK(chan'[e])
                      /\ waitingOf(chan'[e]) = toAnswer(wire'[e]) + answers(wire'[back(e)])
    BY DEF Linked
  <2>1. Linked(e) /\ chan[e] # None
    BY DEF NetInv
  <2> QED
    BY <2>1 DEF Linked
<1> QED
  BY <1>1 DEF NetInv

\* One end of a channel changes, and what is on its way between its two.
LEMMA PairStep ==
    ASSUME NetInv, NEW e \in Links, chan[e] # None, Wires',
           NEW c, ChanOK(c), chan' = [chan EXCEPT ![e] = c],
           \A f \in Links : f # e /\ f # back(e) => wire'[f] = wire[f],
           waitingOf(c) = toAnswer(wire'[e]) + answers(wire'[back(e)]),
           toAnswer(wire'[back(e)]) + answers(wire'[e]) = toAnswer(wire[back(e)]) + answers(wire[e])
    PROVE  NetInv'
<1>1. DOMAIN chan = Links
  BY DEF NetInv
<1>2. chan'[e] = c /\ (\A f \in Links : f # e => chan'[f] = chan[f]) /\ chan' = [f \in Links |-> chan'[f]]
  BY <1>1
<1>3. back(e) \in Links /\ back(e) # e /\ back(back(e)) = e
  BY Back
<1>4. ASSUME NEW f \in Links PROVE Linked(f)'
  <2>1. Linked(f)
    BY DEF NetInv
  <2>2. CASE f = e
    BY <1>2, <2>2 DEF Linked
  <2>3. CASE f = back(e)
    BY <1>2, <1>3, <2>1, <2>3 DEF Linked
  <2>4. CASE f # e /\ f # back(e)
    <3>1. back(f) \in Links /\ back(f) # e /\ back(f) # back(e)
      BY <1>3, <2>4, Back
    <3> QED
      BY <1>2, <2>1, <2>4, <3>1 DEF Linked
  <2> QED
    BY <2>2, <2>3, <2>4
<1> QED
  BY <1>2, <1>4 DEF NetInv

\* A message is one of those that are answered, or is an answer, or neither.
asks(x) == IF answered(x) THEN 1 ELSE 0
isDone(x) == IF x.type = "keys" /\ x.kind = "done" THEN 1 ELSE 0

\* m handles the first message from p, answers it if it is one that is answered,
\* and waits for the answers to its own questions, but for the one it has.
LEMMA Answered ==
    ASSUME NetInv, NEW m \in Members, NEW p \in Members, NEW type, first(m, p, type),
           NEW out \in Seq(Message), answer(m, p, out), answers(out) = asks(msg(m, p)),
           NEW c, ChanOK(c), chan' = [chan EXCEPT ![<<m, p>>] = c],
           waitingOf(c) = waitingOf(chan[<<m, p>>]) + toAnswer(out) - isDone(msg(m, p))
    PROVE  NetInv'
<1> DEFINE e == <<m, p>>
           d == <<p, m>>
           x == msg(m, p)
           q == wire[d]
           r == wire[e]
<1>1. /\ e \in Links /\ d \in Links /\ d # e /\ back(e) = d /\ chan[e] # None
      /\ q \in Seq(Message) /\ q # <<>> /\ r \in Seq(Message) /\ x = Head(q)
  BY FirstMessage DEF NetInv, back, msg, first, up
<1>2. /\ Tail(q) \in Seq(Message) /\ toAnswer(q) = toAnswer(Tail(q)) + asks(x)
      /\ answers(q) = answers(Tail(q)) + isDone(x)
  <2> HIDE DEF q, x
  <2> QED
    BY <1>1, CountHead DEF asks, isDone
<1>3. DOMAIN wire = Links /\ wire' = [wire EXCEPT ![d] = Tail(@), ![e] = @ \o out]
  BY DEF NetInv, Wires, answer
<1>4. /\ wire'[d] = Tail(q) /\ wire'[e] = r \o out
      /\ \A f \in Links : f # e /\ f # d => wire'[f] = wire[f]
      /\ wire' = [f \in Links |-> wire'[f]]
  BY <1>1, <1>3
<1> HIDE DEF q, r, e, d
<1>5. Wires'
  <2>1. r \o out \in Seq(Message)
    BY <1>1
  <2>2. ASSUME NEW f \in Links PROVE wire'[f] \in Seq(Message)
    BY <1>1, <1>2, <1>4, <2>1 DEF NetInv, Wires
  <2> QED
    BY <1>4, <2>2 DEF Wires
<1>6. /\ toAnswer(r) \in Nat /\ answers(r) \in Nat /\ toAnswer(out) \in Nat /\ answers(out) \in Nat
      /\ toAnswer(r \o out) = toAnswer(r) + toAnswer(out)
      /\ answers(r \o out) = answers(r) + answers(out)
      /\ toAnswer(Tail(q)) \in Nat /\ answers(Tail(q)) \in Nat
  BY <1>1, <1>2, CountConcat
<1>7. ChanOK(chan[e]) /\ waitingOf(chan[e]) = toAnswer(r) + answers(q)
  BY <1>1 DEF NetInv, Linked, r, q, e, d
<1>8. asks(x) \in Nat /\ isDone(x) \in Nat
  BY DEF asks, isDone
<1>9. /\ answers(out) = asks(x) /\ waitingOf(c) = waitingOf(chan[e]) + toAnswer(out) - isDone(x)
      /\ chan' = [chan EXCEPT ![e] = c]
  BY DEF e
<1>14. waitingOf(chan[e]) \in Nat
  BY <1>7, ExchangeOK
<1> HIDE DEF x
<1>10. waitingOf(c) = toAnswer(wire'[e]) + answers(wire'[d])
  BY <1>2, <1>4, <1>6, <1>7, <1>8, <1>9, <1>14
<1>11. toAnswer(wire'[d]) + answers(wire'[e]) = toAnswer(wire[d]) + answers(wire[e])
  BY <1>2, <1>4, <1>6, <1>8, <1>9 DEF q, r
<1> QED
  BY <1>1, <1>4, <1>5, <1>9, <1>10, <1>11, PairStep

LEMMA RestWaits ==
    ASSUME NEW c, ChanOK(c), NEW d, DOMAIN d = DOMAIN c, d.x = c.x, d.theirs \in {None} \cup SUBSET Item
    PROVE  ChanOK(d) /\ waitingOf(d) = waitingOf(c)
BY DEF ChanOK, waitingOf

\* The first range of an exchange is a question.
LEMMA FirstRange ==
    ASSUME CoreInv, NEW m \in Members
    PROVE  /\ Ranges(m, <<>>) \in Message /\ <<Ranges(m, <<>>)>> \in Seq(Message)
           /\ toAnswer(<<Ranges(m, <<>>)>>) = 1 /\ answers(<<Ranges(m, <<>>)>>) = 0
<1>1. <<>> \in Prefix
  BY DEF Prefix
<1>2. PICK r : r = Ranges(m, <<>>)
  OBVIOUS
<1>3. r \in Message
  BY <1>1, <1>2, SentOK
<1>4. r.type = "ranges"
  BY <1>2 DEF Ranges
<1>5. answered(r) /\ ~(r.type = "keys" /\ r.kind = "done")
  BY <1>4 DEF answered
<1>6. toAnswer(<<r>>) = 1 /\ answers(<<r>>) = 0
  BY <1>5, CountOne
<1> QED
  BY <1>2, <1>3, <1>6

LEMMA SummaryNet ==
    ASSUME CoreInv, NetInv, NEW m \in Members, NEW p \in Members, OnSummary(m, p)
    PROVE  NetInv'
<1> DEFINE x == msg(m, p)
           d == x.digest
           old == chan[<<m, p>>]
           c == [old EXCEPT !.theirs = d]
           differs == d # items(m) /\ ~(c.settledOn = d /\ c.settledMine = items(m))
           starts == differs /\ (<<m, p>> \in scene.initiates \/ ~known[m])
           now == IF d = items(m) THEN [c EXCEPT !.settledOn = d, !.settledMine = d]
                  ELSE IF starts /\ ~busy(c) THEN begin(m, c)
                  ELSE [c EXCEPT !.second = @ \/ (differs /\ ~starts)]
           out == IF starts /\ ~busy(c) THEN <<Ranges(m, <<>>)>> ELSE <<>>
<1>1. /\ first(m, p, "summary") /\ answer(m, p, out) /\ chan' = [chan EXCEPT ![<<m, p>>] = now]
  BY DEF OnSummary
<1>2. x \in Message /\ x.type = "summary" /\ d \in SUBSET Item /\ <<m, p>> \in Links /\ old # None
  <2>1. x \in Message /\ x.type = "summary" /\ <<m, p>> \in Links
    BY <1>1, FirstMessage DEF NetInv
  <2>2. d \in SUBSET Item
    BY <2>1, MessageKinds
  <2> QED
    BY <1>1, <2>1, <2>2 DEF first, up
<1>3. ChanOK(old)
  BY <1>2 DEF NetInv, Linked
<1>4. asks(x) = 0 /\ isDone(x) = 0
  BY <1>2 DEF asks, isDone, answered
<1>5. ChanOK(c) /\ waitingOf(c) = waitingOf(old)
  <2>1. DOMAIN c = DOMAIN old /\ c.x = old.x /\ c.theirs = d
    BY <1>3 DEF ChanOK
  <2> HIDE DEF c, old, d
  <2> QED
    BY <1>2, <1>3, <2>1, RestWaits
<1>6. waitingOf(old) \in Nat
  BY <1>3, ExchangeOK
<1> HIDE DEF x, d, old, c
<1>7. /\ ChanOK(now) /\ out \in Seq(Message) /\ answers(out) = 0 /\ toAnswer(out) \in Nat
      /\ waitingOf(now) = waitingOf(old) + toAnswer(out)
  <2>1. CASE d = items(m)
    <3>1. out = <<>> /\ now = [c EXCEPT !.settledOn = d, !.settledMine = d]
      BY <2>1
    <3>2. DOMAIN now = DOMAIN c /\ now.x = c.x /\ now.theirs = c.theirs
      BY <1>5, <3>1 DEF ChanOK
    <3> HIDE DEF out, now
    <3>3. ChanOK(now) /\ waitingOf(now) = waitingOf(c)
      BY <1>5, <3>2, RestWaits DEF ChanOK
    <3> QED
      BY <1>5, <1>6, <3>1, <3>3, CountOne
  <2>2. CASE d # items(m) /\ starts /\ ~busy(c)
    <3>1. out = <<Ranges(m, <<>>)>> /\ now = sent(c, out)
      BY <2>2 DEF begin
    <3> HIDE DEF out, now
    <3>2. out \in Seq(Message) /\ toAnswer(out) = 1 /\ answers(out) = 0
      BY <3>1, FirstRange
    <3>3. ChanOK(now) /\ waitingOf(now) = waitingOf(c) + toAnswer(out)
      <4>1. toAnswer(out) \in Nat
        BY <3>2
      <4> QED
        BY <1>5, <3>1, <4>1, SentWaits
    <3> QED
      BY <1>5, <3>2, <3>3
  <2>3. CASE d # items(m) /\ ~(starts /\ ~busy(c))
    <3>1. out = <<>> /\ now = [c EXCEPT !.second = @ \/ (differs /\ ~starts)]
      BY <2>3
    <3>2. DOMAIN now = DOMAIN c /\ now.x = c.x /\ now.theirs = c.theirs
      <4> HIDE DEF differs, starts, out
      <4> QED
        BY <1>5, <3>1 DEF ChanOK
    <3> HIDE DEF out, now
    <3>3. ChanOK(now) /\ waitingOf(now) = waitingOf(c)
      BY <1>5, <3>2, RestWaits DEF ChanOK
    <3> QED
      BY <1>5, <1>6, <3>1, <3>3, CountOne
  <2> QED
    BY <2>1, <2>2, <2>3
<1>8. /\ answers(out) = asks(msg(m, p)) /\ answer(m, p, out) /\ chan' = [chan EXCEPT ![<<m, p>>] = now]
      /\ waitingOf(now) = waitingOf(chan[<<m, p>>]) + toAnswer(out) - isDone(msg(m, p))
  BY <1>1, <1>4, <1>6, <1>7 DEF x, old
<1> HIDE DEF out, now
<1> QED
  BY <1>1, <1>7, <1>8, Answered

\* One message more.
LEMMA CountAppend ==
    ASSUME NEW q \in Seq(Message), NEW x \in Message
    PROVE  /\ Append(q, x) \in Seq(Message) /\ toAnswer(Append(q, x)) = toAnswer(q) + asks(x)
           /\ answers(Append(q, x)) = answers(q) + isDone(x) /\ toAnswer(q) \in Nat /\ answers(q) \in Nat
<1>1. <<x>> \in Seq(Message) /\ Append(q, x) = q \o <<x>>
  OBVIOUS
<1>2. toAnswer(<<x>>) = asks(x) /\ answers(<<x>>) = isDone(x)
  BY CountOne DEF asks, isDone
<1>3. PICK r \in Seq(Message) : r = <<x>>
  BY <1>1
<1>4. /\ q \o r \in Seq(Message) /\ toAnswer(q \o r) = toAnswer(q) + toAnswer(r)
      /\ answers(q \o r) = answers(q) + answers(r) /\ toAnswer(q) \in Nat /\ answers(q) \in Nat
  BY CountConcat
<1> QED
  BY <1>1, <1>2, <1>3, <1>4

\* What is told to all counts for nothing.
LEMMA ToAllKept ==
    ASSUME Wires, NEW m, NEW x \in Message, asks(x) = 0, isDone(x) = 0, wire' = toAll(m, wire, x)
    PROVE  /\ Wires'
           /\ \A e \in Links : toAnswer(wire'[e]) = toAnswer(wire[e]) /\ answers(wire'[e]) = answers(wire[e])
<1>1. ASSUME NEW e \in Links
      PROVE  /\ wire'[e] \in Seq(Message)
             /\ toAnswer(wire'[e]) = toAnswer(wire[e]) /\ answers(wire'[e]) = answers(wire[e])
  <2>1. PICK q \in Seq(Message) : q = wire[e]
    BY DEF Wires
  <2>2. /\ Append(q, x) \in Seq(Message)
        /\ toAnswer(Append(q, x)) = toAnswer(q) /\ answers(Append(q, x)) = answers(q)
    BY CountAppend
  <2>3. wire'[e] = Append(q, x) \/ wire'[e] = q
    BY <2>1 DEF toAll
  <2> QED
    BY <2>1, <2>2, <2>3
<1>2. wire' = [e \in Links |-> wire'[e]]
  BY DEF toAll
<1> QED
  BY <1>1, <1>2 DEF Wires

\* The channels are what they were, and what is counted of what is on its way.
LEMMA WiresKept ==
    ASSUME NetInv, Wires', UNCHANGED chan,
           \A e \in Links : toAnswer(wire'[e]) = toAnswer(wire[e]) /\ answers(wire'[e]) = answers(wire[e])
    PROVE  NetInv'
<1>1. ASSUME NEW e \in Links, chan'[e] # None
      PROVE  /\ chan[e] # None
             /\ ChanOK(chan'[e]) /\ waitingOf(chan'[e]) = waitingOf(chan[e])
             /\ toAnswer(wire'[e]) = toAnswer(wire[e])
             /\ answers(wire'[back(e)]) = answers(wire[back(e)])
  BY <1>1, Back DEF NetInv, Linked
<1>2. chan' = [e \in Links |-> chan'[e]]
  BY DEF NetInv
<1> QED
  BY <1>1, <1>2, NetKept

LEMMA SendNet ==
    ASSUME CoreInv, NetInv, NEW m \in Members, SendSummary(m)
    PROVE  NetInv'
<1>1. PICK x : x = Summary(m)
  OBVIOUS
<1>2. x \in Message /\ asks(x) = 0 /\ isDone(x) = 0
  <2>1. x.type = "summary"
    BY <1>1 DEF Summary
  <2> QED
    BY <1>1, <2>1, SentOK DEF asks, isDone, answered
<1>3. wire' = toAll(m, wire, x) /\ UNCHANGED chan
  BY <1>1 DEF SendSummary
<1> QED
  BY <1>2, <1>3, ToAllKept, WiresKept DEF NetInv

LEMMA SecondNet ==
    ASSUME CoreInv, NetInv, NEW m \in Members, NEW p \in Members, Second(m, p)
    PROVE  NetInv'
<1> DEFINE e == <<m, p>>
           c == [chan[e] EXCEPT !.second = FALSE]
           r == Ranges(m, <<>>)
<1>1. /\ chan' = [chan EXCEPT ![e] = IF busy(c) THEN c ELSE begin(m, c)]
      /\ wire' = [wire EXCEPT ![e] = IF busy(c) THEN @ ELSE Append(@, r)]
      /\ e \in Links /\ chan[e] # None
  BY DEF Second, up, Links
<1>2. ChanOK(chan[e]) /\ waitingOf(chan[e]) = toAnswer(wire[e]) + answers(wire[back(e)])
  BY <1>1 DEF NetInv, Linked
<1>3. ChanOK(c) /\ waitingOf(c) = waitingOf(chan[e])
  <2>1. DOMAIN c = DOMAIN chan[e] /\ c.x = chan[e].x /\ c.theirs = chan[e].theirs
    BY <1>2 DEF ChanOK
  <2>2. chan[e].theirs \in {None} \cup SUBSET Item
    BY <1>2 DEF ChanOK
  <2> HIDE DEF c, e
  <2> QED
    BY <1>2, <2>1, <2>2, RestWaits
<1>4. r \in Message /\ toAnswer(<<r>>) = 1 /\ answers(<<r>>) = 0 /\ asks(r) = 1 /\ isDone(r) = 0
  BY FirstRange, CountOne DEF asks, isDone
<1>5. back(e) \in Links /\ back(e) # e /\ DOMAIN wire = Links /\ wire[e] \in Seq(Message) /\ DOMAIN chan = Links
  BY <1>1, Back DEF NetInv, Wires
<1>6. begin(m, c) = sent(c, <<r>>)
  BY DEF begin
<1>7. wire[back(e)] \in Seq(Message) /\ answers(wire[back(e)]) \in Nat /\ toAnswer(wire[back(e)]) \in Nat
  BY <1>5, CountConcat DEF NetInv, Wires
<1> HIDE DEF r, e, c
<1>8. CASE busy(c)
  <2>1. /\ chan' = [chan EXCEPT ![e] = c] /\ wire' = wire
    BY <1>1, <1>5, <1>8 DEF NetInv, Wires
  <2> QED
    BY <1>1, <1>2, <1>3, <1>5, <2>1, PairStep DEF NetInv, Wires
<1>9. CASE ~busy(c)
  <2>1. chan' = [chan EXCEPT ![e] = sent(c, <<r>>)]
    BY <1>1, <1>6, <1>9
  <2>2. wire' = [wire EXCEPT ![e] = Append(@, r)]
    BY <1>1, <1>9
  <2>3. wire'[e] = Append(wire[e], r) /\ \A f \in Links : f # e => wire'[f] = wire[f]
    BY <1>1, <1>5, <2>2
  <2>4. /\ Append(wire[e], r) \in Seq(Message) /\ toAnswer(Append(wire[e], r)) = toAnswer(wire[e]) + 1
        /\ answers(Append(wire[e], r)) = answers(wire[e]) /\ toAnswer(wire[e]) \in Nat /\ answers(wire[e]) \in Nat
    BY <1>4, <1>5, CountAppend
  <2>5. Wires'
    <3>1. wire' = [f \in Links |-> wire'[f]] /\ \A f \in Links : wire'[f] \in Seq(Message)
      BY <1>5, <2>2, <2>3, <2>4 DEF NetInv, Wires
    <3> QED
      BY <3>1 DEF Wires
  <2>6. ChanOK(sent(c, <<r>>)) /\ waitingOf(sent(c, <<r>>)) = waitingOf(c) + 1
    <3>1. toAnswer(<<r>>) \in Nat
      BY <1>4
    <3> QED
      BY <1>3, <1>4, <3>1, SentWaits
  <2>7. waitingOf(sent(c, <<r>>)) = toAnswer(wire'[e]) + answers(wire'[back(e)])
    BY <1>2, <1>3, <1>5, <1>7, <2>3, <2>4, <2>6
  <2>8. toAnswer(wire'[back(e)]) + answers(wire'[e]) = toAnswer(wire[back(e)]) + answers(wire[e])
    BY <1>5, <2>3, <2>4
  <2> QED
    BY <1>1, <2>1, <2>3, <2>5, <2>6, <2>7, <2>8, PairStep
<1> QED
  BY <1>8, <1>9

LEMMA ConnectNet ==
    ASSUME CoreInv, NetInv, NEW m \in Members, NEW p \in Members, Connect(m, p), m # p
    PROVE  NetInv'
<1> DEFINE e == <<m, p>>
           d == <<p, m>>
<1>1. /\ e \in Links /\ d \in Links /\ e # d /\ DOMAIN chan = Links /\ DOMAIN wire = Links
      /\ back(e) = d /\ back(d) = e
  BY DEF NetInv, Wires, Links, back
<1>2. /\ chan' = [chan EXCEPT ![e] = Channel, ![d] = Channel]
      /\ wire' = [wire EXCEPT ![e] = <<Summary(m)>>, ![d] = <<Summary(p)>>]
  BY DEF Connect
<1> HIDE DEF e, d
<1>3. /\ chan'[e] = Channel /\ chan'[d] = Channel /\ wire'[e] = <<Summary(m)>> /\ wire'[d] = <<Summary(p)>>
      /\ \A f \in Links : f # e /\ f # d => chan'[f] = chan[f] /\ wire'[f] = wire[f]
      /\ chan' = [f \in Links |-> chan'[f]] /\ wire' = [f \in Links |-> wire'[f]]
  BY <1>1, <1>2
<1>4. ASSUME NEW n \in Members
      PROVE  <<Summary(n)>> \in Seq(Message) /\ toAnswer(<<Summary(n)>>) = 0 /\ answers(<<Summary(n)>>) = 0
  <2>1. Summary(n).type = "summary"
    BY DEF Summary
  <2>2. ~answered(Summary(n)) /\ ~(Summary(n).type = "keys" /\ Summary(n).kind = "done")
    BY <2>1 DEF answered
  <2>3. Summary(n) \in Message
    BY SentOK
  <2> QED
    BY <2>2, <2>3, CountOne
<1>5. ChanOK(Channel) /\ waitingOf(Channel) = 0
  BY DEF Channel, ChanOK, waitingOf
<1>6. Wires'
  <2>1. \A f \in Links : wire'[f] \in Seq(Message)
    BY <1>3, <1>4 DEF NetInv, Wires
  <2> QED
    BY <1>3, <2>1 DEF Wires
<1>7. ASSUME NEW f \in Links PROVE Linked(f)'
  <2>1. CASE f = e \/ f = d
    <3>1. chan'[f] = Channel /\ toAnswer(wire'[f]) = 0 /\ answers(wire'[back(f)]) = 0
      BY <1>1, <1>3, <1>4, <2>1
    <3> QED
      BY <1>5, <3>1 DEF Linked
  <2>2. CASE f # e /\ f # d
    <3>1. back(f) # e /\ back(f) # d /\ back(f) \in Links
      BY <1>1, <2>2, Back
    <3>2. Linked(f)
      BY DEF NetInv
    <3> QED
      BY <1>3, <2>2, <3>1, <3>2 DEF Linked
  <2> QED
    BY <2>1, <2>2
<1> QED
  BY <1>3, <1>6, <1>7 DEF NetInv

\* Connections are lost.
LEMMA ApartNet ==
    ASSUME NetInv, NEW gone, apart(gone), \A e \in Links : e \in gone => back(e) \in gone
    PROVE  NetInv'
<1>1. ASSUME NEW e \in Links
      PROVE  /\ chan'[e] = IF e \in gone THEN None ELSE chan[e]
             /\ wire'[e] = IF e \in gone THEN <<>> ELSE wire[e]
  BY DEF apart
<1>2. chan' = [e \in Links |-> chan'[e]] /\ wire' = [e \in Links |-> wire'[e]]
  BY DEF apart
<1>3. Wires'
  <2>1. \A e \in Links : wire'[e] \in Seq(Message)
    <3>1. <<>> \in Seq(Message) /\ \A e \in Links : wire[e] \in Seq(Message)
      BY DEF NetInv, Wires
    <3> QED
      BY <1>1, <3>1
  <2> QED
    BY <1>2, <2>1 DEF Wires
<1>4. ASSUME NEW e \in Links, chan'[e] # None
      PROVE  /\ chan[e] # None
             /\ ChanOK(chan'[e]) /\ waitingOf(chan'[e]) = waitingOf(chan[e])
             /\ toAnswer(wire'[e]) = toAnswer(wire[e])
             /\ answers(wire'[back(e)]) = answers(wire[back(e)])
  <2>1. e \notin gone /\ back(e) \in Links /\ back(e) \notin gone
    BY <1>1, <1>4, Back
  <2>2. chan'[e] = chan[e] /\ wire'[e] = wire[e] /\ wire'[back(e)] = wire[back(e)]
    BY <1>1, <2>1
  <2>3. Linked(e) /\ chan[e] # None
    BY <1>4, <2>2 DEF NetInv
  <2> QED
    BY <2>2, <2>3 DEF Linked
<1> QED
  BY <1>2, <1>3, <1>4, NetKept

\* A message without an answer is read.
LEMMA ReadKept ==
    ASSUME Wires, NEW m \in Members, NEW p \in Members, NEW type, first(m, p, type), answer(m, p, <<>>),
           asks(msg(m, p)) = 0, isDone(msg(m, p)) = 0
    PROVE  /\ Wires'
           /\ \A e \in Links : toAnswer(wire'[e]) = toAnswer(wire[e]) /\ answers(wire'[e]) = answers(wire[e])
<1> DEFINE d == <<p, m>>
           e == <<m, p>>
           q == wire[d]
           r == wire[e]
<1>1. /\ e \in Links /\ d \in Links /\ e # d /\ q \in Seq(Message) /\ q # <<>> /\ r \in Seq(Message)
      /\ msg(m, p) = Head(q) /\ DOMAIN wire = Links /\ wire' = [wire EXCEPT ![d] = Tail(q), ![e] = r \o <<>>]
  BY FirstMessage DEF Wires, msg, answer
<1>2. r \o <<>> = r
  BY <1>1
<1>3. /\ Tail(q) \in Seq(Message) /\ toAnswer(q) = toAnswer(Tail(q)) + asks(Head(q))
      /\ answers(q) = answers(Tail(q)) + isDone(Head(q))
  <2> HIDE DEF q
  <2> QED
    BY <1>1, CountHead DEF asks, isDone
<1>4. toAnswer(Tail(q)) \in Nat /\ answers(Tail(q)) \in Nat
  BY <1>1, <1>3, CountConcat
<1>5. toAnswer(Tail(q)) = toAnswer(q) /\ answers(Tail(q)) = answers(q)
  BY <1>1, <1>3, <1>4
<1> HIDE DEF q, r, d, e
<1>6. ASSUME NEW f \in Links
      PROVE  wire'[f] \in Seq(Message) /\ toAnswer(wire'[f]) = toAnswer(wire[f]) /\ answers(wire'[f]) = answers(wire[f])
  <2>1. CASE f = d
    BY <1>1, <1>3, <1>5, <2>1 DEF q
  <2>2. CASE f = e
    BY <1>1, <1>2, <2>2 DEF r
  <2>3. CASE f # d /\ f # e
    BY <1>1, <2>3 DEF Wires
  <2> QED
    BY <2>1, <2>2, <2>3
<1>7. wire' = [f \in Links |-> wire'[f]]
  BY <1>1
<1> QED
  BY <1>6, <1>7 DEF Wires

\* What an exchange looks at changes, and the exchanges before it.
LEMMA LooksWaits ==
    ASSUME NEW c, ChanOK(c), NEW y, c.x = None => y = None,
           c.x # None => y \in Exchange /\ y.waiting = c.x.waiting, NEW o
    PROVE  /\ ChanOK([c EXCEPT !.x = y, !.ending = o])
           /\ waitingOf([c EXCEPT !.x = y, !.ending = o]) = waitingOf(c)
<1>1. PICK d : d = [c EXCEPT !.x = y, !.ending = o]
  OBVIOUS
<1>2. DOMAIN d = DOMAIN c /\ d.x = y /\ d.theirs = c.theirs
  BY <1>1 DEF ChanOK
<1>3. y \in {None} \cup Exchange /\ (c.x # None => y # None)
  BY ExchangeAssumption
<1> QED
  BY <1>1, <1>2, <1>3 DEF ChanOK, waitingOf

LEMMA NoticeNet ==
    ASSUME NetInv, NEW m \in Members, NEW p \in Members, OnNotice(m, p)
    PROVE  NetInv'
<1> DEFINE k == msg(m, p).key
           g == consider(m, fetch[m], k, TRUE)
           lost == k \in ToSet(fetch[m].queue) /\ k \in ToSet(g.queue) /\ ~g.dropped
           forget(e) == IF lost /\ k \in e.checks THEN [e EXCEPT !.checks = @ \ {k}, !.dropped = TRUE] ELSE e
           x(c) == IF c.x = None THEN None ELSE forget(c.x)
           o(c) == SelectSeq(c.ending, LAMBDA a : forget(a) = a)
<1>1. /\ first(m, p, "notice") /\ answer(m, p, <<>>)
      /\ chan' = [e \in Links |-> IF e[1] # m \/ chan[e] = None THEN chan[e]
                     ELSE [chan[e] EXCEPT !.x = x(chan[e]), !.ending = o(chan[e])]]
  BY DEF OnNotice
<1>2. asks(msg(m, p)) = 0 /\ isDone(msg(m, p)) = 0
  <2>1. msg(m, p).type = "notice"
    BY <1>1 DEF first, msg
  <2> QED
    BY <2>1 DEF asks, isDone, answered
<1>3. /\ Wires'
      /\ \A e \in Links : toAnswer(wire'[e]) = toAnswer(wire[e]) /\ answers(wire'[e]) = answers(wire[e])
  BY <1>1, <1>2, ReadKept DEF NetInv
<1> HIDE DEF lost, g, k, o
<1>4. ASSUME NEW c, ChanOK(c)
      PROVE  /\ c.x = None => x(c) = None
             /\ c.x # None => x(c) \in Exchange /\ x(c).waiting = c.x.waiting
  <2> SUFFICES ASSUME c.x # None PROVE x(c) \in Exchange /\ x(c).waiting = c.x.waiting
    OBVIOUS
  <2>1. PICK y \in Exchange : y = c.x
    BY <1>4 DEF ChanOK
  <2>2. y.checks \ {k} \in SUBSET Keys
    BY DEF Exchange
  <2>3. PICK z \in Exchange : z = [y EXCEPT !.checks = y.checks \ {k}] /\ z.waiting = y.waiting
    BY <2>2, ExchangeWith
  <2>4. PICK b \in BOOLEAN : b = TRUE
    OBVIOUS
  <2>5. PICK u \in Exchange : u = [z EXCEPT !.dropped = b] /\ u.waiting = z.waiting
    BY ExchangeWith
  <2>6. u = [y EXCEPT !.checks = @ \ {k}, !.dropped = TRUE]
    BY <2>3, <2>4, <2>5
  <2>7. x(c) = u \/ x(c) = y
    BY <2>1, <2>6
  <2> QED
    BY <2>1, <2>3, <2>5, <2>7
<1> HIDE DEF x
<1>5. ASSUME NEW e \in Links, chan'[e] # None
      PROVE  /\ chan[e] # None
             /\ ChanOK(chan'[e]) /\ waitingOf(chan'[e]) = waitingOf(chan[e])
             /\ toAnswer(wire'[e]) = toAnswer(wire[e])
             /\ answers(wire'[back(e)]) = answers(wire[back(e)])
  <2>1. chan[e] # None
    BY <1>1, <1>5
  <2>2. ChanOK(chan[e])
    BY <2>1 DEF NetInv, Linked
  <2>3. ChanOK(chan'[e]) /\ waitingOf(chan'[e]) = waitingOf(chan[e])
    <3>1. CASE e[1] # m
      BY <1>1, <2>2, <3>1
    <3>2. CASE e[1] = m
      <4>1. chan'[e] = [chan[e] EXCEPT !.x = x(chan[e]), !.ending = o(chan[e])]
        BY <1>1, <2>1, <3>2
      <4>2. PICK c : c = chan[e]
        OBVIOUS
      <4>3. PICK y : y = x(c)
        OBVIOUS
      <4>4. PICK w : w = o(c)
        OBVIOUS
      <4>5. chan'[e] = [c EXCEPT !.x = y, !.ending = w]
        BY <4>1, <4>2, <4>3, <4>4
      <4>6. /\ ChanOK(c)
            /\ c.x = None => y = None
            /\ c.x # None => y \in Exchange /\ y.waiting = c.x.waiting
        BY <1>4, <2>2, <4>2, <4>3
      <4>7. PICK d : d = [c EXCEPT !.x = y, !.ending = w]
        OBVIOUS
      <4>8. ChanOK(d) /\ waitingOf(d) = waitingOf(c)
        <5>1. /\ ChanOK([c EXCEPT !.x = y, !.ending = w])
              /\ waitingOf([c EXCEPT !.x = y, !.ending = w]) = waitingOf(c)
          BY <4>6, LooksWaits
        <5> QED
          BY <4>7, <5>1
      <4> QED
        BY <4>2, <4>5, <4>7, <4>8
    <3> QED
      BY <3>1, <3>2
  <2> QED
    BY <1>3, <2>1, <2>3, Back
<1>6. chan' = [e \in Links |-> chan'[e]]
  BY <1>1
<1> QED
  BY <1>3, <1>5, <1>6, NetKept

\* A fetch that ends answers nothing.
LEMMA EndedWaits ==
    ASSUME NetInv, NEW m \in Members, NEW k \in Keys, NEW ls, ended(m, k, ls)
    PROVE  /\ chan' = [e \in Links |-> chan'[e]]
           /\ \A e \in Links : chan'[e] # None =>
                  chan[e] # None /\ ChanOK(chan'[e]) /\ waitingOf(chan'[e]) = waitingOf(chan[e])
<1> DEFINE f == nextFetch(m, [fetch[m] EXCEPT !.run[k] = "no"])
           looked(e) == [e EXCEPT !.checks = @ \cap active(f)]
           x(c) == IF c.x = None THEN None ELSE looked(c.x)
           o(c) == [n \in DOMAIN c.ending |-> looked(c.ending[n])]
           after(c) == [c EXCEPT !.x = x(c), !.ending = o(c)]
<1>1. chan' = [e \in Links |-> IF e[1] # m \/ chan[e] = None THEN chan[e]
                   ELSE settle(after(chan[e]), itemsOf(ls))]
  BY DEF ended
<1> HIDE DEF f
<1>2. ASSUME NEW c, ChanOK(c)
      PROVE  /\ c.x = None => x(c) = None
             /\ c.x # None => x(c) \in Exchange /\ x(c).waiting = c.x.waiting
  <2> SUFFICES ASSUME c.x # None PROVE x(c) \in Exchange /\ x(c).waiting = c.x.waiting
    OBVIOUS
  <2>1. PICK y \in Exchange : y = c.x
    BY <1>2 DEF ChanOK
  <2>2. y.checks \cap active(f) \in SUBSET Keys
    BY DEF Exchange
  <2>3. PICK z \in Exchange : z = [y EXCEPT !.checks = y.checks \cap active(f)] /\ z.waiting = y.waiting
    BY <2>2, ExchangeWith
  <2> QED
    BY <2>1, <2>3
<1> HIDE DEF x, o
<1>3. ASSUME NEW e \in Links, chan'[e] # None
      PROVE  chan[e] # None /\ ChanOK(chan'[e]) /\ waitingOf(chan'[e]) = waitingOf(chan[e])
  <2>1. chan[e] # None
    BY <1>1, <1>3
  <2>2. ChanOK(chan[e])
    BY <2>1 DEF NetInv, Linked
  <2>3. CASE e[1] # m
    BY <1>1, <2>1, <2>2, <2>3
  <2>4. CASE e[1] = m
    <3>1. PICK c : c = chan[e]
      OBVIOUS
    <3>2. PICK y : y = x(c)
      OBVIOUS
    <3>3. PICK w : w = o(c)
      OBVIOUS
    <3>4. PICK d : d = [c EXCEPT !.x = y, !.ending = w]
      OBVIOUS
    <3>5. ChanOK(d) /\ waitingOf(d) = waitingOf(c)
      <4>1. /\ ChanOK(c)
            /\ c.x = None => y = None
            /\ c.x # None => y \in Exchange /\ y.waiting = c.x.waiting
        BY <1>2, <2>2, <3>1, <3>2
      <4>2. /\ ChanOK([c EXCEPT !.x = y, !.ending = w])
            /\ waitingOf([c EXCEPT !.x = y, !.ending = w]) = waitingOf(c)
        BY <4>1, LooksWaits
      <4> QED
        BY <3>4, <4>2
    <3>6. after(c) = d
      BY <3>2, <3>3, <3>4
    <3>7. chan'[e] = settle(d, itemsOf(ls))
      BY <1>1, <2>1, <2>4, <3>1, <3>6
    <3>8. ChanOK(settle(d, itemsOf(ls))) /\ waitingOf(settle(d, itemsOf(ls))) = waitingOf(d)
      BY <3>5, SettleWaits
    <3> QED
      BY <2>1, <3>1, <3>5, <3>7, <3>8
  <2> QED
    BY <2>3, <2>4
<1>4. chan' = [e \in Links |-> chan'[e]]
  BY <1>1
<1> QED
  BY <1>3, <1>4

\* A notice counts for nothing.
LEMMA NoticeToAll ==
    ASSUME Wires, CoreInv, NEW m \in Members, NEW k \in Keys, wire' = wire \/ wire' = toAll(m, wire, Notice(k))
    PROVE  /\ Wires'
           /\ \A e \in Links : toAnswer(wire'[e]) = toAnswer(wire[e]) /\ answers(wire'[e]) = answers(wire[e])
<1>1. PICK x : x = Notice(k)
  OBVIOUS
<1>2. x.type = "notice"
  BY <1>1 DEF Notice
<1>3. x \in Message /\ asks(x) = 0 /\ isDone(x) = 0
  BY <1>1, <1>2, SentOK DEF asks, isDone, answered
<1>4. CASE wire' = wire
  BY <1>4 DEF Wires
<1>5. CASE wire' = toAll(m, wire, x)
  BY <1>3, <1>5, ToAllKept
<1> QED
  BY <1>1, <1>4, <1>5

LEMMA FetchNet ==
    ASSUME CoreInv, NetInv, NEW m \in Members, NEW k \in Keys, FetchHeader(m, k) \/ FetchTimeout(m, k)
    PROVE  NetInv'
<1>1. PICK ls : ended(m, k, ls)
  BY DEF FetchHeader, FetchTimeout
<1>2. wire' = wire \/ wire' = toAll(m, wire, Notice(k))
  BY DEF FetchHeader, FetchTimeout
<1>3. /\ Wires'
      /\ \A e \in Links : toAnswer(wire'[e]) = toAnswer(wire[e]) /\ answers(wire'[e]) = answers(wire[e])
  BY <1>2, NoticeToAll DEF NetInv
<1>4. /\ chan' = [e \in Links |-> chan'[e]]
      /\ \A e \in Links : chan'[e] # None =>
             chan[e] # None /\ ChanOK(chan'[e]) /\ waitingOf(chan'[e]) = waitingOf(chan[e])
  BY <1>1, EndedWaits
<1> QED
  BY <1>3, <1>4, NetKept, Back

LEMMA WriteNet ==
    ASSUME CoreInv, NetInv, NEW m \in Members, NEW k \in Keys, Write(m, k)
    PROVE  NetInv'
<1>1. (wire' = wire \/ wire' = toAll(m, wire, Notice(k))) /\ UNCHANGED chan
  BY DEF Write
<1> QED
  BY <1>1, NoticeToAll, WiresKept DEF NetInv

\* A sub-range that differs is answered by a message, never by one that ends the
\* answers.
LEMMA SettleRangeOK ==
    ASSUME CoreInv, NEW m \in Members, NEW prefix \in Prefix, NEW theirs \in SUBSET Item
    PROVE  /\ settleRange(m, prefix, theirs) \in Message
           /\ isDone(settleRange(m, prefix, theirs)) = 0
<1>1. PICK x : x = settleRange(m, prefix, theirs)
  OBVIOUS
<1>2. PICK mine \in SUBSET Item : mine = inRange(m, prefix)
  BY ItemsOK
<1>3. \/ x = KeysOf(prefix, "send", {})
      \/ x = KeysOf(prefix, "mine", mine)
      \/ x = Ranges(m, prefix)
  BY <1>1, <1>2 DEF settleRange
<1>4. CASE x = KeysOf(prefix, "send", {})
  <2>1. x.kind = "send"
    BY <1>4 DEF KeysOf
  <2>2. {} \in SUBSET Item
    OBVIOUS
  <2> QED
    BY <1>1, <1>4, <2>1, <2>2, SentOK DEF isDone
<1>5. CASE x = KeysOf(prefix, "mine", mine)
  <2>1. x.kind = "mine"
    BY <1>5 DEF KeysOf
  <2> QED
    BY <1>1, <1>5, <2>1, SentOK DEF isDone
<1>6. CASE x = Ranges(m, prefix)
  <2>1. x.type = "ranges"
    BY <1>6 DEF Ranges
  <2> QED
    BY <1>1, <1>6, <2>1, SentOK DEF isDone
<1> QED
  BY <1>3, <1>4, <1>5, <1>6

\* The answer to ranges ends once.
LEMMA OnRangesOK ==
    ASSUME CoreInv, NEW m \in Members, NEW x \in Message, x.type = "ranges"
    PROVE  /\ onRanges(m, x) \in Seq(Message) /\ answers(onRanges(m, x)) = 1
           /\ toAnswer(onRanges(m, x)) \in Nat
<1>1. x.prefix \in Prefix /\ x.parts \in [1 .. PARTS -> SUBSET Item]
  BY MessageKinds
<1> DEFINE I == {d \in 1 .. PARTS : x.parts[d] # inRange(m, Append(x.prefix, d))}
<1>2. PICK q : q = [d \in 1 .. PARTS |-> d]
  OBVIOUS
<1>3. q \in Seq(1 .. PARTS) /\ I \in SUBSET (DOMAIN q)
  BY <1>2, DirectoryAssumption
<1>4. PICK ds : ds = differing(m, x)
  OBVIOUS
<1>5. ds = those(q, I)
  BY <1>2, <1>4 DEF differing
<1> HIDE DEF I
<1>6. ds \in Seq(1 .. PARTS)
  BY <1>3, <1>5, Those
<1> DEFINE r(n) == settleRange(m, Append(x.prefix, ds[n]), x.parts[ds[n]])
           s == [n \in 1 .. Len(ds) |-> r(n)]
<1>7. ASSUME NEW n \in 1 .. Len(ds) PROVE r(n) \in Message /\ isDone(r(n)) = 0
  <2>1. ds[n] \in 1 .. PARTS
    <3>1. \A T : \A q0 \in Seq(T) : n \in 1 .. Len(q0) => q0[n] \in T
      OBVIOUS
    <3> QED
      BY <1>6, <3>1
  <2>2. Append(x.prefix, ds[n]) \in Prefix
    BY <1>1, <2>1 DEF Prefix
  <2>3. x.parts[ds[n]] \in SUBSET Item
    BY <1>1, <2>1
  <2> QED
    BY <2>2, <2>3, SettleRangeOK
<1> HIDE DEF r
<1>8. s \in Seq(Message) /\ DOMAIN s = 1 .. Len(ds) /\ \A n \in DOMAIN s : s[n] = r(n)
  BY <1>6, <1>7
<1> HIDE DEF s
<1>9. answers(s) = 0
  <2>1. ASSUME NEW n \in DOMAIN s PROVE ~(s[n].type = "keys" /\ s[n].kind = "done")
    <3>1. isDone(s[n]) = 0
      BY <1>7, <1>8
    <3> QED
      BY <3>1 DEF isDone
  <2>2. {n \in DOMAIN s : s[n].type = "keys" /\ s[n].kind = "done"} = {}
    BY <2>1
  <2> QED
    BY <2>2, FS_EmptySet DEF answers
<1>10. PICK t \in Seq(Message) : t = <<Done(x.prefix)>> /\ answers(t) = 1
  <2>1. Done(x.prefix) \in Message
    BY <1>1, SentOK
  <2>2. Done(x.prefix).type = "keys" /\ Done(x.prefix).kind = "done"
    BY DEF Done, KeysOf
  <2>3. answers(<<Done(x.prefix)>>) = 1
    BY <2>2, CountOne
  <2>4. <<Done(x.prefix)>> \in Seq(Message)
    BY <2>1
  <2> QED
    BY <2>3, <2>4
<1>11. onRanges(m, x) = s \o t
  BY <1>4, <1>10 DEF onRanges, s, r
<1>12. /\ s \o t \in Seq(Message) /\ answers(s \o t) = answers(s) + answers(t)
       /\ toAnswer(s \o t) = toAnswer(s) + toAnswer(t) /\ toAnswer(s) \in Nat /\ toAnswer(t) \in Nat
  BY <1>8, CountConcat
<1> QED
  BY <1>9, <1>10, <1>11, <1>12

LEMMA RangesNet ==
    ASSUME CoreInv, NetInv, NEW m \in Members, NEW p \in Members, OnRanges(m, p)
    PROVE  NetInv'
<1> DEFINE x == msg(m, p)
           out == onRanges(m, x)
           old == chan[<<m, p>>]
           new == expecting(m, x, out)
           kept(E) == {e \in E : \A n \in new : n.prefix # e.prefix} \cup new
           c == [[old EXCEPT !.second = FALSE] EXCEPT !.expect = kept(@)]
<1>1. first(m, p, "ranges") /\ answer(m, p, out) /\ chan' = [chan EXCEPT ![<<m, p>>] = sent(c, out)]
  BY DEF OnRanges
<1>2. x \in Message /\ x.type = "ranges" /\ <<m, p>> \in Links /\ old # None
  BY <1>1, FirstMessage DEF NetInv, first, up
<1>3. ChanOK(old)
  BY <1>2 DEF NetInv, Linked
<1>4. asks(x) = 1 /\ isDone(x) = 0
  BY <1>2 DEF asks, isDone, answered
<1>5. out \in Seq(Message) /\ answers(out) = 1 /\ toAnswer(out) \in Nat
  <2> HIDE DEF x
  <2> QED
    BY <1>2, OnRangesOK
<1> HIDE DEF out, new, old, kept
<1>6. ChanOK(c) /\ waitingOf(c) = waitingOf(old)
  <2>1. DOMAIN c = DOMAIN old /\ c.x = old.x /\ c.theirs = old.theirs
    BY <1>3 DEF ChanOK
  <2>2. old.theirs \in {None} \cup SUBSET Item
    BY <1>3 DEF ChanOK
  <2> HIDE DEF c
  <2> QED
    BY <1>3, <2>1, <2>2, RestWaits
<1> HIDE DEF c
<1>7. ChanOK(sent(c, out)) /\ waitingOf(sent(c, out)) = waitingOf(c) + toAnswer(out)
  BY <1>5, <1>6, SentWaits
<1>8. waitingOf(old) \in Nat
  BY <1>3, ExchangeOK
<1>9. PICK d : d = sent(c, out)
  OBVIOUS
<1>10. /\ answers(out) = asks(msg(m, p)) /\ chan' = [chan EXCEPT ![<<m, p>>] = d] /\ ChanOK(d)
       /\ waitingOf(d) = waitingOf(chan[<<m, p>>]) + toAnswer(out) - isDone(msg(m, p))
  BY <1>1, <1>4, <1>5, <1>6, <1>7, <1>8, <1>9 DEF x, old
<1> QED
  BY <1>1, <1>5, <1>10, Answered

\* A message, then the one that ends the answers.
LEMMA EndsOnce ==
    ASSUME CoreInv, NEW m \in Members, NEW prefix \in Prefix, NEW x \in Message, isDone(x) = 0
    PROVE  /\ <<Done(prefix)>> \in Seq(Message) /\ answers(<<Done(prefix)>>) = 1
           /\ <<x, Done(prefix)>> \in Seq(Message) /\ answers(<<x, Done(prefix)>>) = 1
           /\ <<x>> \o <<Done(prefix)>> \in Seq(Message) /\ answers(<<x>> \o <<Done(prefix)>>) = 1
<1>1. PICK d : d = Done(prefix)
  OBVIOUS
<1>2. d \in Message /\ d.type = "keys" /\ d.kind = "done"
  BY <1>1, SentOK DEF Done, KeysOf
<1>3. <<x>> \in Seq(Message) /\ <<d>> \in Seq(Message) /\ <<x, d>> \in Seq(Message)
  BY <1>2
<1>4. answers(<<x>>) = 0 /\ answers(<<d>>) = 1
  BY <1>2, CountOne DEF isDone
<1>5. \A s \in Seq(Message), t \in Seq(Message) : s \o t \in Seq(Message) /\ answers(s \o t) = answers(s) + answers(t)
  BY CountConcat
<1>6. /\ <<x>> \o <<d>> \in Seq(Message)
      /\ answers(<<x>> \o <<d>>) = answers(<<x>>) + answers(<<d>>)
  BY <1>3, <1>5
<1>7. answers(<<x, d>>) = 1
  <2>1. \A a, b : {i \in DOMAIN <<a, b>> : <<a, b>>[i].type = "keys" /\ <<a, b>>[i].kind = "done"} =
                     (IF a.type = "keys" /\ a.kind = "done" THEN {1} ELSE {}) \cup
                     (IF b.type = "keys" /\ b.kind = "done" THEN {2} ELSE {})
    OBVIOUS
  <2>2. ~(x.type = "keys" /\ x.kind = "done")
    BY DEF isDone
  <2>3. {i \in DOMAIN <<x, d>> : <<x, d>>[i].type = "keys" /\ <<x, d>>[i].kind = "done"} = {2}
    BY <1>2, <2>1, <2>2
  <2> QED
    BY <2>3, FS_Singleton DEF answers
<1> QED
  BY <1>1, <1>3, <1>4, <1>6, <1>7

\* The answer to keys ends once, if they are answered.
LEMMA OnKeysOK ==
    ASSUME CoreInv, NEW m \in Members, NEW x \in Message, x.type = "keys", NEW expected
    PROVE  /\ onKeys(m, x, expected) \in Seq(Message) /\ answers(onKeys(m, x, expected)) = asks(x)
           /\ toAnswer(onKeys(m, x, expected)) \in Nat
<1>1. PICK out : out = onKeys(m, x, expected)
  OBVIOUS
<1>2. PICK prefix \in Prefix : prefix = x.prefix
  BY MessageKinds
<1>3. x.kind \in {"done", "send", "mine", "lack"} /\ asks(x) = IF x.kind \in {"mine", "send"} THEN 1 ELSE 0
  BY MessageKinds DEF asks, answered
<1>4. out \in Seq(Message) /\ answers(out) = asks(x)
  <2>1. CASE x.kind = "send"
    <3>1. PICK mine \in SUBSET Item : mine = inRange(m, prefix)
      BY ItemsOK
    <3>2. PICK y : /\ y = Ranges(m, prefix) \/ y = KeysOf(prefix, "mine", mine)
                   /\ out = <<y, Done(prefix)>>
      BY <1>1, <1>2, <2>1, <3>1 DEF onKeys
    <3>3. y \in Message /\ isDone(y) = 0
      <4>1. CASE y = Ranges(m, prefix)
        <5>1. y.type = "ranges"
          BY <4>1 DEF Ranges
        <5> QED
          BY <4>1, <5>1, SentOK DEF isDone
      <4>2. CASE y = KeysOf(prefix, "mine", mine)
        <5>1. y.kind = "mine"
          BY <4>2 DEF KeysOf
        <5> QED
          BY <4>2, <5>1, SentOK DEF isDone
      <4> QED
        BY <3>2, <4>1, <4>2
    <3> QED
      BY <1>3, <2>1, <3>2, <3>3, EndsOnce
  <2>2. CASE x.kind = "mine"
    <3>1. PICK lack : lack = {i \in inRange(m, prefix) : \A j \in x.items : j[1] = i[1] => j[2] < i[2]}
      OBVIOUS
    <3>2. lack \in SUBSET Item
      BY <3>1, ItemsOK
    <3>3. out = onMine(m, x, expected)
      BY <1>1, <2>2 DEF onKeys
    <3>4. PICK y : y = KeysOf(prefix, "lack", lack)
      OBVIOUS
    <3>5. \/ out = <<Done(prefix)>>
          \/ out = <<>> \o <<Done(prefix)>>
          \/ out = <<y>> \o <<Done(prefix)>>
      BY <1>2, <3>1, <3>3, <3>4 DEF onMine
    <3>6. y \in Message /\ isDone(y) = 0
      <4>1. y.kind = "lack"
        BY <3>4 DEF KeysOf
      <4> QED
        BY <3>2, <3>4, <4>1, SentOK DEF isDone
    <3>7. <<>> \o <<Done(prefix)>> = <<Done(prefix)>>
      OBVIOUS
    <3>8. asks(x) = 1
      BY <1>3, <2>2
    <3> QED
      BY <3>5, <3>6, <3>7, <3>8, EndsOnce
  <2>3. CASE x.kind \notin {"send", "mine"}
    <3>1. out = <<>> /\ asks(x) = 0
      BY <1>1, <1>3, <2>3 DEF onKeys
    <3>2. <<>> \in Seq(Message)
      OBVIOUS
    <3> QED
      BY <3>1, <3>2, CountOne
  <2> QED
    BY <2>1, <2>2, <2>3
<1>5. toAnswer(out) \in Nat
  BY <1>4, CountConcat
<1> QED
  BY <1>1, <1>4, <1>5

LEMMA KeysNet ==
    ASSUME CoreInv, NetInv, NEW m \in Members, NEW p \in Members, OnKeys(m, p)
    PROVE  NetInv'
<1> DEFINE x == msg(m, p)
           old == chan[<<m, p>>]
           mine == x.kind = "mine"
           expected == {e.items : e \in {e \in old.expect : mine /\ e.prefix = x.prefix}}
           left == {e \in old.expect : ~mine \/ e.prefix # x.prefix}
           out == onKeys(m, x, expected)
           learn == learnt(m, x, expected)
           new == newIn(m, learn)
           f == considerAll(m, fetch[m], new)
           waits == [exchange(old) EXCEPT !.checks = @ \cup (new \cap active(f)), !.dropped = @ \/ f.dropped]
           heard == [old EXCEPT !.x = waits, !.expect = left, !.second = FALSE]
           after == sent(heard, out)
           done == x.kind = "done"
           now == goesOn(after, done)
<1>1. /\ first(m, p, "keys") /\ answer(m, p, out)
      /\ chan' = [chan EXCEPT ![<<m, p>>] = settle(now, items(m))]
  BY DEF OnKeys, hear
<1>2. x \in Message /\ x.type = "keys" /\ <<m, p>> \in Links /\ old # None
  BY <1>1, FirstMessage DEF NetInv, first, up
<1>3. ChanOK(old)
  BY <1>2 DEF NetInv, Linked
<1>4. isDone(x) = (IF done THEN 1 ELSE 0) /\ isDone(x) \in Nat
  BY <1>2 DEF isDone
<1>5. out \in Seq(Message) /\ answers(out) = asks(x) /\ toAnswer(out) \in Nat
  <2> HIDE DEF x, expected
  <2> QED
    BY <1>2, OnKeysOK
<1>6. learn \in SUBSET Item
  <2> HIDE DEF x, expected
  <2> QED
    BY <1>2, LearntOK
<1> HIDE DEF learn, out
<1>7. new \in SUBSET Keys
  BY <1>6 DEF newIn, Item
<1> HIDE DEF new
<1>8. f.dropped \in BOOLEAN
  <2>1. FetchOK(fetch[m])
    BY DEF CoreInv, MemberOK
  <2>2. FetchOK(f)
    BY <1>7, <2>1, ConsiderAllOK
  <2> HIDE DEF f
  <2> QED
    BY <2>2 DEF FetchOK, Fetch
<1> HIDE DEF f, left, old
<1>9. waits \in Exchange /\ waits.waiting = waitingOf(old) /\ waitingOf(old) \in Nat
  <2>1. PICK y \in Exchange : y = exchange(old) /\ y.waiting = waitingOf(old) /\ waitingOf(old) \in Nat
    BY <1>3, ExchangeOK
  <2>2. y.checks \cup (new \cap active(f)) \in SUBSET Keys /\ y.dropped \in BOOLEAN
    BY <1>7 DEF Exchange
  <2>3. PICK z \in Exchange : z = [y EXCEPT !.checks = y.checks \cup (new \cap active(f))]
    BY <2>2, ExchangeWith
  <2>4. z.waiting = y.waiting /\ z.dropped = y.dropped
    BY <2>3 DEF Exchange
  <2>5. PICK b \in BOOLEAN : b = (y.dropped \/ f.dropped)
    OBVIOUS
  <2>6. PICK u \in Exchange : u = [z EXCEPT !.dropped = b]
    BY ExchangeWith
  <2>7. u.waiting = z.waiting
    BY <2>6 DEF Exchange
  <2>8. u = [y EXCEPT !.checks = y.checks \cup (new \cap active(f)), !.dropped = b]
    BY <2>3, <2>6
  <2>9. waits = u
    BY <2>1, <2>5, <2>8
  <2> HIDE DEF waits
  <2> QED
    BY <2>1, <2>4, <2>7, <2>9
<1> HIDE DEF waits
<1>10. ChanOK(heard) /\ waitingOf(heard) = waitingOf(old)
  <2>1. DOMAIN heard = DOMAIN old /\ heard.x = waits /\ heard.theirs = old.theirs
    BY <1>3 DEF ChanOK
  <2> HIDE DEF heard
  <2>2. waits # None
    BY <1>9, ExchangeAssumption
  <2> QED
    BY <1>3, <1>9, <2>1, <2>2 DEF ChanOK, waitingOf
<1> HIDE DEF heard
<1>11. /\ ChanOK(after) /\ after.x \in Exchange
       /\ waitingOf(after) = waitingOf(old) + toAnswer(out)
  BY <1>5, <1>10, SentWaits
<1> HIDE DEF after
<1>12. done => waitingOf(after) > 0
  <2> SUFFICES ASSUME done PROVE waitingOf(after) > 0
    OBVIOUS
  <2>1. PICK q \in Seq(Message) : q = wire[<<p, m>>] /\ q # <<>> /\ x = Head(q)
    BY <1>1, FirstMessage DEF NetInv, msg
  <2>2. answers(q) = answers(Tail(q)) + isDone(x) /\ Tail(q) \in Seq(Message)
    BY <2>1, CountHead DEF isDone
  <2>3. waitingOf(old) = toAnswer(wire[<<m, p>>]) + answers(q) /\ wire[<<m, p>>] \in Seq(Message)
    BY <1>2, <2>1 DEF NetInv, Wires, Linked, back, old
  <2>4. toAnswer(wire[<<m, p>>]) \in Nat /\ answers(Tail(q)) \in Nat
    BY <2>2, <2>3, CountConcat
  <2>5. isDone(x) = 1
    BY <1>4
  <2> HIDE DEF x, done
  <2> QED
    BY <1>5, <1>11, <2>2, <2>3, <2>4, <2>5
<1>13. done \in BOOLEAN
  OBVIOUS
<1> HIDE DEF done, x
<1>14. ChanOK(now) /\ waitingOf(now) = waitingOf(after) - isDone(x)
  BY <1>4, <1>11, <1>12, <1>13, GoesOnWaits
<1> HIDE DEF now
<1>15. PICK c : c = settle(now, items(m))
  OBVIOUS
<1>16. ChanOK(c) /\ waitingOf(c) = waitingOf(old) + toAnswer(out) - isDone(x)
  <2>1. ChanOK(c) /\ waitingOf(c) = waitingOf(now)
    BY <1>14, <1>15, SettleWaits
  <2> QED
    BY <1>4, <1>5, <1>9, <1>11, <1>14, <2>1
<1>17. /\ chan' = [chan EXCEPT ![<<m, p>>] = c] /\ answers(out) = asks(msg(m, p))
       /\ waitingOf(c) = waitingOf(chan[<<m, p>>]) + toAnswer(out) - isDone(msg(m, p))
  BY <1>1, <1>5, <1>15, <1>16 DEF x, old
<1> QED
  BY <1>1, <1>5, <1>16, <1>17, Answered

-----------------------------------------------------------------------------
(* The directory.                                                          *)

Inv == CoreInv /\ NetInv

LEMMA InitNet ==
    ASSUME Init
    PROVE  NetInv
<1>1. chan = [e \in Links |-> None] /\ wire = [e \in Links |-> <<>>]
  BY DEF Init
<1>2. <<>> \in Seq(Message)
  OBVIOUS
<1>3. Wires
  BY <1>1, <1>2 DEF Wires
<1>4. \A e \in Links : Linked(e)
  BY <1>1 DEF Linked
<1> QED
  BY <1>1, <1>3, <1>4 DEF NetInv

LEMMA SameNet ==
    ASSUME NetInv, UNCHANGED net
    PROVE  NetInv'
<1>1. Wires'
  BY DEF NetInv, Wires, net
<1>2. \A e \in Links : Linked(e)'
  BY DEF NetInv, Linked, net
<1> QED
  BY <1>1, <1>2 DEF NetInv, net

LEMMA ConnectStep ==
    ASSUME Inv, NEW m \in Members, NEW p \in Members, Connect(m, p) \/ Disconnect(m, p)
    PROVE  Inv'
<1>1. scene \in Scene
  BY DEF Inv, CoreInv, Shape
<1>2. SceneKept
  <2>1. CASE Connect(m, p)
    BY <1>1, <2>1, SceneKeeps DEF Connect
  <2>2. CASE Disconnect(m, p)
    <3>1. scene.breaks - 1 \in Nat /\ scene' = [scene EXCEPT !.breaks = scene.breaks - 1]
      BY <1>1, <2>2 DEF Disconnect, Scene
    <3> QED
      BY <1>1, <3>1, SceneKeeps
  <2> QED
    BY <2>1, <2>2
<1>3. CoreInv'
  BY <1>2, WireCore DEF Inv, Connect, Disconnect
<1>4. NetInv'
  <2>1. CASE Connect(m, p) /\ m # p
    BY <2>1, ConnectNet DEF Inv
  <2>2. CASE Connect(m, p) /\ m = p
    <3>1. <<m, p>> \notin Links /\ <<p, m>> \notin Links
      BY <2>2 DEF Links
    <3>2. chan \in [Links -> {chan[e] : e \in Links}] /\ wire \in [Links -> Seq(Message)]
      BY DEF Inv, NetInv, Wires
    <3>3. /\ chan' = [chan EXCEPT ![<<m, p>>] = Channel, ![<<p, m>>] = Channel]
          /\ wire' = [wire EXCEPT ![<<m, p>>] = <<Summary(m)>>, ![<<p, m>>] = <<Summary(p)>>]
      BY <2>2 DEF Connect
    <3>4. chan' = chan /\ wire' = wire
      BY <3>1, <3>2, <3>3
    <3> QED
      BY <3>4, SameNet DEF Inv, net
  <2>3. CASE Disconnect(m, p)
    <3>1. PICK gone : gone = {<<m, p>>, <<p, m>>} /\ apart(gone)
      BY <2>3 DEF Disconnect
    <3>2. \A e \in Links : e \in gone => back(e) \in gone
      BY <3>1 DEF back
    <3> QED
      BY <3>1, <3>2, ApartNet DEF Inv
  <2> QED
    BY <2>1, <2>2, <2>3
<1> QED
  BY <1>3, <1>4 DEF Inv

LEMMA CrashStep ==
    ASSUME Inv, NEW m \in Members, Crash(m)
    PROVE  Inv'
<1>1. CoreInv'
  BY CrashCore DEF Inv
<1>2. PICK gone : gone = {e \in Links : m \in {e[1], e[2]}} /\ apart(gone)
  BY DEF Crash
<1>3. \A e \in Links : e \in gone => back(e) \in gone
  <2>1. \A e \in Links : back(e) \in Links /\ back(e)[1] = e[2] /\ back(e)[2] = e[1]
    BY Back DEF back
  <2> QED
    BY <1>2, <2>1
<1>4. NetInv'
  BY <1>2, <1>3, ApartNet DEF Inv
<1> QED
  BY <1>1, <1>4 DEF Inv

\* What a member is told.
LEMMA ReceiveStep ==
    ASSUME Inv, NEW m \in Members, NEW p \in Members,
           OnSummary(m, p) \/ OnRanges(m, p) \/ OnKeys(m, p) \/ OnNotice(m, p)
    PROVE  Inv'
<1>1. CoreInv /\ NetInv /\ Wires /\ scene \in Scene
  BY DEF Inv, NetInv, CoreInv, Shape
<1>2. CASE OnSummary(m, p)
  <2>1. CoreInv'
    BY <1>1, <1>2, WireCore, SceneKeeps DEF OnSummary
  <2> QED
    BY <1>1, <1>2, <2>1, SummaryNet DEF Inv
<1>3. CASE OnRanges(m, p)
  <2>1. CoreInv'
    BY <1>1, <1>3, WireCore, SceneKeeps DEF OnRanges
  <2> QED
    BY <1>1, <1>3, <2>1, RangesNet DEF Inv
<1>4. CASE OnKeys(m, p)
  BY <1>1, <1>4, KeysCore, KeysNet DEF Inv
<1>5. CASE OnNotice(m, p)
  BY <1>1, <1>5, NoticeCore, NoticeNet DEF Inv
<1> QED
  BY <1>2, <1>3, <1>4, <1>5

LEMMA TellStep ==
    ASSUME Inv, NEW m \in Members, SendSummary(m) \/ \E p \in Members : Connect(m, p) \/ Second(m, p)
    PROVE  Inv'
<1>1. CoreInv /\ NetInv /\ scene \in Scene
  BY DEF Inv, CoreInv, Shape
<1>2. CASE SendSummary(m)
  <2>1. CoreInv'
    BY <1>1, <1>2, WireCore, SceneKeeps DEF SendSummary
  <2> QED
    BY <1>1, <1>2, <2>1, SendNet DEF Inv
<1>3. ASSUME NEW p \in Members, Second(m, p) PROVE Inv'
  <2>1. CoreInv'
    BY <1>1, <1>3, WireCore, SceneKeeps DEF Second
  <2> QED
    BY <1>1, <1>3, <2>1, SecondNet DEF Inv
<1> QED
  BY <1>2, <1>3, ConnectStep

\* What a member does with its logs.
LEMMA LogsStep ==
    ASSUME Inv, NEW m \in Members, NEW k \in Keys,
           \/ OpenCore(m, k) \/ CoreClosed(m, k) \/ Check(m, k) \/ Release(m, k) \/ Decide(m, k)
           \/ CloseCore(m, k) \/ Use(m, k) \/ Expire(m, k)
           \/ \E p \in Members : Download(m, p, k)
    PROVE  Inv'
<1>1. CoreInv /\ NetInv
  BY DEF Inv
<1>2. NetInv'
  <2>1. UNCHANGED net
    BY DEF OpenCore, CoreClosed, Check, Release, Decide, CloseCore, Use, Expire, Download
  <2> QED
    BY <1>1, <2>1, SameNet
<1>3. CoreInv'
  BY <1>1, OpenCoreOK, CoreClosedOK, CheckStepOK, ReleaseOK, DecideCore, CloseCoreOK, UseOK, DownloadOK
<1> QED
  BY <1>2, <1>3 DEF Inv

LEMMA FetchingStep ==
    ASSUME Inv, NEW m \in Members, NEW k \in Keys, FetchHeader(m, k) \/ FetchTimeout(m, k)
    PROVE  Inv'
<1>1. CoreInv /\ NetInv
  BY DEF Inv
<1>2. CoreInv'
  BY <1>1, FetchHeaderCore, TimeoutCore
<1>3. NetInv'
  BY <1>1, FetchNet
<1> QED
  BY <1>2, <1>3 DEF Inv

LEMMA InvStep ==
    ASSUME Inv, [Next]_vars
    PROVE  Inv'
<1>1. CASE Receive
  BY <1>1, ReceiveStep DEF Receive
<1>2. CASE Tell
  BY <1>2, TellStep DEF Tell
<1>3. CASE Fetching
  BY <1>3, FetchingStep DEF Fetching
<1>4. CASE Cores
  BY <1>4, LogsStep DEF Cores
<1>5. CASE Chance
  <2>1. PICK m \in Members : \/ Crash(m) \/ \E p \in Members : Disconnect(m, p)
                             \/ \E k \in Keys : CloseCore(m, k) \/ Use(m, k) \/ Expire(m, k) \/ Write(m, k)
    BY <1>5 DEF Chance
  <2>2. ASSUME NEW k \in Keys, Write(m, k) PROVE Inv'
    BY <2>2, WriteCore, WriteNet DEF Inv
  <2> QED
    BY <2>1, <2>2, CrashStep, ConnectStep, LogsStep
<1>6. CASE UNCHANGED vars
  <2>1. CoreInv /\ NetInv /\ scene \in Scene
    BY DEF Inv, CoreInv, Shape
  <2>2. CoreInv'
    BY <1>6, <2>1, WireCore, SceneKeeps DEF vars
  <2>3. NetInv'
    BY <1>6, <2>1, SameNet DEF vars
  <2> QED
    BY <2>2, <2>3 DEF Inv
<1> QED
  BY <1>1, <1>2, <1>3, <1>4, <1>5, <1>6 DEF Next, Duty

LEMMA SpecInv == Spec => []Inv
<1>1. Init => Inv
  BY InitCore, InitNet DEF Inv
<1>2. Inv /\ [Next]_vars => Inv'
  BY InvStep
<1> QED
  BY <1>1, <1>2, PTL DEF Spec

\* Whoever uses a log has its core, and its uses are those it has (openCore, use,
\* release, closeCore of the directory, check of the replicator).
THEOREM CoresSafe == Spec => []UsesKeepCore
<1>1. Inv => UsesKeepCore
  <2> SUFFICES ASSUME Inv, NEW m \in Members, NEW k \in Keys
               PROVE  LET l == logs[m][k]
                      IN  /\ reader[m][k] = "reads" => l.core
                          /\ ~(l.core /\ l.closing)
                          /\ l.uses = (IF l.busy THEN 1 ELSE 0) + (IF reader[m][k] = "no" THEN 0 ELSE 1)
    BY DEF UsesKeepCore
  <2>1. CoreUsed(logs[m][k], reader[m][k])
    BY DEF Inv, CoreInv, MemberOK, LogOK
  <2> QED
    BY <2>1 DEF CoreUsed
<1> QED
  BY <1>1, SpecInv, PTL

\* A member fetches and keeps waiting no more headers than its bounds, and keeps no
\* log of another that it refused (fetch, nextFetch, accept, recheck).
THEOREM BoundsSafe == Spec => []DirectoryTypeOK
<1>1. Inv => DirectoryTypeOK
  <2> SUFFICES ASSUME Inv, NEW m \in Members
               PROVE  /\ Cardinality(running(fetch[m], "plain")) <= FETCHES
                      /\ Cardinality(running(fetch[m], "urgent")) <= FETCHES
                      /\ Len(fetch[m].queue) <= MAX_QUEUE /\ Len(pending[m]) <= MAX_PENDING
                      /\ \A k \in Keys : /\ logs[m][k].listed <= logs[m][k].length
                                         /\ (logs[m][k].held => own(m, k) \/ k \notin refused[m])
    BY DEF DirectoryTypeOK
  <2>1. MemberOK(m)
    BY DEF Inv, CoreInv
  <2> QED
    BY <2>1 DEF MemberOK, FetchOK, LogOK, KeyOK
<1> QED
  BY <1>1, SpecInv, PTL

\* The answers an exchange waits for are on their way, whatever else crosses them
\* (onRanges, onKeys and onSummary of a session).
THEOREM WaitingSafe == Spec => []WaitingCounted
<1>1. Inv => WaitingCounted
  <2> SUFFICES ASSUME Inv, NEW m \in Members, NEW p \in Members, up(m, p)
               PROVE  waitingOf(chan[<<m, p>>]) = toAnswer(wire[<<m, p>>]) + answers(wire[<<p, m>>])
    BY DEF WaitingCounted, peers
  <2>1. <<m, p>> \in Links /\ chan[<<m, p>>] # None /\ back(<<m, p>>) = <<p, m>>
    BY DEF up, Links, back
  <2> QED
    BY <2>1 DEF Inv, NetInv, Linked
<1> QED
  BY <1>1, SpecInv, PTL
=============================================================================
