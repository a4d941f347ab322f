------------------------- MODULE MembershipProofs -------------------------
(***************************************************************************)
(* What module Membership guarantees for any number of people, devices,    *)
(* sub-spaces and invites, and any inputs: the types of what a space       *)
(* records (TypeOK), and that its owner stays its only owner (OneOwner).   *)
(*                                                                         *)
(* A removed device never speaks again (GoneDevicesSilent), and an invite  *)
(* lets in as many people as it says (UsesCounted).  The devices that      *)
(* speak for people and the roles of those people stay in step, and so do  *)
(* Autobase's writers and settlers with them (SpeakersMayWrite,            *)
(* OneSettlerPerDecider, BaseFollowsView); and nobody changes the rights   *)
(* of who ranks as high as they do (RankRespected).                        *)
(***************************************************************************)
EXTENDS Membership, FiniteSetTheorems, WellFoundedInduction, TLAPS

MemberTable == [Scopes -> [Ids -> Entry]]
BanTable == [Scopes -> [Ids -> Ban]]

-----------------------------------------------------------------------------
(* Numbers.                                                                *)

\* Some numbers have a least one.
LEMMA LeastIsOne ==
    ASSUME NEW S, S \subseteq Nat, S # {}
    PROVE  /\ \E i \in S : \A j \in S : i <= j
           /\ (CHOOSE i \in S : \A j \in S : i <= j) \in S
<1> DEFINE before == OpToRel(<, Nat)
<1>1. before = {p \in Nat \X Nat : p[1] < p[2]}
  BY DEF OpToRel
<1> HIDE DEF before
<1>2. PICK m \in S : \A y \in S : <<y, m>> \notin before
  BY NatLessThanWellFounded, WFMin DEF before
<1>3. \A j \in S : ~ (j < m)
  BY <1>1, <1>2
<1>4. \A j \in S : m <= j
  BY <1>3
<1> QED
  BY <1>4

\* Some numbers up to n have a greatest one.
LEMMA SomeGreatest ==
    ASSUME NEW n \in Nat, NEW S, S \subseteq 1..n, S # {}
    PROVE  \E i \in S : \A j \in S : j <= i
<1> DEFINE T == {n - i : i \in S}
<1>1. T \subseteq Nat
  <2>1. \A i \in S : i \in 1..n
    OBVIOUS
  <2>2. \A i \in 1..n : n - i \in Nat
    OBVIOUS
  <2> QED
    BY <2>1, <2>2
<1>2. T # {}
  OBVIOUS
<1> HIDE DEF T
<1>3. PICK t \in T : \A u \in T : t <= u
  BY <1>1, <1>2, LeastIsOne
<1>4. PICK i \in S : t = n - i
  BY DEF T
<1>5. \A j \in S : n - i <= n - j
  BY <1>3, <1>4 DEF T
<1>6. \A j \in S : j \in 1..n
  OBVIOUS
<1> QED
  BY <1>5, <1>6

-----------------------------------------------------------------------------
(* Lemmas on the helpers: what they return has the type of the variable it *)
(* goes into.                                                              *)

\* No role, no entry and no ban are of the types of the view's entries.
LEMMA EmptyTypes ==
    /\ NoEntry \in Entry
    /\ NoBan \in Ban
    /\ NoInfo \in Info
    /\ NoCut \in Cut
    /\ NoEditCut \in EditCut
<1>1. Inf \in Lengths
  BY BoundAssumption DEF Inf, Lengths
<1>2. NoEntry \in Entry /\ NoBan \in Ban
  BY DEF NoEntry, Entry, Role, NoBan, Ban
<1>3. NoInfo \in Info
  BY DEF NoInfo, Info
<1>4. NoCut \in Cut /\ NoEditCut \in EditCut
  BY <1>1 DEF NoCut, Cut, NoEditCut, EditCut
<1> QED
  BY <1>2, <1>3, <1>4

\* The scopes of a chain are scopes.
LEMMA ChainType ==
    ASSUME TypeOK, NEW s \in Scopes
    PROVE  /\ chainOf(s) \in Seq(Scopes)
           /\ \A i \in DOMAIN chainOf(s) : chainOf(s)[i] \in Scopes
<1>1. space[s] \in Info
  BY DEF TypeOK
<1>2. chainOf(s) \in Seq(Scopes)
  BY <1>1 DEF chainOf, Info
<1> QED
  BY <1>2

\* The entry that counts is one of the table's, or none.
LEMMA MemberInType ==
    ASSUME TypeOK, NEW m \in MemberTable, NEW b, NEW s \in Scopes, NEW id \in Ids
    PROVE  memberIn(m, b, s, id) \in Entry
<1> DEFINE at == CHOOSE i \in DOMAIN chainOf(s) : Counts(m, s, id, i)
<1>1. CASE ~ bannedIn(b, s, id) /\ \E i \in DOMAIN chainOf(s) : Counts(m, s, id, i)
  <2>1. at \in DOMAIN chainOf(s)
    BY <1>1
  <2>2. chainOf(s)[at] \in Scopes
    BY <2>1, ChainType
  <2>3. memberIn(m, b, s, id) = m[chainOf(s)[at]][id]
    BY <1>1 DEF memberIn
  <2> QED
    BY <2>2, <2>3 DEF MemberTable
<1>2. CASE ~ (~ bannedIn(b, s, id) /\ \E i \in DOMAIN chainOf(s) : Counts(m, s, id, i))
  BY <1>2, EmptyTypes DEF memberIn
<1> QED
  BY <1>1, <1>2

\* A list of keys stays one when a key is taken out of it.
LEMMA WithoutType ==
    ASSUME NEW list \in Seq(Devices), NEW d
    PROVE  Without(list, d) \in Seq(Devices)
<1>1. CASE \E i \in DOMAIN list : list[i] = d
  <2> DEFINE at == CHOOSE i \in DOMAIN list : list[i] = d
  <2>1. at \in 1..Len(list)
    BY <1>1
  <2>2. Len(list) - 1 \in Nat
    BY <2>1
  <2>3. \A i \in 1..(Len(list) - 1) : (IF i < at THEN list[i] ELSE list[i + 1]) \in Devices
    BY <2>1
  <2>4. Without(list, d) = [i \in 1..(Len(list) - 1) |-> IF i < at THEN list[i] ELSE list[i + 1]]
    BY <1>1 DEF Without
  <2> QED
    BY <2>2, <2>3, <2>4
<1>2. CASE ~ \E i \in DOMAIN list : list[i] = d
  BY <1>2 DEF Without
<1> QED
  BY <1>1, <1>2

\* The operations on keys return keys.
LEMMA KeysType ==
    ASSUME TypeOK, NEW k \in Keys, NEW d \in Devices
    PROVE  /\ Demoted(k, d) \in Keys
           /\ removeFromBase(k, d) \in Keys
           /\ forget(k, d) \in Keys
           /\ addKey(k, d) \in Keys
<1>1. Person[d] \in Ids
  BY PersonAssumption
<1>2. k.list \in [Ids -> Seq(Devices)] /\ k.list[Person[d]] \in Seq(Devices)
  BY <1>1 DEF Keys
<1>3. ASSUME NEW j \in Keys PROVE Demoted(j, d) \in Keys
  BY <1>3 DEF Demoted, Keys
<1>4. removeFromBase(k, d) \in Keys
  BY DEF removeFromBase, Keys
<1>5. forget(k, d) \in Keys
  <2>1. Without(k.list[Person[d]], d) \in Seq(Devices)
    BY <1>2, WithoutType
  <2> QED
    BY <1>1, <2>1 DEF forget, Keys
<1>6. addKey(k, d) \in Keys
  <2>1. Append(k.list[Person[d]], d) \in Seq(Devices)
    BY <1>2
  <2>2. [k EXCEPT !.list[Person[d]] = Append(@, d), !.base = @ \cup {d}] \in Keys
    BY <1>1, <2>1 DEF Keys
  <2> QED
    BY <2>2, <1>3 DEF addKey
<1> QED
  BY <1>3, <1>4, <1>5, <1>6

\* After settling, keys are keys.
LEMMA SettleType ==
    ASSUME TypeOK, NEW k \in Keys, NEW m, NEW b, NEW id \in Ids
    PROVE  settle(k, m, b, id) \in Keys
<1> DEFINE list == k.list[id]
           settlers == {list[i] : i \in DOMAIN list} \cap k.settler
           decides == can(roleIn(m, b, Top, id), "decide", roles)
           at == CHOOSE i \in DOMAIN list :
                    /\ list[i] \in settlers
                    /\ \A j \in 1..(i - 1) : list[j] \notin settlers
           d == list[at]
<1>1. list \in Seq(Devices)
  BY DEF Keys
<1>2. ForgetAll(k, id) \in Keys
  <2>1. [k.list EXCEPT ![id] = <<>>] \in [Ids -> Seq(Devices)]
    BY DEF Keys
  <2> QED
    BY <2>1 DEF ForgetAll, Keys
<1>3. CASE ~ writesAnywhere(m, b, id)
  BY <1>2, <1>3 DEF settle
<1>4. CASE writesAnywhere(m, b, id) /\ decides /\ settlers = {} /\ list # <<>>
  <2>1. PICK x \in Devices : x = list[1]
    BY <1>1, <1>4
  <2>2. settle(k, m, b, id) = [k EXCEPT !.settler = @ \cup {x}, !.base = @ \cup {x},
                                        !.settling = @ \cup {x}]
    BY <1>4, <2>1 DEF settle
  <2>3. [k EXCEPT !.settler = @ \cup {x}, !.base = @ \cup {x}, !.settling = @ \cup {x}] \in Keys
    BY DEF Keys
  <2> QED
    BY <2>2, <2>3
<1>5. CASE writesAnywhere(m, b, id) /\ ~ decides /\ settlers # {}
  <2>1. settle(k, m, b, id) = Demoted([k EXCEPT !.settler = @ \ {d}], d)
    BY <1>5 DEF settle
  <2> QED
    BY <2>1 DEF Demoted, Keys
<1>6. CASE writesAnywhere(m, b, id) /\ ~ (decides /\ settlers = {} /\ list # <<>>)
            /\ ~ (~ decides /\ settlers # {})
  BY <1>6 DEF settle
<1> QED
  BY <1>3, <1>4, <1>5, <1>6

CutTable == [Scopes -> [Ids -> Cut]]
EditCutTable == [Scopes -> [Ids -> EditCut]]
AdmitTable == [Scopes -> [Ids -> Nat \cup {None}]]
HeldLengths == [Logs -> Lengths]

\* Recorded cuts are tables of cuts.
LEMMA CutType ==
    ASSUME NEW t \in CutTable, NEW s \in Scopes, NEW id \in Ids, NEW c \in HeldLengths
    PROVE  /\ recordCut(t, s, id, c) \in CutTable
           /\ dropAll(t, s, id, c) \in CutTable
<1>1. Inf \in Lengths /\ 0 \in Lengths
  BY BoundAssumption DEF Inf, Lengths
<1>2. recordCut(t, s, id, c) \in CutTable
  <2>1. t[s][id] \in Cut
    BY DEF CutTable
  <2> DEFINE new == [on |-> TRUE, logs |-> [l \in Logs |->
                        IF t[s][id].logs[l] # Inf THEN t[s][id].logs[l] ELSE c[l]]]
  <2>2. new \in Cut
    BY <2>1 DEF Cut, HeldLengths
  <2>3. recordCut(t, s, id, c) = [t EXCEPT ![s][id] = new]
    BY DEF recordCut, CutTable
  <2> HIDE DEF new
  <2> QED
    BY <2>2, <2>3 DEF CutTable
<1>3. dropAll(t, s, id, c) \in CutTable
  <2> DEFINE new(x) == [on |-> TRUE, logs |-> [l \in Logs |->
                            IF c[l] # Inf \/ t[x][id].logs[l] # Inf THEN 0 ELSE Inf]]
  <2>1. \A x \in Scopes : new(x) \in Cut
    BY <1>1 DEF Cut
  <2>2. dropAll(t, s, id, c) =
            [x \in Scopes |-> IF x = s \/ (below(x, s) /\ t[x][id].on)
                              THEN [t[x] EXCEPT ![id] = new(x)] ELSE t[x]]
    BY DEF dropAll, CutTable
  <2> HIDE DEF new
  <2> QED
    BY <2>1, <2>2 DEF CutTable
<1> QED
  BY <1>2, <1>3

\* Recorded permission cuts are tables of permission cuts.
LEMMA EditCutType ==
    ASSUME NEW t \in EditCutTable, NEW s \in Scopes, NEW id \in Ids, NEW c \in HeldLengths,
           NEW lost
    PROVE  /\ recordEditCuts(t, s, id, lost, c) \in EditCutTable
           /\ dropEdits(t, s, id) \in EditCutTable
<1>1. Inf \in Lengths /\ 0 \in Lengths
  BY BoundAssumption DEF Inf, Lengths
<1>2. recordEditCuts(t, s, id, lost, c) \in EditCutTable
  <2> DEFINE new == [p \in Permissions |-> [l \in Logs |->
                        IF p \in lost /\ t[s][id][p][l] = Inf THEN c[l] ELSE t[s][id][p][l]]]
  <2>1. new \in EditCut
    BY DEF EditCutTable, EditCut, HeldLengths
  <2>2. recordEditCuts(t, s, id, lost, c) = [t EXCEPT ![s][id] = new]
    BY DEF recordEditCuts, EditCutTable
  <2> HIDE DEF new
  <2> QED
    BY <2>1, <2>2 DEF EditCutTable
<1>3. dropEdits(t, s, id) \in EditCutTable
  <2> DEFINE new(x) == [p \in Permissions |-> [l \in Logs |->
                            IF t[x][id][p][l] # Inf THEN 0 ELSE Inf]]
  <2>1. \A x \in Scopes : new(x) \in EditCut
    BY <1>1 DEF EditCut
  <2>2. dropEdits(t, s, id) =
            [x \in Scopes |-> IF x = s \/ below(x, s)
                              THEN [t[x] EXCEPT ![id] = new(x)] ELSE t[x]]
    BY DEF dropEdits, EditCutTable
  <2> HIDE DEF new
  <2> QED
    BY <2>1, <2>2 DEF EditCutTable
<1> QED
  BY <1>2, <1>3

\* Codes given out are numbers.
LEMMA AdmitType ==
    ASSUME TypeOK, NEW a \in AdmitTable, NEW s \in Scopes, NEW id \in Ids, NEW role
    PROVE  admitted(a, s, id, role) \in AdmitTable
<1>1. codes + 1 \in Nat \cup {None}
  BY DEF TypeOK
<1> QED
  BY <1>1 DEF admitted, AdmitTable

\* A decision's code is counted.
LEMMA CodeType ==
    ASSUME TypeOK, Code
    PROVE  codes' \in Nat
BY DEF TypeOK, Code

\* Entries below a scope may go.
LEMMA DropBelowType ==
    ASSUME NEW m \in MemberTable, NEW s \in Scopes, NEW id \in Ids
    PROVE  dropBelow(m, s, id) \in MemberTable
BY EmptyTypes DEF dropBelow, MemberTable

-----------------------------------------------------------------------------
(* Type correctness: the initial state, then every decision.               *)

\* The view starts empty.
LEMMA TypeInit == Init => TypeOK
<1> SUFFICES ASSUME Init PROVE TypeOK
  OBVIOUS
<1>1. member \in MemberTable /\ banned \in BanTable
  BY EmptyTypes DEF Init, MemberTable, BanTable
<1>2. cut \in CutTable /\ editcut \in EditCutTable /\ admit \in AdmitTable
  BY EmptyTypes DEF Init, CutTable, EditCutTable, AdmitTable
<1>3. space \in [Scopes -> Info]
  <2>1. <<Top>> \in Seq(Scopes)
    BY DEF Scopes
  <2>2. [NoInfo EXCEPT !.chain = <<Top>>] \in Info
    BY <2>1 DEF NoInfo, Info
  <2> QED
    BY <2>2, EmptyTypes DEF Init
<1>4. keys \in Keys
  BY PersonAssumption DEF Init, Keys
<1>5. roles \in RoleTable
  BY DEF Init, RoleTable
<1> QED
  BY <1>1, <1>2, <1>3, <1>4, <1>5
  DEF Init, TypeOK, MemberTable, BanTable, CutTable, EditCutTable, AdmitTable

\* The tables, under the names the lemmas use.
LEMMA Tables ==
    ASSUME TypeOK
    PROVE  /\ member \in MemberTable /\ banned \in BanTable
           /\ cut \in CutTable /\ editcut \in EditCutTable /\ admit \in AdmitTable
BY DEF TypeOK, MemberTable, BanTable, CutTable, EditCutTable, AdmitTable

\* Someone let in, and a ban lifted.
LEMMA TypeLetIn ==
    ASSUME TypeOK, NEW w \in Devices, NEW s \in Scopes, NEW id \in Ids
    PROVE  /\ MemberAdd(w, id) => TypeOK'
           /\ Unban(w, s, id) => TypeOK'
<1>1. Person[w] \in Ids /\ Top \in Scopes
  BY PersonAssumption DEF Scopes
<1>2. ASSUME MemberAdd(w, id) PROVE TypeOK'
  <2>1. Joined(id) \in Entry
    BY DEF Joined, Entry, Role, RoleNames, Builtin
  <2>2. member' \in MemberTable
    BY <1>1, <1>2, <2>1, Tables DEF MemberAdd, MemberTable
  <2>3. admit' \in AdmitTable
    BY <1>1, <1>2, AdmitType, Tables DEF MemberAdd
  <2>4. codes' \in Nat
    BY <1>2, CodeType DEF MemberAdd
  <2> QED
    BY <1>1, <1>2, <2>2, <2>3, <2>4
    DEF MemberAdd, TypeOK, MemberTable, AdmitTable, spaceVars, keyVars, inviteVars
<1>3. ASSUME Unban(w, s, id) PROVE TypeOK'
  <2>1. banned' \in BanTable
    BY <1>3, EmptyTypes, Tables DEF Unban, BanTable
  <2> QED
    BY <1>1, <1>3, <2>1
    DEF Unban, TypeOK, BanTable, spaceVars, keyVars, cutVars, inviteVars
<1> QED
  BY <1>2, <1>3

\* Roles taken and given.
LEMMA TypeRoles ==
    ASSUME TypeOK, NEW w \in Devices, NEW s \in Scopes, NEW id \in Ids, NEW c \in Cuts
    PROVE  /\ MemberRemove(w, s, id, c) => TypeOK'
           /\ \A role \in AssignedRoles : RoleSet(w, s, id, role, c) => TypeOK'
<1>1. Person[w] \in Ids /\ c \in HeldLengths /\ Top \in Scopes
  BY PersonAssumption, InputAssumption DEF HeldLengths, Scopes
<1>3. ASSUME MemberRemove(w, s, id, c) PROVE TypeOK'
  <2> DEFINE m == dropBelow([member EXCEPT ![s][id] = NoEntry], s, id)
  <2>1. [member EXCEPT ![s][id] = NoEntry] \in MemberTable
    BY EmptyTypes, Tables DEF MemberTable
  <2>2. m \in MemberTable
    BY <2>1, DropBelowType
  <2>3. cut' \in CutTable
    BY <1>1, <1>3, CutType, Tables DEF MemberRemove
  <2>4. admit' \in AdmitTable
    BY <1>3, Tables DEF MemberRemove, AdmitTable
  <2>5. editcut' \in EditCutTable
    BY <1>1, <1>3, EditCutType, Tables DEF MemberRemove
  <2>6. keys' \in Keys
    BY <1>3, SettleType DEF MemberRemove, TypeOK
  <2>7. member' \in MemberTable
    BY <1>3, <2>2 DEF MemberRemove
  <2> QED
    BY <1>1, <1>3, <2>3, <2>4, <2>5, <2>6, <2>7
    DEF MemberRemove, TypeOK, MemberTable, CutTable, EditCutTable, AdmitTable, spaceVars, inviteVars
<1>4. ASSUME NEW role \in AssignedRoles, RoleSet(w, s, id, role, c) PROVE TypeOK'
  <2> DEFINE e == memberIn(member, banned, s, id)
             k == IF e.key # None /\ mayWrite(role, roles) THEN addKey(keys, e.key) ELSE keys
  <2>1. e \in Entry
    BY MemberInType, Tables
  <2>2. role \in Role
    BY InputAssumption DEF Role
  <2>3. [role |-> role, key |-> e.key] \in Entry
    BY <2>1, <2>2 DEF Entry
  <2>4. member' \in MemberTable
    BY <1>4, <2>3, Tables DEF RoleSet, MemberTable
  <2>5. k \in Keys
    <3>1. e.key # None => e.key \in Devices
      BY <2>1 DEF Entry
    <3> QED
      BY <3>1, KeysType DEF TypeOK
  <2>6. keys' \in Keys
    BY <1>4, <2>5, SettleType DEF RoleSet
  <2>7. cut' \in CutTable
    BY <1>1, <1>4, CutType, Tables DEF RoleSet
  <2>8. admit' \in AdmitTable
    <3>1. admitted(admit, s, id, role) \in AdmitTable
      BY AdmitType, Tables
    <3>2. [admit EXCEPT ![s][id] = None] \in AdmitTable
      BY Tables DEF AdmitTable
    <3> QED
      BY <1>4, <3>1, <3>2 DEF RoleSet
  <2>9. editcut' \in EditCutTable
    BY <1>1, <1>4, EditCutType, Tables DEF RoleSet
  <2>10. codes' \in Nat
    BY <1>4, CodeType DEF RoleSet, TypeOK
  <2> QED
    BY <1>1, <1>4, <2>4, <2>6, <2>7, <2>8, <2>9, <2>10
    DEF RoleSet, TypeOK, MemberTable, CutTable, EditCutTable, AdmitTable, spaceVars, inviteVars
<1> QED
  BY <1>3, <1>4

\* Bans.
LEMMA TypeBans ==
    ASSUME TypeOK, NEW w \in Devices, NEW s \in Scopes, NEW id \in Ids, NEW c \in Cuts
    PROVE  /\ \A drop \in Drops : BanMember(w, s, id, c, drop) => TypeOK'
           /\ BanAgain(w, s, id, c) => TypeOK'
<1>1. Person[w] \in Ids /\ c \in HeldLengths
  BY PersonAssumption, InputAssumption DEF HeldLengths
<1>2. [admit EXCEPT ![s][id] = None] \in AdmitTable
  BY Tables DEF AdmitTable
<1>3. ASSUME NEW drop \in Drops, BanMember(w, s, id, c, drop) PROVE TypeOK'
  <2> DEFINE role == roleOf(s, id)
             loses == IF role = None THEN Named(c) ELSE can(role, "post", roles)
             t == IF loses THEN recordCut(cut, s, id, c) ELSE cut
             e == recordEditCuts(editcut, s, id, lostPermissions(role, None), c)
  <2>1. [by |-> Person[w], drop |-> drop] \in Ban
    BY <1>1, InputAssumption DEF Ban
  <2>2. banned' \in BanTable
    BY <1>3, <2>1, Tables DEF BanMember, BanTable
  <2>3. member' \in MemberTable
    BY <1>3, EmptyTypes, Tables DEF BanMember, MemberTable
  <2>4. t \in CutTable
    BY <1>1, CutType, Tables
  <2>5. e \in EditCutTable
    BY <1>1, EditCutType, Tables
  <2>6. cut' \in CutTable
    <3>1. cut' = IF drop THEN dropAll(t, s, id, c) ELSE t
      BY <1>3 DEF BanMember
    <3> HIDE DEF t
    <3> QED
      BY <1>1, <2>4, <3>1, CutType
  <2>7. editcut' \in EditCutTable
    <3>1. editcut' = IF drop THEN dropEdits(e, s, id) ELSE e
      BY <1>3 DEF BanMember
    <3> HIDE DEF e
    <3> QED
      BY <1>1, <2>5, <3>1, EditCutType
  <2>8. admit' \in AdmitTable
    BY <1>2, <1>3, Tables DEF BanMember
  <2>9. keys' \in Keys
    BY <1>3, SettleType DEF BanMember, TypeOK
  <2> QED
    BY <1>1, <1>3, <2>2, <2>3, <2>6, <2>7, <2>8, <2>9
    DEF BanMember, TypeOK, MemberTable, BanTable, CutTable, EditCutTable, AdmitTable, spaceVars,
        inviteVars
<1>4. ASSUME BanAgain(w, s, id, c) PROVE TypeOK'
  <2>1. cut' \in CutTable
    BY <1>1, <1>4, CutType, Tables DEF BanAgain
  <2>2. editcut' \in EditCutTable
    BY <1>1, <1>4, EditCutType, Tables DEF BanAgain
  <2>3. admit' \in AdmitTable
    BY <1>2, <1>4 DEF BanAgain
  <2> QED
    BY <1>1, <1>4, <2>1, <2>2, <2>3
    DEF BanAgain, TypeOK, CutTable, EditCutTable, AdmitTable, personVars, spaceVars, keyVars, inviteVars
<1> QED
  BY <1>3, <1>4

\* An invite redeemed or revoked.
LEMMA TypeInvites ==
    ASSUME TypeOK, NEW w \in Devices, NEW inv \in Invites
    PROVE  /\ \A d \in Devices : InviteRedeem(w, inv, d) => TypeOK'
           /\ InviteRevoke(w, inv) => TypeOK'
<1>1. /\ inv.space \in Scopes /\ inv.maker \in Ids /\ inv.role \in Role
      /\ inv.sub # None => inv.sub \in Scopes
  BY InputAssumption DEF Invite, Role, Scopes
<1>2. Person[w] \in Ids
  BY PersonAssumption
<1>3. ASSUME NEW d \in Devices, InviteRedeem(w, inv, d) PROVE TypeOK'
  <2> DEFINE s == inv.space
             id == Person[d]
             role == roleOf(s, id)
             raises == role = None \/ rankOf(role) < rankOf(inv.role)
             m == IF raises THEN [member EXCEPT ![s][id] = [role |-> inv.role, key |-> d]]
                  ELSE member
             k == IF mayWrite(inv.role, roles) THEN addKey(keys, d) ELSE keys
             read == {Author(w, s), roleOf(s, inv.maker), inv.role, role}
                        \cup (IF raises THEN RolesRead(m, id) ELSE {})
             routes == Routes(inv, m, id,
                              [r \in CustomRoles |-> IF r \in read THEN roles[r] ELSE None])
             a == IF raises THEN admitted(admit, s, id, inv.role) ELSE admit
  <2>1. id \in Ids
    BY PersonAssumption
  <2>2. m \in MemberTable
    <3>1. [role |-> inv.role, key |-> d] \in Entry
      BY <1>1 DEF Entry
    <3> QED
      BY <1>1, <2>1, <3>1, Tables DEF MemberTable
  <2>3. routes => inv.sub \in Scopes
    BY <1>1 DEF Routes
  <2>4. member' = IF routes THEN [m EXCEPT ![inv.sub][id] = [role |-> inv.role, key |-> None]]
                  ELSE m
    BY <1>3 DEF InviteRedeem
  <2>5. admit' = IF routes THEN admitted(a, inv.sub, id, inv.role) ELSE a
    BY <1>3 DEF InviteRedeem
  <2>6. keys' = IF raises THEN settle(k, m, banned, id) ELSE keys
    BY <1>3 DEF InviteRedeem
  <2>7. a \in AdmitTable
    BY <1>1, <2>1, AdmitType, Tables
  <2>8. k \in Keys
    BY KeysType DEF TypeOK
  <2>9. keys' \in Keys
    BY <2>1, <2>6, <2>8, SettleType DEF TypeOK
  <2> HIDE DEF routes, m, a
  <2>10. member' \in MemberTable
    <3>1. [role |-> inv.role, key |-> None] \in Entry
      BY <1>1 DEF Entry
    <3> QED
      BY <2>1, <2>2, <2>3, <2>4, <3>1 DEF MemberTable
  <2>11. admit' \in AdmitTable
    BY <2>1, <2>3, <2>5, <2>7, AdmitType
  <2>12. codes' \in Nat
    BY <1>3, CodeType DEF InviteRedeem
  <2>13. redeemed' \in [Invites -> SUBSET Ids] /\ uses' \in [Invites -> Nat]
    BY <1>3, <2>1 DEF InviteRedeem, TypeOK
  <2> QED
    BY <1>1, <1>3, <2>9, <2>10, <2>11, <2>12, <2>13
    DEF InviteRedeem, TypeOK, MemberTable, AdmitTable, spaceVars
<1>4. ASSUME InviteRevoke(w, inv) PROVE TypeOK'
  BY <1>2, <1>4
  DEF InviteRevoke, TypeOK, personVars, spaceVars, keyVars, cutVars
<1> QED
  BY <1>3, <1>4

\* The space's first decision, its roles, its sub-spaces.
LEMMA TypeSpaces ==
    ASSUME TypeOK
    PROVE  /\ \A p \in Privacy : SpaceInit(p) => TypeOK'
           /\ \A w \in Devices, name \in CustomRoles, perms \in DefinedPerms :
                RoleDefine(w, name, perms) => TypeOK'
           /\ \A w \in Devices, s \in Scopes, x \in Subs, p \in Privacy, only \in WriteRoles :
                SubspaceCreate(w, s, x, p, only) => TypeOK'
<1>1. Person \in [Devices -> Ids] /\ Creator \in Devices /\ Top \in Scopes
  BY PersonAssumption DEF Scopes
<1>2. ASSUME NEW p \in Privacy, SpaceInit(p) PROVE TypeOK'
  <2>1. [role |-> "owner", key |-> None] \in Entry
    BY DEF Entry, Role, RoleNames, Builtin
  <2>2. member' \in MemberTable
    BY <1>1, <1>2, <2>1, Tables DEF SpaceInit, MemberTable
  <2>3. space' \in [Scopes -> Info]
    <3> DEFINE i == space[Top]
    <3>1. p \in BOOLEAN
      BY InputAssumption
    <3>2. i \in Info
      BY <1>1 DEF TypeOK
    <3>3. [i EXCEPT !.private = p] = [chain |-> i.chain, private |-> p, writeRoles |-> i.writeRoles]
      BY <3>2 DEF Info
    <3>4. [i EXCEPT !.private = p] \in Info
      BY <3>1, <3>2, <3>3 DEF Info
    <3>5. space' = [space EXCEPT ![Top] = [space[Top] EXCEPT !.private = p]]
      BY <1>2 DEF SpaceInit
    <3> QED
      BY <1>1, <3>4, <3>5 DEF TypeOK
  <2>4. keys' \in Keys
    <3>1. <<Creator>> \in Seq(Devices)
      BY <1>1
    <3> QED
      BY <1>1, <1>2, <3>1 DEF SpaceInit, TypeOK, Keys
  <2> QED
    BY <1>1, <1>2, <2>2, <2>3, <2>4
    DEF SpaceInit, TypeOK, MemberTable, cutVars, inviteVars
<1>3. ASSUME NEW w \in Devices, NEW name \in CustomRoles, NEW perms \in DefinedPerms,
             RoleDefine(w, name, perms)
      PROVE  TypeOK'
  <2>1. roles' \in RoleTable
    BY <1>3, InputAssumption DEF RoleDefine, TypeOK, RoleTable
  <2> QED
    BY <1>1, <1>3, <2>1
    DEF RoleDefine, TypeOK, spaceVars, keyVars, cutVars, inviteVars
<1>4. ASSUME NEW w \in Devices, NEW s \in Scopes, NEW x \in Subs, NEW p \in Privacy,
             NEW only \in WriteRoles, SubspaceCreate(w, s, x, p, only)
      PROVE  TypeOK'
  <2>1. <<x>> \o chainOf(s) \in Seq(Scopes)
    <3>1. <<x>> \in Seq(Scopes)
      BY DEF Scopes
    <3> QED
      BY <3>1, ChainType
  <2>2. [chain |-> <<x>> \o chainOf(s), private |-> p, writeRoles |-> only] \in Info
    BY <2>1, InputAssumption DEF Info
  <2>3. space' \in [Scopes -> Info]
    BY <1>4, <2>2 DEF SubspaceCreate, TypeOK, Scopes
  <2>4. subs' \in Seq(Subs)
    BY <1>4 DEF SubspaceCreate, TypeOK
  <2> QED
    BY <1>1, <1>4, <2>3, <2>4
    DEF SubspaceCreate, TypeOK, personVars, keyVars, cutVars, inviteVars
<1> QED
  BY <1>2, <1>3, <1>4

\* Devices that claim their key, and devices removed.
LEMMA TypeDevices ==
    ASSUME TypeOK, NEW w \in Devices, NEW d \in Devices
    PROVE  /\ WriterAdd(w, d) => TypeOK'
           /\ DeviceRemove(w, d) => TypeOK'
<1>1. Person[w] \in Ids /\ Person[d] \in Ids /\ keys \in Keys
  BY PersonAssumption DEF TypeOK
<1>2. ASSUME WriterAdd(w, d) PROVE TypeOK'
  <2>1. keys' \in Keys
    <3>1. addKey(keys, d) \in Keys
      BY <1>1, KeysType
    <3> QED
      BY <1>1, <1>2, <3>1, SettleType DEF WriterAdd
  <2> QED
    BY <1>1, <1>2, <2>1
    DEF WriterAdd, TypeOK, personVars, spaceVars, cutVars, inviteVars
<1>3. ASSUME DeviceRemove(w, d) PROVE TypeOK'
  <2> DEFINE k == IF Speaks(d) THEN forget(keys, d) ELSE keys
             settled == settle(k, member, banned, Person[d])
  <2>1. k \in Keys
    BY <1>1, KeysType
  <2>2. settled \in Keys
    BY <1>1, <2>1, SettleType
  <2>3. removeFromBase(settled, d) \in Keys
    BY <2>2, KeysType
  <2>4. keys' = IF Speaks(d) THEN removeFromBase(settled, d) ELSE settled
    BY <1>3 DEF DeviceRemove
  <2>5. keys' \in Keys
    BY <2>2, <2>3, <2>4
  <2> QED
    BY <1>1, <1>3, <2>5
    DEF DeviceRemove, TypeOK, personVars, spaceVars, cutVars, inviteVars
<1> QED
  BY <1>2, <1>3

\* Every decision keeps the types.
LEMMA TypeStep == TypeOK /\ [Next]_memberVars => TypeOK'
<1> SUFFICES ASSUME TypeOK, [Next]_memberVars PROVE TypeOK'
  OBVIOUS
<1>1. CASE UNCHANGED memberVars
  BY <1>1 DEF TypeOK, memberVars, personVars, spaceVars, keyVars, cutVars, inviteVars
<1>2. CASE \E p \in Privacy : SpaceInit(p)
  BY <1>2, TypeSpaces
<1>3. ASSUME NEW w \in Devices, NEW id \in Ids, MemberAdd(w, id) PROVE TypeOK'
  BY <1>3, TypeLetIn DEF Scopes
<1>4. ASSUME NEW w \in Devices, NEW d \in Removable, DeviceRemove(w, d) PROVE TypeOK'
  BY <1>4, TypeDevices, InputAssumption
<1> QED
  BY <1>1, <1>2, <1>3, <1>4, TypeLetIn, TypeRoles, TypeBans, TypeInvites, TypeSpaces, TypeDevices
  DEF Next

\* The view always holds entries of the kinds the state's readers expect, for
\* any people, devices, sub-spaces, invites and lengths.
THEOREM TypeCorrect == Spec => []TypeOK
  BY TypeInit, TypeStep, PTL DEF Spec

-----------------------------------------------------------------------------
(* The owner.                                                              *)

\* A scope's chain goes up through sub-spaces and ends in the top space.
ChainShape ==
    /\ chainOf(Top) = <<Top>>
    /\ \A s \in Scopes : IsScope(s) =>
        /\ chainOf(s)[Len(chainOf(s))] = Top
        /\ \A i \in 1..(Len(chainOf(s)) - 1) : chainOf(s)[i] \in Subs

\* Nothing counts before the space's first decision.
NothingBefore ==
    owner = None =>
        /\ \A s \in Scopes, id \in Ids : member[s][id].role = None /\ banned[s][id] = NoBan
        /\ \A id \in Ids : keys.list[id] = <<>>
        /\ gone = {}

\* The only entry with the owner's role is the owner's, in the top space; they
\* have no other, and no ban.
OwnerEntry ==
    owner # None =>
        /\ member[Top][owner].role = "owner"
        /\ \A x \in Subs : member[x][owner].role = None
        /\ \A s \in Scopes : banned[s][owner] = NoBan
        /\ \A s \in Scopes, id \in Ids : member[s][id].role = "owner" => id = owner

OwnerInv == TypeOK /\ ChainShape /\ NothingBefore /\ OwnerEntry

-----------------------------------------------------------------------------
(* Consequences of the invariant.                                          *)

\* A chain has a last scope.
LEMMA ChainLen ==
    ASSUME TypeOK, NEW s \in Scopes, IsScope(s)
    PROVE  /\ Len(chainOf(s)) \in Nat \ {0}
           /\ DOMAIN chainOf(s) = 1..Len(chainOf(s))
BY ChainType DEF IsScope

\* By a table in which the owner has only their entry of the top space, and
\* no ban, they are the owner in every scope.
LEMMA OwnerCounts ==
    ASSUME TypeOK, ChainShape, NEW s \in Scopes, IsScope(s), NEW id \in Ids,
           NEW m \in MemberTable, NEW b \in BanTable,
           m[Top][id].role = "owner",
           \A x \in Subs : m[x][id].role = None,
           \A x \in Scopes : b[x][id] = NoBan
    PROVE  roleIn(m, b, s, id) = "owner"
<1> DEFINE c == chainOf(s)
           n == Len(c)
<1>1. n \in Nat \ {0} /\ DOMAIN c = 1..n
  BY ChainLen
<1>2. c[n] = Top /\ \A i \in 1..(n - 1) : c[i] \in Subs
  BY DEF ChainShape
<1>3. ~ bannedIn(b, s, id)
  BY ChainType DEF bannedIn
<1>4. Counts(m, s, id, n)
  <2>1. m[c[n]][id].role = "owner" /\ "owner" # None
    BY <1>2, NoneAssumption DEF RoleNames, Builtin
  <2>2. \A j \in 1..(n - 1) : m[c[j]][id].role = None
    BY <1>2
  <2> QED
    BY <1>1, <2>1, <2>2 DEF Counts
<1>5. ASSUME NEW i \in DOMAIN c, Counts(m, s, id, i) PROVE i = n
  <2>1. m[c[i]][id].role # None
    BY <1>5 DEF Counts
  <2>2. i \notin 1..(n - 1)
    BY <1>2, <2>1
  <2> QED
    BY <1>1, <2>2
<1>6. memberIn(m, b, s, id) = m[c[CHOOSE i \in DOMAIN c : Counts(m, s, id, i)]][id]
  BY <1>1, <1>3, <1>4 DEF memberIn
<1>7. (CHOOSE i \in DOMAIN c : Counts(m, s, id, i)) = n
  BY <1>1, <1>4, <1>5
<1> QED
  BY <1>2, <1>6, <1>7 DEF roleIn

\* Someone the table gives no owner's role is nowhere the owner.
LEMMA OthersCount ==
    ASSUME TypeOK, NEW s \in Scopes, NEW id \in Ids, NEW m \in MemberTable, NEW b,
           \A x \in Scopes : m[x][id].role # "owner"
    PROVE  roleIn(m, b, s, id) # "owner"
<1> DEFINE at == CHOOSE i \in DOMAIN chainOf(s) : Counts(m, s, id, i)
<1>1. CASE ~ bannedIn(b, s, id) /\ \E i \in DOMAIN chainOf(s) : Counts(m, s, id, i)
  <2>1. chainOf(s)[at] \in Scopes
    BY <1>1, ChainType
  <2>2. memberIn(m, b, s, id) = m[chainOf(s)[at]][id]
    BY <1>1 DEF memberIn
  <2> QED
    BY <2>1, <2>2 DEF roleIn
<1>2. CASE ~ (~ bannedIn(b, s, id) /\ \E i \in DOMAIN chainOf(s) : Counts(m, s, id, i))
  <2>1. roleIn(m, b, s, id) = None
    BY <1>2 DEF memberIn, roleIn, NoEntry
  <2> QED
    BY <2>1, NoneAssumption DEF RoleNames, Builtin
<1> QED
  BY <1>1, <1>2

\* In every scope the owner, and no one else, has the owner's role.
LEMMA OwnerRole ==
    ASSUME OwnerInv, owner # None, NEW s \in Scopes, IsScope(s), NEW id \in Ids
    PROVE  (roleOf(s, id) = "owner") <=> (id = owner)
<1>1. member \in MemberTable /\ banned \in BanTable
  BY Tables DEF OwnerInv
<1>2. CASE id = owner
  BY <1>1, <1>2, OwnerCounts DEF OwnerInv, OwnerEntry, roleOf
<1>3. CASE id # owner
  BY <1>1, <1>3, OthersCount DEF OwnerInv, OwnerEntry, roleOf
<1> QED
  BY <1>2, <1>3

\* The invariant says what members see.
LEMMA OwnerInvOneOwner == OwnerInv => OneOwner
BY OwnerRole DEF OneOwner

\* A decision's author speaks for someone: the space has an owner.
LEMMA SpeakerOwner ==
    ASSUME OwnerInv, NEW w \in Devices, Speaks(w)
    PROVE  owner # None /\ owner \in Ids
<1>1. Person[w] \in Ids
  BY PersonAssumption
<1>2. keys.list[Person[w]] # <<>>
  BY DEF Speaks, Holds
<1> QED
  BY <1>1, <1>2 DEF OwnerInv, NothingBefore, TypeOK

-----------------------------------------------------------------------------
(* The invariant holds at first, and every decision keeps it.              *)

\* The empty view.
LEMMA OwnerInit == Init => OwnerInv
<1> SUFFICES ASSUME Init PROVE OwnerInv
  OBVIOUS
<1>1. \A s \in Scopes : chainOf(s) = IF s = Top THEN <<Top>> ELSE <<>>
  BY DEF Init, chainOf, NoInfo
<1>2. ChainShape
  <2>1. chainOf(Top) = <<Top>>
    BY <1>1 DEF Scopes
  <2>2. \A s \in Scopes : IsScope(s) => chainOf(s) = <<Top>>
    BY <1>1 DEF IsScope
  <2>3. Len(<<Top>>) = 1 /\ <<Top>>[1] = Top /\ 1..(1 - 1) = {}
    OBVIOUS
  <2> QED
    BY <2>1, <2>2, <2>3 DEF ChainShape
<1>3. NothingBefore
  <2>1. keys.list = [id \in Ids |-> <<>>]
    BY DEF Init
  <2>2. \A s \in Scopes, id \in Ids : member[s][id].role = None /\ banned[s][id] = NoBan
    BY DEF Init, NoEntry
  <2> QED
    BY <2>1, <2>2 DEF Init, NothingBefore
<1>4. OwnerEntry
  BY DEF Init, OwnerEntry
<1> QED
  BY <1>2, <1>3, <1>4, TypeInit DEF OwnerInv

\* Where the sub-spaces are changes only when one is made: below a scope.
LEMMA ChainSame ==
    ASSUME ChainShape, UNCHANGED space
    PROVE  ChainShape'
BY DEF ChainShape, IsScope, chainOf

\* A new sub-space's chain is its parent's, itself in front.
LEMMA ChainCreate ==
    ASSUME OwnerInv, NEW w \in Devices, NEW s \in Scopes, NEW x \in Subs, NEW p, NEW only,
           SubspaceCreate(w, s, x, p, only)
    PROVE  ChainShape'
<1> DEFINE c == chainOf(s)
           n == Len(c)
           new == <<x>> \o c
<1>1. IsScope(s) /\ x # Top /\ x \in Scopes
  BY ScopeAssumption DEF SubspaceCreate, May, Scopes
<1>2. n \in Nat \ {0} /\ DOMAIN c = 1..n /\ c \in Seq(Scopes)
  BY <1>1, ChainLen, ChainType DEF OwnerInv
<1>3. c[n] = Top /\ \A i \in 1..(n - 1) : c[i] \in Subs
  BY <1>1 DEF OwnerInv, ChainShape
<1>4. Len(new) = n + 1 /\ new[1] = x /\ \A i \in 2..(n + 1) : new[i] = c[i - 1]
  BY <1>2
<1>5. new[Len(new)] = Top /\ \A i \in 1..(Len(new) - 1) : new[i] \in Subs
  <2>1. n + 1 \in 2..(n + 1) /\ (n + 1) - 1 = n
    BY <1>2
  <2>2. ASSUME NEW i \in 1..n PROVE new[i] \in Subs
    <3>1. CASE i = 1
      BY <1>4, <3>1
    <3>2. CASE i # 1
      <4>1. i \in 2..(n + 1) /\ i - 1 \in 1..(n - 1)
        BY <1>2, <3>2
      <4> QED
        BY <1>3, <1>4, <4>1
    <3> QED
      BY <3>1, <3>2
  <2> QED
    BY <1>2, <1>3, <1>4, <2>1, <2>2
<1>6. \A z \in Scopes : chainOf(z)' = IF z = x THEN new ELSE chainOf(z)
  BY DEF SubspaceCreate, chainOf, OwnerInv, TypeOK
<1> HIDE DEF new
<1> QED
  BY <1>1, <1>5, <1>6 DEF OwnerInv, ChainShape, IsScope, Scopes

\* The space's first decision makes its author the owner.
LEMMA OwnerSpaceInit ==
    ASSUME OwnerInv, TypeOK', NEW p, SpaceInit(p)
    PROVE  OwnerInv'
<1> DEFINE id == Person[Creator]
<1>1. id \in Ids /\ id # None /\ Top \in Scopes /\ Top \notin Subs
  BY PersonAssumption, ScopeAssumption DEF Scopes
<1>2. /\ member' = [member EXCEPT ![Top][id] = [role |-> "owner", key |-> None]]
      /\ owner' = id /\ banned' = banned
  BY DEF SpaceInit
<1>3. /\ \A s \in Scopes, i \in Ids : member[s][i].role = None /\ banned[s][i] = NoBan
      /\ member \in MemberTable
  BY Tables DEF OwnerInv, NothingBefore, SpaceInit
<1>4. "owner" # None
  BY NoneAssumption DEF RoleNames, Builtin
<1>5. \A s \in Scopes, i \in Ids :
        member'[s][i].role = IF s = Top /\ i = id THEN "owner" ELSE None
  BY <1>1, <1>2, <1>3 DEF MemberTable
<1>6. OwnerEntry'
  BY <1>1, <1>2, <1>3, <1>4, <1>5 DEF OwnerEntry, Scopes
<1>7. ChainShape'
  <2>1. \A s \in Scopes : chainOf(s)' = chainOf(s)
    BY <1>1 DEF SpaceInit, chainOf, OwnerInv, TypeOK, Info
  <2> QED
    BY <1>1, <2>1 DEF OwnerInv, ChainShape, IsScope
<1>8. NothingBefore'
  BY <1>1, <1>2 DEF NothingBefore
<1> QED
  BY <1>6, <1>7, <1>8 DEF OwnerInv

\* A decision that gives no one the owner's role, and leaves the owner's
\* entries and bans alone, keeps the invariant.
LEMMA OwnerKept ==
    ASSUME OwnerInv, TypeOK', owner # None, UNCHANGED owner, ChainShape',
           \A s \in Scopes : member'[s][owner].role = member[s][owner].role,
           \A s \in Scopes : banned'[s][owner] = banned[s][owner],
           \A s \in Scopes, id \in Ids :
                member'[s][id].role = "owner" => member[s][id].role = "owner"
    PROVE  OwnerInv'
<1>1. NothingBefore'
  BY DEF NothingBefore
<1>2. OwnerEntry'
  BY DEF OwnerInv, OwnerEntry, Scopes
<1> QED
  BY <1>1, <1>2 DEF OwnerInv

\* Roles given and taken: never the owner's, and never to be the owner.
LEMMA OwnerRoles ==
    ASSUME OwnerInv, TypeOK', NEW w \in Devices, NEW s \in Scopes, NEW id \in Ids, NEW c
    PROVE  /\ MemberAdd(w, id) => OwnerInv'
           /\ MemberRemove(w, s, id, c) => OwnerInv'
           /\ \A role \in AssignedRoles : RoleSet(w, s, id, role, c) => OwnerInv'
<1>1. member \in MemberTable /\ "owner" # None
  BY Tables, NoneAssumption DEF OwnerInv, RoleNames, Builtin
<1>2. ASSUME MemberAdd(w, id) PROVE OwnerInv'
  <2>1. owner # None /\ owner \in Ids
    BY <1>2, SpeakerOwner DEF MemberAdd, May
  <2>2. id # owner /\ Top \in Scopes
    BY <1>1, <1>2, <2>1, OwnerRole DEF MemberAdd, May, Scopes
  <2>3. ChainShape'
    BY <1>2, ChainSame DEF MemberAdd, OwnerInv, spaceVars
  <2>4. \A z \in Scopes, i \in Ids :
            member'[z][i].role = IF z = Top /\ i = id THEN "member" ELSE member[z][i].role
    BY <1>1, <1>2, <2>2 DEF MemberAdd, Joined, MemberTable
  <2> QED
    BY <1>2, <2>1, <2>2, <2>3, <2>4, OwnerKept DEF MemberAdd
<1>3. ASSUME MemberRemove(w, s, id, c) PROVE OwnerInv'
  <2>1. owner # None /\ owner \in Ids /\ IsScope(s)
    BY <1>3, SpeakerOwner DEF MemberRemove
  <2>2. id # owner
    BY <1>3, <2>1, OwnerRole DEF MemberRemove, mayRemove
  <2>3. ChainShape'
    BY <1>3, ChainSame DEF MemberRemove, OwnerInv, spaceVars
  <2>4. \A z \in Scopes, i \in Ids :
            /\ i # id => member'[z][i] = member[z][i]
            /\ member'[z][i] \in {member[z][i], NoEntry}
    <3> DEFINE m == [member EXCEPT ![s][id] = NoEntry]
    <3>1. m \in MemberTable
      BY <1>1, EmptyTypes DEF MemberTable
    <3>2. \A z \in Scopes, i \in Ids : m[z][i] = IF z = s /\ i = id THEN NoEntry ELSE member[z][i]
      BY <1>1 DEF MemberTable
    <3>3. member' = dropBelow(m, s, id)
      BY <1>3 DEF MemberRemove
    <3> HIDE DEF m
    <3>4. \A z \in Scopes, i \in Ids :
             member'[z][i] = IF below(z, s) /\ i = id THEN NoEntry ELSE m[z][i]
      BY <3>1, <3>3 DEF dropBelow, MemberTable
    <3> QED
      BY <3>2, <3>4
  <2>5. NoEntry.role # "owner"
    BY <1>1 DEF NoEntry
  <2> QED
    BY <1>3, <2>1, <2>2, <2>3, <2>4, <2>5, OwnerKept DEF MemberRemove
<1>4. ASSUME NEW role \in AssignedRoles, RoleSet(w, s, id, role, c) PROVE OwnerInv'
  <2>1. owner # None /\ owner \in Ids /\ IsScope(s)
    BY <1>4, SpeakerOwner DEF RoleSet
  <2>2. id # owner /\ role # "owner"
    BY <1>4, <2>1, OwnerRole DEF RoleSet, mayAssign, roleOf, roleIn
  <2>3. ChainShape'
    BY <1>4, ChainSame DEF RoleSet, OwnerInv, spaceVars
  <2>4. \A z \in Scopes, i \in Ids :
            member'[z][i].role = IF z = s /\ i = id THEN role ELSE member[z][i].role
    BY <1>1, <1>4 DEF RoleSet, MemberTable
  <2> QED
    BY <1>4, <2>1, <2>2, <2>3, <2>4, OwnerKept DEF RoleSet
<1> QED
  BY <1>2, <1>3, <1>4

\* Bans: never the owner's.
LEMMA OwnerBans ==
    ASSUME OwnerInv, TypeOK', NEW w \in Devices, NEW s \in Scopes, NEW id \in Ids, NEW c
    PROVE  /\ \A drop \in Drops : BanMember(w, s, id, c, drop) => OwnerInv'
           /\ BanAgain(w, s, id, c) => OwnerInv'
           /\ Unban(w, s, id) => OwnerInv'
<1>1. member \in MemberTable /\ banned \in BanTable /\ "owner" # None
  BY Tables, NoneAssumption DEF OwnerInv, RoleNames, Builtin
<1>2. ASSUME NEW drop \in Drops, BanMember(w, s, id, c, drop) PROVE OwnerInv'
  <2>1. owner # None /\ owner \in Ids /\ IsScope(s)
    BY <1>2, SpeakerOwner DEF BanMember, May
  <2>2. id # owner
    BY <1>2, <2>1, OwnerRole DEF BanMember, mayRemove
  <2>3. ChainShape'
    BY <1>2, ChainSame DEF BanMember, OwnerInv, spaceVars
  <2>4. \A z \in Scopes, i \in Ids :
            /\ i # id => member'[z][i] = member[z][i] /\ banned'[z][i] = banned[z][i]
            /\ member'[z][i] \in {member[z][i], NoEntry}
    BY <1>1, <1>2 DEF BanMember, MemberTable, BanTable
  <2>5. NoEntry.role # "owner"
    BY <1>1 DEF NoEntry
  <2> QED
    BY <1>2, <2>1, <2>2, <2>3, <2>4, <2>5, OwnerKept DEF BanMember
<1>3. ASSUME BanAgain(w, s, id, c) PROVE OwnerInv'
  <2>1. owner # None
    BY <1>3, SpeakerOwner DEF BanAgain, May
  <2>2. ChainShape'
    BY <1>3, ChainSame DEF BanAgain, OwnerInv, spaceVars
  <2> QED
    BY <1>3, <2>1, <2>2, OwnerKept DEF BanAgain, personVars
<1>4. ASSUME Unban(w, s, id) PROVE OwnerInv'
  <2>1. owner # None /\ owner \in Ids
    BY <1>4, SpeakerOwner DEF Unban, May
  <2>2. id # owner
    BY <1>4, <2>1 DEF Unban, OwnerInv, OwnerEntry
  <2>3. ChainShape'
    BY <1>4, ChainSame DEF Unban, OwnerInv, spaceVars
  <2>4. \A z \in Scopes : banned'[z][owner] = banned[z][owner]
    BY <1>1, <1>4, <2>1, <2>2 DEF Unban, BanTable
  <2> QED
    BY <1>4, <2>1, <2>3, <2>4, OwnerKept DEF Unban
<1> QED
  BY <1>2, <1>3, <1>4

\* Only the owner's role ranks above every role an invite may give.
LEMMA OwnerOutranks ==
    ASSUME NEW role \in RoleNames, role # "owner"
    PROVE  ~ (rankOf("owner") < rankOf(role))
<1>1. rankOf("owner") = 5
  BY DEF rankOf, RANK, Builtin
<1>2. rankOf(role) \in {1, 2, 3, 4}
  BY DEF rankOf, RANK, Builtin, CUSTOM_RANK
<1> QED
  BY <1>1, <1>2

\* An invite redeemed gives the owner nothing: here they outrank what it gives,
\* and in the sub-space it lists too.
LEMMA OwnerRedeem ==
    ASSUME OwnerInv, TypeOK', NEW w \in Devices, NEW inv \in Invites, NEW d \in Devices,
           InviteRedeem(w, inv, d)
    PROVE  OwnerInv'
<1> DEFINE s == inv.space
           id == Person[d]
           role == roleOf(s, id)
           raises == role = None \/ rankOf(role) < rankOf(inv.role)
           m == IF raises THEN [member EXCEPT ![s][id] = [role |-> inv.role, key |-> d]] ELSE member
           read == {Author(w, s), roleOf(s, inv.maker), inv.role, role}
                      \cup (IF raises THEN RolesRead(m, id) ELSE {})
           routes == Routes(inv, m, id,
                            [r \in CustomRoles |-> IF r \in read THEN roles[r] ELSE None])
<1>1. /\ s \in Scopes /\ id \in Ids /\ inv.role \in RoleNames
      /\ inv.sub # None => inv.sub \in Scopes
  BY PersonAssumption, InputAssumption DEF Invite, Scopes
<1>2. owner # None /\ owner \in Ids /\ IsScope(s)
  BY SpeakerOwner DEF InviteRedeem, May
<1>3. inv.role # "owner" /\ inv.role # None /\ "owner" # None
  BY <1>1, NoneAssumption DEF InviteRedeem, mayInvite, RoleNames, Builtin
<1>4. member \in MemberTable /\ banned \in BanTable
  BY Tables DEF OwnerInv
<1>5. raises => id # owner
  BY <1>1, <1>2, <1>3, OwnerRole, OwnerOutranks
<1>6. \A z \in Scopes, i \in Ids :
        m[z][i].role = IF raises /\ z = s /\ i = id THEN inv.role ELSE member[z][i].role
  BY <1>1, <1>4 DEF MemberTable
<1>7. m \in MemberTable
  <2>1. [role |-> inv.role, key |-> d] \in Entry
    BY <1>1 DEF Entry, Role
  <2> QED
    BY <1>1, <1>4, <2>1 DEF MemberTable
<1>8. member' = IF routes THEN [m EXCEPT ![inv.sub][id] = [role |-> inv.role, key |-> None]] ELSE m
  BY DEF InviteRedeem
<1> HIDE DEF m, raises
<1>9. routes => id # owner /\ inv.sub \in Scopes
  <2> SUFFICES ASSUME routes PROVE id # owner /\ inv.sub \in Scopes
    OBVIOUS
  <2>1. inv.sub \in Scopes
    BY <1>1 DEF Routes
  <2>2. IsScope(inv.sub)
    <3>1. Len(chainOf(inv.sub)) >= 2
      BY <2>1, ChainType DEF Routes, below, OwnerInv
    <3> QED
      BY <3>1 DEF IsScope
  <2>3. ASSUME id = owner PROVE FALSE
    <3>1. \A z \in Scopes : m[z][owner].role = member[z][owner].role
      BY <1>2, <1>5, <1>6, <2>3
    <3>2. roleIn(m, banned, inv.sub, owner) = "owner"
      BY <1>2, <1>4, <1>7, <2>1, <2>2, <3>1, OwnerCounts
      DEF OwnerInv, OwnerEntry, Scopes
    <3>3. ~ (rankOf("owner") < rankOf(inv.role))
      BY <1>1, <1>3, OwnerOutranks
    <3> QED
      BY <1>3, <2>3, <3>2, <3>3 DEF Routes
  <2> QED
    BY <2>1, <2>3
<1> HIDE DEF routes
<1>10. \A z \in Scopes, i \in Ids :
        member'[z][i].role = IF routes /\ z = inv.sub /\ i = id THEN inv.role ELSE m[z][i].role
  BY <1>1, <1>7, <1>8, <1>9 DEF MemberTable
<1>11. ChainShape'
  BY ChainSame DEF InviteRedeem, OwnerInv, spaceVars
<1>12. UNCHANGED <<owner, banned>>
  BY DEF InviteRedeem
<1> HIDE DEF id, s
<1> QED
  BY <1>2, <1>3, <1>5, <1>6, <1>9, <1>10, <1>11, <1>12, OwnerKept

\* Every decision keeps the owner.
LEMMA OwnerStep == OwnerInv /\ [Next]_memberVars => OwnerInv'
<1> SUFFICES ASSUME OwnerInv, [Next]_memberVars PROVE OwnerInv'
  OBVIOUS
<1>1. TypeOK'
  BY TypeStep DEF OwnerInv
<1>2. CASE UNCHANGED memberVars
  BY <1>1, <1>2, ChainSame
  DEF memberVars, personVars, spaceVars, keyVars, OwnerInv, NothingBefore, OwnerEntry
<1>3. CASE \E p \in Privacy : SpaceInit(p)
  BY <1>1, <1>3, OwnerSpaceInit
<1>4. ASSUME NEW w \in Devices, NEW id \in Ids, MemberAdd(w, id) PROVE OwnerInv'
  BY <1>1, <1>4, OwnerRoles DEF Scopes
<1>5. ASSUME NEW w \in Devices, NEW s \in Scopes, NEW id \in Ids, Unban(w, s, id) PROVE OwnerInv'
  BY <1>1, <1>5, OwnerBans
<1>6. ASSUME NEW w \in Devices,
             \/ \E name \in CustomRoles, perms \in DefinedPerms : RoleDefine(w, name, perms)
             \/ \E inv \in Invites : InviteRevoke(w, inv)
             \/ \E d \in Devices : WriterAdd(w, d)
             \/ \E d \in Removable : DeviceRemove(w, d)
      PROVE  OwnerInv'
  <2>1. Speaks(w) /\ UNCHANGED <<owner, member, banned, space>>
    BY <1>6
    DEF RoleDefine, InviteRevoke, WriterAdd, DeviceRemove, May, personVars, spaceVars
  <2>2. owner # None /\ ChainShape'
    BY <2>1, SpeakerOwner, ChainSame DEF OwnerInv
  <2> QED
    BY <1>1, <2>1, <2>2, OwnerKept
<1>7. ASSUME NEW w \in Devices, NEW s \in Scopes, NEW x \in Subs, NEW p \in Privacy,
             NEW only \in WriteRoles, SubspaceCreate(w, s, x, p, only)
      PROVE  OwnerInv'
  <2>1. Speaks(w) /\ UNCHANGED <<owner, member, banned>>
    BY <1>7 DEF SubspaceCreate, May, personVars
  <2>2. owner # None /\ ChainShape'
    BY <1>7, <2>1, SpeakerOwner, ChainCreate
  <2> QED
    BY <1>1, <2>1, <2>2, OwnerKept
<1> QED
  BY <1>1, <1>2, <1>3, <1>4, <1>5, <1>6, <1>7, OwnerRoles, OwnerBans, OwnerRedeem DEF Next

\* The owner stays the owner everywhere, and nobody else ever is, whatever
\* people decide and however many sub-spaces there are.
THEOREM OwnerSafe == Spec => []OneOwner
<1>1. Spec => []OwnerInv
  BY OwnerInit, OwnerStep, PTL DEF Spec
<1> QED
  BY <1>1, OwnerInvOneOwner, PTL

-----------------------------------------------------------------------------
(* Devices that were removed, and invites used.                            *)

\* The keys of every identity are listed once each, and none of a device of g.
Sound(l, g) ==
    /\ \A id \in Ids : \A i, j \in DOMAIN l[id] : l[id][i] = l[id][j] => i = j
    /\ \A d \in g : \A i \in DOMAIN l[Person[d]] : l[Person[d]][i] # d

KeyLists == [Ids -> Seq(Devices)]
GoneInv == OwnerInv /\ Sound(keys.list, gone)

\* The invariant is what the property says, and more: Without takes a key out
\* of a list only if it is there once.
LEMMA GoneInvSilent == GoneInv => GoneDevicesSilent
BY DEF GoneInv, Sound, GoneDevicesSilent, Speaks, Holds

-----------------------------------------------------------------------------
(* What the operations on keys do to the lists.                            *)

\* Settling leaves the lists as they are, or empties one.
LEMMA SettleLists ==
    ASSUME NEW k \in Keys, NEW m, NEW b, NEW id \in Ids
    PROVE  settle(k, m, b, id).list \in {k.list, [k.list EXCEPT ![id] = <<>>]}
<1>1. ForgetAll(k, id).list = [k.list EXCEPT ![id] = <<>>]
  BY DEF ForgetAll
<1>2. \A x : Demoted([k EXCEPT !.settler = @ \ {x}], x).list = k.list
  BY DEF Demoted, Keys
<1>3. \A x : [k EXCEPT !.settler = @ \cup {x}, !.base = @ \cup {x}, !.settling = @ \cup {x}].list
                = k.list
  BY DEF Keys
<1> QED
  BY <1>1, <1>2, <1>3 DEF settle

\* The lists stay sound when settled.
LEMMA SettleSound ==
    ASSUME NEW k \in Keys, NEW m, NEW b, NEW id \in Ids, NEW g \in SUBSET Devices,
           Sound(k.list, g)
    PROVE  Sound(settle(k, m, b, id).list, g)
<1> DEFINE l == settle(k, m, b, id).list
<1>1. k.list \in KeyLists
  BY DEF Keys, KeyLists
<1>2. \A i \in Ids : l[i] = k.list[i] \/ l[i] = <<>>
  BY <1>1, SettleLists DEF KeyLists
<1>3. \A i \in Ids : l[i] = <<>> => DOMAIN l[i] = {}
  OBVIOUS
<1>4. \A d \in g : Person[d] \in Ids
  BY PersonAssumption
<1> HIDE DEF l
<1>5. ASSUME NEW x \in Ids, NEW i \in DOMAIN l[x] PROVE l[x] = k.list[x]
  BY <1>2, <1>3, <1>5
<1>6. ASSUME NEW x \in Ids, NEW i \in DOMAIN l[x], NEW j \in DOMAIN l[x], l[x][i] = l[x][j]
      PROVE  i = j
  <2>1. l[x] = k.list[x]
    BY <1>5
  <2> QED
    BY <1>6, <2>1 DEF Sound
<1>7. ASSUME NEW d \in g, NEW i \in DOMAIN l[Person[d]] PROVE l[Person[d]][i] # d
  <2>1. l[Person[d]] = k.list[Person[d]]
    BY <1>4, <1>5
  <2> QED
    BY <2>1 DEF Sound
<1> QED
  BY <1>6, <1>7 DEF Sound, l

\* A key is added only if it is not listed and its device not removed.
LEMMA AddSound ==
    ASSUME NEW k \in Keys, NEW d \in Devices, gone \in SUBSET Devices, Sound(k.list, gone)
    PROVE  Sound(addKey(k, d).list, gone)
<1> DEFINE id == Person[d]
           l == k.list
           new == [l EXCEPT ![id] = Append(@, d)]
<1>1. id \in Ids /\ l \in KeyLists /\ l[id] \in Seq(Devices)
  BY PersonAssumption DEF Keys, KeyLists
<1>2. CASE Holds(k, d) \/ d \in gone
  BY <1>2 DEF addKey
<1>3. CASE ~ (Holds(k, d) \/ d \in gone)
  <2>1. addKey(k, d).list = new
    BY <1>3 DEF addKey, Demoted, Keys
  <2>2. \A i \in Ids : new[i] = IF i = id THEN Append(l[id], d) ELSE l[i]
    BY <1>1 DEF KeyLists
  <2>3. /\ DOMAIN Append(l[id], d) = 1..(Len(l[id]) + 1)
        /\ DOMAIN l[id] = 1..Len(l[id])
        /\ \A i \in 1..Len(l[id]) : Append(l[id], d)[i] = l[id][i] /\ l[id][i] # d
        /\ Append(l[id], d)[Len(l[id]) + 1] = d
        /\ Len(l[id]) \in Nat
    BY <1>1, <1>3 DEF Holds
  <2>4. \A i, j \in DOMAIN Append(l[id], d) :
            Append(l[id], d)[i] = Append(l[id], d)[j] => i = j
    <3> SUFFICES ASSUME NEW i \in 1..(Len(l[id]) + 1), NEW j \in 1..(Len(l[id]) + 1),
                        Append(l[id], d)[i] = Append(l[id], d)[j]
                 PROVE  i = j
      BY <2>3
    <3>1. \A n \in 1..(Len(l[id]) + 1) : n \in 1..Len(l[id]) \/ n = Len(l[id]) + 1
      BY <2>3
    <3>2. \A n, p \in 1..Len(l[id]) : l[id][n] = l[id][p] => n = p
      BY <1>1, <2>3 DEF Sound
    <3> HIDE DEF id, l
    <3> QED
      BY <2>3, <3>1, <3>2
  <2>5. ASSUME NEW x \in gone, NEW i \in DOMAIN new[Person[x]] PROVE new[Person[x]][i] # x
    <3>1. Person[x] \in Ids /\ x # d
      BY <1>3, PersonAssumption
    <3>2. CASE Person[x] = id
      <4>1. i \in 1..Len(l[id]) \/ i = Len(l[id]) + 1
        BY <2>2, <2>3, <2>5, <3>1, <3>2
      <4> QED
        BY <2>2, <2>3, <3>1, <3>2, <4>1 DEF Sound
    <3>3. CASE Person[x] # id
      BY <2>2, <2>5, <3>1, <3>3 DEF Sound
    <3> QED
      BY <3>2, <3>3
  <2>6. ASSUME NEW x \in Ids, NEW i \in DOMAIN new[x], NEW j \in DOMAIN new[x], new[x][i] = new[x][j]
        PROVE  i = j
    <3>1. CASE x = id
      BY <2>2, <2>4, <2>6, <3>1
    <3>2. CASE x # id
      BY <2>2, <2>6, <3>2 DEF Sound
    <3> QED
      BY <3>1, <3>2
  <2> HIDE DEF new
  <2>7. Sound(new, gone)
    BY <2>5, <2>6 DEF Sound
  <2> QED
    BY <2>1, <2>7
<1> QED
  BY <1>2, <1>3

\* A key taken out of a list that holds it once is gone from it.
LEMMA WithoutSound ==
    ASSUME NEW l \in Seq(Devices), NEW d,
           \A i, j \in DOMAIN l : l[i] = l[j] => i = j
    PROVE  /\ \A i, j \in DOMAIN Without(l, d) : Without(l, d)[i] = Without(l, d)[j] => i = j
           /\ \A i \in DOMAIN Without(l, d) : Without(l, d)[i] # d
           /\ \A i \in DOMAIN Without(l, d) : \E j \in DOMAIN l : Without(l, d)[i] = l[j]
<1>1. CASE \E i \in DOMAIN l : l[i] = d
  <2> DEFINE at == CHOOSE i \in DOMAIN l : l[i] = d
             to(i) == IF i < at THEN i ELSE i + 1
  <2>1. at \in 1..Len(l) /\ l[at] = d /\ Len(l) \in Nat /\ DOMAIN l = 1..Len(l)
    BY <1>1
  <2>2. Without(l, d) = [i \in 1..(Len(l) - 1) |-> l[to(i)]]
    BY <1>1 DEF Without
  <2> HIDE DEF at
  <2>3. \A i \in 1..(Len(l) - 1) : to(i) \in 1..Len(l) /\ to(i) # at
    BY <2>1
  <2>4. \A i, j \in 1..(Len(l) - 1) : to(i) = to(j) => i = j
    BY <2>1
  <2> HIDE DEF to
  <2> QED
    BY <2>1, <2>2, <2>3, <2>4
<1>2. CASE ~ \E i \in DOMAIN l : l[i] = d
  BY <1>2 DEF Without
<1> QED
  BY <1>1, <1>2

\* The device whose key is forgotten speaks no more.
LEMMA ForgetSound ==
    ASSUME NEW k \in Keys, NEW d \in Devices, NEW g \in SUBSET Devices, Sound(k.list, g)
    PROVE  Sound(forget(k, d).list, g \cup {d})
<1> DEFINE id == Person[d]
           l == k.list
           out == Without(l[id], d)
           new == forget(k, d).list
<1>1. id \in Ids /\ l \in KeyLists /\ l[id] \in Seq(Devices)
  BY PersonAssumption DEF Keys, KeyLists
<1>2. new = [l EXCEPT ![id] = out]
  BY DEF forget, Keys
<1>3. \A i \in Ids : new[i] = IF i = id THEN out ELSE l[i]
  BY <1>1, <1>2 DEF KeyLists
<1>4. /\ \A i, j \in DOMAIN out : out[i] = out[j] => i = j
      /\ \A i \in DOMAIN out : out[i] # d
      /\ \A i \in DOMAIN out : \E j \in DOMAIN l[id] : out[i] = l[id][j]
  <2>1. \A i, j \in DOMAIN l[id] : l[id][i] = l[id][j] => i = j
    BY <1>1 DEF Sound
  <2> QED
    BY <1>1, <2>1, WithoutSound
<1> HIDE DEF new, out
<1>5. ASSUME NEW x \in Ids, NEW i \in DOMAIN new[x], NEW j \in DOMAIN new[x], new[x][i] = new[x][j]
      PROVE  i = j
  <2>1. CASE x = id
    BY <1>3, <1>4, <1>5, <2>1
  <2>2. CASE x # id
    BY <1>3, <1>5, <2>2 DEF Sound
  <2> QED
    BY <2>1, <2>2
<1>6. ASSUME NEW x \in g \cup {d}, NEW i \in DOMAIN new[Person[x]] PROVE new[Person[x]][i] # x
  <2>1. Person[x] \in Ids
    BY PersonAssumption
  <2>2. CASE x = d
    BY <1>1, <1>3, <1>4, <1>6, <2>2
  <2>3. CASE x # d /\ Person[x] = id
    BY <1>1, <1>3, <1>4, <1>6, <2>3 DEF Sound
  <2>4. CASE x # d /\ Person[x] # id
    BY <1>3, <1>6, <2>1, <2>4 DEF Sound
  <2> QED
    BY <2>2, <2>3, <2>4
<1>7. Sound(new, g \cup {d})
  BY <1>5, <1>6 DEF Sound
<1> QED
  BY <1>7 DEF new

-----------------------------------------------------------------------------
(* Removed devices stay silent.                                            *)

\* At first no device speaks.
LEMMA GoneInit == Init => GoneInv
<1> SUFFICES ASSUME Init PROVE GoneInv
  OBVIOUS
<1>1. gone = {} /\ \A id \in Ids : keys.list[id] = <<>>
  <2>1. keys.list = [id \in Ids |-> <<>>]
    BY DEF Init
  <2> QED
    BY <2>1 DEF Init
<1>2. Sound(keys.list, gone)
  BY <1>1 DEF Sound
<1> QED
  BY <1>2, OwnerInit DEF GoneInv

\* The first decision lists one key, when no device is removed.
LEMMA GoneSpaceInit ==
    ASSUME GoneInv, NEW p, SpaceInit(p)
    PROVE  Sound(keys'.list, gone')
<1> DEFINE id == Person[Creator]
<1>1. gone' = {} /\ \A i \in Ids : keys.list[i] = <<>>
  BY DEF SpaceInit, GoneInv, OwnerInv, NothingBefore
<1>2. keys.list \in KeyLists /\ keys \in Keys
  BY DEF GoneInv, OwnerInv, TypeOK, Keys, KeyLists
<1>3. keys'.list = [keys.list EXCEPT ![id] = <<Creator>>]
  BY <1>2 DEF SpaceInit, Keys
<1>4. \A i \in Ids : keys'.list[i] \in {<<>>, <<Creator>>}
  BY <1>1, <1>2, <1>3 DEF KeyLists
<1>5. DOMAIN <<Creator>> = {1} /\ DOMAIN <<>> = {}
  OBVIOUS
<1> QED
  BY <1>1, <1>4, <1>5 DEF Sound

\* A device removed is forgotten, then nothing lists it again.
LEMMA GoneRemove ==
    ASSUME GoneInv, NEW w \in Devices, NEW d \in Devices, DeviceRemove(w, d)
    PROVE  Sound(keys'.list, gone')
<1> DEFINE g == gone \cup {d}
           k == IF Speaks(d) THEN forget(keys, d) ELSE keys
           settled == settle(k, member, banned, Person[d])
<1>1. keys \in Keys /\ g \in SUBSET Devices /\ gone \in SUBSET Devices /\ Person[d] \in Ids
  BY PersonAssumption DEF GoneInv, OwnerInv, TypeOK
<1>2. Sound(keys.list, gone)
  BY DEF GoneInv
<1>3. k \in Keys
  BY <1>1, KeysType DEF GoneInv, OwnerInv
<1>4. Sound(k.list, g)
  <2>1. CASE Speaks(d)
    BY <1>1, <1>2, <2>1, ForgetSound
  <2>2. CASE ~ Speaks(d)
    BY <1>2, <2>2 DEF Sound, Speaks, Holds
  <2> QED
    BY <2>1, <2>2
<1> HIDE DEF k, g
<1>5. Sound(settled.list, g) /\ settled \in Keys
  BY <1>1, <1>3, <1>4, SettleSound, SettleType DEF GoneInv, OwnerInv
<1>6. keys' = IF Speaks(d) THEN removeFromBase(settled, d) ELSE settled
  BY DEF DeviceRemove, k
<1> HIDE DEF settled
<1>7. removeFromBase(settled, d).list = settled.list
  BY <1>5 DEF removeFromBase, Keys
<1>8. gone' = g
  BY DEF DeviceRemove, g
<1> QED
  BY <1>5, <1>6, <1>7, <1>8

\* Decisions that give or take roles, and claims, settle keys and add only
\* keys of devices not removed.
LEMMA GoneSettled ==
    ASSUME GoneInv, NEW k \in {keys} \cup {addKey(keys, d) : d \in Devices}, NEW m, NEW b,
           NEW id \in Ids
    PROVE  Sound(settle(k, m, b, id).list, gone)
<1>1. keys \in Keys /\ gone \in SUBSET Devices /\ Sound(keys.list, gone)
  BY DEF GoneInv, OwnerInv, TypeOK
<1>2. k \in Keys
  BY <1>1, KeysType DEF GoneInv, OwnerInv
<1>3. Sound(k.list, gone)
  BY <1>1, AddSound
<1> QED
  BY <1>1, <1>2, <1>3, SettleSound

\* Every decision keeps removed devices silent.
LEMMA GoneStep == GoneInv /\ [Next]_memberVars => GoneInv'
<1> SUFFICES ASSUME GoneInv, [Next]_memberVars PROVE Sound(keys'.list, gone')
  BY OwnerStep DEF GoneInv
<1>1. Sound(keys.list, gone) /\ TypeOK
  BY DEF GoneInv, OwnerInv
<1>2. CASE UNCHANGED memberVars
  BY <1>1, <1>2 DEF memberVars, keyVars
<1>3. CASE \E p \in Privacy : SpaceInit(p)
  BY <1>3, GoneSpaceInit
<1>4. ASSUME NEW w \in Devices,
             \/ \E id \in Ids : MemberAdd(w, id)
             \/ \E name \in CustomRoles, perms \in DefinedPerms : RoleDefine(w, name, perms)
             \/ \E s \in Scopes, id \in Ids, c \in Cuts : BanAgain(w, s, id, c)
             \/ \E s \in Scopes, id \in Ids : Unban(w, s, id)
             \/ \E inv \in Invites : InviteRevoke(w, inv)
             \/ \E s \in Scopes, x \in Subs, p \in Privacy, only \in WriteRoles :
                    SubspaceCreate(w, s, x, p, only)
      PROVE  Sound(keys'.list, gone')
  <2>1. UNCHANGED <<keys, gone>>
    BY <1>4 DEF MemberAdd, RoleDefine, BanAgain, Unban, InviteRevoke, SubspaceCreate, keyVars
  <2> QED
    BY <1>1, <2>1
<1>5. ASSUME NEW w \in Devices, NEW s \in Scopes, NEW id \in Ids, NEW c \in Cuts,
             MemberRemove(w, s, id, c)
      PROVE  Sound(keys'.list, gone')
  BY <1>5, GoneSettled DEF MemberRemove
<1>6. ASSUME NEW w \in Devices, NEW s \in Scopes, NEW id \in Ids, NEW c \in Cuts,
             NEW drop \in Drops, BanMember(w, s, id, c, drop)
      PROVE  Sound(keys'.list, gone')
  BY <1>6, GoneSettled DEF BanMember
<1>7. ASSUME NEW w \in Devices, NEW s \in Scopes, NEW id \in Ids, NEW role \in AssignedRoles,
             NEW c \in Cuts, RoleSet(w, s, id, role, c)
      PROVE  Sound(keys'.list, gone')
  <2> DEFINE e == memberIn(member, banned, s, id)
  <2>1. e.key # None => e.key \in Devices
    BY <1>1, MemberInType, Tables DEF Entry
  <2> HIDE DEF e
  <2> QED
    BY <1>7, <2>1, GoneSettled DEF RoleSet, e
<1>8. ASSUME NEW w \in Devices, NEW inv \in Invites, NEW d \in Devices, InviteRedeem(w, inv, d)
      PROVE  Sound(keys'.list, gone')
  <2>1. Person[d] \in Ids
    BY PersonAssumption
  <2> QED
    BY <1>1, <1>8, <2>1, GoneSettled DEF InviteRedeem
<1>9. ASSUME NEW w \in Devices, NEW d \in Devices, WriterAdd(w, d)
      PROVE  Sound(keys'.list, gone')
  <2>1. Person[d] \in Ids
    BY PersonAssumption
  <2> QED
    BY <1>9, <2>1, GoneSettled DEF WriterAdd
<1>10. ASSUME NEW w \in Devices, NEW d \in Removable, DeviceRemove(w, d)
       PROVE  Sound(keys'.list, gone')
  BY <1>10, GoneRemove, InputAssumption
<1> QED
  BY <1>2, <1>3, <1>4, <1>5, <1>6, <1>7, <1>8, <1>9, <1>10 DEF Next

\* A removed device never speaks again, for any number of devices and however
\* it is claimed for later.
THEOREM GoneSafe == Spec => []GoneDevicesSilent
<1>1. Spec => []GoneInv
  BY GoneInit, GoneStep, PTL DEF Spec
<1> QED
  BY <1>1, GoneInvSilent, PTL

-----------------------------------------------------------------------------
(* Invites let in as many people as they say.                              *)

UsesInv ==
    /\ TypeOK
    /\ \A inv \in Invites : IsFiniteSet(redeemed[inv])
    /\ UsesCounted

\* No invite is used at first.
LEMMA UsesInit == Init => UsesInv
<1> SUFFICES ASSUME Init PROVE UsesInv
  OBVIOUS
<1>1. \A inv \in Invites : redeemed[inv] = {} /\ uses[inv] = 0
  BY DEF Init
<1>2. \A inv \in Invites : inv.uses \in Nat
  BY InputAssumption DEF Invite
<1>3. IsFiniteSet({}) /\ Cardinality({}) = 0
  BY FS_EmptySet
<1>4. ASSUME NEW inv \in Invites
      PROVE  /\ IsFiniteSet(redeemed[inv]) /\ uses[inv] = Cardinality(redeemed[inv])
             /\ inv.uses # 0 => uses[inv] <= inv.uses
  BY <1>1, <1>2, <1>3
<1>5. TypeOK
  BY TypeInit
<1> QED
  BY <1>4, <1>5 DEF UsesInv, UsesCounted

\* A redemption counts one more person, who had not used the invite.
LEMMA UsesRedeem ==
    ASSUME UsesInv, NEW w \in Devices, NEW inv \in Invites, NEW d \in Devices,
           InviteRedeem(w, inv, d), TypeOK'
    PROVE  UsesInv'
<1> DEFINE id == Person[d]
<1>1. /\ redeemed' = [redeemed EXCEPT ![inv] = @ \cup {id}]
      /\ uses' = [uses EXCEPT ![inv] = @ + 1]
      /\ id \notin redeemed[inv] /\ (inv.uses = 0 \/ uses[inv] < inv.uses)
  BY DEF InviteRedeem, usable
<1>2. /\ redeemed \in [Invites -> SUBSET Ids] /\ uses \in [Invites -> Nat]
      /\ \A i \in Invites : i.uses \in Nat
  BY InputAssumption DEF UsesInv, TypeOK, Invite
<1>3. \A i \in Invites : IsFiniteSet(redeemed[i]) /\ uses[i] = Cardinality(redeemed[i])
  BY DEF UsesInv, UsesCounted
<1>4. /\ IsFiniteSet(redeemed[inv] \cup {id})
      /\ Cardinality(redeemed[inv] \cup {id}) = Cardinality(redeemed[inv]) + 1
  BY <1>1, <1>3, FS_AddElement
<1>5. ASSUME NEW i \in Invites
      PROVE  /\ IsFiniteSet(redeemed'[i]) /\ uses'[i] = Cardinality(redeemed'[i])
             /\ i.uses # 0 => uses'[i] <= i.uses
  <2>1. CASE i = inv
    BY <1>1, <1>2, <1>3, <1>4, <2>1
  <2>2. CASE i # inv
    <3>1. redeemed'[i] = redeemed[i] /\ uses'[i] = uses[i]
      BY <1>1, <1>2, <2>2
    <3> QED
      BY <1>3, <3>1 DEF UsesInv, UsesCounted
  <2> QED
    BY <2>1, <2>2
<1> QED
  BY <1>5 DEF UsesInv, UsesCounted

\* Only a redemption uses an invite.
LEMMA UsesStep == UsesInv /\ [Next]_memberVars => UsesInv'
<1> SUFFICES ASSUME UsesInv, [Next]_memberVars PROVE UsesInv'
  OBVIOUS
<1>1. TypeOK'
  BY TypeStep DEF UsesInv
<1>2. CASE UNCHANGED <<redeemed, uses>>
  BY <1>1, <1>2 DEF UsesInv, UsesCounted
<1>3. CASE \E w \in Devices, inv \in Invites, d \in Devices : InviteRedeem(w, inv, d)
  BY <1>1, <1>3, UsesRedeem
<1>4. CASE UNCHANGED memberVars \/ \E p \in Privacy : SpaceInit(p)
  BY <1>2, <1>4 DEF memberVars, SpaceInit, inviteVars
<1>5. \A w, id : MemberAdd(w, id) => UNCHANGED <<redeemed, uses>>
  BY DEF MemberAdd, inviteVars
<1>6. \A w, s, id, c : \/ MemberRemove(w, s, id, c)
                       \/ BanAgain(w, s, id, c)
                       \/ Unban(w, s, id)
                       => UNCHANGED <<redeemed, uses>>
  BY DEF MemberRemove, BanAgain, Unban, inviteVars
<1>7. \A w, s, id, c, x : RoleSet(w, s, id, x, c) \/ BanMember(w, s, id, c, x)
                       => UNCHANGED <<redeemed, uses>>
  BY DEF RoleSet, BanMember, inviteVars
<1>8. \A w, name, perms : RoleDefine(w, name, perms) => UNCHANGED <<redeemed, uses>>
  BY DEF RoleDefine, inviteVars
<1>9. \A w, x : InviteRevoke(w, x) \/ WriterAdd(w, x) \/ DeviceRemove(w, x)
                       => UNCHANGED <<redeemed, uses>>
  BY DEF InviteRevoke, WriterAdd, DeviceRemove, inviteVars
<1>10. \A w, s, x, p, only : SubspaceCreate(w, s, x, p, only) => UNCHANGED <<redeemed, uses>>
  BY DEF SubspaceCreate, inviteVars
<1> QED
  BY <1>2, <1>3, <1>4, <1>5, <1>6, <1>7, <1>8, <1>9, <1>10 DEF Next

\* An invite lets in as many people as it says, each once, whoever redeems it.
THEOREM UsesSafe == Spec => []UsesCounted
<1>1. UsesInv => UsesCounted
  BY DEF UsesInv
<1>2. Spec => []UsesInv
  BY UsesInit, UsesStep, PTL DEF Spec
<1> QED
  BY <1>1, <1>2, PTL

-----------------------------------------------------------------------------
(* Devices, roles and Autobase in step.                                    *)

\* The devices k lists.
Spoken(k) == {d \in Devices : Holds(k, d)}

\* Autobase's lists follow the view's, but for the devices out, which are on
\* their way out: forgotten by the view, not yet by Autobase.
Following(k, out) ==
    /\ \A id \in Ids : \A i \in DOMAIN k.list[id] : Person[k.list[id][i]] = id
    /\ Spoken(k) \subseteq k.base
    /\ k.settler \subseteq k.settling \cap Spoken(k)
    /\ k.settling # {}
    /\ \A d, e \in (k.settling \ k.settler) \ out : d = e
    /\ k.base \ Spoken(k) \subseteq (k.settling \ k.settler) \cup out
    /\ out \cap Spoken(k) = {}

\* No one has two settlers.
OneEach(k) == \A d, e \in k.settler : Person[d] = Person[e] => d = e

\* The settlers of id are right for their role in the top space.
RightSettlers(k, id, role) ==
    /\ role \in {"owner", "admin"} /\ k.list[id] # <<>> => \E d \in k.settler : Person[d] = id
    /\ role \in Role \ (CustomRoles \cup {"owner", "admin"}) => \A d \in k.settler : Person[d] # id

\* The roles that let someone decide or moderate, or may have once.
Writing == {"owner", "admin", "moderator"} \cup CustomRoles

\* By the tables m and b, id has an entry with such a role, that counts.
Strong(m, b, id) ==
    \E s \in Scopes : IsScope(s) /\ ~ bannedIn(b, s, id) /\ m[s][id].role \in Writing

\* The chain of a scope on a chain is the rest of that chain.
Suffixes ==
    /\ \A s \in Scopes : IsScope(s) => chainOf(s)[1] = s
    /\ \A s, t \in Scopes : \A i \in 1..Len(chainOf(s)) : t = chainOf(s)[i] =>
        /\ Len(chainOf(t)) = Len(chainOf(s)) - i + 1
        /\ \A j \in 1..(Len(chainOf(s)) - i + 1) : chainOf(t)[j] = chainOf(s)[i + j - 1]

\* An entry's key is a device of the person it is about.
EntryKeys == \A s \in Scopes, id \in Ids : member[s][id].key # None => Person[member[s][id].key] = id

\* Who is banned in the top space has no entry there.
BannedOut == \A id \in Ids : banned[Top][id] # NoBan => member[Top][id].role = None

\* Autobase starts with the creator's device.
BaseBefore == owner = None => keys.base = {Creator} /\ keys.settling = {Creator} /\ keys.settler = {}

KeyInv ==
    /\ GoneInv /\ Suffixes /\ EntryKeys /\ BannedOut /\ BaseBefore
    /\ Following(keys, {}) /\ OneEach(keys)
    /\ \A id \in Ids : RightSettlers(keys, id, roleOf(Top, id))
    /\ \A id \in Ids : keys.list[id] # <<>> => Strong(member, banned, id)

-----------------------------------------------------------------------------
(* What the operations on keys do to the lists.                            *)

\* The devices listed for id.
Of(k, id) == {k.list[id][i] : i \in DOMAIN k.list[id]}

\* Keys are listed under the person they belong to.
LEMMA SpokenOf ==
    ASSUME NEW k \in Keys, \A id \in Ids : \A i \in DOMAIN k.list[id] : Person[k.list[id][i]] = id
    PROVE  /\ \A id \in Ids : Of(k, id) = {d \in Spoken(k) : Person[d] = id}
           /\ \A id \in Ids : (k.list[id] = <<>>) <=> (Of(k, id) = {})
           /\ \A d \in Devices : (d \in Spoken(k)) <=> (d \in Of(k, Person[d]))
<1>1. k.list \in KeyLists /\ \A id \in Ids : k.list[id] \in Seq(Devices)
  BY DEF Keys, KeyLists
<1>2. \A d \in Devices : Person[d] \in Ids
  BY PersonAssumption
<1>3. \A id \in Ids : \A i \in DOMAIN k.list[id] : k.list[id][i] \in Devices
  BY <1>1
<1>4. \A d \in Devices : (d \in Spoken(k)) <=> (d \in Of(k, Person[d]))
  BY DEF Spoken, Holds, Of
<1>5. ASSUME NEW id \in Ids PROVE Of(k, id) = {d \in Spoken(k) : Person[d] = id}
  <2>1. \A d \in Of(k, id) : d \in Devices /\ Person[d] = id
    BY <1>3 DEF Of
  <2>2. Spoken(k) \subseteq Devices
    BY DEF Spoken
  <2> QED
    BY <1>4, <2>1, <2>2
<1>6. ASSUME NEW id \in Ids PROVE (k.list[id] = <<>>) <=> (Of(k, id) = {})
  <2>1. k.list[id] \in Seq(Devices)
    BY <1>1
  <2>2. k.list[id] # <<>> => 1 \in DOMAIN k.list[id]
    BY <2>1
  <2>3. DOMAIN <<>> = {}
    OBVIOUS
  <2> QED
    BY <2>2, <2>3 DEF Of
<1> QED
  BY <1>4, <1>5, <1>6

\* Forgetting all of someone's keys: Autobase keeps one settler.
LEMMA ForgetAllShape ==
    ASSUME NEW k \in Keys, NEW id \in Ids, k.settling # {}
    PROVE  LET r == ForgetAll(k, id)
           IN  /\ r.list = [k.list EXCEPT ![id] = <<>>]
               /\ r.settler = k.settler \ Of(k, id)
               /\ \/ /\ ~ (k.settling \subseteq Of(k, id))
                     /\ r.base = k.base \ Of(k, id)
                     /\ r.settling = k.settling \ Of(k, id)
                  \/ /\ k.settling \subseteq Of(k, id)
                     /\ \E d \in k.settling : /\ r.base = k.base \ (Of(k, id) \ {d})
                                              /\ r.settling = {d}
<1> DEFINE list == k.list[id]
           S == {i \in DOMAIN list : list[i] \in k.settling}
           top == {i \in DOMAIN list :
                        /\ list[i] \in k.settling
                        /\ \A j \in DOMAIN list : j > i => list[j] \notin k.settling}
           last == {list[i] : i \in top}
<1>1. list \in Seq(Devices) /\ Len(list) \in Nat /\ DOMAIN list = 1..Len(list)
  BY DEF Keys
<1>2. CASE ~ (k.settling \subseteq Of(k, id))
  BY <1>2 DEF ForgetAll, Of
<1>3. CASE k.settling \subseteq Of(k, id)
  <2>1. S # {} /\ S \subseteq 1..Len(list)
    BY <1>1, <1>3 DEF Of
  <2> HIDE DEF list
  <2>2. PICK n \in S : \A j \in S : j <= n
    <3> HIDE DEF S
    <3> QED
      BY <1>1, <2>1, SomeGreatest
  <2>3. top = {n}
    <3>1. n \in top
      <4>1. n \in 1..Len(list) /\ list[n] \in k.settling
        BY <1>1, <2>2
      <4>2. \A j \in 1..Len(list) : j > n => j \notin S
        BY <1>1, <2>2, <4>1
      <4> QED
        BY <1>1, <4>1, <4>2
    <3>2. \A i \in top : i = n
      <4> SUFFICES ASSUME NEW i \in top PROVE i = n
        OBVIOUS
      <4>1. i \in S /\ i \in 1..Len(list) /\ n \in 1..Len(list)
        BY <1>1
      <4>2. i <= n /\ ~ (n > i)
        BY <1>1, <2>2, <4>1
      <4> QED
        BY <4>1, <4>2
    <3> HIDE DEF top
    <3> QED
      BY <3>1, <3>2
  <2> DEFINE d == list[n]
  <2>4. last = {d} /\ d \in k.settling
    <3> HIDE DEF top
    <3> QED
      BY <2>2, <2>3
  <2>5. /\ ForgetAll(k, id).base = k.base \ (Of(k, id) \ last)
        /\ ForgetAll(k, id).settling = k.settling \ (Of(k, id) \ last)
        /\ ForgetAll(k, id).list = [k.list EXCEPT ![id] = <<>>]
        /\ ForgetAll(k, id).settler = k.settler \ Of(k, id)
    BY <1>3 DEF ForgetAll, Of, list
  <2> HIDE DEF d, last
  <2>6. k.settling \ (Of(k, id) \ {d}) = {d}
    BY <1>3, <2>4
  <2> QED
    BY <1>3, <2>4, <2>5, <2>6
<1> QED
  BY <1>2, <1>3

\* Settling forgets everything, makes one settler, takes one down, or has
\* nothing to do.
LEMMA SettleShape ==
    ASSUME NEW k \in Keys, NEW m, NEW b, NEW id \in Ids
    PROVE  LET r == settle(k, m, b, id)
               settlers == Of(k, id) \cap k.settler
               decides == can(roleIn(m, b, Top, id), "decide", roles)
           IN  \/ ~ writesAnywhere(m, b, id) /\ r = ForgetAll(k, id)
               \/ /\ writesAnywhere(m, b, id) /\ decides /\ settlers = {}
                  /\ \E d \in Of(k, id) :
                        /\ r.list = k.list
                        /\ r.settler = k.settler \cup {d}
                        /\ r.base = k.base \cup {d}
                        /\ r.settling = k.settling \cup {d}
               \/ /\ writesAnywhere(m, b, id) /\ ~ decides
                  /\ \E d \in settlers :
                        /\ r.list = k.list
                        /\ r.settler = k.settler \ {d}
                        /\ r.base = k.base
                        /\ r.settling = IF k.settling = {d} THEN {d} ELSE k.settling \ {d}
               \/ /\ writesAnywhere(m, b, id) /\ r = k
                  /\ decides => settlers # {} \/ k.list[id] = <<>>
                  /\ ~ decides => settlers = {}
<1> DEFINE list == k.list[id]
           settlers == {list[i] : i \in DOMAIN list} \cap k.settler
           decides == can(roleIn(m, b, Top, id), "decide", roles)
           r == settle(k, m, b, id)
           P(i) == list[i] \in settlers /\ \A j \in 1..(i - 1) : list[j] \notin settlers
           at == CHOOSE i \in DOMAIN list : P(i)
<1>1. list \in Seq(Devices) /\ Len(list) \in Nat /\ DOMAIN list = 1..Len(list)
  BY DEF Keys
<1>2. settlers = Of(k, id) \cap k.settler
  BY DEF Of
<1>3. r = IF ~ writesAnywhere(m, b, id) THEN ForgetAll(k, id)
          ELSE IF decides /\ settlers = {} /\ list # <<>>
               THEN [k EXCEPT !.settler = @ \cup {list[1]}, !.base = @ \cup {list[1]},
                              !.settling = @ \cup {list[1]}]
          ELSE IF ~ decides /\ settlers # {}
               THEN Demoted([k EXCEPT !.settler = @ \ {list[at]}], list[at])
          ELSE k
  BY DEF settle
<1> HIDE DEF decides, r
<1>4. CASE ~ writesAnywhere(m, b, id)
  BY <1>3, <1>4 DEF r
<1>5. CASE writesAnywhere(m, b, id) /\ decides /\ settlers = {} /\ list # <<>>
  <2>1. list[1] \in Of(k, id)
    BY <1>1, <1>5 DEF Of
  <2>2. r = [k EXCEPT !.settler = @ \cup {list[1]}, !.base = @ \cup {list[1]},
                      !.settling = @ \cup {list[1]}]
    BY <1>3, <1>5
  <2>3. /\ r.list = k.list /\ r.settler = k.settler \cup {list[1]}
        /\ r.base = k.base \cup {list[1]} /\ r.settling = k.settling \cup {list[1]}
    BY <2>2 DEF Keys
  <2> QED
    BY <1>2, <1>5, <2>1, <2>3 DEF r, decides
<1>6. CASE writesAnywhere(m, b, id) /\ ~ decides /\ settlers # {}
  <2> DEFINE S == {i \in 1..Len(list) : list[i] \in settlers}
  <2>1. S # {} /\ S \subseteq Nat
    <3>1. PICK x \in settlers : TRUE
      BY <1>6
    <3>2. PICK i \in DOMAIN list : x = list[i]
      BY <1>2, <3>1
    <3>3. i \in S
      BY <1>1, <3>1, <3>2
    <3> QED
      BY <3>3
  <2>2. PICK n \in S : \A j \in S : n <= j
    <3> HIDE DEF S
    <3> QED
      BY <2>1, LeastIsOne
  <2>3. n \in DOMAIN list /\ P(n)
    <3>1. n \in 1..Len(list) /\ list[n] \in settlers
      OBVIOUS
    <3>2. ASSUME NEW j \in 1..(n - 1) PROVE list[j] \notin settlers
      <4>1. j \in 1..Len(list) /\ ~ (n <= j)
        BY <1>1, <3>1
      <4>2. j \notin S
        BY <2>2, <4>1
      <4> QED
        BY <4>1, <4>2
    <3> QED
      BY <1>1, <3>1, <3>2
  <2> HIDE DEF S
  <2>4. at \in DOMAIN list /\ P(at)
    <3> HIDE DEF P
    <3> QED
      BY <2>3
  <2> DEFINE d == list[at]
  <2>5. d \in settlers
    BY <2>4
  <2> HIDE DEF at
  <2>6. r = Demoted([k EXCEPT !.settler = @ \ {d}], d)
    BY <1>3, <1>6
  <2> HIDE DEF d, settlers
  <2>7. /\ r.list = k.list /\ r.settler = k.settler \ {d} /\ r.base = k.base
        /\ r.settling = IF k.settling = {d} THEN {d} ELSE k.settling \ {d}
    BY <2>6 DEF Demoted, Keys
  <2> QED
    BY <1>2, <1>6, <2>5, <2>7 DEF r, decides
<1>7. CASE writesAnywhere(m, b, id) /\ ~ (decides /\ settlers = {} /\ list # <<>>)
            /\ ~ (~ decides /\ settlers # {})
  <2>1. r = k
    BY <1>3, <1>7
  <2> QED
    BY <1>2, <1>7, <2>1 DEF r, decides
<1> QED
  BY <1>4, <1>5, <1>6, <1>7

\* Which devices are listed once someone's list is emptied.
LEMMA SpokenEmptied ==
    ASSUME NEW k \in Keys, NEW id \in Ids, NEW r \in Keys, r.list = [k.list EXCEPT ![id] = <<>>],
           \A x \in Ids : \A i \in DOMAIN k.list[x] : Person[k.list[x][i]] = x
    PROVE  /\ Spoken(r) = Spoken(k) \ Of(k, id)
           /\ \A x \in Ids : \A i \in DOMAIN r.list[x] : Person[r.list[x][i]] = x
           /\ \A x \in Ids \ {id} : r.list[x] = k.list[x]
           /\ r.list[id] = <<>>
<1>1. k.list \in KeyLists
  BY DEF Keys, KeyLists
<1>2. \A x \in Ids : r.list[x] = IF x = id THEN <<>> ELSE k.list[x]
  BY <1>1 DEF KeyLists
<1>3. DOMAIN <<>> = {}
  OBVIOUS
<1>4. ASSUME NEW x \in Ids, NEW i \in DOMAIN r.list[x] PROVE Person[r.list[x][i]] = x
  BY <1>2, <1>3
<1>5. ASSUME NEW d \in Devices PROVE (d \in Spoken(r)) <=> (d \in Spoken(k) \ Of(k, id))
  <2>1. Person[d] \in Ids
    BY PersonAssumption
  <2>2. CASE Person[d] = id
    BY <1>2, <1>3, <2>1, <2>2 DEF Spoken, Holds, Of
  <2>3. CASE Person[d] # id
    <3>1. d \notin Of(k, id)
      BY <2>3 DEF Of
    <3> QED
      BY <1>2, <2>1, <2>3, <3>1 DEF Spoken, Holds
  <2> QED
    BY <2>2, <2>3
<1>6. Spoken(r) \subseteq Devices /\ Spoken(k) \subseteq Devices
  BY DEF Spoken
<1> QED
  BY <1>2, <1>4, <1>5, <1>6

\* The devices listed depend on the lists only.
LEMMA SpokenLists ==
    ASSUME NEW k, NEW r, r.list = k.list
    PROVE  Spoken(r) = Spoken(k) /\ \A x : Of(r, x) = Of(k, x)
BY DEF Spoken, Holds, Of

\* Settling keeps Autobase in step with the view.
LEMMA SettleFollows ==
    ASSUME TypeOK, NEW k \in Keys, NEW m, NEW b, NEW id \in Ids, NEW out, Following(k, out), OneEach(k)
    PROVE  Following(settle(k, m, b, id), out) /\ OneEach(settle(k, m, b, id))
<1> DEFINE r == settle(k, m, b, id)
<1>1. r \in Keys
  BY SettleType
<1>2. k.settling # {}
  BY DEF Following
<1>3. /\ Of(k, id) = {d \in Spoken(k) : Person[d] = id}
      /\ Of(k, id) \subseteq Spoken(k)
  BY SpokenOf DEF Following
<1>4. CASE ~ writesAnywhere(m, b, id) /\ r = ForgetAll(k, id)
  <2>1. r.list = [k.list EXCEPT ![id] = <<>>] /\ r.settler = k.settler \ Of(k, id)
    BY <1>2, <1>4, ForgetAllShape
  <2>2. \/ /\ ~ (k.settling \subseteq Of(k, id))
           /\ r.base = k.base \ Of(k, id)
           /\ r.settling = k.settling \ Of(k, id)
        \/ /\ k.settling \subseteq Of(k, id)
           /\ \E d \in k.settling : r.base = k.base \ (Of(k, id) \ {d}) /\ r.settling = {d}
    <3> DEFINE f == ForgetAll(k, id)
    <3>1. \/ /\ ~ (k.settling \subseteq Of(k, id))
             /\ f.base = k.base \ Of(k, id)
             /\ f.settling = k.settling \ Of(k, id)
          \/ /\ k.settling \subseteq Of(k, id)
             /\ \E d \in k.settling : f.base = k.base \ (Of(k, id) \ {d}) /\ f.settling = {d}
      BY <1>2, ForgetAllShape, Zenon
    <3>2. r = f
      BY <1>4
    <3> HIDE DEF r, f
    <3> QED
      BY <3>1, <3>2, Zenon
  <2> HIDE DEF r
  <2>3. /\ Spoken(r) = Spoken(k) \ Of(k, id)
        /\ \A x \in Ids : \A i \in DOMAIN r.list[x] : Person[r.list[x][i]] = x
    BY <1>1, <2>1, SpokenEmptied DEF Following
  <2>4. OneEach(r)
    BY <2>1 DEF OneEach
  <2>5. ASSUME ~ (k.settling \subseteq Of(k, id)),
               r.base = k.base \ Of(k, id), r.settling = k.settling \ Of(k, id)
        PROVE  Following(r, out)
    <3>1. Spoken(r) \subseteq r.base /\ out \cap Spoken(r) = {}
      BY <2>3, <2>5 DEF Following
    <3>2. r.settler \subseteq r.settling \cap Spoken(r) /\ r.settling # {}
      BY <2>1, <2>3, <2>5 DEF Following
    <3>3. r.settling \ r.settler \subseteq k.settling \ k.settler
      BY <2>1, <2>5
    <3>4. \A d, e \in (r.settling \ r.settler) \ out : d = e
      BY <3>3 DEF Following
    <3>5. r.base \ Spoken(r) \subseteq (r.settling \ r.settler) \cup out
      BY <1>3, <2>1, <2>3, <2>5 DEF Following
    <3> QED
      BY <2>3, <3>1, <3>2, <3>4, <3>5 DEF Following
  <2>6. ASSUME k.settling \subseteq Of(k, id),
               NEW d \in k.settling, r.base = k.base \ (Of(k, id) \ {d}), r.settling = {d}
        PROVE  Following(r, out)
    <3>1. r.settler = {}
      BY <2>1, <2>6 DEF Following
    <3>2. k.base \ Spoken(k) \subseteq out
      BY <1>3, <2>6 DEF Following
    <3>3. r.base \ Spoken(r) \subseteq {d} \cup out
      BY <2>3, <2>6, <3>2
    <3>4. Spoken(r) \subseteq r.base
      BY <2>3, <2>6 DEF Following
    <3>5. out \cap Spoken(r) = {}
      BY <2>3 DEF Following
    <3> QED
      BY <2>3, <2>6, <3>1, <3>3, <3>4, <3>5 DEF Following
  <2> QED
    BY <2>2, <2>4, <2>5, <2>6 DEF r
<1>5. ASSUME Of(k, id) \cap k.settler = {}, NEW d \in Of(k, id),
             r.list = k.list, r.settler = k.settler \cup {d},
             r.base = k.base \cup {d}, r.settling = k.settling \cup {d}
      PROVE  Following(r, out) /\ OneEach(r)
  <2> HIDE DEF r
  <2>1. Spoken(r) = Spoken(k)
    BY <1>5, SpokenLists
  <2>2. d \in Spoken(k) /\ Person[d] = id
    BY <1>3
  <2>3. \A e \in k.settler : Person[e] # id
    BY <1>3, <1>5 DEF Following
  <2>4. OneEach(r)
    BY <1>5, <2>2, <2>3 DEF OneEach
  <2>5. Following(r, out)
    BY <1>5, <2>1, <2>2 DEF Following
  <2> QED
    BY <2>4, <2>5
<1>6. ASSUME NEW d \in Of(k, id) \cap k.settler,
             r.list = k.list, r.settler = k.settler \ {d}, r.base = k.base,
             r.settling = IF k.settling = {d} THEN {d} ELSE k.settling \ {d}
      PROVE  Following(r, out) /\ OneEach(r)
  <2> HIDE DEF r
  <2>1. Spoken(r) = Spoken(k)
    BY <1>6, SpokenLists
  <2>2. d \in Spoken(k)
    BY <1>3
  <2>3. OneEach(r)
    BY <1>6 DEF OneEach
  <2>4. r.settling # {} /\ r.settler \subseteq r.settling
    BY <1>2, <1>6 DEF Following
  <2>5. \A x \in Ids : \A i \in DOMAIN r.list[x] : Person[r.list[x][i]] = x
    BY <1>6 DEF Following
  <2>6. Spoken(r) \subseteq r.base /\ r.settler \subseteq Spoken(r) /\ out \cap Spoken(r) = {}
    BY <1>6, <2>1 DEF Following
  <2>7. k.settling \ k.settler \subseteq r.settling \ r.settler
    BY <1>6
  <2>8. k.base \ Spoken(k) \subseteq (k.settling \ k.settler) \cup out
    BY DEF Following
  <2>9. r.base \ Spoken(r) \subseteq (r.settling \ r.settler) \cup out
    BY <1>6, <2>1, <2>7, <2>8
  <2>10. \A x, y \in (r.settling \ r.settler) \ out : x = y
    <3>1. CASE k.settling = {d}
      BY <1>6, <3>1
    <3>2. CASE k.settling # {d}
      <4>1. r.settling \ r.settler \subseteq k.settling \ k.settler
        BY <1>6, <3>2
      <4> QED
        BY <4>1 DEF Following
    <3> QED
      BY <3>1, <3>2
  <2> QED
    BY <2>3, <2>4, <2>5, <2>6, <2>9, <2>10 DEF Following
<1>7. CASE r = k
  BY <1>7
<1> HIDE DEF r
<1> QED
  BY <1>4, <1>5, <1>6, <1>7, SettleShape DEF r

\* A key added: Autobase gets a writer, and no settler.
LEMMA AddFollows ==
    ASSUME NEW k \in Keys, NEW d \in Devices, Following(k, {}), OneEach(k), TypeOK
    PROVE  /\ Following(addKey(k, d), {}) /\ OneEach(addKey(k, d))
           /\ addKey(k, d).settler = k.settler
           /\ \A id \in Ids : id # Person[d] => addKey(k, d).list[id] = k.list[id]
<1> DEFINE id == Person[d]
           l == k.list
           r == addKey(k, d)
<1>1. id \in Ids /\ l \in KeyLists /\ l[id] \in Seq(Devices) /\ r \in Keys
  BY PersonAssumption, KeysType DEF Keys, KeyLists
<1>2. CASE Holds(k, d) \/ d \in gone
  BY <1>2 DEF addKey
<1>3. CASE ~ (Holds(k, d) \/ d \in gone)
  <2>1. /\ r.list = [l EXCEPT ![id] = Append(@, d)]
        /\ r.settler = k.settler
        /\ r.base = k.base \cup {d}
        /\ r.settling = IF k.settling = {d} THEN {d} ELSE k.settling \ {d}
    BY <1>3 DEF addKey, Demoted, Keys
  <2>2. \A x \in Ids : r.list[x] = IF x = id THEN Append(l[id], d) ELSE l[x]
    BY <1>1, <2>1 DEF KeyLists
  <2>3. /\ DOMAIN Append(l[id], d) = 1..(Len(l[id]) + 1)
        /\ DOMAIN l[id] = 1..Len(l[id]) /\ Len(l[id]) \in Nat
        /\ \A i \in 1..Len(l[id]) : Append(l[id], d)[i] = l[id][i]
        /\ Append(l[id], d)[Len(l[id]) + 1] = d
        /\ \A i \in 1..(Len(l[id]) + 1) : i \in 1..Len(l[id]) \/ i = Len(l[id]) + 1
    BY <1>1
  <2> DEFINE new == Append(l[id], d)
  <2> HIDE DEF r, new
  <2>4. {new[i] : i \in DOMAIN new} = {l[id][i] : i \in DOMAIN l[id]} \cup {d}
    <3>1. 1..Len(l[id]) \subseteq 1..(Len(l[id]) + 1) /\ Len(l[id]) + 1 \in 1..(Len(l[id]) + 1)
      BY <2>3
    <3> HIDE DEF l, id
    <3> QED
      BY <2>3, <3>1 DEF new
  <2>5. Of(r, id) = Of(k, id) \cup {d} /\ \A x \in Ids \ {id} : Of(r, x) = Of(k, x)
    <3>1. Of(r, id) = {new[i] : i \in DOMAIN new}
      BY <1>1, <2>2 DEF Of, new
    <3>2. \A x \in Ids \ {id} : r.list[x] = k.list[x]
      BY <2>2
    <3> QED
      BY <2>4, <3>1, <3>2 DEF Of
  <2>6. \A x \in Ids : \A i \in DOMAIN k.list[x] : Person[k.list[x][i]] = x
    BY DEF Following
  <2>7. ASSUME NEW x \in Ids, NEW i \in DOMAIN r.list[x] PROVE Person[r.list[x][i]] = x
    <3>1. r.list[x][i] \in Of(r, x)
      BY DEF Of
    <3>2. \A e \in Of(k, x) : Person[e] = x
      BY <2>6 DEF Of
    <3> QED
      BY <2>5, <3>1, <3>2
  <2>8. Spoken(r) = Spoken(k) \cup {d}
    <3>1. \A e \in Devices : (e \in Spoken(r)) <=> (e \in Of(r, Person[e]))
      BY <1>1, <2>7, SpokenOf
    <3>2. \A e \in Devices : (e \in Spoken(k)) <=> (e \in Of(k, Person[e]))
      BY <2>6, SpokenOf
    <3>3. \A e \in Devices : Person[e] \in Ids
      BY PersonAssumption
    <3>4. Spoken(r) \subseteq Devices /\ Spoken(k) \subseteq Devices
      BY DEF Spoken
    <3>5. ASSUME NEW e \in Devices PROVE (e \in Spoken(r)) <=> (e \in Spoken(k) \cup {d})
      <4>1. CASE Person[e] = id
        BY <2>5, <3>1, <3>2, <4>1
      <4>2. CASE Person[e] # id
        BY <2>5, <3>1, <3>2, <3>3, <4>2
      <4> QED
        BY <4>1, <4>2
    <3> QED
      BY <3>4, <3>5
  <2>9. d \notin Spoken(k)
    BY <1>3 DEF Spoken
  <2>10. d \notin k.settler
    BY <2>9 DEF Following
  <2>11. r.settling # {} /\ r.settler \subseteq r.settling
    BY <2>1, <2>10 DEF Following
  <2>12. Following(r, {})
    <3>1. CASE k.settling = {d}
      BY <2>1, <2>7, <2>8, <2>11, <3>1 DEF Following
    <3>2. CASE k.settling # {d}
      BY <2>1, <2>7, <2>8, <2>10, <2>11, <3>2 DEF Following
    <3> QED
      BY <3>1, <3>2
  <2> QED
    BY <2>1, <2>2, <2>12 DEF r, OneEach
<1> QED
  BY <1>2, <1>3

\* The removed device is on its way out once forgotten.
LEMMA ForgetFollows ==
    ASSUME TypeOK, NEW k \in Keys, NEW d \in Devices, Sound(k.list, gone), Following(k, {}), OneEach(k)
    PROVE  /\ Following(forget(k, d), {d}) /\ OneEach(forget(k, d))
           /\ \A id \in Ids : id # Person[d] => forget(k, d).list[id] = k.list[id]
           /\ forget(k, d).settler = k.settler \ {d}
           /\ forget(k, d).list[Person[d]] # <<>> => k.list[Person[d]] # <<>>
<1> DEFINE id == Person[d]
           l == k.list
           out == Without(l[id], d)
           r == forget(k, d)
<1>1. id \in Ids /\ l \in KeyLists /\ l[id] \in Seq(Devices) /\ r \in Keys
  BY PersonAssumption, KeysType DEF Keys, KeyLists
<1>2. /\ r.list = [l EXCEPT ![id] = out] /\ r.settler = k.settler \ {d}
      /\ r.base = k.base /\ r.settling = k.settling
  BY DEF forget, Keys
<1>3. \A x \in Ids : r.list[x] = IF x = id THEN out ELSE l[x]
  BY <1>1, <1>2 DEF KeyLists
<1>4. /\ \A i \in DOMAIN out : out[i] # d
      /\ \A i \in DOMAIN out : \E j \in DOMAIN l[id] : out[i] = l[id][j]
  <2>1. \A i, j \in DOMAIN l[id] : l[id][i] = l[id][j] => i = j
    BY <1>1 DEF Sound
  <2> QED
    BY <1>1, <2>1, WithoutSound
<1>5. \A j \in DOMAIN l[id] : l[id][j] # d => \E i \in DOMAIN out : out[i] = l[id][j]
  <2>1. CASE \E i \in DOMAIN l[id] : l[id][i] = d
    <3> DEFINE at == CHOOSE i \in DOMAIN l[id] : l[id][i] = d
               n == Len(l[id])
    <3>1. at \in 1..n /\ n \in Nat /\ DOMAIN l[id] = 1..n /\ l[id][at] = d
      BY <1>1, <2>1
    <3>2. out = [i \in 1..(n - 1) |-> IF i < at THEN l[id][i] ELSE l[id][i + 1]]
      BY <2>1 DEF Without
    <3> HIDE DEF at, out, l, id
    <3>3. ASSUME NEW j \in DOMAIN l[id], l[id][j] # d PROVE \E i \in DOMAIN out : out[i] = l[id][j]
      <4>1. j \in 1..n /\ j # at
        BY <3>1, <3>3
      <4>2. CASE j < at
        <5>1. j \in 1..(n - 1)
          BY <3>1, <4>1, <4>2
        <5> QED
          BY <3>2, <4>2, <5>1
      <4>3. CASE at < j
        <5>1. j - 1 \in 1..(n - 1) /\ ~ (j - 1 < at) /\ (j - 1) + 1 = j
          BY <3>1, <4>1, <4>3
        <5>2. out[j - 1] = l[id][j]
          BY <3>2, <5>1
        <5> QED
          BY <3>2, <5>1, <5>2
      <4> QED
        BY <3>1, <4>1, <4>2, <4>3
    <3> QED
      BY <3>3
  <2>2. CASE ~ \E i \in DOMAIN l[id] : l[id][i] = d
    BY <2>2 DEF Without
  <2> QED
    BY <2>1, <2>2
<1> HIDE DEF out, r
<1>6. Of(r, id) = Of(k, id) \ {d} /\ \A x \in Ids \ {id} : Of(r, x) = Of(k, x)
  <2>1. Of(r, id) = {out[i] : i \in DOMAIN out}
    BY <1>1, <1>3 DEF Of
  <2>2. {out[i] : i \in DOMAIN out} = {l[id][i] : i \in DOMAIN l[id]} \ {d}
    <3> HIDE DEF l, id
    <3> QED
      BY <1>4, <1>5
  <2>3. \A x \in Ids \ {id} : r.list[x] = k.list[x]
    BY <1>3
  <2> QED
    BY <2>1, <2>2, <2>3 DEF Of
<1>7. \A x \in Ids : \A i \in DOMAIN k.list[x] : Person[k.list[x][i]] = x
  BY DEF Following
<1>8. ASSUME NEW x \in Ids, NEW i \in DOMAIN r.list[x] PROVE Person[r.list[x][i]] = x
  <2>1. r.list[x][i] \in Of(r, x)
    BY DEF Of
  <2>2. \A e \in Of(k, x) : Person[e] = x
    BY <1>7 DEF Of
  <2>3. r.list[x][i] \in Of(k, x)
    BY <1>6, <2>1
  <2> QED
    BY <2>2, <2>3
<1>9. Spoken(r) = Spoken(k) \ {d}
  <2>1. \A e \in Devices : (e \in Spoken(r)) <=> (e \in Of(r, Person[e]))
    BY <1>1, <1>8, SpokenOf
  <2>2. \A e \in Devices : (e \in Spoken(k)) <=> (e \in Of(k, Person[e]))
    BY <1>7, SpokenOf
  <2>3. \A e \in Devices : Person[e] \in Ids
    BY PersonAssumption
  <2>4. Spoken(r) \subseteq Devices /\ Spoken(k) \subseteq Devices
    BY DEF Spoken
  <2>5. ASSUME NEW e \in Devices PROVE (e \in Spoken(r)) <=> (e \in Spoken(k) \ {d})
    <3>1. CASE Person[e] = id
      BY <1>6, <2>1, <2>2, <3>1
    <3>2. CASE Person[e] # id
      BY <1>6, <2>1, <2>2, <2>3, <3>2
    <3> QED
      BY <3>1, <3>2
  <2> QED
    BY <2>4, <2>5
<1>10. OneEach(r)
  BY <1>2 DEF OneEach
<1>11. Following(r, {d})
  BY <1>2, <1>8, <1>9 DEF Following
<1>12. r.list[id] # <<>> => k.list[id] # <<>>
  BY <1>1, <1>6, <1>7, <1>8, SpokenOf
<1> QED
  BY <1>2, <1>3, <1>10, <1>11, <1>12 DEF r

\* Autobase lets it go, or keeps it as its last settler.
LEMMA RemoveFollows ==
    ASSUME NEW k \in Keys, NEW d \in Devices, Following(k, {d}), OneEach(k)
    PROVE  /\ Following(removeFromBase(k, d), {}) /\ OneEach(removeFromBase(k, d))
           /\ removeFromBase(k, d).list = k.list /\ removeFromBase(k, d).settler = k.settler
<1> DEFINE r == removeFromBase(k, d)
<1>1. CASE k.settling = {d}
  <2>1. r = k
    BY <1>1 DEF removeFromBase
  <2>2. k.settler = {}
    BY <1>1 DEF Following
  <2> HIDE DEF r
  <2>3. Following(k, {})
    BY <1>1, <2>2 DEF Following
  <2> QED
    BY <2>1, <2>3 DEF r
<1>2. CASE k.settling # {d}
  <2>1. /\ r.list = k.list /\ r.settler = k.settler
        /\ r.base = k.base \ {d} /\ r.settling = k.settling \ {d}
    BY <1>2 DEF removeFromBase, Keys
  <2> HIDE DEF r
  <2>2. Spoken(r) = Spoken(k)
    BY <2>1, SpokenLists
  <2>3. r.settling # {}
    BY <1>2, <2>1 DEF Following
  <2>4. Following(r, {})
    BY <2>1, <2>2, <2>3 DEF Following
  <2> QED
    BY <2>1, <2>4 DEF r, OneEach
<1> QED
  BY <1>1, <1>2

-----------------------------------------------------------------------------
(* Roles and what they allow.                                              *)

\* Of the built-in roles, owners and admins decide, and moderators moderate.
LEMMA RoleRights ==
    ASSUME NEW role \in Role, NEW custom
    PROVE  /\ role \in {"owner", "admin"} => can(role, "decide", custom) /\ mayWrite(role, custom)
           /\ role \in Role \ (CustomRoles \cup {"owner", "admin"}) => ~ can(role, "decide", custom)
           /\ mayWrite(role, custom) => role \in Writing
           /\ role \in Writing \ CustomRoles => mayWrite(role, custom)
<1>1. /\ ROLES["owner"] = OWN \cup {"post"} /\ ROLES["admin"] = OWN \cup {"post"}
      /\ ROLES["moderator"] = {"moderate", "post"}
      /\ ROLES["member"] = {"post"} /\ ROLES["guest"] = {"post"}
  BY DEF ROLES, Builtin
<1>2. role \in Builtin => permissionsOf(role, custom) = ROLES[role]
  BY DEF permissionsOf, IsRole
<1>3. role = None => role \notin Builtin /\ role \notin CustomRoles /\ role # "owner"
  BY NoneAssumption DEF RoleNames, Builtin
<1>4. role = None => permissionsOf(role, custom) = {}
  BY <1>3 DEF permissionsOf, IsRole
<1>5. role \in Builtin \/ role \in CustomRoles \/ role = None
  BY DEF Role, RoleNames
<1>6. role \in CustomRoles => role \notin Builtin
  BY CustomAssumption
<1>7. CASE role \in Builtin
  BY <1>1, <1>2, <1>6, <1>7 DEF can, mayWrite, Writing, OWN, Builtin
<1>8. CASE role \in CustomRoles
  BY <1>6, <1>8 DEF can, mayWrite, Writing, Builtin
<1>9. CASE role = None
  BY <1>3, <1>4, <1>9, NoneAssumption DEF can, mayWrite, Writing, RoleNames, Builtin
<1> QED
  BY <1>5, <1>7, <1>8, <1>9

\* In the top space an entry counts unless there is a ban.
LEMMA TopRole ==
    ASSUME TypeOK, ChainShape, NEW m \in MemberTable, NEW b, NEW id \in Ids
    PROVE  /\ roleIn(m, b, Top, id) = IF b[Top][id] # NoBan THEN None ELSE m[Top][id].role
           /\ IsScope(Top) /\ Top \in Scopes
<1>1. chainOf(Top) = <<Top>> /\ DOMAIN chainOf(Top) = {1} /\ chainOf(Top)[1] = Top
  BY DEF ChainShape
<1>2. bannedIn(b, Top, id) <=> b[Top][id] # NoBan
  BY <1>1 DEF bannedIn
<1>3. \A i \in DOMAIN chainOf(Top) : i = 1 /\ (Counts(m, Top, id, i) <=> m[Top][id].role # None)
  <2>1. 1..(1 - 1) = {}
    OBVIOUS
  <2> QED
    BY <1>1, <2>1 DEF Counts
<1>4. IsScope(Top) /\ Top \in Scopes
  BY <1>1 DEF IsScope, Scopes
<1>5. CASE b[Top][id] = NoBan /\ m[Top][id].role # None
  <2>1. \E i \in DOMAIN chainOf(Top) : Counts(m, Top, id, i)
    BY <1>1, <1>3, <1>5
  <2>2. (CHOOSE i \in DOMAIN chainOf(Top) : Counts(m, Top, id, i)) = 1
    BY <1>3, <2>1
  <2> QED
    BY <1>1, <1>2, <1>4, <1>5, <2>1, <2>2 DEF roleIn, memberIn
<1>6. CASE ~ (b[Top][id] = NoBan /\ m[Top][id].role # None)
  <2>1. memberIn(m, b, Top, id) = NoEntry
    BY <1>1, <1>2, <1>3, <1>6 DEF memberIn
  <2> QED
    BY <1>4, <1>6, <2>1 DEF roleIn, NoEntry
<1> QED
  BY <1>5, <1>6

\* The same of the view's own tables, at any time.
LEMMA TopRoleNow ==
    TypeOK /\ ChainShape =>
        /\ IsScope(Top)
        /\ \A id \in Ids :
              roleOf(Top, id) = IF banned[Top][id] # NoBan THEN None ELSE member[Top][id].role
<1> SUFFICES ASSUME TypeOK, ChainShape
             PROVE  /\ IsScope(Top)
                    /\ \A id \in Ids :
                          roleOf(Top, id) = IF banned[Top][id] # NoBan THEN None ELSE member[Top][id].role
  OBVIOUS
<1>1. member \in MemberTable
  BY Tables
<1>2. \A id \in Ids : roleIn(member, banned, Top, id)
                         = IF banned[Top][id] # NoBan THEN None ELSE member[Top][id].role
  BY <1>1, TopRole
<1>3. IsScope(Top)
  BY DEF ChainShape, IsScope
<1> QED
  BY <1>2, <1>3 DEF roleOf

\* Who may write decisions somewhere has an entry for it, and its role counts
\* in the scope of that entry.
LEMMA StrongWrites ==
    ASSUME TypeOK, Suffixes, NEW m \in MemberTable, NEW b, NEW id \in Ids
    PROVE  /\ writesAnywhere(m, b, id) => Strong(m, b, id)
           /\ Strong(m, b, id) => \E s \in Scopes : IsScope(s) /\ roleIn(m, b, s, id) \in Writing
<1>1. ASSUME writesAnywhere(m, b, id) PROVE Strong(m, b, id)
  <2>1. PICK s \in Scopes : IsScope(s) /\ mayWrite(roleIn(m, b, s, id), roles)
    BY <1>1 DEF writesAnywhere
  <2> DEFINE c == chainOf(s)
             role == roleIn(m, b, s, id)
  <2>2. role \in Role /\ role \in Writing
    BY <2>1, MemberInType, RoleRights DEF roleIn, Entry
  <2>3. role # None
    BY <2>2, NoneAssumption DEF Writing, RoleNames, Builtin
  <2>4. ~ bannedIn(b, s, id) /\ \E i \in DOMAIN c : Counts(m, s, id, i)
    BY <2>3 DEF roleIn, memberIn, NoEntry
  <2>5. PICK i \in DOMAIN c : role = m[c[i]][id].role
    <3> DEFINE at == CHOOSE i \in DOMAIN c : Counts(m, s, id, i)
    <3>1. at \in DOMAIN c /\ memberIn(m, b, s, id) = m[c[at]][id]
      BY <2>4 DEF memberIn
    <3> HIDE DEF at
    <3> QED
      BY <3>1 DEF roleIn
  <2> DEFINE t == c[i]
             u == chainOf(t)
             n == Len(c)
  <2>6. n \in Nat \ {0} /\ DOMAIN c = 1..n /\ t \in Scopes
    BY <2>1, ChainLen, ChainType
  <2>7. /\ Len(u) = n - i + 1
        /\ \A j \in 1..Len(u) : u[j] = c[i + j - 1]
    <3>1. i \in 1..n
      BY <2>6
    <3>2. /\ Len(u) = n - i + 1
          /\ \A j \in 1..(n - i + 1) : u[j] = c[i + j - 1]
      BY <2>1, <2>6, <3>1 DEF Suffixes
    <3> QED
      BY <3>2
  <2>8. u \in Seq(Scopes) /\ DOMAIN u = 1..Len(u)
    BY <2>6, ChainType
  <2>9. IsScope(t)
    <3>1. Len(u) > 0
      BY <2>6, <2>7
    <3> QED
      BY <3>1 DEF IsScope
  <2>10. ~ bannedIn(b, t, id)
    <3> SUFFICES ASSUME NEW j \in 1..Len(u), b[u[j]][id] # NoBan PROVE FALSE
      BY <2>8 DEF bannedIn
    <3>1. i + j - 1 \in 1..n
      BY <2>6, <2>7
    <3>2. u[j] = c[i + j - 1]
      BY <2>7
    <3> HIDE DEF u, c, n
    <3> QED
      BY <2>4, <2>6, <3>1, <3>2 DEF bannedIn, c
  <2> QED
    BY <2>2, <2>5, <2>6, <2>9, <2>10 DEF Strong
<1>2. ASSUME Strong(m, b, id)
      PROVE  \E s \in Scopes : IsScope(s) /\ roleIn(m, b, s, id) \in Writing
  <2>1. PICK s \in Scopes : IsScope(s) /\ ~ bannedIn(b, s, id) /\ m[s][id].role \in Writing
    BY <1>2 DEF Strong
  <2> DEFINE c == chainOf(s)
             at == CHOOSE i \in DOMAIN c : Counts(m, s, id, i)
  <2>2. 1 \in DOMAIN c /\ c[1] = s /\ DOMAIN c = 1..Len(c) /\ Len(c) \in Nat
    BY <2>1, ChainLen DEF Suffixes
  <2>3. m[s][id].role # None
    BY <2>1, NoneAssumption DEF Writing, RoleNames, Builtin
  <2>4. Counts(m, s, id, 1)
    <3>1. 1..(1 - 1) = {}
      OBVIOUS
    <3> QED
      BY <2>2, <2>3, <3>1 DEF Counts
  <2>5. \A i \in DOMAIN c : Counts(m, s, id, i) => i = 1
    <3> SUFFICES ASSUME NEW i \in 1..Len(c), Counts(m, s, id, i), i # 1 PROVE FALSE
      BY <2>2
    <3>1. 1 \in 1..(i - 1)
      BY <2>2
    <3> QED
      BY <2>2, <2>3, <3>1 DEF Counts
  <2>6. at = 1
    BY <2>2, <2>4, <2>5
  <2>7. roleIn(m, b, s, id) = m[s][id].role
    BY <2>1, <2>2, <2>4, <2>6 DEF roleIn, memberIn
  <2> QED
    BY <2>1, <2>7
<1> QED
  BY <1>1, <1>2

\* The invariant says that who speaks may write.
LEMMA KeyInvSpeakers == KeyInv => SpeakersMayWrite
<1> SUFFICES ASSUME KeyInv, NEW d \in Devices, Speaks(d)
             PROVE  \/ writesAnywhere(member, banned, Person[d])
                    \/ \E s \in Scopes : IsScope(s) /\ roleOf(s, Person[d]) \in CustomRoles
  BY DEF SpeakersMayWrite
<1> DEFINE id == Person[d]
<1>1. id \in Ids /\ TypeOK /\ Suffixes /\ member \in MemberTable
  BY PersonAssumption, Tables DEF KeyInv, GoneInv, OwnerInv
<1>2. keys.list[id] # <<>>
  BY DEF Speaks, Holds
<1>3. PICK s \in Scopes : IsScope(s) /\ roleOf(s, id) \in Writing
  BY <1>1, <1>2, StrongWrites DEF KeyInv, roleOf
<1>4. roleOf(s, id) \in Role
  BY <1>1, MemberInType DEF roleOf, roleIn, Entry
<1>5. roleOf(s, id) \in CustomRoles \/ mayWrite(roleOf(s, id), roles)
  BY <1>3, <1>4, RoleRights
<1> QED
  BY <1>3, <1>5 DEF writesAnywhere, roleOf

\* Of settlers there is one for each decider.
LEMMA KeyInvSettlers == KeyInv => OneSettlerPerDecider
<1> SUFFICES ASSUME KeyInv, NEW id \in Ids
             PROVE  LET settlers == {d \in Listed \cap keys.settler : Person[d] = id}
                        role == roleOf(Top, id)
                    IN  /\ Cardinality(settlers) <= 1
                        /\ role \in {"owner", "admin"} /\ keys.list[id] # <<>> => settlers # {}
                        /\ role \in Role \ (CustomRoles \cup {"owner", "admin"}) => settlers = {}
  BY DEF OneSettlerPerDecider
<1> DEFINE settlers == {d \in Listed \cap keys.settler : Person[d] = id}
           role == roleOf(Top, id)
<1>1. Listed = Spoken(keys)
  BY DEF Listed, Spoken, Speaks
<1>2. settlers = {d \in keys.settler : Person[d] = id}
  BY <1>1 DEF KeyInv, Following
<1>3. \A d, e \in settlers : d = e
  BY <1>2 DEF KeyInv, OneEach
<1>4. RightSettlers(keys, id, role)
  BY DEF KeyInv
<1> HIDE DEF settlers, role
<1>5. Cardinality(settlers) <= 1
  <2>1. CASE settlers = {}
    BY <2>1, FS_EmptySet
  <2>2. ASSUME NEW d \in settlers PROVE Cardinality(settlers) <= 1
    <3>1. settlers = {d}
      BY <1>3
    <3>2. Cardinality({d}) = 1
      BY FS_Singleton
    <3> QED
      BY <3>1, <3>2
  <2> QED
    BY <2>1, <2>2
<1>6. /\ role \in {"owner", "admin"} /\ keys.list[id] # <<>> => settlers # {}
      /\ role \in Role \ (CustomRoles \cup {"owner", "admin"}) => settlers = {}
  BY <1>2, <1>4 DEF RightSettlers
<1> QED
  BY <1>5, <1>6 DEF settlers, role

\* And Autobase follows.
LEMMA KeyInvBase == KeyInv => BaseFollowsView
<1> SUFFICES ASSUME KeyInv PROVE BaseFollowsView
  OBVIOUS
<1>1. Listed = Spoken(keys)
  BY DEF Listed, Spoken, Speaks
<1>2. Following(keys, {})
  BY DEF KeyInv
<1> DEFINE stuck == keys.settling \ keys.settler
<1>3. \A d, e \in stuck : d = e
  BY <1>2 DEF Following
<1>4. Cardinality(stuck) <= 1
  <2> HIDE DEF stuck
  <2>1. CASE stuck = {}
    BY <2>1, FS_EmptySet
  <2>2. ASSUME NEW d \in stuck PROVE Cardinality(stuck) <= 1
    <3>1. stuck = {d}
      BY <1>3
    <3>2. Cardinality({d}) = 1
      BY FS_Singleton
    <3> QED
      BY <3>1, <3>2
  <2> QED
    BY <2>1, <2>2
<1>5. /\ Listed \subseteq keys.base /\ keys.settler \subseteq keys.settling \cap Listed
      /\ keys.settling # {} /\ keys.base \ Listed \subseteq stuck
  BY <1>1, <1>2 DEF Following
<1> QED
  BY <1>4, <1>5 DEF BaseFollowsView

-----------------------------------------------------------------------------
(* What settling someone leaves.                                           *)

\* Keys r, of which only id's changed, fit the roles tables m and b give id.
Fits(r, m, b, id) ==
    /\ Following(r, {}) /\ OneEach(r)
    /\ RightSettlers(r, id, roleIn(m, b, Top, id))
    /\ r.list[id] # <<>> => Strong(m, b, id)
    /\ \A x \in Ids \ {id} : /\ r.list[x] = keys.list[x]
                             /\ \A d \in Devices : Person[d] = x => (d \in r.settler <=> d \in keys.settler)

\* Settling someone gives them a settler or takes it, as their role asks, and
\* leaves others' keys alone.
LEMMA SettleRight ==
    ASSUME TypeOK, ChainShape, NEW m \in MemberTable, NEW b, NEW id \in Ids,
           NEW k \in Keys, NEW out, Following(k, out), OneEach(k)
    PROVE  LET r == settle(k, m, b, id)
           IN  /\ RightSettlers(r, id, roleIn(m, b, Top, id))
               /\ r.list[id] # <<>> => writesAnywhere(m, b, id)
               /\ \A x \in Ids \ {id} :
                    /\ r.list[x] = k.list[x]
                    /\ \A d \in Devices : Person[d] = x => (d \in r.settler <=> d \in k.settler)
<1> DEFINE r == settle(k, m, b, id)
           role == roleIn(m, b, Top, id)
           decides == can(role, "decide", roles)
<1>1. role \in Role /\ IsScope(Top) /\ Top \in Scopes
  BY TopRole, MemberInType DEF roleIn, Entry
<1>2. /\ role \in {"owner", "admin"} => decides /\ writesAnywhere(m, b, id)
      /\ role \in Role \ (CustomRoles \cup {"owner", "admin"}) => ~ decides
  BY <1>1, RoleRights DEF writesAnywhere
<1>3. /\ Of(k, id) = {d \in Spoken(k) : Person[d] = id}
      /\ (k.list[id] = <<>>) <=> (Of(k, id) = {})
  BY SpokenOf DEF Following
<1>4. Of(k, id) \cap k.settler = {d \in k.settler : Person[d] = id}
  BY <1>3 DEF Following
<1>5. k.settler \subseteq Devices /\ k.settling # {} /\ r \in Keys
  BY SettleType DEF Following, Keys
<1>6. \/ ~ writesAnywhere(m, b, id) /\ r = ForgetAll(k, id)
      \/ /\ writesAnywhere(m, b, id) /\ decides
         /\ \E d \in Of(k, id) : r.list = k.list /\ r.settler = k.settler \cup {d}
      \/ /\ writesAnywhere(m, b, id) /\ ~ decides
         /\ \E d \in Of(k, id) \cap k.settler : r.list = k.list /\ r.settler = k.settler \ {d}
      \/ /\ writesAnywhere(m, b, id) /\ r = k
         /\ decides => Of(k, id) \cap k.settler # {} \/ k.list[id] = <<>>
         /\ ~ decides => Of(k, id) \cap k.settler = {}
  <2> DEFINE settlers == Of(k, id) \cap k.settler
  <2>1. \/ ~ writesAnywhere(m, b, id) /\ r = ForgetAll(k, id)
        \/ /\ writesAnywhere(m, b, id) /\ decides /\ settlers = {}
           /\ \E d \in Of(k, id) : /\ r.list = k.list
                                   /\ r.settler = k.settler \cup {d}
                                   /\ r.base = k.base \cup {d}
                                   /\ r.settling = k.settling \cup {d}
        \/ /\ writesAnywhere(m, b, id) /\ ~ decides
           /\ \E d \in settlers : /\ r.list = k.list
                                  /\ r.settler = k.settler \ {d}
                                  /\ r.base = k.base
                                  /\ r.settling = IF k.settling = {d} THEN {d} ELSE k.settling \ {d}
        \/ /\ writesAnywhere(m, b, id) /\ r = k
           /\ decides => settlers # {} \/ k.list[id] = <<>>
           /\ ~ decides => settlers = {}
    BY SettleShape
  <2> HIDE DEF r, decides, settlers
  <2>2. settlers = Of(k, id) \cap k.settler
    BY DEF settlers
  <2> QED
    BY <2>1, <2>2
<1> HIDE DEF role, decides, r
<1>7. CASE ~ writesAnywhere(m, b, id) /\ r = ForgetAll(k, id)
  <2>1. r.list = [k.list EXCEPT ![id] = <<>>] /\ r.settler = k.settler \ Of(k, id)
    BY <1>5, <1>7, ForgetAllShape
  <2>2. (\A x \in Ids \ {id} : r.list[x] = k.list[x]) /\ r.list[id] = <<>>
    <3>1. k.list \in KeyLists
      BY DEF Keys, KeyLists
    <3> QED
      BY <2>1, <3>1 DEF KeyLists
  <2>3. \A d \in r.settler : Person[d] # id
    BY <1>4, <2>1
  <2>4. RightSettlers(r, id, role)
    BY <1>2, <1>7, <2>3 DEF RightSettlers
  <2>5. \A d \in Devices : Person[d] # id => (d \in r.settler <=> d \in k.settler)
    BY <1>3, <2>1
  <2> QED
    BY <2>2, <2>4, <2>5 DEF r, role
<1>8. ASSUME writesAnywhere(m, b, id), decides, NEW d \in Of(k, id),
             r.list = k.list, r.settler = k.settler \cup {d}
      PROVE  /\ RightSettlers(r, id, role)
             /\ \A e \in Devices : Person[e] # id => (e \in r.settler <=> e \in k.settler)
  <2>1. Person[d] = id
    BY <1>3
  <2> QED
    BY <1>2, <1>8, <2>1 DEF RightSettlers
<1>9. ASSUME writesAnywhere(m, b, id), ~ decides, NEW d \in Of(k, id) \cap k.settler,
             r.list = k.list, r.settler = k.settler \ {d}
      PROVE  /\ RightSettlers(r, id, role)
             /\ \A e \in Devices : Person[e] # id => (e \in r.settler <=> e \in k.settler)
  <2>1. Person[d] = id
    BY <1>3
  <2>2. \A e \in r.settler : Person[e] # id
    BY <1>9, <2>1 DEF OneEach
  <2> QED
    BY <1>2, <1>9, <2>1, <2>2 DEF RightSettlers
<1>10. ASSUME writesAnywhere(m, b, id), r = k,
             decides => Of(k, id) \cap k.settler # {} \/ k.list[id] = <<>>,
             ~ decides => Of(k, id) \cap k.settler = {}
      PROVE  RightSettlers(r, id, role)
  BY <1>2, <1>4, <1>10 DEF RightSettlers
<1>11. CASE writesAnywhere(m, b, id)
  <2>1. r.list = k.list /\ RightSettlers(r, id, role)
    BY <1>8, <1>9, <1>10, <1>6, <1>11
  <2>2. \A e \in Devices : Person[e] # id => (e \in r.settler <=> e \in k.settler)
    BY <1>8, <1>9, <1>6, <1>11
  <2> QED
    BY <1>11, <2>1, <2>2 DEF r, role
<1> QED
  BY <1>7, <1>6, <1>11

\* So after every decision that settles someone, by whichever tables.
LEMMA SettledFits ==
    ASSUME KeyInv, NEW m \in MemberTable, NEW b, NEW id \in Ids,
           NEW k, k = keys \/ \E d \in Devices : Person[d] = id /\ k = addKey(keys, d)
    PROVE  Fits(settle(k, m, b, id), m, b, id)
<1> DEFINE r == settle(k, m, b, id)
<1>1. TypeOK /\ ChainShape /\ Suffixes /\ keys \in Keys /\ Following(keys, {}) /\ OneEach(keys)
  BY DEF KeyInv, GoneInv, OwnerInv, TypeOK
<1>2. /\ k \in Keys /\ Following(k, {}) /\ OneEach(k) /\ k.settler = keys.settler
      /\ \A x \in Ids \ {id} : k.list[x] = keys.list[x]
  <2>1. CASE k = keys
    BY <1>1, <2>1
  <2>2. ASSUME NEW d \in Devices, Person[d] = id, k = addKey(keys, d)
        PROVE  /\ k \in Keys /\ Following(k, {}) /\ OneEach(k) /\ k.settler = keys.settler
               /\ \A x \in Ids \ {id} : k.list[x] = keys.list[x]
    BY <1>1, <2>2, AddFollows, KeysType
  <2> QED
    BY <2>1, <2>2
<1>3. Following(r, {}) /\ OneEach(r)
  BY <1>1, <1>2, SettleFollows
<1>4. /\ RightSettlers(r, id, roleIn(m, b, Top, id))
      /\ r.list[id] # <<>> => writesAnywhere(m, b, id)
      /\ \A x \in Ids \ {id} :
            /\ r.list[x] = k.list[x]
            /\ \A d \in Devices : Person[d] = x => (d \in r.settler <=> d \in k.settler)
  BY <1>1, <1>2, SettleRight
<1>5. r.list[id] # <<>> => Strong(m, b, id)
  BY <1>1, <1>4, StrongWrites
<1> HIDE DEF r
<1>6. Fits(r, m, b, id)
  BY <1>2, <1>3, <1>4, <1>5 DEF Fits
<1> QED
  BY <1>6 DEF r

-----------------------------------------------------------------------------
(* The invariant holds at first, and every decision keeps it.              *)

\* At first Autobase has the creator's device, and the view none.
LEMMA KeyInit == Init => KeyInv
<1> SUFFICES ASSUME Init PROVE KeyInv
  OBVIOUS
<1>1. GoneInv /\ TypeOK /\ ChainShape /\ member \in MemberTable
  BY GoneInit, Tables DEF GoneInv, OwnerInv
<1>2. /\ \A s \in Scopes, id \in Ids : member[s][id] = NoEntry /\ banned[s][id] = NoBan
      /\ owner = None /\ Top \in Scopes
  BY DEF Init, Scopes
<1>3. /\ \A id \in Ids : keys.list[id] = <<>>
      /\ keys.settler = {} /\ keys.base = {Creator} /\ keys.settling = {Creator}
  BY DEF Init
<1>4. Suffixes
  <2>1. \A s \in Scopes : chainOf(s) = IF s = Top THEN <<Top>> ELSE <<>>
    BY DEF Init, chainOf, NoInfo
  <2>2. \A s \in Scopes : IsScope(s) => s = Top
    BY <2>1 DEF IsScope
  <2>3. chainOf(Top) = <<Top>> /\ Len(<<Top>>) = 1 /\ <<Top>>[1] = Top /\ 1..1 = {1}
    BY <1>2, <2>1
  <2>4. ASSUME NEW s \in Scopes, NEW i \in 1..Len(chainOf(s)) PROVE s = Top /\ i = 1
    <3>1. Len(<<>>) = 0 /\ 1..0 = {}
      OBVIOUS
    <3> QED
      BY <2>1, <2>3, <3>1
  <2>5. 1..(1 - 1 + 1) = {1} /\ 1 + 1 - 1 = 1 /\ 1 - 1 + 1 = 1
    OBVIOUS
  <2> QED
    BY <2>2, <2>3, <2>4, <2>5 DEF Suffixes
<1>5. EntryKeys /\ BannedOut /\ BaseBefore
  BY <1>2, <1>3 DEF EntryKeys, BannedOut, BaseBefore, NoEntry
<1>6. Spoken(keys) = {}
  <2>1. \A d \in Devices : Person[d] \in Ids
    BY PersonAssumption
  <2> QED
    BY <1>3, <2>1 DEF Spoken, Holds
<1>7. Following(keys, {}) /\ OneEach(keys)
  BY <1>3, <1>6 DEF Following, OneEach
<1>8. ASSUME NEW id \in Ids PROVE RightSettlers(keys, id, roleOf(Top, id))
  BY <1>3 DEF RightSettlers
<1> QED
  BY <1>1, <1>3, <1>4, <1>5, <1>7, <1>8 DEF KeyInv

\* The chains do not change but by a new sub-space's.
LEMMA SuffixesSame ==
    ASSUME Suffixes, \A s \in Scopes : chainOf(s)' = chainOf(s)
    PROVE  Suffixes'
<1>1. \A s \in Scopes : IsScope(s)' = IsScope(s)
  BY DEF IsScope
<1> QED
  BY <1>1 DEF Suffixes

\* The first decision: the creator's device speaks for the owner and settles.
LEMMA KeySpaceInit ==
    ASSUME KeyInv, GoneInv', NEW p, SpaceInit(p)
    PROVE  KeyInv'
<1> DEFINE o == Person[Creator]
<1>1. o \in Ids /\ Creator \in Devices /\ Top \in Scopes /\ o # None
  BY PersonAssumption DEF Scopes
<1>2. /\ owner' = o /\ owner = None /\ UNCHANGED banned
      /\ member' = [member EXCEPT ![Top][o] = [role |-> "owner", key |-> None]]
      /\ space' = [space EXCEPT ![Top].private = p]
      /\ keys' = [keys EXCEPT !.list[o] = <<Creator>>, !.settler = {Creator}]
  BY DEF SpaceInit
<1>3. /\ TypeOK /\ ChainShape /\ keys \in Keys /\ member \in MemberTable
      /\ TypeOK' /\ ChainShape' /\ member' \in MemberTable
      /\ space \in [Scopes -> Info]
  <2>1. TypeOK' => member' \in MemberTable
    BY DEF TypeOK, MemberTable
  <2> QED
    BY <2>1, Tables DEF KeyInv, GoneInv, OwnerInv, TypeOK
<1>4. /\ \A s \in Scopes, id \in Ids : member[s][id].role = None /\ banned[s][id] = NoBan
      /\ \A id \in Ids : keys.list[id] = <<>>
      /\ keys.base = {Creator} /\ keys.settling = {Creator}
  BY <1>2 DEF KeyInv, BaseBefore, GoneInv, OwnerInv, NothingBefore
<1>5. \A s \in Scopes : chainOf(s)' = chainOf(s)
  BY <1>1, <1>2, <1>3 DEF chainOf, Info
<1>6. Suffixes'
  BY <1>3, <1>5, SuffixesSame DEF KeyInv
<1>7. /\ \A s \in Scopes, id \in Ids :
            member'[s][id] = IF s = Top /\ id = o THEN [role |-> "owner", key |-> None] ELSE member[s][id]
  BY <1>1, <1>2, <1>3 DEF MemberTable
<1>8. EntryKeys' /\ BannedOut' /\ BaseBefore'
  <2>1. EntryKeys'
    BY <1>7 DEF EntryKeys, KeyInv
  <2>2. BannedOut'
    BY <1>1, <1>2, <1>4 DEF BannedOut
  <2> QED
    BY <1>1, <1>2, <2>1, <2>2 DEF BaseBefore
<1>9. /\ keys'.base = {Creator} /\ keys'.settling = {Creator} /\ keys'.settler = {Creator}
      /\ \A id \in Ids : keys'.list[id] = IF id = o THEN <<Creator>> ELSE <<>>
  BY <1>1, <1>2, <1>3, <1>4 DEF Keys
<1>10. Spoken(keys') = {Creator}
  <2>1. \A d \in Devices : Person[d] \in Ids
    BY PersonAssumption
  <2>2. DOMAIN <<Creator>> = {1} /\ <<Creator>>[1] = Creator /\ DOMAIN <<>> = {}
    OBVIOUS
  <2>3. ASSUME NEW d \in Devices PROVE Holds(keys', d) <=> d = Creator
    <3>1. CASE Person[d] = o
      <4>1. keys'.list[Person[d]] = <<Creator>>
        BY <1>1, <1>9, <3>1
      <4> QED
        BY <2>2, <4>1 DEF Holds
    <3>2. CASE Person[d] # o
      <4>1. keys'.list[Person[d]] = <<>>
        BY <1>9, <2>1, <3>2
      <4> QED
        BY <2>2, <3>2, <4>1 DEF Holds
    <3> QED
      BY <3>1, <3>2
  <2> QED
    BY <1>1, <2>3 DEF Spoken
<1>11. \A x \in Ids : \A i \in DOMAIN keys'.list[x] : Person[keys'.list[x][i]] = x
  <2>1. DOMAIN <<Creator>> = {1} /\ <<Creator>>[1] = Creator /\ DOMAIN <<>> = {}
    OBVIOUS
  <2> QED
    BY <1>9, <2>1
<1>12. Following(keys', {}) /\ OneEach(keys')
  BY <1>9, <1>10, <1>11 DEF Following, OneEach
<1>13. \A id \in Ids : roleOf(Top, id)' = IF id = o THEN "owner" ELSE None
  <2>1. \A id \in Ids : roleOf(Top, id)' = IF banned'[Top][id] # NoBan THEN None ELSE member'[Top][id].role
    <3>1. (TypeOK /\ ChainShape =>
            /\ IsScope(Top)
            /\ \A id \in Ids :
                  roleOf(Top, id) = IF banned[Top][id] # NoBan THEN None ELSE member[Top][id].role)'
      BY TopRoleNow, PTL
    <3> QED
      BY <1>3, <3>1
  <2> QED
    BY <1>1, <1>2, <1>4, <1>7, <2>1
<1>14. ASSUME NEW id \in Ids PROVE RightSettlers(keys', id, roleOf(Top, id)')
  <2>1. None \notin {"owner", "admin"}
    BY NoneAssumption DEF RoleNames, Builtin
  <2>2. CASE id = o
    BY <1>1, <1>9, <1>13, <2>2 DEF RightSettlers
  <2>3. CASE id # o
    BY <1>9, <1>13, <2>1, <2>3 DEF RightSettlers
  <2> QED
    BY <2>2, <2>3
<1>15. ASSUME NEW id \in Ids, keys'.list[id] # <<>> PROVE Strong(member, banned, id)'
  <2>1. id = o
    BY <1>9, <1>15
  <2>2. IsScope(Top)' /\ Top \in Scopes
    BY <1>1, <1>3 DEF ChainShape, IsScope
  <2>3. ~ bannedIn(banned, Top, id)'
    <3>1. chainOf(Top)' = <<Top>>
      BY <1>3 DEF ChainShape
    <3>2. DOMAIN <<Top>> = {1} /\ <<Top>>[1] = Top
      OBVIOUS
    <3> QED
      BY <1>1, <1>2, <1>4, <3>1, <3>2 DEF bannedIn
  <2> QED
    BY <1>1, <1>7, <2>1, <2>2, <2>3 DEF Strong, Writing
<1> QED
  BY <1>6, <1>8, <1>12, <1>14, <1>15 DEF KeyInv

\* A decision about one person keeps the invariant if their keys fit.
LEMMA KeyKept ==
    ASSUME KeyInv, GoneInv', UNCHANGED <<owner, space>>, owner # None, NEW id \in Ids,
           \A s \in Scopes, x \in Ids \ {id} : /\ member'[s][x] = member[s][x]
                                               /\ banned'[s][x] = banned[s][x],
           \A s \in Scopes : member'[s][id].key # None => Person[member'[s][id].key] = id,
           banned'[Top][id] # NoBan => member'[Top][id].role = None,
           Fits(keys', member', banned', id)
    PROVE  KeyInv'
<1>1. TypeOK /\ ChainShape /\ TypeOK' /\ keys \in Keys /\ keys' \in Keys /\ Top \in Scopes
  BY DEF KeyInv, GoneInv, OwnerInv, TypeOK, Scopes
<1>2. Suffixes' /\ BaseBefore'
  <2>1. \A s \in Scopes : chainOf(s)' = chainOf(s)
    BY DEF chainOf
  <2> QED
    BY <1>1, <2>1, SuffixesSame DEF KeyInv, BaseBefore
<1>3. EntryKeys'
  BY DEF EntryKeys, KeyInv
<1>4. BannedOut'
  BY <1>1 DEF BannedOut, KeyInv
<1>5. Following(keys', {}) /\ OneEach(keys')
  BY DEF Fits
<1>6. ASSUME NEW x \in Ids PROVE RightSettlers(keys', x, roleOf(Top, x)')
  <2>1. roleOf(Top, x)' = roleIn(member', banned', Top, x)
    BY DEF roleOf, roleIn, memberIn, bannedIn, Counts, chainOf
  <2>2. CASE x = id
    BY <2>1, <2>2 DEF Fits
  <2>3. CASE x # id
    <3>1. member \in MemberTable /\ member' \in MemberTable
      BY <1>1, Tables DEF TypeOK, MemberTable
    <3>2. roleIn(member', banned', Top, x) = roleOf(Top, x)
      <4>1. /\ roleIn(member', banned', Top, x)
                 = IF banned'[Top][x] # NoBan THEN None ELSE member'[Top][x].role
            /\ roleIn(member, banned, Top, x)
                 = IF banned[Top][x] # NoBan THEN None ELSE member[Top][x].role
        BY <1>1, <3>1, TopRole
      <4> QED
        BY <1>1, <2>3, <4>1 DEF roleOf
    <3>3. RightSettlers(keys, x, roleOf(Top, x))
      BY DEF KeyInv
    <3>4. /\ keys'.list[x] = keys.list[x]
          /\ \A d \in Devices : Person[d] = x => (d \in keys'.settler <=> d \in keys.settler)
      BY <2>3 DEF Fits
    <3>5. keys.settler \subseteq Devices /\ keys'.settler \subseteq Devices
      BY <1>1 DEF Keys
    <3>6. RightSettlers(keys', x, roleOf(Top, x))
      BY <3>3, <3>4, <3>5 DEF RightSettlers
    <3> QED
      BY <2>1, <3>2, <3>6
  <2> QED
    BY <2>2, <2>3
<1>7. ASSUME NEW x \in Ids, keys'.list[x] # <<>> PROVE Strong(member, banned, x)'
  <2>1. CASE x = id
    <3>1. Strong(member', banned', id)
      BY <1>7, <2>1 DEF Fits
    <3> QED
      BY <2>1, <3>1 DEF Strong, IsScope, bannedIn, chainOf
  <2>2. CASE x # id
    <3>1. keys.list[x] # <<>>
      BY <1>7, <2>2 DEF Fits
    <3>2. PICK s \in Scopes : IsScope(s) /\ ~ bannedIn(banned, s, x) /\ member[s][x].role \in Writing
      BY <3>1 DEF KeyInv, Strong
    <3>3. \A i \in DOMAIN chainOf(s) : chainOf(s)[i] \in Scopes
      BY <1>1, ChainType
    <3>4. chainOf(s)' = chainOf(s)
      BY DEF chainOf
    <3>5. ~ bannedIn(banned, s, x)'
      BY <2>2, <3>2, <3>3, <3>4 DEF bannedIn
    <3>6. IsScope(s)'
      BY <3>2, <3>4 DEF IsScope
    <3>7. member'[s][x].role \in Writing
      BY <2>2, <3>2
    <3> QED
      BY <3>5, <3>6, <3>7 DEF Strong
  <2> QED
    BY <2>1, <2>2
<1> QED
  BY <1>2, <1>3, <1>4, <1>5, <1>6, <1>7 DEF KeyInv

\* Keys that are left alone fit, if the role in the top space asks for no
\* other settlers and an entry that let their owner write still does.
LEMMA SameFits ==
    ASSUME KeyInv, NEW m, NEW b, NEW id \in Ids,
           RightSettlers(keys, id, roleIn(m, b, Top, id)),
           \A s \in Scopes : IsScope(s) /\ ~ bannedIn(banned, s, id) /\ member[s][id].role \in Writing
                             => ~ bannedIn(b, s, id) /\ m[s][id].role \in Writing
    PROVE  Fits(keys, m, b, id)
<1>1. Strong(member, banned, id) => Strong(m, b, id)
  BY DEF Strong
<1>2. keys.list[id] # <<>> => Strong(m, b, id)
  BY <1>1 DEF KeyInv
<1>3. Following(keys, {}) /\ OneEach(keys)
  BY DEF KeyInv
<1> QED
  BY <1>2, <1>3 DEF Fits

\* What a decision about someone finds.
LEMMA KeyFacts ==
    ASSUME KeyInv
    PROVE  /\ TypeOK /\ ChainShape /\ Suffixes /\ keys \in Keys /\ Top \in Scopes
           /\ member \in MemberTable /\ banned \in BanTable
           /\ \A s \in Scopes, id \in Ids : member[s][id].key # None => Person[member[s][id].key] = id
           /\ \A id \in Ids : banned[Top][id] # NoBan => member[Top][id].role = None
           /\ \A id \in Ids : RightSettlers(keys, id, roleOf(Top, id))
           /\ \A id \in Ids :
                roleOf(Top, id) = IF banned[Top][id] # NoBan THEN None ELSE member[Top][id].role
<1>1. TypeOK /\ ChainShape /\ Suffixes /\ keys \in Keys /\ Top \in Scopes
  BY DEF KeyInv, GoneInv, OwnerInv, TypeOK, Scopes
<1>2. member \in MemberTable /\ banned \in BanTable
  BY <1>1, Tables
<1> QED
  BY <1>1, <1>2, TopRoleNow DEF KeyInv, EntryKeys, BannedOut

\* Let in with the role of a member: no settler before, and none after.
LEMMA KeyAdd ==
    ASSUME KeyInv, GoneInv', NEW w \in Devices, NEW id \in Ids, MemberAdd(w, id)
    PROVE  KeyInv'
<1>1. /\ owner # None /\ UNCHANGED <<owner, space, banned, keys>>
      /\ member' = [member EXCEPT ![Top][id] = Joined(id)]
      /\ roleOf(Top, id) = None /\ banned[Top][id] = NoBan
  BY SpeakerOwner DEF MemberAdd, May, KeyInv, GoneInv, spaceVars, keyVars
<1>2. \A s \in Scopes, x \in Ids :
        member'[s][x] = IF s = Top /\ x = id THEN [role |-> "member", key |-> None] ELSE member[s][x]
  BY <1>1, KeyFacts DEF MemberTable, Joined
<1>3. member[Top][id].role = None /\ None \notin Writing
  BY <1>1, KeyFacts, NoneAssumption DEF Writing, RoleNames, Builtin
<1>4. member' \in MemberTable
  BY DEF GoneInv, OwnerInv, TypeOK, MemberTable
<1>5. roleIn(member', banned, Top, id) = "member"
  <2>1. roleIn(member', banned, Top, id)
            = IF banned[Top][id] # NoBan THEN None ELSE member'[Top][id].role
    BY <1>4, KeyFacts, TopRole
  <2>2. member'[Top][id].role = "member"
    BY <1>2, KeyFacts
  <2> QED
    BY <1>1, <2>1, <2>2
<1>6. RightSettlers(keys, id, "member")
  <2>1. None \in Role \ (CustomRoles \cup {"owner", "admin"})
    BY NoneAssumption DEF Role, RoleNames, Builtin
  <2>2. \A d \in keys.settler : Person[d] # id
    BY <1>1, <2>1, KeyFacts DEF RightSettlers
  <2> QED
    BY <2>2 DEF RightSettlers
<1>7. Fits(keys, member', banned, id)
  <2>1. \A s \in Scopes : IsScope(s) /\ ~ bannedIn(banned, s, id) /\ member[s][id].role \in Writing
                          => ~ bannedIn(banned, s, id) /\ member'[s][id].role \in Writing
    BY <1>2, <1>3
  <2> QED
    BY <1>5, <1>6, <2>1, SameFits
<1>8. \A s \in Scopes : member'[s][id].key # None => Person[member'[s][id].key] = id
  BY <1>2, KeyFacts
<1>9. \A s \in Scopes, x \in Ids \ {id} : member'[s][x] = member[s][x] /\ banned'[s][x] = banned[s][x]
  BY <1>1, <1>2
<1>10. banned'[Top][id] # NoBan => member'[Top][id].role = None
  BY <1>1
<1> QED
  BY <1>1, <1>7, <1>8, <1>9, <1>10, KeyKept

\* Removed: their keys are settled by the tables as they are then, and so
\* below for a ban and a role given.
LEMMA KeyRemove ==
    ASSUME KeyInv, GoneInv', NEW w \in Devices, NEW s \in Scopes, NEW id \in Ids, NEW c,
           MemberRemove(w, s, id, c)
    PROVE  KeyInv'
<1> DEFINE m == dropBelow([member EXCEPT ![s][id] = NoEntry], s, id)
<1>1. /\ owner # None /\ UNCHANGED <<owner, space, banned>>
      /\ member' = m /\ keys' = settle(keys, m, banned, id)
  BY SpeakerOwner DEF MemberRemove, KeyInv, GoneInv, spaceVars
<1>2. member' \in MemberTable
  BY DEF GoneInv, OwnerInv, TypeOK, MemberTable
<1>3. \A z \in Scopes, x \in Ids :
        /\ x # id => member'[z][x] = member[z][x]
        /\ member'[z][id] \in {NoEntry, member[z][id]}
  BY <1>1, KeyFacts DEF dropBelow, MemberTable
<1>4. Fits(keys', member', banned, id)
  BY <1>1, <1>2, SettledFits
<1> HIDE DEF m
<1>5. \A z \in Scopes : member'[z][id].key # None => Person[member'[z][id].key] = id
  BY <1>3, KeyFacts DEF NoEntry
<1>6. \A z \in Scopes, x \in Ids \ {id} : member'[z][x] = member[z][x] /\ banned'[z][x] = banned[z][x]
  BY <1>1, <1>3
<1>7. banned'[Top][id] # NoBan => member'[Top][id].role = None
  BY <1>1, <1>3, KeyFacts DEF NoEntry
<1> QED
  BY <1>1, <1>4, <1>5, <1>6, <1>7, KeyKept

\* A ban at the top takes the entry there.
LEMMA KeyBan ==
    ASSUME KeyInv, GoneInv', NEW w \in Devices, NEW s \in Scopes, NEW id \in Ids, NEW c, NEW drop,
           BanMember(w, s, id, c, drop)
    PROVE  KeyInv'
<1> DEFINE b == [banned EXCEPT ![s][id] = [by |-> Person[w], drop |-> drop]]
           m == IF roleOf(s, id) = None THEN member ELSE [member EXCEPT ![s][id] = NoEntry]
<1>1. /\ owner # None /\ UNCHANGED <<owner, space>>
      /\ banned' = b /\ member' = m /\ keys' = settle(keys, m, b, id)
      /\ banned[s][id] = NoBan
  BY SpeakerOwner DEF BanMember, May, KeyInv, GoneInv, spaceVars
<1>2. member' \in MemberTable
  BY DEF GoneInv, OwnerInv, TypeOK, MemberTable
<1>3. \A z \in Scopes, x \in Ids :
        /\ x # id => member'[z][x] = member[z][x] /\ banned'[z][x] = banned[z][x]
        /\ member'[z][id] \in {NoEntry, member[z][id]}
        /\ z # s => banned'[z][x] = banned[z][x]
        /\ roleOf(s, id) # None => member'[s][id] = NoEntry
  BY <1>1, KeyFacts DEF MemberTable, BanTable
<1>4. Fits(keys', member', banned', id)
  BY <1>1, <1>2, SettledFits
<1> HIDE DEF m, b
<1>5. \A z \in Scopes : member'[z][id].key # None => Person[member'[z][id].key] = id
  BY <1>3, KeyFacts DEF NoEntry
<1>6. \A z \in Scopes, x \in Ids \ {id} : member'[z][x] = member[z][x] /\ banned'[z][x] = banned[z][x]
  BY <1>3
<1>7. banned'[Top][id] # NoBan => member'[Top][id].role = None
  <2>1. CASE s = Top
    <3>1. CASE roleOf(s, id) # None
      BY <1>3, <2>1, <3>1 DEF NoEntry
    <3>2. CASE roleOf(s, id) = None
      <4>1. member[Top][id].role = None
        BY <1>1, <2>1, <3>2, KeyFacts
      <4> QED
        BY <1>3, <2>1, <4>1 DEF NoEntry
    <3> QED
      BY <3>1, <3>2
  <2>2. CASE s # Top
    BY <1>3, <2>2, KeyFacts DEF NoEntry
  <2> QED
    BY <2>1, <2>2
<1> QED
  BY <1>1, <1>4, <1>5, <1>6, <1>7, KeyKept

\* A key that the entry remembers is one of theirs.
LEMMA KeyRole ==
    ASSUME KeyInv, GoneInv', NEW w \in Devices, NEW s \in Scopes, NEW id \in Ids, NEW c,
           NEW role \in AssignedRoles, RoleSet(w, s, id, role, c)
    PROVE  KeyInv'
<1> DEFINE e == memberIn(member, banned, s, id)
           m == [member EXCEPT ![s][id] = [role |-> role, key |-> e.key]]
           k == IF e.key # None /\ mayWrite(role, roles) THEN addKey(keys, e.key) ELSE keys
<1>1. /\ owner # None /\ UNCHANGED <<owner, space, banned>>
      /\ member' = m /\ keys' = settle(k, m, banned, id)
      /\ ~ bannedIn(banned, s, id)
  BY SpeakerOwner DEF RoleSet, KeyInv, GoneInv, spaceVars
<1>2. member' \in MemberTable
  BY DEF GoneInv, OwnerInv, TypeOK, MemberTable
<1>3. e.key # None => e.key \in Devices /\ Person[e.key] = id
  <2>1. e \in Entry
    BY KeyFacts, MemberInType
  <2>2. e = NoEntry \/ \E z \in Scopes : e = member[z][id]
    <3>1. \A i \in DOMAIN chainOf(s) : chainOf(s)[i] \in Scopes
      BY KeyFacts, ChainType
    <3> QED
      BY <3>1 DEF memberIn
  <2> HIDE DEF e
  <2> QED
    BY <2>1, <2>2, KeyFacts DEF Entry, NoEntry
<1>4. Fits(keys', member', banned, id)
  <2>1. k = keys \/ \E d \in Devices : Person[d] = id /\ k = addKey(keys, d)
    BY <1>3
  <2> HIDE DEF k, m
  <2> QED
    BY <1>1, <1>2, <2>1, SettledFits
<1>5. \A z \in Scopes, x \in Ids :
        member'[z][x] = IF z = s /\ x = id THEN [role |-> role, key |-> e.key] ELSE member[z][x]
  BY <1>1, KeyFacts DEF MemberTable
<1> HIDE DEF m, k, e
<1>6. \A z \in Scopes : member'[z][id].key # None => Person[member'[z][id].key] = id
  BY <1>3, <1>5, KeyFacts
<1>7. \A z \in Scopes, x \in Ids \ {id} : member'[z][x] = member[z][x] /\ banned'[z][x] = banned[z][x]
  BY <1>1, <1>5
<1>8. banned'[Top][id] # NoBan => member'[Top][id].role = None
  <2>1. CASE s = Top
    <3>1. chainOf(Top) = <<Top>> /\ DOMAIN <<Top>> = {1} /\ <<Top>>[1] = Top
      BY KeyFacts DEF ChainShape
    <3>2. banned[Top][id] = NoBan
      BY <1>1, <2>1, <3>1 DEF bannedIn
    <3> QED
      BY <1>1, <3>2
  <2>2. CASE s # Top
    BY <1>1, <1>5, <2>2, KeyFacts
  <2> QED
    BY <2>1, <2>2
<1> QED
  BY <1>1, <1>4, <1>6, <1>7, <1>8, KeyKept

\* A ban lifted: in the top space there is no entry under it, and elsewhere
\* more counts than before.
LEMMA KeyUnban ==
    ASSUME KeyInv, GoneInv', NEW w \in Devices, NEW s \in Scopes, NEW id \in Ids, Unban(w, s, id)
    PROVE  KeyInv'
<1>1. /\ owner # None /\ UNCHANGED <<owner, space, member, keys>>
      /\ banned' = [banned EXCEPT ![s][id] = NoBan]
  BY SpeakerOwner DEF Unban, May, KeyInv, GoneInv, spaceVars, keyVars
<1>2. \A z \in Scopes, x \in Ids :
        /\ banned'[z][x] = IF z = s /\ x = id THEN NoBan ELSE banned[z][x]
        /\ banned'[z][x] # NoBan => banned[z][x] # NoBan
  BY <1>1, KeyFacts DEF BanTable
<1>3. \A z \in Scopes : bannedIn(banned', z, id) => bannedIn(banned, z, id)
  <2>1. \A z \in Scopes : \A i \in DOMAIN chainOf(z) : chainOf(z)[i] \in Scopes
    BY KeyFacts, ChainType
  <2> QED
    BY <1>2, <2>1 DEF bannedIn
<1>4. roleIn(member, banned', Top, id) = roleOf(Top, id)
  <2>1. roleIn(member, banned', Top, id)
            = IF banned'[Top][id] # NoBan THEN None ELSE member[Top][id].role
    BY KeyFacts, TopRole
  <2> QED
    BY <1>2, <2>1, KeyFacts
<1>5. RightSettlers(keys, id, roleIn(member, banned', Top, id))
  BY <1>4, KeyFacts
<1>6. Fits(keys, member, banned', id)
  BY <1>3, <1>5, SameFits
<1>7. \A z \in Scopes, x \in Ids \ {id} : member'[z][x] = member[z][x] /\ banned'[z][x] = banned[z][x]
  BY <1>1, <1>2
<1>8. banned'[Top][id] # NoBan => member'[Top][id].role = None
  BY <1>1, <1>2, KeyFacts
<1>9. \A z \in Scopes : member'[z][id].key # None => Person[member'[z][id].key] = id
  BY <1>1, KeyFacts
<1> QED
  BY <1>1, <1>6, <1>7, <1>8, <1>9, KeyKept

\* A role above one that lets its holder write decisions lets them too.
LEMMA WritingUp ==
    ASSUME NEW own \in Role, NEW role \in RoleNames, own \in Writing, rankOf(own) < rankOf(role)
    PROVE  role \in Writing
<1>1. own \in {"admin", "owner", "moderator"} \/ own \in CustomRoles
  BY DEF Writing
<1>2. rankOf(own) >= 2
  <2>1. CASE own \in Builtin
    BY <1>1, <2>1, CustomAssumption DEF rankOf, RANK, Builtin
  <2>2. CASE own \notin Builtin
    BY <2>2 DEF rankOf, CUSTOM_RANK
  <2> QED
    BY <2>1, <2>2
<1>3. role \in {"member", "guest"} => rankOf(role) <= 2
  BY DEF rankOf, RANK, Builtin
<1>4. rankOf(own) \in Nat /\ rankOf(role) \in Nat
  BY DEF rankOf, RANK, Builtin, CUSTOM_RANK
<1>5. role \notin {"member", "guest"}
  BY <1>2, <1>3, <1>4
<1> QED
  BY <1>5 DEF Writing, RoleNames, Builtin

\* An entry in a sub-space that does not take a right away leaves the keys fit.
LEMMA FitsRaised ==
    ASSUME KeyInv, NEW m \in MemberTable, NEW n \in MemberTable, NEW b, NEW id \in Ids, NEW r,
           Fits(r, m, b, id), n[Top][id] = m[Top][id],
           \A s \in Scopes : m[s][id].role \in Writing => n[s][id].role \in Writing
    PROVE  Fits(r, n, b, id)
<1>1. roleIn(n, b, Top, id) = roleIn(m, b, Top, id)
  <2>1. roleIn(n, b, Top, id) = IF b[Top][id] # NoBan THEN None ELSE n[Top][id].role
    BY KeyFacts, TopRole
  <2>2. roleIn(m, b, Top, id) = IF b[Top][id] # NoBan THEN None ELSE m[Top][id].role
    BY KeyFacts, TopRole
  <2> QED
    BY <2>1, <2>2
<1>2. Strong(m, b, id) => Strong(n, b, id)
  BY DEF Strong
<1> QED
  BY <1>1, <1>2 DEF Fits

\* An invite redeemed: what it gives in the space is settled; what it gives in
\* the sub-space it lists is never less than the entry it replaces.
LEMMA KeyRedeem ==
    ASSUME KeyInv, GoneInv', NEW w \in Devices, NEW inv \in Invites, NEW d \in Devices,
           InviteRedeem(w, inv, d)
    PROVE  KeyInv'
<1> DEFINE s == inv.space
           id == Person[d]
           role == roleOf(s, id)
           raises == role = None \/ rankOf(role) < rankOf(inv.role)
           m == IF raises THEN [member EXCEPT ![s][id] = [role |-> inv.role, key |-> d]] ELSE member
           k == IF mayWrite(inv.role, roles) THEN addKey(keys, d) ELSE keys
           read == {Author(w, s), roleOf(s, inv.maker), inv.role, role}
                      \cup (IF raises THEN RolesRead(m, id) ELSE {})
           routes == Routes(inv, m, id,
                            [r \in CustomRoles |-> IF r \in read THEN roles[r] ELSE None])
<1>1. /\ s \in Scopes /\ id \in Ids /\ inv.role \in RoleNames
      /\ inv.sub # None => inv.sub \in Subs /\ inv.sub \in Scopes /\ inv.sub # Top
  BY PersonAssumption, InputAssumption, ScopeAssumption DEF Invite, Scopes
<1>2. /\ owner # None /\ UNCHANGED <<owner, space, banned>>
      /\ keys' = IF raises THEN settle(k, m, banned, id) ELSE keys
      /\ member' = IF routes THEN [m EXCEPT ![inv.sub][id] = [role |-> inv.role, key |-> None]] ELSE m
      /\ ~ bannedIn(banned, s, id)
  BY SpeakerOwner DEF InviteRedeem, May, KeyInv, GoneInv, spaceVars
<1>3. routes => /\ inv.sub # None
                /\ m[inv.sub][id].role = None \/ rankOf(m[inv.sub][id].role) < rankOf(inv.role)
  BY DEF Routes
<1>4. \A z \in Scopes, x \in Ids :
        m[z][x] = IF raises /\ z = s /\ x = id THEN [role |-> inv.role, key |-> d] ELSE member[z][x]
  BY <1>1, KeyFacts DEF MemberTable
<1>5. m \in MemberTable /\ member' \in MemberTable
  <2>1. [role |-> inv.role, key |-> d] \in Entry
    BY <1>1 DEF Entry, Role
  <2>2. member' \in MemberTable
    BY DEF GoneInv, OwnerInv, TypeOK, MemberTable
  <2> QED
    BY <1>1, <2>1, <2>2, KeyFacts DEF MemberTable
<1>6. Fits(keys', m, banned, id)
  <2>1. CASE raises
    <3>1. k = keys \/ \E e \in Devices : Person[e] = id /\ k = addKey(keys, e)
      OBVIOUS
    <3> HIDE DEF k, m, raises
    <3> QED
      BY <1>1, <1>2, <1>5, <2>1, <3>1, SettledFits
  <2>2. CASE ~ raises
    <3>1. Fits(keys, member, banned, id)
      BY <1>1, KeyFacts, SameFits DEF roleOf
    <3> QED
      BY <1>2, <2>2, <3>1
  <2> QED
    BY <2>1, <2>2
<1> HIDE DEF m, k, routes, raises, s
<1>7. \A z \in Scopes, x \in Ids :
        member'[z][x] = IF routes /\ z = inv.sub /\ x = id THEN [role |-> inv.role, key |-> None]
                        ELSE m[z][x]
  BY <1>1, <1>2, <1>3, <1>5 DEF MemberTable
<1>8. Fits(keys', member', banned, id)
  <2>1. member'[Top][id] = m[Top][id]
    BY <1>1, <1>3, <1>7, KeyFacts
  <2>2. ASSUME NEW z \in Scopes, m[z][id].role \in Writing PROVE member'[z][id].role \in Writing
    <3>1. CASE routes /\ z = inv.sub
      <4>1. m[z][id].role \in Role /\ m[z][id].role # None
        BY <1>1, <1>5, <2>2, NoneAssumption DEF MemberTable, Entry, Writing, RoleNames, Builtin
      <4>2. rankOf(m[z][id].role) < rankOf(inv.role)
        BY <1>3, <3>1, <4>1
      <4>3. inv.role \in Writing
        BY <1>1, <2>2, <4>1, <4>2, WritingUp
      <4> QED
        BY <1>1, <1>7, <3>1, <4>3
    <3>2. CASE ~ (routes /\ z = inv.sub)
      BY <1>1, <1>7, <2>2, <3>2
    <3> QED
      BY <3>1, <3>2
  <2> QED
    BY <1>1, <1>5, <1>6, <2>1, <2>2, FitsRaised
<1>9. \A z \in Scopes : member'[z][id].key # None => Person[member'[z][id].key] = id
  <2>1. \A z \in Scopes : m[z][id].key # None => Person[m[z][id].key] = id
    BY <1>1, <1>4, KeyFacts
  <2> QED
    BY <1>1, <1>7, <2>1
<1>10. \A z \in Scopes, x \in Ids \ {id} : member'[z][x] = member[z][x] /\ banned'[z][x] = banned[z][x]
  BY <1>2, <1>4, <1>7
<1>11. banned'[Top][id] # NoBan => member'[Top][id].role = None
  <2>1. member'[Top][id] = m[Top][id]
    BY <1>1, <1>3, <1>7, KeyFacts
  <2>2. CASE s = Top
    <3>1. chainOf(Top) = <<Top>> /\ DOMAIN <<Top>> = {1} /\ <<Top>>[1] = Top
      BY KeyFacts DEF ChainShape
    <3>2. banned[Top][id] = NoBan
      BY <1>2, <2>2, <3>1 DEF bannedIn
    <3> QED
      BY <1>2, <3>2
  <2>3. CASE s # Top
    <3>1. m[Top][id] = member[Top][id]
      BY <1>1, <1>4, <2>3, KeyFacts
    <3> QED
      BY <1>1, <1>2, <2>1, <3>1, KeyFacts
  <2> QED
    BY <2>2, <2>3
<1> QED
  BY <1>1, <1>2, <1>8, <1>9, <1>10, <1>11, KeyKept

\* A device's claim, and its removal.
LEMMA KeyDevices ==
    ASSUME KeyInv, GoneInv', NEW w \in Devices, NEW d \in Devices, WriterAdd(w, d) \/ DeviceRemove(w, d)
    PROVE  KeyInv'
<1> DEFINE id == Person[d]
<1>1. /\ id \in Ids /\ owner # None
      /\ UNCHANGED <<owner, space, member, banned>>
  BY PersonAssumption, SpeakerOwner
  DEF WriterAdd, DeviceRemove, KeyInv, GoneInv, personVars, spaceVars
<1>2. Fits(keys', member, banned, id)
  <2>1. CASE WriterAdd(w, d)
    <3>1. keys' = settle(addKey(keys, d), member, banned, id)
      BY <2>1 DEF WriterAdd
    <3> QED
      BY <1>1, <3>1, KeyFacts, SettledFits
  <2>2. CASE DeviceRemove(w, d) /\ ~ Speaks(d)
    <3>1. keys' = settle(keys, member, banned, id)
      BY <2>2 DEF DeviceRemove
    <3> QED
      BY <1>1, <3>1, KeyFacts, SettledFits
  <2>3. CASE DeviceRemove(w, d) /\ Speaks(d)
    <3> DEFINE k == forget(keys, d)
               r == settle(k, member, banned, id)
    <3>1. keys' = removeFromBase(r, d)
      BY <2>3 DEF DeviceRemove
    <3>2. /\ Following(k, {d}) /\ OneEach(k) /\ k \in Keys
          /\ \A x \in Ids \ {id} : k.list[x] = keys.list[x]
          /\ k.settler = keys.settler \ {d}
      <4>1. Sound(keys.list, gone) /\ Following(keys, {}) /\ OneEach(keys)
        BY DEF KeyInv, GoneInv
      <4>2. TypeOK /\ keys \in Keys
        BY KeyFacts
      <4>3. k \in Keys
        BY <4>2, KeysType
      <4>4. /\ Following(forget(keys, d), {d}) /\ OneEach(forget(keys, d))
            /\ \A x \in Ids : x # Person[d] => forget(keys, d).list[x] = keys.list[x]
            /\ forget(keys, d).settler = keys.settler \ {d}
        BY <4>1, <4>2, ForgetFollows
      <4> QED
        BY <4>3, <4>4
    <3> HIDE DEF k
    <3>3. Following(r, {d}) /\ OneEach(r) /\ r \in Keys
      BY <1>1, <3>2, KeyFacts, SettleFollows, SettleType
    <3>4. /\ RightSettlers(r, id, roleIn(member, banned, Top, id))
          /\ r.list[id] # <<>> => writesAnywhere(member, banned, id)
          /\ \A x \in Ids \ {id} :
                /\ r.list[x] = k.list[x]
                /\ \A e \in Devices : Person[e] = x => (e \in r.settler <=> e \in k.settler)
      BY <1>1, <3>2, KeyFacts, SettleRight
    <3>5. r.list[id] # <<>> => Strong(member, banned, id)
      BY <1>1, <3>4, KeyFacts, StrongWrites
    <3> HIDE DEF r
    <3>6. /\ Following(keys', {}) /\ OneEach(keys') /\ keys'.list = r.list /\ keys'.settler = r.settler
      BY <3>1, <3>3, RemoveFollows
    <3>7. RightSettlers(keys', id, roleIn(member, banned, Top, id))
      BY <3>4, <3>6 DEF RightSettlers
    <3> QED
      BY <3>2, <3>4, <3>5, <3>6, <3>7 DEF Fits
  <2> QED
    BY <2>1, <2>2, <2>3
<1> QED
  BY <1>1, <1>2, KeyFacts, KeyKept

\* A new sub-space's chain goes through its parent's.
LEMMA KeyCreate ==
    ASSUME KeyInv, GoneInv', NEW w \in Devices, NEW s \in Scopes, NEW x \in Subs, NEW p, NEW only,
           SubspaceCreate(w, s, x, p, only)
    PROVE  KeyInv'
<1> DEFINE c == chainOf(s)
           n == Len(c)
           new == <<x>> \o c
<1>1. /\ UNCHANGED <<owner, member, banned, keys>> /\ owner # None
      /\ IsScope(s) /\ ~ IsScope(x) /\ x \in Scopes /\ x # Top
      /\ space' = [space EXCEPT ![x] = [chain |-> <<x>> \o chainOf(s), private |-> p, writeRoles |-> only]]
  BY ScopeAssumption, SpeakerOwner
  DEF SubspaceCreate, May, Scopes, KeyInv, GoneInv, personVars, keyVars
<1>2. n \in Nat \ {0} /\ DOMAIN c = 1..n /\ c \in Seq(Scopes)
  BY <1>1, KeyFacts, ChainLen, ChainType
<1>3. /\ Len(new) = n + 1 /\ new[1] = x
      /\ \A i \in 2..(n + 1) : new[i] = c[i - 1]
  BY <1>2
<1>4. \A z \in Scopes : chainOf(z)' = IF z = x THEN new ELSE chainOf(z)
  BY <1>1, KeyFacts DEF chainOf, TypeOK
<1> HIDE DEF new
<1>5. ASSUME NEW z \in Scopes, NEW i \in 1..Len(chainOf(z)) PROVE chainOf(z)[i] \in Scopes \ {x}
  <2>1. chainOf(z) \in Seq(Scopes) /\ chainOf(z)[i] \in Scopes
    BY KeyFacts, ChainType
  <2>2. Len(chainOf(chainOf(z)[i])) = Len(chainOf(z)) - i + 1
    BY <2>1, KeyFacts DEF Suffixes
  <2>3. Len(chainOf(chainOf(z)[i])) > 0
    BY <2>1, <2>2
  <2>4. IsScope(chainOf(z)[i])
    BY <2>3 DEF IsScope
  <2> QED
    BY <1>1, <2>1, <2>4
<1>6. Suffixes'
  <2>1. ASSUME NEW z \in Scopes, IsScope(z)' PROVE chainOf(z)'[1] = z
    BY <1>1, <1>3, <1>4, <2>1, KeyFacts DEF Suffixes, IsScope
  <2>2. ASSUME NEW z \in Scopes, NEW t \in Scopes, NEW i \in 1..Len(chainOf(z)'), t = chainOf(z)'[i]
        PROVE  /\ Len(chainOf(t)') = Len(chainOf(z)') - i + 1
               /\ \A j \in 1..(Len(chainOf(z)') - i + 1) : chainOf(t)'[j] = chainOf(z)'[i + j - 1]
    <3>1. CASE z # x
      <4>1. chainOf(z)' = chainOf(z) /\ t # x
        BY <1>4, <1>5, <2>2, <3>1
      <4>2. chainOf(t)' = chainOf(t)
        BY <1>4, <4>1
      <4>3. i \in 1..Len(chainOf(z)) /\ t = chainOf(z)[i] /\ Suffixes
        BY <2>2, <4>1, KeyFacts
      <4>4. /\ Len(chainOf(t)) = Len(chainOf(z)) - i + 1
            /\ \A j \in 1..(Len(chainOf(z)) - i + 1) : chainOf(t)[j] = chainOf(z)[i + j - 1]
        BY <4>3 DEF Suffixes
      <4> QED
        BY <4>1, <4>2, <4>4
    <3>2. CASE z = x /\ i = 1
      <4>1. t = x /\ chainOf(z)' = new /\ chainOf(t)' = new
        BY <1>3, <1>4, <2>2, <3>2
      <4>2. n + 1 - 1 + 1 = n + 1 /\ \A j \in 1..(n + 1) : 1 + j - 1 = j
        BY <1>2
      <4> QED
        BY <1>3, <3>2, <4>1, <4>2
    <3>3. CASE z = x /\ i # 1
      <4>1. chainOf(z)' = new /\ i \in 2..(n + 1) /\ i - 1 \in 1..n
        BY <1>2, <1>3, <1>4, <2>2, <3>3
      <4>2. t = c[i - 1] /\ t # x
        BY <1>3, <1>5, <2>2, <4>1
      <4>3. chainOf(t)' = chainOf(t)
        BY <1>4, <4>2
      <4>4. /\ Len(chainOf(t)) = n - (i - 1) + 1
            /\ \A j \in 1..(n - (i - 1) + 1) : chainOf(t)[j] = c[(i - 1) + j - 1]
        BY <4>1, <4>2, KeyFacts DEF Suffixes
      <4>5. /\ n - (i - 1) + 1 = (n + 1) - i + 1
            /\ \A j \in 1..((n + 1) - i + 1) : /\ i + j - 1 \in 2..(n + 1)
                                               /\ (i - 1) + j - 1 = (i + j - 1) - 1
        BY <1>2, <4>1
      <4>6. \A j \in 1..((n + 1) - i + 1) : chainOf(t)[j] = new[i + j - 1]
        BY <1>3, <4>4, <4>5
      <4> QED
        BY <1>3, <4>1, <4>3, <4>4, <4>5, <4>6
    <3> QED
      BY <3>1, <3>2, <3>3
  <2> QED
    BY <2>1, <2>2 DEF Suffixes
<1>7. EntryKeys' /\ BannedOut' /\ BaseBefore'
  BY <1>1 DEF KeyInv, EntryKeys, BannedOut, BaseBefore
<1>8. \A id \in Ids : roleOf(Top, id)' = roleOf(Top, id)
  <2>1. (TypeOK /\ ChainShape =>
            /\ IsScope(Top)
            /\ \A id \in Ids :
                  roleOf(Top, id) = IF banned[Top][id] # NoBan THEN None ELSE member[Top][id].role)'
    BY TopRoleNow, PTL
  <2>2. TypeOK' /\ ChainShape'
    BY DEF GoneInv, OwnerInv
  <2> QED
    BY <1>1, <2>1, <2>2, KeyFacts
<1>9. ASSUME NEW id \in Ids, keys'.list[id] # <<>> PROVE Strong(member, banned, id)'
  <2>1. PICK z \in Scopes : IsScope(z) /\ ~ bannedIn(banned, z, id) /\ member[z][id].role \in Writing
    BY <1>1, <1>9 DEF KeyInv, Strong
  <2>2. chainOf(z)' = chainOf(z)
    BY <1>1, <1>4, <2>1
  <2>3. IsScope(z)' /\ ~ bannedIn(banned, z, id)' /\ member'[z][id].role \in Writing
    BY <1>1, <2>1, <2>2 DEF IsScope, bannedIn
  <2> QED
    BY <2>3 DEF Strong
<1>10. Following(keys', {}) /\ OneEach(keys')
  BY <1>1 DEF KeyInv
<1>11. \A id \in Ids : RightSettlers(keys', id, roleOf(Top, id)')
  BY <1>1, <1>8, KeyFacts
<1> QED
  BY <1>6, <1>7, <1>9, <1>10, <1>11 DEF KeyInv

\* Nothing of it depends on the other variables.
LEMMA KeySame ==
    ASSUME KeyInv, GoneInv', UNCHANGED <<owner, member, banned, space, keys>>
    PROVE  KeyInv'
<1>1. \A s \in Scopes : chainOf(s)' = chainOf(s)
  BY DEF chainOf
<1>2. Suffixes'
  BY <1>1, SuffixesSame DEF KeyInv
<1>3. EntryKeys' /\ BannedOut' /\ BaseBefore'
  BY DEF KeyInv, EntryKeys, BannedOut, BaseBefore
<1>4. \A id \in Ids : roleOf(Top, id)' = roleOf(Top, id)
  BY DEF roleOf, roleIn, memberIn, bannedIn, Counts, chainOf
<1>5. \A id \in Ids : RightSettlers(keys', id, roleOf(Top, id)')
  BY <1>4, KeyFacts
<1>6. \A id \in Ids : keys'.list[id] # <<>> => Strong(member, banned, id)'
  BY DEF KeyInv, Strong, IsScope, bannedIn, chainOf
<1>7. Following(keys', {}) /\ OneEach(keys')
  BY DEF KeyInv
<1> QED
  BY <1>2, <1>3, <1>5, <1>6, <1>7 DEF KeyInv

\* Every decision keeps keys and roles in step.
LEMMA KeyStep == KeyInv /\ [Next]_memberVars => KeyInv'
<1> SUFFICES ASSUME KeyInv, [Next]_memberVars PROVE KeyInv'
  OBVIOUS
<1>1. GoneInv'
  BY GoneStep DEF KeyInv
<1>2. UNCHANGED <<owner, member, banned, space, keys>> => KeyInv'
  BY <1>1, KeySame
<1>3. CASE UNCHANGED memberVars
  BY <1>2, <1>3 DEF memberVars, personVars, spaceVars, keyVars
<1>4. CASE \E p \in Privacy : SpaceInit(p)
  BY <1>1, <1>4, KeySpaceInit
<1>5. ASSUME NEW w \in Devices,
             \/ \E name \in CustomRoles, perms \in DefinedPerms : RoleDefine(w, name, perms)
             \/ \E s \in Scopes, id \in Ids, c \in Cuts : BanAgain(w, s, id, c)
             \/ \E inv \in Invites : InviteRevoke(w, inv)
      PROVE  KeyInv'
  BY <1>2, <1>5 DEF RoleDefine, BanAgain, InviteRevoke, personVars, spaceVars, keyVars
<1>6. ASSUME NEW w \in Devices, NEW d \in Removable, DeviceRemove(w, d) PROVE KeyInv'
  BY <1>1, <1>6, KeyDevices, InputAssumption
<1>7. ASSUME NEW w \in Devices, NEW d \in Devices, WriterAdd(w, d) PROVE KeyInv'
  BY <1>1, <1>7, KeyDevices
<1>8. ASSUME NEW w \in Devices,
             \/ \E id \in Ids : MemberAdd(w, id)
             \/ \E s \in Scopes, id \in Ids, c \in Cuts : MemberRemove(w, s, id, c)
             \/ \E s \in Scopes, id \in Ids : Unban(w, s, id)
      PROVE  KeyInv'
  BY <1>1, <1>8, KeyAdd, KeyRemove, KeyUnban
<1>9. ASSUME NEW w \in Devices,
             \/ \E s \in Scopes, id \in Ids, role \in AssignedRoles, c \in Cuts :
                    RoleSet(w, s, id, role, c)
             \/ \E s \in Scopes, id \in Ids, c \in Cuts, drop \in Drops : BanMember(w, s, id, c, drop)
      PROVE  KeyInv'
  BY <1>1, <1>9, KeyRole, KeyBan
<1>10. ASSUME NEW w \in Devices,
              \/ \E inv \in Invites, d \in Devices : InviteRedeem(w, inv, d)
              \/ \E s \in Scopes, x \in Subs, p \in Privacy, only \in WriteRoles :
                    SubspaceCreate(w, s, x, p, only)
       PROVE  KeyInv'
  BY <1>1, <1>10, KeyRedeem, KeyCreate
<1> QED
  BY <1>3, <1>4, <1>5, <1>6, <1>7, <1>8, <1>9, <1>10 DEF Next

\* Keys and roles are always in step.
LEMMA KeySafe == Spec => []KeyInv
BY KeyInit, KeyStep, PTL DEF Spec

\* A device speaks for someone only while they may decide or moderate
\* somewhere, however roles, bans and sub-spaces come and go.
THEOREM SpeakersSafe == Spec => []SpeakersMayWrite
BY KeySafe, KeyInvSpeakers, PTL

\* Each member who decides has one settler as soon as a device speaks for
\* them, and nobody else has one.
THEOREM SettlersSafe == Spec => []OneSettlerPerDecider
BY KeySafe, KeyInvSettlers, PTL

\* Autobase's writers and settlers follow the view's, but for one settler it
\* had no other in place of.
THEOREM BaseSafe == Spec => []BaseFollowsView
BY KeySafe, KeyInvBase, PTL

-----------------------------------------------------------------------------
(* Ranks.  What tables m and b give id in s, as a number.                  *)

rankIn(m, b, s, id) == IF roleIn(m, b, s, id) = None THEN 0 ELSE rankOf(roleIn(m, b, s, id))

\* Ranks are small numbers; no role has rank 0, and only the owner's has 5.
LEMMA RankNumbers ==
    /\ \A role \in RoleNames : rankOf(role) \in 1..5 /\ (rankOf(role) = 5 => role = "owner")
    /\ rankOf("owner") = 5 /\ rankOf("admin") = 4
<1>1. ASSUME NEW role \in RoleNames PROVE rankOf(role) \in 1..5 /\ (rankOf(role) = 5 => role = "owner")
  BY DEF rankOf, RANK, Builtin, CUSTOM_RANK
<1>2. rankOf("owner") = 5 /\ rankOf("admin") = 4
  BY DEF rankOf, RANK, Builtin
<1> QED
  BY <1>1, <1>2

\* The entry that counts is one, the nearest.
LEMMA RoleCounts ==
    ASSUME TypeOK, NEW m \in MemberTable, NEW b, NEW s \in Scopes, NEW id \in Ids
    PROVE  /\ \A i \in DOMAIN chainOf(s) :
                ~ bannedIn(b, s, id) /\ Counts(m, s, id, i)
                    => roleIn(m, b, s, id) = m[chainOf(s)[i]][id].role
           /\ roleIn(m, b, s, id) # None =>
                /\ ~ bannedIn(b, s, id)
                /\ \E i \in DOMAIN chainOf(s) :
                      Counts(m, s, id, i) /\ roleIn(m, b, s, id) = m[chainOf(s)[i]][id].role
           /\ roleIn(m, b, s, id) \in Role
<1> DEFINE c == chainOf(s)
           at == CHOOSE i \in DOMAIN c : Counts(m, s, id, i)
<1>1. c \in Seq(Scopes) /\ DOMAIN c = 1..Len(c) /\ Len(c) \in Nat
  BY ChainType
<1>2. \A i, j \in DOMAIN c : Counts(m, s, id, i) /\ Counts(m, s, id, j) => ~ (i < j)
  <2> SUFFICES ASSUME NEW i \in 1..Len(c), NEW j \in 1..Len(c),
                      Counts(m, s, id, i), Counts(m, s, id, j), i < j
               PROVE  FALSE
    BY <1>1
  <2>1. i \in 1..(j - 1)
    BY <1>1
  <2> QED
    BY <2>1 DEF Counts
<1>3. \A i, j \in DOMAIN c : Counts(m, s, id, i) /\ Counts(m, s, id, j) => i = j
  <2>1. \A i, j \in DOMAIN c : i = j \/ i < j \/ j < i
    BY <1>1
  <2> QED
    BY <1>2, <2>1
<1>4. ASSUME ~ bannedIn(b, s, id), NEW i \in DOMAIN c, Counts(m, s, id, i)
      PROVE  roleIn(m, b, s, id) = m[c[i]][id].role
  <2>1. at = i
    BY <1>3, <1>4
  <2> QED
    BY <1>4, <2>1 DEF roleIn, memberIn
<1>5. ASSUME roleIn(m, b, s, id) # None
      PROVE  /\ ~ bannedIn(b, s, id)
             /\ \E i \in DOMAIN c :
                   Counts(m, s, id, i) /\ roleIn(m, b, s, id) = m[c[i]][id].role
  <2>1. ~ bannedIn(b, s, id) /\ \E i \in DOMAIN c : Counts(m, s, id, i)
    BY <1>5 DEF roleIn, memberIn, NoEntry
  <2> QED
    BY <1>4, <2>1
<1>6. roleIn(m, b, s, id) \in Role
  BY MemberInType DEF roleIn, Entry
<1> QED
  BY <1>4, <1>5, <1>6

\* Ranks are numbers.
LEMMA RankType ==
    ASSUME TypeOK, NEW m \in MemberTable, NEW b, NEW s \in Scopes, NEW id \in Ids
    PROVE  /\ rankIn(m, b, s, id) \in 0..5
           /\ roleIn(m, b, s, id) # None => rankIn(m, b, s, id) = rankOf(roleIn(m, b, s, id))
           /\ roleIn(m, b, s, id) # None <=> rankIn(m, b, s, id) > 0
<1>1. roleIn(m, b, s, id) \in Role
  BY RoleCounts
<1> QED
  BY <1>1, RankNumbers DEF rankIn, Role

\* Only the entries and bans of the scopes on its chain matter in a scope.
LEMMA RoleElsewhere ==
    ASSUME TypeOK, NEW m \in MemberTable, NEW n \in MemberTable, NEW b, NEW a,
           NEW s \in Scopes, NEW id \in Ids,
           \A i \in DOMAIN chainOf(s) : /\ m[chainOf(s)[i]][id].role = n[chainOf(s)[i]][id].role
                                        /\ b[chainOf(s)[i]][id] = a[chainOf(s)[i]][id]
    PROVE  roleIn(m, b, s, id) = roleIn(n, a, s, id)
<1> DEFINE c == chainOf(s)
<1>1. bannedIn(b, s, id) <=> bannedIn(a, s, id)
  BY DEF bannedIn
<1>2. c \in Seq(Scopes) /\ DOMAIN c = 1..Len(c) /\ Len(c) \in Nat
  BY ChainType
<1>3. \A i \in DOMAIN c : Counts(m, s, id, i) <=> Counts(n, s, id, i)
  <2> SUFFICES ASSUME NEW i \in DOMAIN c PROVE Counts(m, s, id, i) <=> Counts(n, s, id, i)
    OBVIOUS
  <2>1. \A j \in 1..(i - 1) : j \in DOMAIN c
    BY <1>2
  <2> QED
    BY <2>1 DEF Counts
<1>4. CASE ~ bannedIn(b, s, id) /\ \E i \in DOMAIN c : Counts(m, s, id, i)
  <2>1. PICK i \in DOMAIN c : Counts(m, s, id, i)
    BY <1>4
  <2>2. roleIn(m, b, s, id) = m[c[i]][id].role
    BY <1>4, <2>1, RoleCounts
  <2>3. roleIn(n, a, s, id) = n[c[i]][id].role
    BY <1>1, <1>3, <1>4, <2>1, RoleCounts
  <2> QED
    BY <2>2, <2>3
<1>5. CASE ~ (~ bannedIn(b, s, id) /\ \E i \in DOMAIN c : Counts(m, s, id, i))
  <2>1. roleIn(m, b, s, id) = None
    BY <1>5, RoleCounts
  <2>2. roleIn(n, a, s, id) = None
    BY <1>1, <1>3, <1>5, RoleCounts
  <2> QED
    BY <2>1, <2>2
<1> QED
  BY <1>4, <1>5

\* An entry that counts in a scope beyond one of its chain counts there too,
\* and a chain goes through a scope once.
LEMMA CountsAbove ==
    ASSUME TypeOK, Suffixes, NEW m \in MemberTable, NEW b, NEW s \in Scopes, NEW id \in Ids,
           NEW i \in DOMAIN chainOf(s), NEW q \in 1..i,
           ~ bannedIn(b, s, id), Counts(m, s, id, i)
    PROVE  /\ roleIn(m, b, chainOf(s)[q], id) = m[chainOf(s)[i]][id].role
           /\ \A j \in 1..Len(chainOf(s)) : chainOf(s)[j] = chainOf(s)[q] => j = q
<1> DEFINE c == chainOf(s)
           l == Len(c)
           t == c[q]
           u == chainOf(t)
<1>1. c \in Seq(Scopes) /\ DOMAIN c = 1..l /\ l \in Nat
  BY ChainType
<1>2. q \in 1..l /\ i \in 1..l /\ t \in Scopes
  BY <1>1
<1>3. Len(u) = l - q + 1 /\ \A j \in 1..(l - q + 1) : u[j] = c[q + j - 1]
  BY <1>2 DEF Suffixes
<1>4. \A j \in 1..l : c[j] = t => j = q
  <2> SUFFICES ASSUME NEW j \in 1..l, c[j] = t PROVE j = q
    OBVIOUS
  <2>1. Len(u) = l - j + 1
    BY <1>2 DEF Suffixes
  <2> QED
    BY <1>1, <1>2, <1>3, <2>1
<1>5. u \in Seq(Scopes) /\ DOMAIN u = 1..(l - q + 1)
  BY <1>2, <1>3, ChainType
<1>6. ~ bannedIn(b, t, id)
  <2> SUFFICES ASSUME NEW j \in 1..(l - q + 1), b[u[j]][id] # NoBan PROVE FALSE
    BY <1>5 DEF bannedIn
  <2>1. q + j - 1 \in 1..l
    BY <1>1, <1>2
  <2>2. b[c[q + j - 1]][id] # NoBan
    BY <1>3
  <2> QED
    BY <1>1, <2>1, <2>2 DEF bannedIn
<1> DEFINE p == i - q + 1
<1>7. p \in 1..(l - q + 1) /\ q + p - 1 = i /\ u[p] = c[i]
  <2>1. p \in 1..(l - q + 1) /\ q + p - 1 = i
    <3> HIDE DEF l
    <3> QED
      BY <1>1, <1>2
  <2>2. u[p] = c[q + p - 1]
    <3> HIDE DEF p, u, c, l
    <3> QED
      BY <1>3, <2>1
  <2> QED
    BY <2>1, <2>2
<1>8. Counts(m, t, id, p)
  <2>1. ASSUME NEW j \in 1..(p - 1)
        PROVE  m[u[j]][id].role = None
               /\ (space[u[j]].private => m[c[i]][id].role \in {"owner", "admin"})
    <3>1. q + j - 1 \in 1..(i - 1) /\ j \in 1..(l - q + 1)
      BY <1>1, <1>2
    <3>2. u[j] = c[q + j - 1]
      BY <1>3, <3>1
    <3> QED
      BY <3>1, <3>2 DEF Counts
  <2>2. m[c[i]][id].role # None
    BY DEF Counts
  <2> QED
    BY <1>5, <1>7, <2>1, <2>2 DEF Counts
<1>9. roleIn(m, b, t, id) = m[u[p]][id].role
  <2>1. p \in DOMAIN chainOf(t)
    BY <1>5, <1>7
  <2> HIDE DEF p, t
  <2> QED
    BY <1>2, <1>6, <1>8, <2>1, RoleCounts
<1> QED
  BY <1>4, <1>7, <1>9

\* A role above what someone has in a scope, or given to someone who has none
\* there, takes nothing from them anywhere: below the scope, what came from
\* above it came through no private sub-space that the new role does not.
LEMMA RaiseNoLower ==
    ASSUME TypeOK, Suffixes, NEW m \in MemberTable, NEW n \in MemberTable, NEW b,
           NEW t \in Scopes, NEW id \in Ids, NEW role \in RoleNames, role # "owner",
           roleIn(m, b, t, id) = None \/ rankOf(roleIn(m, b, t, id)) < rankOf(role),
           \A z \in Scopes : n[z][id].role = IF z = t THEN role ELSE m[z][id].role,
           NEW s \in Scopes
    PROVE  rankIn(m, b, s, id) <= rankIn(n, b, s, id)
<1> DEFINE c == chainOf(s)
<1>1. c \in Seq(Scopes) /\ DOMAIN c = 1..Len(c) /\ Len(c) \in Nat
  BY ChainType
<1>2. /\ rankIn(m, b, s, id) \in 0..5 /\ rankIn(n, b, s, id) \in 0..5
  BY RankType
<1>3. CASE roleIn(m, b, s, id) = None
  BY <1>2, <1>3 DEF rankIn
<1>4. CASE roleIn(m, b, s, id) # None
  <2>1. ~ bannedIn(b, s, id)
    BY <1>4, RoleCounts
  <2>2. PICK i \in DOMAIN c : Counts(m, s, id, i) /\ roleIn(m, b, s, id) = m[c[i]][id].role
    BY <1>4, RoleCounts
  <2> DEFINE e == m[c[i]][id].role
  <2>3. i \in 1..Len(c) /\ \A j \in 1..i : j \in 1..Len(c) /\ c[j] \in Scopes
    BY <1>1
  <2>4. /\ e # None
        /\ \A j \in 1..(i - 1) : /\ m[c[j]][id].role = None
                                 /\ space[c[j]].private => e \in {"owner", "admin"}
    BY <2>2 DEF Counts
  <2>5. e \in RoleNames
    BY <1>4, <2>2, RoleCounts DEF Role
  <2>6. CASE \A q \in 1..i : c[q] # t
    <3>1. i \in 1..i /\ \A j \in 1..(i - 1) : j \in 1..i
      BY <2>3
    <3>2. n[c[i]][id].role = e /\ \A j \in 1..(i - 1) : n[c[j]][id].role = m[c[j]][id].role
      BY <2>3, <2>6, <3>1
    <3>3. Counts(n, s, id, i)
      BY <2>4, <3>2 DEF Counts
    <3>4. roleIn(n, b, s, id) = e
      BY <2>1, <3>2, <3>3, RoleCounts
    <3>5. rankIn(n, b, s, id) = rankIn(m, b, s, id)
      BY <2>2, <3>4 DEF rankIn
    <3> QED
      BY <1>2, <3>5
  <2>7. ASSUME NEW q \in 1..i, c[q] = t PROVE rankIn(m, b, s, id) <= rankIn(n, b, s, id)
    <3>1. roleIn(m, b, t, id) = e /\ \A j \in 1..Len(c) : c[j] = t => j = q
      BY <2>1, <2>2, <2>7, CountsAbove
    <3>2. rankOf(e) < rankOf(role)
      BY <2>4, <3>1
    <3>3. e \notin {"owner", "admin"}
      <4>1. rankOf(role) \in 1..5 /\ rankOf(role) # 5
        BY RankNumbers
      <4> QED
        BY <3>2, <4>1, RankNumbers
    <3>4. ASSUME NEW j \in 1..(q - 1)
          PROVE  n[c[j]][id].role = None /\ ~ space[c[j]].private
      <4>1. j \in 1..(i - 1) /\ j \in 1..Len(c) /\ j # q
        BY <1>1, <2>3
      <4>2. c[j] \in Scopes /\ c[j] # t
        BY <1>1, <3>1, <4>1
      <4> QED
        BY <2>4, <3>3, <4>1, <4>2
    <3>5. n[t][id].role = role /\ role # None
      BY NoneAssumption
    <3>6. q \in DOMAIN c
      BY <1>1, <2>3
    <3>7. Counts(n, s, id, q)
      BY <2>7, <3>4, <3>5, <3>6 DEF Counts
    <3>8. roleIn(n, b, s, id) = role
      BY <2>1, <2>7, <3>5, <3>6, <3>7, RoleCounts
    <3>9. rankIn(n, b, s, id) = rankOf(role) /\ rankIn(m, b, s, id) = rankOf(e)
      BY <1>4, <2>2, <3>5, <3>8 DEF rankIn
    <3>10. rankOf(e) \in 1..5 /\ rankOf(role) \in 1..5
      BY <2>5, RankNumbers
    <3> QED
      BY <3>2, <3>9, <3>10
  <2> QED
    BY <2>6, <2>7
<1> QED
  BY <1>3, <1>4

-----------------------------------------------------------------------------
(* No decision raises who it rests on, nor lowers anyone who is not        *)
(* outranked by them.                                                      *)

\* What a step does to people's ranks.
RanksKept ==
    \A s \in Scopes, id \in Ids :
        /\ IsScope(s) /\ owner # None /\ id = by' => rankAt(s, id)' <= rankAt(s, id)
        /\ rankAt(s, id)' < rankAt(s, id) =>
            \E i \in DOMAIN chainOf(s) : \/ by' = owner
                                         \/ rankAt(chainOf(s)[i], by') > rankAt(chainOf(s)[i], id)

\* The rank by the tables as they are, and by those after a step that makes
\* no sub-space.
LEMMA RankNow ==
    ASSUME KeyInv, UNCHANGED space
    PROVE  \A s \in Scopes, id \in Ids :
              /\ rankAt(s, id) = rankIn(member, banned, s, id)
              /\ rankAt(s, id)' = rankIn(member', banned', s, id)
              /\ rankAt(s, id) \in 0..5
              /\ rankAt(s, id) > 0 <=> roleOf(s, id) # None
              /\ rankAt(s, id) > 0 => rankAt(s, id) = rankOf(roleOf(s, id))
<1> TAKE s \in Scopes, id \in Ids
<1>1. rankAt(s, id) = rankIn(member, banned, s, id)
  BY DEF rankAt, rankIn, roleOf
<1>2. rankAt(s, id)' = rankIn(member', banned', s, id)
  BY DEF rankAt, rankIn, roleOf, roleIn, memberIn, bannedIn, Counts, chainOf
<1>3. rankIn(member, banned, s, id) \in 0..5 /\ roleOf(s, id) = roleIn(member, banned, s, id)
  BY KeyFacts, RankType DEF roleOf
<1>4. (rankAt(s, id) > 0) <=> (roleOf(s, id) # None)
  BY <1>1, <1>3, KeyFacts, RankType
<1>5. rankAt(s, id) > 0 => rankAt(s, id) = rankOf(roleOf(s, id))
  BY <1>1, <1>3, <1>4, KeyFacts, RankType
<1> QED
  BY <1>1, <1>2, <1>3, <1>4, <1>5

\* A step that changes what one person has, and keeps the rule for them, keeps
\* it for everyone.
LEMMA RanksOfOne ==
    ASSUME KeyInv, UNCHANGED <<owner, space>>, NEW id \in Ids, member' \in MemberTable,
           \A z \in Scopes, x \in Ids \ {id} :
                member'[z][x].role = member[z][x].role /\ banned'[z][x] = banned[z][x],
           \A s \in Scopes :
                /\ id = by' => rankIn(member', banned', s, id) <= rankIn(member, banned, s, id)
                /\ rankIn(member', banned', s, id) < rankIn(member, banned, s, id) =>
                     \E i \in DOMAIN chainOf(s) :
                        \/ by' = owner
                        \/ rankAt(chainOf(s)[i], by') > rankAt(chainOf(s)[i], id)
    PROVE  RanksKept
<1> SUFFICES ASSUME NEW s \in Scopes, NEW x \in Ids
             PROVE  /\ x = by' => rankAt(s, x)' <= rankAt(s, x)
                    /\ rankAt(s, x)' < rankAt(s, x) =>
                         \E i \in DOMAIN chainOf(s) :
                            \/ by' = owner
                            \/ rankAt(chainOf(s)[i], by') > rankAt(chainOf(s)[i], x)
  BY DEF RanksKept
<1>1. /\ rankAt(s, x) = rankIn(member, banned, s, x)
      /\ rankAt(s, x)' = rankIn(member', banned', s, x)
      /\ rankAt(s, x) \in 0..5
  BY RankNow
<1>2. CASE x = id
  BY <1>1, <1>2
<1>3. CASE x # id
  <2>1. \A i \in DOMAIN chainOf(s) : chainOf(s)[i] \in Scopes
    BY KeyFacts, ChainType
  <2>2. roleIn(member, banned, s, x) = roleIn(member', banned', s, x)
    <3>1. \A i \in DOMAIN chainOf(s) : /\ member[chainOf(s)[i]][x].role = member'[chainOf(s)[i]][x].role
                                       /\ banned[chainOf(s)[i]][x] = banned'[chainOf(s)[i]][x]
      BY <1>3, <2>1
    <3>2. TypeOK /\ member \in MemberTable
      BY KeyFacts
    <3> QED
      BY <3>1, <3>2, RoleElsewhere
  <2>3. rankAt(s, x)' = rankAt(s, x)
    BY <1>1, <2>2 DEF rankIn
  <2> QED
    BY <1>1, <2>3
<1> QED
  BY <1>2, <1>3

\* The author of a decision about someone in a scope outranks them there, or
\* is the owner: it is not about themselves, and what it takes from them, in
\* that scope or below it, someone above them took.
LEMMA RanksOutranked ==
    ASSUME KeyInv, UNCHANGED <<owner, space>>, owner # None, NEW t \in Scopes, IsScope(t),
           NEW id \in Ids, member' \in MemberTable, by' \in Ids,
           \/ by' = owner /\ roleOf(t, id) # "owner"
           \/ rankAt(t, by') > rankAt(t, id),
           \A z \in Scopes, x \in Ids :
                (z # t /\ ~ below(z, t)) \/ x # id =>
                    member'[z][x].role = member[z][x].role /\ banned'[z][x] = banned[z][x]
    PROVE  RanksKept
<1>1. id # by'
  <2>1. CASE by' = owner /\ roleOf(t, id) # "owner"
    BY <2>1, OwnerRole DEF KeyInv, GoneInv
  <2>2. CASE rankAt(t, by') > rankAt(t, id)
    <3>1. rankAt(t, id) \in 0..5
      BY RankNow
    <3> QED
      BY <2>2, <3>1
  <2> QED
    BY <2>1, <2>2
<1>2. ASSUME NEW s \in Scopes, rankIn(member', banned', s, id) < rankIn(member, banned, s, id)
      PROVE  \E i \in DOMAIN chainOf(s) :
                \/ by' = owner
                \/ rankAt(chainOf(s)[i], by') > rankAt(chainOf(s)[i], id)
  <2>1. \A i \in DOMAIN chainOf(s) : chainOf(s)[i] \in Scopes
    BY KeyFacts, ChainType
  <2>2. ~ \A i \in DOMAIN chainOf(s) : /\ member[chainOf(s)[i]][id].role = member'[chainOf(s)[i]][id].role
                                       /\ banned[chainOf(s)[i]][id] = banned'[chainOf(s)[i]][id]
    <3> SUFFICES ASSUME \A i \in DOMAIN chainOf(s) :
                            /\ member[chainOf(s)[i]][id].role = member'[chainOf(s)[i]][id].role
                            /\ banned[chainOf(s)[i]][id] = banned'[chainOf(s)[i]][id]
                 PROVE  FALSE
      OBVIOUS
    <3>1. roleIn(member, banned, s, id) = roleIn(member', banned', s, id)
      <4>1. TypeOK /\ member \in MemberTable
        BY KeyFacts
      <4> QED
        BY <4>1, RoleElsewhere
    <3>2. rankIn(member', banned', s, id) = rankIn(member, banned, s, id)
      BY <3>1 DEF rankIn
    <3>3. rankIn(member, banned, s, id) \in 0..5
      BY KeyFacts, RankType
    <3> QED
      BY <1>2, <3>2, <3>3
  <2>3. PICK i \in DOMAIN chainOf(s) : chainOf(s)[i] = t \/ below(chainOf(s)[i], t)
    BY <2>1, <2>2
  <2>4. \E q \in DOMAIN chainOf(s) : chainOf(s)[q] = t
    <3>1. CASE chainOf(s)[i] = t
      BY <3>1
    <3>2. CASE below(chainOf(s)[i], t)
      <4> DEFINE z == chainOf(s)[i]
      <4>1. PICK j \in 2..Len(chainOf(z)) : chainOf(z)[j] = t
        BY <3>2 DEF below
      <4>2. /\ i \in 1..Len(chainOf(s)) /\ DOMAIN chainOf(s) = 1..Len(chainOf(s))
            /\ Len(chainOf(s)) \in Nat /\ z \in Scopes
        BY <2>1, KeyFacts, ChainType
      <4>3. /\ Len(chainOf(z)) = Len(chainOf(s)) - i + 1
            /\ \A k \in 1..(Len(chainOf(s)) - i + 1) : chainOf(z)[k] = chainOf(s)[i + k - 1]
        BY <4>2, KeyFacts DEF Suffixes
      <4> HIDE DEF z
      <4>4. j \in 1..(Len(chainOf(s)) - i + 1) /\ i + j - 1 \in 1..Len(chainOf(s))
        BY <4>1, <4>2, <4>3
      <4> QED
        BY <4>1, <4>2, <4>3, <4>4
    <3> QED
      BY <2>3, <3>1, <3>2
  <2> QED
    BY <2>4
<1>3. \A z \in Scopes, x \in Ids \ {id} :
        member'[z][x].role = member[z][x].role /\ banned'[z][x] = banned[z][x]
  OBVIOUS
<1> QED
  BY <1>1, <1>2, <1>3, RanksOfOne

\* The author of a decision about a scope has a role in it, in a scope there is.
LEMMA AuthorRanks ==
    ASSUME KeyInv, UNCHANGED space, NEW w \in Devices, NEW s \in Scopes, Speaks(w), IsScope(s),
           NEW permission, can(Author(w, s), permission, roles)
    PROVE  /\ owner # None /\ Person[w] \in Ids /\ rankAt(s, Person[w]) \in 1..5
           /\ rankAt(s, Person[w]) = rankOf(Author(w, s))
           /\ (Author(w, s) = "owner") <=> (Person[w] = owner)
<1>1. owner # None /\ Person[w] \in Ids
  BY SpeakerOwner, PersonAssumption DEF KeyInv, GoneInv
<1>2. Author(w, s) # None
  BY NoneAssumption, CustomAssumption DEF can, permissionsOf, IsRole, RoleNames, Builtin
<1>3. (Author(w, s) = "owner") <=> (Person[w] = owner)
  BY <1>1, OwnerRole DEF Author, KeyInv, GoneInv
<1>4. rankAt(s, Person[w]) \in 0..5 /\ rankAt(s, Person[w]) > 0
  BY <1>1, <1>2, RankNow DEF Author
<1>5. rankAt(s, Person[w]) = rankOf(Author(w, s))
  BY <1>1, <1>4, RankNow DEF Author
<1> QED
  BY <1>1, <1>3, <1>4, <1>5

\* Removed, given a role or banned: the author outranks them in that scope.
LEMMA RanksDecided ==
    ASSUME KeyInv, KeyInv', NEW w \in Devices, NEW s \in Scopes, NEW id \in Ids
    PROVE  /\ \A c : MemberRemove(w, s, id, c) => RanksKept
           /\ \A role, c : RoleSet(w, s, id, role, c) => RanksKept
           /\ \A c, drop : BanMember(w, s, id, c, drop) => RanksKept
<1>1. member' \in MemberTable
  BY DEF KeyInv, GoneInv, OwnerInv, TypeOK, MemberTable
<1>2. ASSUME UNCHANGED <<owner, space>>, by' = Person[w], Speaks(w), IsScope(s),
             NEW permission, can(Author(w, s), permission, roles), roleOf(s, id) # "owner",
             Author(w, s) = "owner" \/ roleOf(s, id) = None \/ rankOf(roleOf(s, id)) < rankOf(Author(w, s)),
             \A z \in Scopes, x \in Ids :
                (z # s /\ ~ below(z, s)) \/ x # id =>
                    member'[z][x].role = member[z][x].role /\ banned'[z][x] = banned[z][x]
      PROVE  RanksKept
  <2>1. /\ owner # None /\ by' \in Ids /\ rankAt(s, by') \in 1..5
        /\ rankAt(s, by') = rankOf(Author(w, s))
        /\ (Author(w, s) = "owner") <=> (by' = owner)
    BY <1>2, AuthorRanks
  <2>2. /\ rankAt(s, id) \in 0..5
        /\ (rankAt(s, id) > 0) <=> (roleOf(s, id) # None)
        /\ rankAt(s, id) > 0 => rankAt(s, id) = rankOf(roleOf(s, id))
    BY <1>2, RankNow
  <2>3. by' = owner \/ rankAt(s, by') > rankAt(s, id)
    BY <1>2, <2>1, <2>2
  <2> QED
    BY <1>1, <1>2, <2>1, <2>3, RanksOutranked
<1>3. ASSUME NEW c, MemberRemove(w, s, id, c) PROVE RanksKept
  <2>1. /\ UNCHANGED <<owner, space, banned>> /\ by' = Person[w] /\ Speaks(w) /\ IsScope(s)
        /\ mayRemove(Author(w, s), roleOf(s, id), "decide", roles)
        /\ member' = dropBelow([member EXCEPT ![s][id] = NoEntry], s, id)
    BY <1>3 DEF MemberRemove, spaceVars
  <2>2. \A z \in Scopes, x \in Ids : (z # s /\ ~ below(z, s)) \/ x # id => member'[z][x] = member[z][x]
    BY <2>1, KeyFacts DEF dropBelow, MemberTable
  <2> QED
    BY <1>2, <2>1, <2>2 DEF mayRemove
<1>4. ASSUME NEW role, NEW c, RoleSet(w, s, id, role, c) PROVE RanksKept
  <2>1. /\ UNCHANGED <<owner, space, banned>> /\ by' = Person[w] /\ Speaks(w) /\ IsScope(s)
        /\ mayAssign(Author(w, s), roleOf(s, id), role, roles)
        /\ \E e : member' = [member EXCEPT ![s][id] = e]
    BY <1>4 DEF RoleSet, spaceVars, roleOf, roleIn
  <2>2. \A z \in Scopes, x \in Ids : z # s \/ x # id => member'[z][x] = member[z][x]
    BY <2>1, KeyFacts DEF MemberTable
  <2> QED
    BY <1>2, <2>1, <2>2 DEF mayAssign
<1>5. ASSUME NEW c, NEW drop, BanMember(w, s, id, c, drop) PROVE RanksKept
  <2>1. /\ UNCHANGED <<owner, space>> /\ by' = Person[w] /\ Speaks(w) /\ IsScope(s)
        /\ mayRemove(Author(w, s), roleOf(s, id), "moderate", roles)
        /\ member' = member \/ member' = [member EXCEPT ![s][id] = NoEntry]
        /\ \E e : banned' = [banned EXCEPT ![s][id] = e]
    BY <1>5 DEF BanMember, May, spaceVars
  <2>2. \A z \in Scopes, x \in Ids :
            z # s \/ x # id => member'[z][x] = member[z][x] /\ banned'[z][x] = banned[z][x]
    BY <2>1, KeyFacts DEF MemberTable, BanTable
  <2> QED
    BY <1>2, <2>1, <2>2 DEF mayRemove
<1> QED
  BY <1>3, <1>4, <1>5

\* Let in with the role of a member, by someone who has a role already.
LEMMA RanksAdd ==
    ASSUME KeyInv, KeyInv', NEW w \in Devices, NEW id \in Ids, MemberAdd(w, id)
    PROVE  RanksKept
<1>1. /\ UNCHANGED <<owner, space, banned>> /\ by' = Person[w] /\ Speaks(w) /\ IsScope(Top)
      /\ can(Author(w, Top), "decide", roles)
      /\ roleOf(Top, id) = None /\ member' = [member EXCEPT ![Top][id] = Joined(id)]
  BY DEF MemberAdd, May, spaceVars
<1>2. member \in MemberTable /\ member' \in MemberTable
  BY KeyFacts DEF KeyInv, GoneInv, OwnerInv, TypeOK, MemberTable
<1>3. \A z \in Scopes, x \in Ids :
        member'[z][x].role = IF z = Top /\ x = id THEN "member" ELSE member[z][x].role
  BY <1>1, <1>2 DEF MemberTable, Joined
<1>4. id # by'
  <2>1. rankAt(Top, by') \in 1..5
    BY <1>1, KeyFacts, AuthorRanks
  <2>2. ~ (rankAt(Top, id) > 0)
    BY <1>1, KeyFacts, RankNow
  <2> QED
    BY <2>1, <2>2
<1>5. ASSUME NEW s \in Scopes
      PROVE  rankIn(member, banned, s, id) <= rankIn(member', banned, s, id)
  <2>1. "member" \in RoleNames /\ "member" # "owner"
    BY DEF RoleNames, Builtin
  <2>2. roleIn(member, banned, Top, id) = None /\ TypeOK /\ Suffixes /\ Top \in Scopes
    BY <1>1, KeyFacts DEF roleOf
  <2>3. \A z \in Scopes : member'[z][id].role = IF z = Top THEN "member" ELSE member[z][id].role
    BY <1>3
  <2> QED
    BY <1>2, <2>1, <2>2, <2>3, RaiseNoLower
<1>6. \A s \in Scopes : ~ (rankIn(member', banned', s, id) < rankIn(member, banned, s, id))
  <2> TAKE s \in Scopes
  <2>1. rankIn(member, banned, s, id) \in 0..5 /\ rankIn(member', banned, s, id) \in 0..5
    BY <1>2, KeyFacts, RankType
  <2>2. banned' = banned
    BY <1>1
  <2>3. rankIn(member', banned', s, id) = rankIn(member', banned, s, id)
    BY <2>2
  <2> QED
    BY <1>5, <2>1, <2>3
<1>7. \A z \in Scopes, x \in Ids \ {id} :
        member'[z][x].role = member[z][x].role /\ banned'[z][x] = banned[z][x]
  BY <1>1, <1>3
<1> QED
  BY <1>1, <1>2, <1>4, <1>6, <1>7, RanksOfOne

\* A ban lifted, by someone with a role where it was: nothing counts less.
LEMMA RanksUnban ==
    ASSUME KeyInv, KeyInv', NEW w \in Devices, NEW s \in Scopes, NEW id \in Ids, Unban(w, s, id)
    PROVE  RanksKept
<1>1. /\ UNCHANGED <<owner, space, member>> /\ by' = Person[w] /\ Speaks(w) /\ IsScope(s)
      /\ can(Author(w, s), "moderate", roles)
      /\ banned[s][id] # NoBan /\ banned' = [banned EXCEPT ![s][id] = NoBan]
  BY DEF Unban, May, spaceVars
<1>2. member \in MemberTable /\ member' \in MemberTable
  BY <1>1, KeyFacts
<1>3. \A z \in Scopes, x \in Ids :
        /\ x # id => banned'[z][x] = banned[z][x]
        /\ banned'[z][x] # NoBan => banned[z][x] # NoBan
  BY <1>1, KeyFacts DEF BanTable
<1>4. id # by'
  <2>1. rankAt(s, by') \in 1..5
    BY <1>1, AuthorRanks
  <2>2. 1 \in DOMAIN chainOf(s) /\ chainOf(s)[1] = s
    BY <1>1, KeyFacts, ChainLen DEF Suffixes
  <2>3. bannedIn(banned, s, id)
    BY <1>1, <2>2 DEF bannedIn
  <2>4. roleOf(s, id) = None
    BY <2>3 DEF roleOf, roleIn, memberIn, NoEntry
  <2>5. ~ (rankAt(s, id) > 0)
    BY <1>1, <2>4, RankNow
  <2> QED
    BY <2>1, <2>5
<1>5. \A z \in Scopes : ~ (rankIn(member', banned', z, id) < rankIn(member, banned, z, id))
  <2> TAKE z \in Scopes
  <2>1. rankIn(member, banned, z, id) \in 0..5 /\ rankIn(member', banned', z, id) \in 0..5
    BY <1>2, KeyFacts, RankType
  <2>2. CASE bannedIn(banned, z, id)
    <3>1. rankIn(member, banned, z, id) = 0
      BY <2>2 DEF rankIn, roleIn, memberIn, NoEntry
    <3> QED
      BY <2>1, <3>1
  <2>3. CASE ~ bannedIn(banned, z, id)
    <3>1. \A i \in DOMAIN chainOf(z) : chainOf(z)[i] \in Scopes
      BY KeyFacts, ChainType
    <3>2. ~ bannedIn(banned', z, id)
      BY <1>3, <2>3, <3>1 DEF bannedIn
    <3>3. rankIn(member', banned', z, id) = rankIn(member, banned, z, id)
      BY <1>1, <2>3, <3>2 DEF rankIn, roleIn, memberIn
    <3> QED
      BY <2>1, <3>3
  <2> QED
    BY <2>2, <2>3
<1>6. \A z \in Scopes, x \in Ids \ {id} :
        member'[z][x].role = member[z][x].role /\ banned'[z][x] = banned[z][x]
  BY <1>1, <1>3
<1> QED
  BY <1>1, <1>2, <1>4, <1>5, <1>6, RanksOfOne

\* Nobody can invite to a role above their own.
LEMMA InviteAtMost ==
    ASSUME NEW maker \in Role, NEW role \in RoleNames, NEW custom, mayInvite(maker, role, custom)
    PROVE  maker # None /\ role # "owner" /\ rankOf(role) <= rankOf(maker)
<1>1. can(maker, "invite", custom) /\ role # "owner"
  BY DEF mayInvite
<1>2. maker # None
  BY <1>1, NoneAssumption DEF can, permissionsOf, IsRole, RoleNames, Builtin
<1>3. maker # "guest"
  BY <1>1 DEF can, permissionsOf, ROLES, Builtin, OWN
<1>4. maker \in RoleNames /\ rankOf(maker) \in 1..5 /\ rankOf(role) \in 1..5
  BY <1>2, RankNumbers DEF Role
<1>5. rankOf(maker) >= 2
  BY <1>3 DEF rankOf, RANK, Builtin, CUSTOM_RANK
<1>6. CASE maker = "owner"
  BY <1>1, <1>2, <1>4, <1>6, RankNumbers
<1>7. CASE rankOf(role) < rankOf(maker)
  BY <1>1, <1>2, <1>4, <1>7
<1>8. CASE role \in {"member", "guest"}
  <2>1. rankOf(role) <= 2
    BY <1>8 DEF rankOf, RANK, Builtin
  <2> QED
    BY <1>1, <1>2, <1>4, <1>5, <2>1
<1>9. CASE role = maker
  BY <1>1, <1>2, <1>4, <1>9
<1> QED
  BY <1>6, <1>7, <1>8, <1>9 DEF mayInvite

\* A redemption rests on the invite's maker: it gives them nothing they did
\* not have, and takes nothing from anyone.
LEMMA RanksRedeem ==
    ASSUME KeyInv, KeyInv', NEW w \in Devices, NEW inv \in Invites, NEW d \in Devices,
           InviteRedeem(w, inv, d)
    PROVE  RanksKept
<1> DEFINE s == inv.space
           id == Person[d]
           role == roleOf(s, id)
           raises == role = None \/ rankOf(role) < rankOf(inv.role)
           m == IF raises THEN [member EXCEPT ![s][id] = [role |-> inv.role, key |-> d]] ELSE member
           read == {Author(w, s), roleOf(s, inv.maker), inv.role, role}
                      \cup (IF raises THEN RolesRead(m, id) ELSE {})
           custom == [r \in CustomRoles |-> IF r \in read THEN roles[r] ELSE None]
           routes == Routes(inv, m, id, custom)
<1>1. /\ s \in Scopes /\ id \in Ids /\ inv.role \in RoleNames /\ inv.maker \in Ids
      /\ inv.sub # None => inv.sub \in Scopes
  BY PersonAssumption, InputAssumption DEF Invite, Scopes
<1>2. /\ UNCHANGED <<owner, space, banned>> /\ by' = inv.maker
      /\ mayInvite(roleOf(s, inv.maker), inv.role, roles)
      /\ member' = IF routes THEN [m EXCEPT ![inv.sub][id] = [role |-> inv.role, key |-> None]] ELSE m
  BY DEF InviteRedeem, spaceVars
<1>3. routes => /\ inv.sub \in Scopes
                /\ mayInvite(roleIn(m, banned, inv.sub, inv.maker), inv.role, custom)
                /\ \/ roleIn(m, banned, inv.sub, id) = None
                   \/ rankOf(roleIn(m, banned, inv.sub, id)) < rankOf(inv.role)
  BY <1>1 DEF Routes
<1>4. \A z \in Scopes, x \in Ids :
        m[z][x] = IF raises /\ z = s /\ x = id THEN [role |-> inv.role, key |-> d] ELSE member[z][x]
  BY <1>1, KeyFacts DEF MemberTable
<1>5. member \in MemberTable /\ m \in MemberTable /\ member' \in MemberTable
  <2>1. [role |-> inv.role, key |-> d] \in Entry
    BY <1>1 DEF Entry, Role
  <2>2. member' \in MemberTable
    BY DEF KeyInv, GoneInv, OwnerInv, TypeOK, MemberTable
  <2> QED
    BY <1>1, <2>1, <2>2, KeyFacts DEF MemberTable
<1>6. TypeOK /\ Suffixes
  BY KeyFacts
<1> HIDE DEF s, id, m, custom, read
<1>7. \A z \in Scopes, x \in Ids :
        member'[z][x] = IF routes /\ z = inv.sub /\ x = id THEN [role |-> inv.role, key |-> None] ELSE m[z][x]
  <2> HIDE DEF routes
  <2> QED
    BY <1>1, <1>2, <1>3, <1>5 DEF MemberTable
<1>8. inv.role # "owner" /\ rankOf(inv.role) <= rankOf(roleOf(s, inv.maker)) /\ roleOf(s, inv.maker) # None
  <2>1. roleOf(s, inv.maker) \in Role
    BY <1>1, <1>5, <1>6, RoleCounts DEF roleOf
  <2> QED
    BY <1>1, <1>2, <2>1, InviteAtMost
<1>9. rankOf(inv.role) \in 1..5
  BY <1>1, RankNumbers
<1>10. id = by' => member' = member
  <2> SUFFICES ASSUME id = by' PROVE member' = member
    OBVIOUS
  <2>1. id = inv.maker
    BY <1>2
  <2>2. role # None /\ rankOf(inv.role) <= rankOf(role)
    BY <1>8, <2>1
  <2>3. rankOf(role) \in 1..5
    <3>1. role \in Role
      BY <1>1, <1>5, <1>6, RoleCounts DEF roleOf
    <3> QED
      BY <2>2, <3>1, RankNumbers DEF Role
  <2>4. ~ raises
    <3> HIDE DEF role
    <3> QED
      BY <1>9, <2>2, <2>3
  <2>5. ~ routes
    <3> SUFFICES ASSUME routes PROVE FALSE
      OBVIOUS
    <3> DEFINE there == roleIn(m, banned, inv.sub, id)
    <3>1. there \in Role /\ mayInvite(there, inv.role, custom) /\ (there = None \/ rankOf(there) < rankOf(inv.role))
      BY <1>1, <1>3, <1>5, <1>6, <2>1, RoleCounts
    <3> HIDE DEF there
    <3>2. there # None /\ rankOf(inv.role) <= rankOf(there)
      BY <1>1, <3>1, InviteAtMost
    <3>3. rankOf(there) \in 1..5
      BY <3>1, <3>2, RankNumbers DEF Role
    <3> QED
      BY <1>9, <3>1, <3>2, <3>3
  <2> QED
    BY <1>2, <2>4, <2>5 DEF m
<1>11. ASSUME NEW z \in Scopes
       PROVE  rankIn(member, banned, z, id) <= rankIn(m, banned, z, id)
  <2>0. rankIn(member, banned, z, id) \in 0..5 /\ rankIn(m, banned, z, id) \in 0..5
    BY <1>1, <1>5, <1>6, RankType
  <2>1. CASE raises
    <3>1. \A y \in Scopes : m[y][id].role = IF y = s THEN inv.role ELSE member[y][id].role
      BY <1>1, <1>4, <2>1
    <3>2. roleIn(member, banned, s, id) = None \/ rankOf(roleIn(member, banned, s, id)) < rankOf(inv.role)
      BY <2>1 DEF roleOf
    <3> HIDE DEF raises
    <3> QED
      BY <1>1, <1>5, <1>6, <1>8, <3>1, <3>2, RaiseNoLower
  <2>2. CASE ~ raises
    <3>1. m = member
      BY <2>2 DEF m
    <3> HIDE DEF raises
    <3> QED
      BY <2>0, <3>1
  <2> QED
    BY <2>1, <2>2
<1>12. ASSUME NEW z \in Scopes
       PROVE  rankIn(m, banned, z, id) <= rankIn(member', banned, z, id)
  <2> HIDE DEF raises
  <2>0. rankIn(member', banned, z, id) \in 0..5 /\ rankIn(m, banned, z, id) \in 0..5
    BY <1>1, <1>5, <1>6, RankType
  <2>1. CASE routes
    <3>1. \A y \in Scopes : member'[y][id].role = IF y = inv.sub THEN inv.role ELSE m[y][id].role
      BY <1>1, <1>7, <2>1
    <3>2. /\ roleIn(m, banned, inv.sub, id) = None \/ rankOf(roleIn(m, banned, inv.sub, id)) < rankOf(inv.role)
          /\ inv.sub \in Scopes
      BY <1>3, <2>1
    <3> HIDE DEF routes
    <3> QED
      BY <1>1, <1>5, <1>6, <1>8, <3>1, <3>2, RaiseNoLower
  <2>2. CASE ~ routes
    <3>1. m = member'
      BY <1>2, <2>2
    <3> HIDE DEF routes
    <3> QED
      BY <2>0, <3>1
  <2> QED
    BY <2>1, <2>2
<1> HIDE DEF raises, routes, role
<1>13. banned' = banned
  BY <1>2
<1>14. ASSUME NEW z \in Scopes
       PROVE  /\ id = by' => rankIn(member', banned', z, id) <= rankIn(member, banned, z, id)
              /\ ~ (rankIn(member', banned', z, id) < rankIn(member, banned, z, id))
  <2>1. /\ rankIn(member, banned, z, id) \in 0..5 /\ rankIn(member', banned, z, id) \in 0..5
        /\ rankIn(m, banned, z, id) \in 0..5
    BY <1>1, <1>5, <1>6, RankType
  <2>2. ~ (rankIn(member', banned, z, id) < rankIn(member, banned, z, id))
    BY <1>11, <1>12, <2>1
  <2>3. id = by' => rankIn(member', banned, z, id) = rankIn(member, banned, z, id)
    BY <1>10
  <2> QED
    BY <1>13, <2>1, <2>2, <2>3
<1>15. \A z \in Scopes, x \in Ids \ {id} :
         member'[z][x].role = member[z][x].role /\ banned'[z][x] = banned[z][x]
  BY <1>4, <1>7, <1>13
<1> QED
  BY <1>1, <1>2, <1>5, <1>14, <1>15, RanksOfOne

\* Before the space's first decision nobody has a rank; a rank is never below
\* that.
LEMMA RanksInit ==
    ASSUME KeyInv, NEW p, SpaceInit(p)
    PROVE  RanksKept
<1>1. owner = None
  BY DEF SpaceInit
<1>2. ASSUME NEW s \in Scopes, NEW id \in Ids PROVE ~ (rankAt(s, id)' < rankAt(s, id))
  <2>1. \A i \in DOMAIN chainOf(s) : member[chainOf(s)[i]][id].role = None
    BY <1>1, KeyFacts, ChainType DEF KeyInv, GoneInv, OwnerInv, NothingBefore
  <2>2. roleOf(s, id) = None
    BY <2>1 DEF roleOf, roleIn, memberIn, Counts, NoEntry
  <2>3. rankAt(s, id) = 0
    BY <2>2 DEF rankAt
  <2>4. \A role : rankOf(role) \in Nat
    BY DEF rankOf, RANK, Builtin, CUSTOM_RANK
  <2>5. rankAt(s, id)' \in Nat
    BY <2>4 DEF rankAt
  <2> QED
    BY <2>3, <2>5
<1> QED
  BY <1>1, <1>2 DEF RanksKept

\* What counts in a scope, by the tables as they are.
RolesByTables ==
    \A s \in Scopes, id \in Ids :
        /\ \A i \in DOMAIN chainOf(s) : \A t \in Scopes :
                t = chainOf(s)[i] /\ ~ bannedIn(banned, s, id) /\ Counts(member, s, id, i)
                    => roleOf(s, id) = member[t][id].role
        /\ roleOf(s, id) # None =>
              ~ bannedIn(banned, s, id) /\ \E i \in DOMAIN chainOf(s) : Counts(member, s, id, i)

LEMMA RoleNow == TypeOK => RolesByTables
BY RoleCounts, Tables DEF roleOf, RolesByTables

\* A new sub-space changes nothing in the scopes there are: it is on none of
\* their chains.  Nobody had a rank in it.
LEMMA RanksCreate ==
    ASSUME KeyInv, KeyInv', NEW w \in Devices, NEW s \in Scopes, NEW x \in Subs, NEW p, NEW only,
           SubspaceCreate(w, s, x, p, only)
    PROVE  RanksKept
<1>1. /\ UNCHANGED <<member, banned>> /\ ~ IsScope(x) /\ x \in Scopes
      /\ space' = [space EXCEPT ![x] = [chain |-> <<x>> \o chainOf(s), private |-> p, writeRoles |-> only]]
  BY DEF SubspaceCreate, personVars, Scopes
<1>2. \A z \in Scopes \ {x} : space'[z] = space[z]
  BY <1>1, KeyFacts DEF TypeOK
<1>3. ASSUME NEW z \in Scopes, NEW i \in 1..Len(chainOf(z)) PROVE chainOf(z)[i] \in Scopes \ {x}
  <2>1. chainOf(z) \in Seq(Scopes) /\ chainOf(z)[i] \in Scopes
    BY KeyFacts, ChainType
  <2>2. Len(chainOf(chainOf(z)[i])) = Len(chainOf(z)) - i + 1
    BY <2>1, KeyFacts DEF Suffixes
  <2>3. Len(chainOf(chainOf(z)[i])) > 0
    BY <2>1, <2>2
  <2>4. IsScope(chainOf(z)[i])
    BY <2>3 DEF IsScope
  <2> QED
    BY <1>1, <2>1, <2>4
<1>4. RolesByTables'
  <2>1. (TypeOK => RolesByTables)'
    BY RoleNow, PTL
  <2> QED
    BY <2>1 DEF KeyInv, GoneInv, OwnerInv
<1>5. RolesByTables
  BY KeyFacts, RoleNow
<1>6. ASSUME NEW z \in Scopes, NEW id \in Ids, z # x
      PROVE  roleOf(z, id)' = roleOf(z, id)
  <2> DEFINE c == chainOf(z)
  <2>1. chainOf(z)' = c
    BY <1>2, <1>6 DEF chainOf
  <2>2. /\ DOMAIN c = 1..Len(c) /\ Len(c) \in Nat
        /\ \A i \in 1..Len(c) : c[i] \in Scopes /\ space'[c[i]] = space[c[i]]
    <3>1. DOMAIN c = 1..Len(c) /\ Len(c) \in Nat
      BY KeyFacts, ChainType
    <3> QED
      BY <1>2, <1>3, <3>1
  <2> HIDE DEF c
  <2>3. bannedIn(banned, z, id)' <=> bannedIn(banned, z, id)
    BY <1>1, <2>1 DEF bannedIn, c
  <2>4. ASSUME NEW i \in DOMAIN c PROVE Counts(member, z, id, i)' <=> Counts(member, z, id, i)
    <3>1. \A j \in 1..(i - 1) : j \in 1..Len(c)
      BY <2>2
    <3> QED
      BY <1>1, <2>1, <2>2, <3>1 DEF Counts, c
  <2>5. CASE ~ bannedIn(banned, z, id) /\ \E i \in DOMAIN c : Counts(member, z, id, i)
    <3>1. PICK i \in DOMAIN c : Counts(member, z, id, i)
      BY <2>5
    <3>2. roleOf(z, id) = member[c[i]][id].role
      BY <1>5, <2>2, <2>5, <3>1 DEF c, RolesByTables
    <3>3. i \in DOMAIN chainOf(z)' /\ c[i] = chainOf(z)'[i] /\ c[i] \in Scopes
      BY <2>1, <2>2
    <3>4. ~ bannedIn(banned, z, id)' /\ Counts(member, z, id, i)'
      BY <2>3, <2>4, <2>5, <3>1
    <3>5. roleOf(z, id)' = member'[c[i]][id].role
      BY <1>4, <3>3, <3>4 DEF RolesByTables
    <3> QED
      BY <1>1, <3>2, <3>5
  <2>6. CASE ~ (~ bannedIn(banned, z, id) /\ \E i \in DOMAIN c : Counts(member, z, id, i))
    <3>1. roleOf(z, id) = None
      BY <1>5, <2>6 DEF c, RolesByTables
    <3>2. roleOf(z, id)' = None
      BY <1>4, <2>1, <2>3, <2>4, <2>6 DEF RolesByTables
    <3> QED
      BY <3>1, <3>2
  <2> QED
    BY <2>5, <2>6
<1>7. \A id \in Ids : rankAt(x, id) = 0
  <2>1. chainOf(x) = <<>> /\ DOMAIN <<>> = {}
    BY <1>1 DEF IsScope
  <2> QED
    BY <2>1 DEF rankAt, roleOf, roleIn, memberIn, NoEntry
<1>8. \A z \in Scopes, id \in Ids : rankAt(z, id) \in Nat /\ rankAt(z, id)' \in Nat
  <2>1. \A role : rankOf(role) \in Nat
    BY DEF rankOf, RANK, Builtin, CUSTOM_RANK
  <2> QED
    BY <2>1 DEF rankAt
<1>9. ASSUME NEW z \in Scopes, NEW id \in Ids
      PROVE  /\ IsScope(z) => rankAt(z, id)' <= rankAt(z, id)
             /\ ~ (rankAt(z, id)' < rankAt(z, id))
  <2>1. CASE z = x
    BY <1>1, <1>7, <1>8, <2>1
  <2>2. CASE z # x
    <3>1. rankAt(z, id)' = rankAt(z, id)
      BY <1>6, <2>2 DEF rankAt
    <3> QED
      BY <1>8, <3>1
  <2> QED
    BY <2>1, <2>2
<1> QED
  BY <1>9 DEF RanksKept

\* A decision about roles, keys or invites changes nobody's role.
LEMMA RanksSame ==
    ASSUME KeyInv, UNCHANGED <<member, banned, space>>
    PROVE  RanksKept
<1>1. \A s \in Scopes, id \in Ids : rankAt(s, id)' = rankAt(s, id)
  BY DEF rankAt, roleOf, roleIn, memberIn, bannedIn, Counts, chainOf
<1>2. \A s \in Scopes, id \in Ids : rankAt(s, id) \in 0..5
  BY RankNow
<1> QED
  BY <1>1, <1>2 DEF RanksKept

\* Every decision respects ranks.
LEMMA RankStep == KeyInv /\ KeyInv' /\ [Next]_memberVars => RanksKept
<1> SUFFICES ASSUME KeyInv, KeyInv', [Next]_memberVars PROVE RanksKept
  OBVIOUS
<1>1. CASE UNCHANGED memberVars
  BY <1>1, RanksSame DEF memberVars, personVars, spaceVars
<1>2. CASE \E p \in Privacy : SpaceInit(p)
  BY <1>2, RanksInit
<1>3. ASSUME NEW w \in Devices,
             \/ \E name \in CustomRoles, perms \in DefinedPerms : RoleDefine(w, name, perms)
             \/ \E s \in Scopes, id \in Ids, c \in Cuts : BanAgain(w, s, id, c)
             \/ \E inv \in Invites : InviteRevoke(w, inv)
             \/ \E d \in Devices : WriterAdd(w, d)
             \/ \E d \in Removable : DeviceRemove(w, d)
      PROVE  RanksKept
  BY <1>3, RanksSame DEF RoleDefine, BanAgain, InviteRevoke, WriterAdd, DeviceRemove, personVars, spaceVars
<1>4. ASSUME NEW w \in Devices,
             \/ \E id \in Ids : MemberAdd(w, id)
             \/ \E s \in Scopes, id \in Ids, c \in Cuts : MemberRemove(w, s, id, c)
             \/ \E s \in Scopes, id \in Ids : Unban(w, s, id)
      PROVE  RanksKept
  BY <1>4, RanksAdd, RanksDecided, RanksUnban
<1>5. ASSUME NEW w \in Devices,
             \/ \E s \in Scopes, id \in Ids, role \in AssignedRoles, c \in Cuts :
                    RoleSet(w, s, id, role, c)
             \/ \E s \in Scopes, id \in Ids, c \in Cuts, drop \in Drops : BanMember(w, s, id, c, drop)
      PROVE  RanksKept
  BY <1>5, RanksDecided
<1>6. ASSUME NEW w \in Devices,
             \/ \E inv \in Invites, d \in Devices : InviteRedeem(w, inv, d)
             \/ \E s \in Scopes, x \in Subs, p \in Privacy, only \in WriteRoles :
                    SubspaceCreate(w, s, x, p, only)
      PROVE  RanksKept
  BY <1>6, RanksRedeem, RanksCreate
<1> QED
  BY <1>1, <1>2, <1>3, <1>4, <1>5, <1>6 DEF Next

\* Nobody's rank is raised by what they decide or invite to, or lowered by
\* someone who does not outrank them there or above: no removal, ban, role,
\* invite or sub-space goes around the ladder.
THEOREM RankSafe == Spec => RankRespected
<1>1. KeyInv /\ KeyInv' /\ [Next]_memberVars => [RanksKept]_memberVars
  BY RankStep
<1>2. Spec => [][RanksKept]_memberVars
  BY <1>1, KeySafe, PTL DEF Spec
<1> QED
  BY <1>2 DEF RankRespected, RanksKept
=============================================================================
