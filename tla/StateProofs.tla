---------------------------- MODULE StateProofs ----------------------------
(***************************************************************************)
(* Decisions about a space's content, for any records, keys, types and     *)
(* settings: a public space never has a key (PublicNeverKeyed), the keys   *)
(* of a private one stay known (KeysStayKnown), a record taken down stays  *)
(* down (RemovedForGood), and types only grow (TypesOnlyGrow).             *)
(*                                                                         *)
(* And what members read from the decision log, for any people,            *)
(* sub-spaces, logs and lengths held: the readers agree with apply         *)
(* (ReadersAgree), what was cut never counts for more again (CutIsFinal),  *)
(* what a ban dropped stays dropped (DropHolds), and what was written      *)
(* while a member stays (KeptInTop), where every role an app defines may   *)
(* post.                                                                   *)
(***************************************************************************)
EXTENDS SpaceState, MembershipProofs

-----------------------------------------------------------------------------
(* Types.                                                                  *)

\* No epoch, no moderation, no settings at first.
LEMMA ContentTypeInit == ContentInit => ContentTypeOK
<1> SUFFICES ASSUME ContentInit PROVE ContentTypeOK
  OBVIOUS
<1>1. mod \in [Scopes -> [Records -> Moderation]]
  BY DEF ContentInit, Moderation
<1>2. settings \in [Scopes -> Settings]
  BY DEF ContentInit, Settings, Policy
<1>3. epochs \in [Scopes -> EpochTable]
  <2> DEFINE t == [current |-> -1, commits |-> [e \in Epochs |-> None],
                   others |-> [c \in Commits |-> None]]
  <2>1. t \in EpochTable
    BY DEF EpochTable
  <2>2. epochs = [s \in Scopes |-> t]
    BY DEF ContentInit
  <2> HIDE DEF t
  <2> QED
    BY <2>1, <2>2
<1>4. TypeOK
  BY TypeInit DEF ContentInit
<1>5. types \in Seq(SUBSET TypeNames) /\ listed \in SUBSET ListedLogs
  BY DEF ContentInit
<1> QED
  BY <1>1, <1>2, <1>3, <1>4, <1>5 DEF ContentTypeOK

\* A decision about content changes nobody's membership.
LEMMA ContentMembers ==
    ASSUME TypeOK, NEW w \in Devices, OnlyContent(w)
    PROVE  TypeOK' /\ UNCHANGED <<owner, member, banned, roles, subs, space, keys>>
<1>1. Person[w] \in Ids
  BY PersonAssumption
<1> QED
  BY <1>1
  DEF OnlyContent, TypeOK, personVars, spaceVars, keyVars, cutVars, inviteVars

\* Settings named by a decision are settings.
LEMMA SettingsType ==
    ASSUME NEW old \in Settings, NEW d \in SettingChoices, NEW helpers \in BOOLEAN,
           NEW public \in BOOLEAN, helpers => d.helpers # None
    PROVE  settingsWith(old, d, helpers, public) \in Settings
<1>1. d \in Choice
  BY ContentAssumption
<1>2. (IF d.policy # None THEN d.policy ELSE old.policy) \in Policy \cup {None}
  BY <1>1 DEF Choice, Settings
<1>3. (IF d.limited # None THEN d.limited ELSE old.limited) \in BOOLEAN
  BY <1>1 DEF Choice, Settings
<1>4. (IF helpers THEN {d.helpers[i] : i \in DOMAIN d.helpers} ELSE old.helpers) \in SUBSET Devices
  <2>1. CASE helpers
    <3>1. d.helpers \in Seq(Devices)
      BY <1>1, <2>1 DEF Choice
    <3> QED
      BY <2>1, <3>1
  <2>2. CASE ~ helpers
    BY <2>2 DEF Settings
  <2> QED
    BY <2>1, <2>2
<1>5. (old.public \/ public) \in BOOLEAN
  OBVIOUS
<1> QED
  BY <1>2, <1>3, <1>4, <1>5 DEF settingsWith, Settings

\* A rotation leaves a table of epochs.
LEMMA RotatedType ==
    ASSUME NEW t \in EpochTable, NEW epoch \in Epochs, NEW commit \in Commits
    PROVE  rotated(t, epoch, commit) \in EpochTable
<1>1. /\ [t EXCEPT !.current = epoch, !.commits[epoch] = commit] \in EpochTable
      /\ [t EXCEPT !.others[commit] = epoch] \in EpochTable
  BY DEF EpochTable
<1> QED
  BY <1>1 DEF rotated

\* Every decision keeps the types.
LEMMA ContentTypeStep == ContentTypeOK /\ [DecisionNext]_vars => ContentTypeOK'
<1> SUFFICES ASSUME ContentTypeOK, [DecisionNext]_vars PROVE ContentTypeOK'
  OBVIOUS
<1>1. CASE Next /\ UNCHANGED contentVars
  BY <1>1, TypeStep DEF ContentTypeOK, contentVars
<1>2. CASE UNCHANGED vars
  BY <1>2, TypeStep DEF ContentTypeOK, contentVars, vars
<1>3. ASSUME NEW w \in Devices, NEW s \in Scopes, NEW r \in Records,
             NEW action \in {"flag", "hide", "reveal", "remove"}, Moderate(w, s, r, action)
      PROVE  ContentTypeOK'
  <2>1. mod[s][r] \in Moderation
    BY DEF ContentTypeOK
  <2>2. moderated(mod[s][r], action) \in Moderation
    BY <2>1 DEF moderated, Moderation
  <2>3. mod' \in [Scopes -> [Records -> Moderation]]
    BY <1>3, <2>2 DEF Moderate, ContentTypeOK
  <2> QED
    BY <1>3, <2>3, ContentMembers DEF Moderate, ContentTypeOK
<1>4. ASSUME NEW w \in Devices, NEW s \in Scopes, NEW d \in SettingChoices, SettingsSet(w, s, d)
      PROVE  ContentTypeOK'
  <2> DEFINE helpers == Author(w, s) = "owner" /\ s = Top /\ validHelpers(d.helpers)
             public == d.public /\ mayBePublic(s)
  <2>1. settingsWith(settings[s], d, helpers, public) \in Settings
    <3>1. settings[s] \in Settings
      BY DEF ContentTypeOK
    <3>2. helpers \in BOOLEAN /\ public \in BOOLEAN
      OBVIOUS
    <3>3. helpers => d.helpers # None
      BY DEF validHelpers
    <3> HIDE DEF helpers, public
    <3> QED
      BY <3>1, <3>2, <3>3, SettingsType
  <2>2. settings' = [settings EXCEPT ![s] = settingsWith(settings[s], d, helpers, public)]
    BY <1>4 DEF SettingsSet
  <2>3. settings' \in [Scopes -> Settings]
    BY <2>1, <2>2 DEF ContentTypeOK
  <2> QED
    BY <1>4, <2>3, ContentMembers DEF SettingsSet, ContentTypeOK
<1>5. ASSUME NEW w \in Devices, NEW version, NEW declared \in SUBSET TypeNames,
             TypesSet(w, version, declared)
      PROVE  ContentTypeOK'
  BY <1>5, ContentMembers DEF TypesSet, ContentTypeOK
<1>6. ASSUME NEW w \in Devices, NEW logs \in SUBSET ListedLogs, LogsList(w, logs)
      PROVE  ContentTypeOK'
  BY <1>6, ContentMembers DEF LogsList, ContentTypeOK
<1>7. ASSUME NEW w \in Devices, NEW s \in Scopes, NEW epoch \in Epochs, NEW commit \in Commits,
             KeyRotate(w, s, epoch, commit)
      PROVE  ContentTypeOK'
  <2>1. rotated(epochs[s], epoch, commit) \in EpochTable
    BY RotatedType DEF ContentTypeOK
  <2>2. epochs' \in [Scopes -> EpochTable]
    BY <1>7, <2>1 DEF KeyRotate, ContentTypeOK
  <2> QED
    BY <1>7, <2>2, ContentMembers DEF KeyRotate, ContentTypeOK
<1> QED
  BY <1>1, <1>2, <1>3, <1>4, <1>5, <1>6, <1>7 DEF DecisionNext, ContentNext

\* The view holds entries of the kinds its readers expect, content included.
THEOREM ContentTypeCorrect == DecisionSpec => []ContentTypeOK
  BY ContentTypeInit, ContentTypeStep, PTL DEF DecisionSpec

-----------------------------------------------------------------------------
(* Records taken down and types declared.                                  *)

\* A record taken down stays down, as it was.
THEOREM RemovedSafe == DecisionSpec => RemovedForGood
<1> DEFINE Kept == \A s \in Scopes, r \in Records : mod[s][r].removed => mod'[s][r] = mod[s][r]
<1>1. ContentTypeOK /\ [DecisionNext]_vars => [Kept]_vars
  <2> SUFFICES ASSUME ContentTypeOK, DecisionNext PROVE Kept
    OBVIOUS
  <2>1. CASE UNCHANGED mod
    BY <2>1
  <2>2. ASSUME NEW w \in Devices, NEW s \in Scopes, NEW r \in Records, NEW action,
               Moderate(w, s, r, action)
        PROVE  Kept
    <3>1. ~ mod[s][r].removed /\ mod' = [mod EXCEPT ![s][r] = moderated(@, action)]
      BY <2>2 DEF Moderate, standing
    <3> QED
      BY <3>1 DEF ContentTypeOK
  <2>3. ASSUME NEW w \in Devices, NEW s \in Scopes,
               \/ \E d \in SettingChoices : SettingsSet(w, s, d)
               \/ \E version \in 1..MaxVersions, declared \in SUBSET TypeNames :
                    TypesSet(w, version, declared)
               \/ \E logs \in SUBSET ListedLogs : LogsList(w, logs)
               \/ \E epoch \in Epochs, commit \in Commits : KeyRotate(w, s, epoch, commit)
        PROVE  UNCHANGED mod
    BY <2>3 DEF SettingsSet, TypesSet, LogsList, KeyRotate
  <2>4. Top \in Scopes
    BY DEF Scopes
  <2> QED
    BY <2>1, <2>2, <2>3, <2>4 DEF DecisionNext, ContentNext, contentVars
<1> QED
  BY <1>1, ContentTypeCorrect, PTL DEF DecisionSpec, RemovedForGood

\* The next version of the types declares all that the current one does.
TypesGrow ==
    \A v \in DOMAIN types : types[v] \subseteq types[Len(types)]

\* Every version stays, and the latest declares all that any version did.
THEOREM TypesSafe == DecisionSpec => TypesOnlyGrow
<1> DEFINE Inv == ContentTypeOK /\ TypesGrow
           Grow == /\ \A v \in DOMAIN types : v \in DOMAIN types' /\ types'[v] = types[v]
                   /\ \A v \in DOMAIN types : types[v] \subseteq types'[Len(types')]
<1>1. ContentInit => Inv
  <2> SUFFICES ASSUME ContentInit PROVE TypesGrow
    BY ContentTypeInit
  <2> QED
    BY DEF ContentInit, TypesGrow
<1>2. Inv /\ [DecisionNext]_vars => Inv' /\ [Grow]_vars
  <2> SUFFICES ASSUME Inv, [DecisionNext]_vars PROVE TypesGrow' /\ Grow
    BY ContentTypeStep
  <2>1. CASE UNCHANGED types
    <3>1. types \in Seq(SUBSET TypeNames)
      BY DEF ContentTypeOK
    <3> QED
      BY <2>1, <3>1 DEF TypesGrow
  <2>2. ASSUME NEW w \in Devices, NEW version \in 1..MaxVersions,
               NEW declared \in SUBSET TypeNames, TypesSet(w, version, declared)
        PROVE  TypesGrow' /\ Grow
    <3> DEFINE n == Len(types)
    <3>1. types \in Seq(SUBSET TypeNames) /\ n \in Nat /\ DOMAIN types = 1..n
      BY DEF ContentTypeOK
    <3>2. types' = Append(types, declared) /\ version = n + 1
      BY <2>2 DEF TypesSet
    <3>3. n > 0 => types[n] \subseteq declared
      <4>1. version > 1 => types[version - 1] \subseteq declared
        BY <2>2 DEF TypesSet, compatible
      <4> QED
        BY <3>1, <3>2, <4>1
    <3>4. /\ DOMAIN types' = 1..(n + 1) /\ Len(types') = n + 1 /\ types'[n + 1] = declared
          /\ \A v \in 1..n : types'[v] = types[v]
      BY <3>1, <3>2
    <3>5. \A v \in 1..n : types[v] \subseteq declared
      BY <3>1, <3>3 DEF TypesGrow
    <3>6. ASSUME NEW v \in 1..(n + 1) PROVE types'[v] \subseteq declared
      <4>1. v \in 1..n \/ v = n + 1
        BY <3>1
      <4> QED
        BY <3>4, <3>5, <4>1
    <3> QED
      BY <3>1, <3>4, <3>5, <3>6 DEF TypesGrow
  <2>3. ASSUME NEW w \in Devices, NEW s \in Scopes,
               \/ \E r \in Records, action \in {"flag", "hide", "reveal", "remove"} :
                    Moderate(w, s, r, action)
               \/ \E d \in SettingChoices : SettingsSet(w, s, d)
               \/ \E logs \in SUBSET ListedLogs : LogsList(w, logs)
               \/ \E epoch \in Epochs, commit \in Commits : KeyRotate(w, s, epoch, commit)
        PROVE  UNCHANGED types
    BY <2>3 DEF Moderate, SettingsSet, LogsList, KeyRotate
  <2>4. Top \in Scopes
    BY DEF Scopes
  <2>5. UNCHANGED contentVars \/ UNCHANGED vars => UNCHANGED types
    BY DEF contentVars, vars
  <2> HIDE DEF Grow
  <2> QED
    BY <2>1, <2>2, <2>3, <2>4, <2>5 DEF DecisionNext, ContentNext
<1> QED
  BY <1>1, <1>2, PTL DEF DecisionSpec, TypesOnlyGrow

-----------------------------------------------------------------------------
(* The keys of a private space.                                            *)

\* Epochs 0 up to the current one have a key, and a key that lost at an epoch
\* is not that epoch's.
EpochSound(t) ==
    /\ \A e \in Epochs : (e <= t.current) <=> (t.commits[e] # None)
    /\ \A c \in Commits : t.others[c] # None => t.commits[t.others[c]] \notin {None, c}

EpochInv == ContentTypeOK /\ \A s \in Scopes : EpochSound(epochs[s])

\* From one table of epochs to the next.
EpochNext(t, u) ==
    /\ u.current \in {t.current, t.current + 1}
    /\ \A e \in Epochs : t.commits[e] # None => u.commits[e] = t.commits[e]
    /\ \A c \in Commits : t.others[c] # None => u.others[c] = t.others[c]

\* A rotation adds the next epoch, or a key that lost to one there is.
LEMMA RotatedSound ==
    ASSUME NEW t \in EpochTable, EpochSound(t), NEW epoch \in Epochs, NEW commit \in Commits
    PROVE  EpochSound(rotated(t, epoch, commit)) /\ EpochNext(t, rotated(t, epoch, commit))
<1>1. /\ None \notin Commits /\ None \notin Epochs /\ MaxEpoch \in Nat
      /\ \A e \in Epochs : e \in Nat
  BY ContentAssumption DEF Epochs
<1>2. /\ t.current \in Epochs \cup {-1}
      /\ t.commits \in [Epochs -> Commits \cup {None}]
      /\ t.others \in [Commits -> Epochs \cup {None}]
  BY DEF EpochTable
<1>2a. epoch \in Int /\ t.current \in Int
  BY <1>1, <1>2
<1>3. CASE epoch = t.current + 1
  <2> DEFINE u == [t EXCEPT !.current = epoch, !.commits[epoch] = commit]
  <2>1. rotated(t, epoch, commit) = u
    <3>1. ~ (epoch <= t.current)
      BY <1>2a, <1>3
    <3> QED
      BY <1>3, <3>1 DEF rotated
  <2>2. /\ u.current = epoch /\ u.others = t.others
        /\ \A e \in Epochs : u.commits[e] = IF e = epoch THEN commit ELSE t.commits[e]
    BY <1>2 DEF EpochTable
  <2>3. t.commits[epoch] = None
    BY <1>1, <1>2, <1>3 DEF EpochSound
  <2>4. \A e \in Epochs : (e <= epoch) <=> (e <= t.current \/ e = epoch)
    <3>1. \A e \in Epochs : e \in Int
      BY <1>1
    <3> QED
      BY <1>2a, <1>3, <3>1
  <2> HIDE DEF u
  <2>5. EpochNext(t, u)
    BY <1>3, <2>2, <2>3 DEF EpochNext
  <2>6. \A e \in Epochs : (e <= u.current) <=> (u.commits[e] # None)
    BY <1>1, <2>2, <2>4 DEF EpochSound
  <2>7. \A c \in Commits : u.others[c] # None => u.commits[u.others[c]] \notin {None, c}
    <3> SUFFICES ASSUME NEW c \in Commits, u.others[c] # None
                 PROVE  u.commits[u.others[c]] \notin {None, c}
      OBVIOUS
    <3>1. t.others[c] \in Epochs /\ t.commits[t.others[c]] \notin {None, c}
      BY <1>2, <2>2 DEF EpochSound
    <3>2. t.others[c] # epoch
      BY <2>3, <3>1
    <3> QED
      BY <2>2, <3>1, <3>2
  <2> QED
    BY <2>1, <2>5, <2>6, <2>7 DEF EpochSound
<1>4. CASE /\ epoch # t.current + 1
           /\ epoch <= t.current /\ t.commits[epoch] # commit /\ t.others[commit] = None
  <2> DEFINE u == [t EXCEPT !.others[commit] = epoch]
  <2>1. rotated(t, epoch, commit) = u
    BY <1>4 DEF rotated
  <2>2. /\ u.current = t.current /\ u.commits = t.commits
        /\ \A c \in Commits : u.others[c] = IF c = commit THEN epoch ELSE t.others[c]
    BY <1>2 DEF EpochTable
  <2> HIDE DEF u
  <2>3. EpochNext(t, u)
    BY <1>4, <2>2 DEF EpochNext
  <2>4. EpochSound(u)
    <3>1. \A e \in Epochs : (e <= u.current) <=> (u.commits[e] # None)
      BY <2>2 DEF EpochSound
    <3>2. ASSUME NEW c \in Commits, u.others[c] # None
          PROVE  u.commits[u.others[c]] \notin {None, c}
      <4>1. CASE c = commit
        <5>1. t.commits[epoch] # None
          BY <1>4 DEF EpochSound
        <5> QED
          BY <1>4, <2>2, <4>1, <5>1
      <4>2. CASE c # commit
        BY <2>2, <3>2, <4>2 DEF EpochSound
      <4> QED
        BY <4>1, <4>2
    <3> QED
      BY <3>1, <3>2 DEF EpochSound
  <2> QED
    BY <2>1, <2>3, <2>4
<1>5. CASE /\ epoch # t.current + 1
           /\ ~ (epoch <= t.current /\ t.commits[epoch] # commit /\ t.others[commit] = None)
  <2>1. rotated(t, epoch, commit) = t
    BY <1>5 DEF rotated
  <2>2. EpochNext(t, t)
    BY DEF EpochNext
  <2> QED
    BY <2>1, <2>2
<1> QED
  BY <1>3, <1>4, <1>5

\* Epochs follow each other, and every key recorded for one stays known, for
\* any number of rotations at once.
THEOREM KeysSafe == DecisionSpec => KeysStayKnown
<1> DEFINE Known ==
        \A s \in Scopes :
            LET t == epochs[s]
            IN  /\ epochs'[s].current \in {t.current, t.current + 1}
                /\ \A e \in Epochs :
                      /\ (e <= epochs'[s].current) = (epochs'[s].commits[e] # None)
                      /\ t.commits[e] # None => epochs'[s].commits[e] = t.commits[e]
                /\ \A c \in Commits :
                      /\ t.others[c] # None => epochs'[s].others[c] = t.others[c]
                      /\ epochs'[s].others[c] # None =>
                           epochs'[s].commits[epochs'[s].others[c]] \notin {None, c}
<1>1. ContentInit => EpochInv
  <2> SUFFICES ASSUME ContentInit, NEW s \in Scopes PROVE EpochSound(epochs[s])
    BY ContentTypeInit DEF EpochInv
  <2>1. /\ epochs[s].current = -1 /\ \A e \in Epochs : epochs[s].commits[e] = None
        /\ \A c \in Commits : epochs[s].others[c] = None
    BY DEF ContentInit
  <2>2. \A e \in Epochs : ~ (e <= -1)
    BY ContentAssumption DEF Epochs
  <2> QED
    BY <2>1, <2>2 DEF EpochSound
<1>2. EpochInv /\ [DecisionNext]_vars
        => \A s \in Scopes : EpochSound(epochs'[s]) /\ EpochNext(epochs[s], epochs'[s])
  <2> SUFFICES ASSUME EpochInv, [DecisionNext]_vars, NEW s \in Scopes
               PROVE  EpochSound(epochs'[s]) /\ EpochNext(epochs[s], epochs'[s])
    OBVIOUS
  <2>1. epochs \in [Scopes -> EpochTable] /\ \A x \in Scopes : EpochSound(epochs[x])
    BY DEF EpochInv, ContentTypeOK
  <2>2. CASE UNCHANGED epochs
    BY <2>1, <2>2 DEF EpochNext
  <2>3. ASSUME NEW w \in Devices, NEW x \in Scopes, NEW epoch \in Epochs, NEW commit \in Commits,
               KeyRotate(w, x, epoch, commit)
        PROVE  EpochSound(epochs'[s]) /\ EpochNext(epochs[s], epochs'[s])
    <3>1. epochs'[s] = IF s = x THEN rotated(epochs[x], epoch, commit) ELSE epochs[s]
      BY <2>1, <2>3 DEF KeyRotate
    <3>2. CASE s = x
      BY <2>1, <3>1, <3>2, RotatedSound
    <3>3. CASE s # x
      BY <2>1, <3>1, <3>3 DEF EpochNext
    <3> QED
      BY <3>2, <3>3
  <2>4. ASSUME NEW w \in Devices, NEW x \in Scopes,
               \/ \E r \in Records, action \in {"flag", "hide", "reveal", "remove"} :
                    Moderate(w, x, r, action)
               \/ \E d \in SettingChoices : SettingsSet(w, x, d)
               \/ \E version \in 1..MaxVersions, declared \in SUBSET TypeNames :
                    TypesSet(w, version, declared)
               \/ \E logs \in SUBSET ListedLogs : LogsList(w, logs)
        PROVE  UNCHANGED epochs
    BY <2>4 DEF Moderate, SettingsSet, TypesSet, LogsList
  <2>5. UNCHANGED contentVars \/ UNCHANGED vars => UNCHANGED epochs
    BY DEF contentVars, vars
  <2> QED
    BY <2>2, <2>3, <2>4, <2>5 DEF DecisionNext, ContentNext
<1>3. EpochInv /\ [DecisionNext]_vars => EpochInv' /\ Known
  <2> SUFFICES ASSUME EpochInv, [DecisionNext]_vars PROVE EpochInv' /\ Known
    OBVIOUS
  <2>1. EpochInv'
    BY <1>2, ContentTypeStep DEF EpochInv
  <2>2. Known
    BY <1>2 DEF EpochSound, EpochNext
  <2> QED
    BY <2>1, <2>2
<1> QED
  BY <1>1, <1>3, PTL DEF DecisionSpec, KeysStayKnown
-----------------------------------------------------------------------------
(* Public and private.                                                     *)

\* Only a scope there is, of a space there is, has a key or is public, and
\* which of the two it may be was settled when it was made.
Settled(s) ==
    /\ settings[s].public => owner # None /\ IsScope(s) /\ ~ space[s].private
    /\ epochs[s].current # -1 => owner # None /\ IsScope(s) /\ space[s].private

PublicInv == OwnerInv /\ ContentTypeOK /\ \A s \in Scopes : Settled(s)

\* No decision changes whether a scope there is is private.
LEMMA PrivacyKept ==
    ASSUME OwnerInv, [Next]_memberVars, NEW s \in Scopes, owner # None, IsScope(s)
    PROVE  owner' # None /\ IsScope(s)' /\ space'[s].private = space[s].private
<1>1. CASE UNCHANGED <<owner, space>>
  BY <1>1 DEF IsScope, chainOf
<1>2. ASSUME NEW w \in Devices, NEW x \in Scopes, NEW y \in Subs, NEW p \in Privacy,
             NEW only \in WriteRoles, SubspaceCreate(w, x, y, p, only)
      PROVE  owner' # None /\ IsScope(s)' /\ space'[s].private = space[s].private
  <2>1. s # y /\ UNCHANGED owner
    BY <1>2 DEF SubspaceCreate, personVars
  <2>2. space \in [Scopes -> Info]
    BY DEF OwnerInv, TypeOK
  <2>3. space'[s] = space[s]
    BY <1>2, <2>1, <2>2 DEF SubspaceCreate
  <2> QED
    BY <2>1, <2>3 DEF IsScope, chainOf
<1>3. ASSUME NEW w \in Devices, NEW x \in Scopes, NEW id \in Ids, NEW c \in Cuts,
             \/ MemberRemove(w, x, id, c)
             \/ \E role \in AssignedRoles : RoleSet(w, x, id, role, c)
             \/ \E drop \in Drops : BanMember(w, x, id, c, drop)
             \/ BanAgain(w, x, id, c)
      PROVE  UNCHANGED <<owner, space>>
  <2>1. MemberRemove(w, x, id, c) => UNCHANGED <<owner, space>>
    BY DEF MemberRemove, spaceVars
  <2>2. ASSUME NEW role \in AssignedRoles, RoleSet(w, x, id, role, c)
        PROVE  UNCHANGED <<owner, space>>
    BY <2>2 DEF RoleSet, spaceVars
  <2>3. ASSUME NEW drop \in Drops, BanMember(w, x, id, c, drop)
        PROVE  UNCHANGED <<owner, space>>
    BY <2>3 DEF BanMember, spaceVars
  <2>4. BanAgain(w, x, id, c) => UNCHANGED <<owner, space>>
    BY DEF BanAgain, personVars, spaceVars
  <2> QED
    BY <1>3, <2>1, <2>2, <2>3, <2>4
<1>3a. ASSUME NEW w \in Devices,
              \/ \E id \in Ids : MemberAdd(w, id)
              \/ \E name \in CustomRoles, perms \in DefinedPerms : RoleDefine(w, name, perms)
              \/ \E x \in Scopes, id \in Ids : Unban(w, x, id)
              \/ \E inv \in Invites, d \in Devices : InviteRedeem(w, inv, d)
              \/ \E inv \in Invites : InviteRevoke(w, inv)
              \/ \E d \in Devices : WriterAdd(w, d)
              \/ \E d \in Removable : DeviceRemove(w, d)
       PROVE  UNCHANGED <<owner, space>>
  <2>1. ASSUME NEW id \in Ids, NEW x \in Scopes, MemberAdd(w, id) \/ Unban(w, x, id)
        PROVE  UNCHANGED <<owner, space>>
    BY <2>1 DEF MemberAdd, Unban, spaceVars
  <2>2. ASSUME NEW name, NEW perms, RoleDefine(w, name, perms)
        PROVE  UNCHANGED <<owner, space>>
    BY <2>2 DEF RoleDefine, spaceVars
  <2>3. ASSUME NEW inv \in Invites, NEW d \in Devices, InviteRedeem(w, inv, d)
        PROVE  UNCHANGED <<owner, space>>
    BY <2>3 DEF InviteRedeem, spaceVars
  <2>4. ASSUME NEW inv \in Invites, InviteRevoke(w, inv)
        PROVE  UNCHANGED <<owner, space>>
    BY <2>4 DEF InviteRevoke, personVars, spaceVars
  <2>5. ASSUME NEW d, WriterAdd(w, d) \/ DeviceRemove(w, d)
        PROVE  UNCHANGED <<owner, space>>
    BY <2>5 DEF WriterAdd, DeviceRemove, personVars, spaceVars
  <2>6. Top \in Scopes
    BY DEF Scopes
  <2> QED
    BY <1>3a, <2>1, <2>2, <2>3, <2>4, <2>5, <2>6
<1>4. UNCHANGED memberVars => UNCHANGED <<owner, space>>
  BY DEF memberVars, personVars, spaceVars
<1>5. \A p \in Privacy : ~ SpaceInit(p)
  BY DEF SpaceInit
<1> QED
  BY <1>1, <1>2, <1>3, <1>3a, <1>4, <1>5 DEF Next

\* Nothing is public and nothing has a key in the empty view.
LEMMA PublicInit == ContentInit => PublicInv
<1> SUFFICES ASSUME ContentInit PROVE PublicInv
  OBVIOUS
<1>1. OwnerInv /\ ContentTypeOK
  BY OwnerInit, ContentTypeInit DEF ContentInit
<1>2. \A s \in Scopes : settings[s].public = FALSE /\ epochs[s].current = -1
  BY DEF ContentInit
<1> QED
  BY <1>1, <1>2 DEF PublicInv, Settled

\* A scope becomes public only where it is not private, and has keys only
\* where it is.
LEMMA PublicContent ==
    ASSUME PublicInv, ContentNext, NEW s \in Scopes
    PROVE  Settled(s)'
<1>1. UNCHANGED <<owner, space>>
  BY DEF ContentNext, Moderate, SettingsSet, TypesSet, LogsList, KeyRotate, OnlyContent,
     personVars, spaceVars
<1>2. IsScope(s)' = IsScope(s)
  BY <1>1 DEF IsScope, chainOf
<1>3. settings \in [Scopes -> Settings] /\ epochs \in [Scopes -> EpochTable] /\ Settled(s)
  BY DEF PublicInv, ContentTypeOK
<1>4. CASE UNCHANGED <<settings, epochs>>
  BY <1>1, <1>2, <1>3, <1>4 DEF Settled
<1>5. ASSUME NEW w \in Devices, NEW x \in Scopes, NEW d \in SettingChoices, SettingsSet(w, x, d)
      PROVE  Settled(s)'
  <2>1. CASE s # x
    <3>1. settings'[s] = settings[s] /\ UNCHANGED epochs
      BY <1>3, <1>5, <2>1 DEF SettingsSet
    <3> QED
      BY <1>1, <1>2, <1>3, <3>1 DEF Settled
  <2>2. CASE s = x
    <3>1. UNCHANGED epochs
      BY <1>5 DEF SettingsSet
    <3>2. owner # None /\ IsScope(s)
      BY <1>5, <2>2, SpeakerOwner DEF SettingsSet, May, PublicInv
    <3>3. settings'[s].public => settings[s].public \/ ~ space[s].private
      BY <1>3, <1>5, <2>2 DEF SettingsSet, settingsWith, mayBePublic
    <3> QED
      BY <1>1, <1>2, <1>3, <3>1, <3>2, <3>3 DEF Settled
  <2> QED
    BY <2>1, <2>2
<1>6. ASSUME NEW w \in Devices, NEW x \in Scopes, NEW epoch \in Epochs, NEW commit \in Commits,
             KeyRotate(w, x, epoch, commit)
      PROVE  Settled(s)'
  <2>1. UNCHANGED settings
    BY <1>6 DEF KeyRotate
  <2>2. s # x => epochs'[s] = epochs[s]
    BY <1>3, <1>6 DEF KeyRotate
  <2>3. s = x => owner # None /\ IsScope(s) /\ space[s].private
    BY <1>6, SpeakerOwner DEF KeyRotate, PublicInv
  <2> QED
    BY <1>1, <1>2, <1>3, <2>1, <2>2, <2>3 DEF Settled
<1>7. ASSUME NEW w \in Devices,
             \/ \E x \in Scopes, r \in Records, action \in {"flag", "hide", "reveal", "remove"} :
                    Moderate(w, x, r, action)
             \/ \E version \in 1..MaxVersions, declared \in SUBSET TypeNames :
                    TypesSet(w, version, declared)
             \/ \E logs \in SUBSET ListedLogs : LogsList(w, logs)
      PROVE  UNCHANGED <<settings, epochs>>
  BY <1>7 DEF Moderate, TypesSet, LogsList
<1> QED
  BY <1>4, <1>5, <1>6, <1>7 DEF ContentNext

\* Decisions about content leave the owner alone.
LEMMA OwnerContent ==
    ASSUME OwnerInv, TypeOK', ContentNext
    PROVE  OwnerInv' /\ UNCHANGED <<personVars, spaceVars, keyVars, cutVars, inviteVars>>
<1>1. UNCHANGED <<personVars, spaceVars, keyVars, cutVars, inviteVars>>
  BY DEF ContentNext, Moderate, SettingsSet, TypesSet, LogsList, KeyRotate, OnlyContent
<1>2. UNCHANGED <<owner, member, banned, space, keys, gone>>
  BY <1>1 DEF personVars, spaceVars, keyVars
<1>3. ChainShape' /\ NothingBefore' /\ OwnerEntry'
  BY <1>2 DEF OwnerInv, ChainShape, NothingBefore, OwnerEntry, IsScope, chainOf
<1> QED
  BY <1>1, <1>3 DEF OwnerInv

\* Decisions about people and about content keep all of it.
LEMMA PublicStep == PublicInv /\ [DecisionNext]_vars => PublicInv'
<1> SUFFICES ASSUME PublicInv, [DecisionNext]_vars PROVE PublicInv'
  OBVIOUS
<1>1. ContentTypeOK'
  BY ContentTypeStep DEF PublicInv
<1>2. CASE ContentNext
  <2>1. OwnerInv'
    BY <1>1, <1>2, OwnerContent DEF PublicInv, ContentTypeOK
  <2> QED
    BY <1>1, <1>2, <2>1, PublicContent DEF PublicInv
<1>3. CASE (Next /\ UNCHANGED contentVars) \/ UNCHANGED vars
  <2>1. [Next]_memberVars /\ UNCHANGED <<settings, epochs>>
    BY <1>3 DEF vars, contentVars
  <2>2. OwnerInv'
    BY <2>1, OwnerStep DEF PublicInv
  <2>3. ASSUME NEW s \in Scopes PROVE Settled(s)'
    BY <2>1, PrivacyKept DEF PublicInv, Settled
  <2> QED
    BY <1>1, <2>2, <2>3 DEF PublicInv
<1> QED
  BY <1>2, <1>3 DEF DecisionNext

\* A space anyone may join never has a key, whatever order it is made public
\* and its keys are rotated in.
THEOREM PublicSafe == DecisionSpec => []PublicNeverKeyed
<1>1. PublicInv => PublicNeverKeyed
  BY DEF PublicInv, Settled, PublicNeverKeyed
<1> QED
  BY <1>1, PublicInit, PublicStep, PTL DEF DecisionSpec

-----------------------------------------------------------------------------
(* What members read: the invariant.                                       *)

\* An entry without a role is none.
EntriesFull == \A s \in Scopes, id \in Ids : member[s][id].role = None => member[s][id] = NoEntry

\* People are banned in scopes there are.
BansOfScopes == \A s \in Scopes, id \in Ids : banned[s][id] # NoBan => IsScope(s)

\* Every log of someone banned with drop: 'all' that a cut names there counts
\* up to 0.
DropCut == \A s \in Scopes, id \in Ids, l \in Logs : banned[s][id].drop => cut[s][id].logs[l] \in {0, Inf}

\* Everyone who may post may write in the top space.
TopOpen == space[Top].writeRoles = {}

StateInv == KeyInv /\ ContentTypeOK /\ EntriesFull /\ BansOfScopes /\ DropCut /\ TopOpen

-----------------------------------------------------------------------------
(* Recorded lengths.                                                       *)

\* Lengths are numbers, none above Inf.
LEMMA LengthOrder ==
    /\ Inf \in Nat /\ Inf # 0 /\ 0 \in Lengths /\ Inf \in Lengths
    /\ \A n \in Lengths : n \in Nat /\ 0 <= n /\ n <= Inf /\ n <= n
    /\ \A n, m \in Lengths : (n <= m /\ m <= n => n = m) /\ (n <= m \/ m <= n)
    /\ \A n, m, k \in Lengths : n <= m /\ m <= k => n <= k
BY BoundAssumption DEF Inf, Lengths

\* A cut is recorded for one person in one scope, and lowers what counted; so
\* does dropping all they wrote, which leaves a log at 0 or unnamed.
LEMMA CutsFall ==
    ASSUME NEW t \in CutTable, NEW s \in Scopes, NEW id \in Ids, NEW c \in HeldLengths
    PROVE  \A z \in Scopes, x \in Ids, l \in Logs :
              /\ recordCut(t, s, id, c)[z][x].logs[l] <= t[z][x].logs[l]
              /\ z # s \/ x # id => recordCut(t, s, id, c)[z][x] = t[z][x]
              /\ dropAll(t, s, id, c)[z][x].logs[l] <= t[z][x].logs[l]
              /\ \/ dropAll(t, s, id, c)[z][x] = t[z][x]
                 \/ dropAll(t, s, id, c)[z][x].logs[l] \in {0, Inf}
              /\ dropAll(t, s, id, c)[s][id].logs[l] \in {0, Inf}
<1> TAKE z \in Scopes, x \in Ids, l \in Logs
<1>1. /\ t[z][x].logs[l] \in Lengths /\ c[l] \in Lengths
      /\ t[s][id].logs \in [Logs -> Lengths]
  BY DEF CutTable, Cut, HeldLengths
<1>2. t \in [Scopes -> [Ids -> Cut]]
  BY DEF CutTable
<1>3. CASE z = s /\ x = id
  <2>1. recordCut(t, s, id, c)[s][id].logs[l] = IF t[s][id].logs[l] # Inf THEN t[s][id].logs[l] ELSE c[l]
    BY <1>2 DEF recordCut
  <2>2. dropAll(t, s, id, c)[s][id].logs[l] = IF c[l] # Inf \/ t[s][id].logs[l] # Inf THEN 0 ELSE Inf
    BY <1>2 DEF dropAll
  <2> QED
    BY <1>1, <1>3, <2>1, <2>2, LengthOrder
<1>4. CASE ~ (z = s /\ x = id)
  <2>1. recordCut(t, s, id, c)[z][x] = t[z][x]
    BY <1>2, <1>4 DEF recordCut
  <2>2. dropAll(t, s, id, c)[s][id].logs[l] = IF c[l] # Inf \/ t[s][id].logs[l] # Inf THEN 0 ELSE Inf
    BY <1>2 DEF dropAll
  <2>3. \/ dropAll(t, s, id, c)[z][x] = t[z][x]
        \/ dropAll(t, s, id, c)[z][x].logs[l] = IF c[l] # Inf \/ t[z][x].logs[l] # Inf THEN 0 ELSE Inf
    <3> DEFINE new == [on |-> TRUE, logs |-> [k \in Logs |->
                          IF c[k] # Inf \/ t[z][id].logs[k] # Inf THEN 0 ELSE Inf]]
    <3>1. \/ dropAll(t, s, id, c)[z] = t[z]
          \/ dropAll(t, s, id, c)[z] = [t[z] EXCEPT ![id] = new]
      BY DEF dropAll
    <3>2. new.logs[l] = IF c[l] # Inf \/ t[z][id].logs[l] # Inf THEN 0 ELSE Inf
      OBVIOUS
    <3>3. t[z] \in [Ids -> Cut]
      BY <1>2
    <3> HIDE DEF new
    <3>4. [t[z] EXCEPT ![id] = new][x] = IF x = id THEN new ELSE t[z][x]
      BY <3>3
    <3> QED
      BY <3>1, <3>2, <3>4
  <2>4. dropAll(t, s, id, c)[z][x].logs[l] <= t[z][x].logs[l]
    <3> DEFINE n == t[z][x].logs[l]
               k == dropAll(t, s, id, c)[z][x].logs[l]
    <3>1. n \in Nat /\ n <= Inf /\ Inf \in Nat
      BY <1>1, LengthOrder
    <3>2. k = n \/ k = 0 \/ (k = Inf /\ n = Inf)
      BY <2>3
    <3> HIDE DEF n, k
    <3>3. k <= n
      BY <3>1, <3>2
    <3> QED
      BY <3>3 DEF n, k
  <2>5. recordCut(t, s, id, c)[z][x].logs[l] <= t[z][x].logs[l]
    BY <1>1, <2>1, LengthOrder
  <2>6. \/ dropAll(t, s, id, c)[z][x] = t[z][x]
        \/ dropAll(t, s, id, c)[z][x].logs[l] \in {0, Inf}
    BY <2>3
  <2>7. dropAll(t, s, id, c)[s][id].logs[l] \in {0, Inf}
    BY <2>2
  <2> QED
    BY <2>1, <2>4, <2>5, <2>6, <2>7
<1> QED
  BY <1>3, <1>4

\* So of what relies on a permission.
LEMMA EditCutsFall ==
    ASSUME NEW t \in EditCutTable, NEW s \in Scopes, NEW id \in Ids, NEW c \in HeldLengths, NEW lost
    PROVE  \A z \in Scopes, x \in Ids, p \in Permissions, l \in Logs :
              /\ recordEditCuts(t, s, id, lost, c)[z][x][p][l] <= t[z][x][p][l]
              /\ dropEdits(t, s, id)[z][x][p][l] <= t[z][x][p][l]
<1> TAKE z \in Scopes, x \in Ids, p \in Permissions, l \in Logs
<1>1. t[z][x][p][l] \in Lengths /\ c[l] \in Lengths /\ t \in [Scopes -> [Ids -> EditCut]]
  BY DEF EditCutTable, EditCut, HeldLengths
<1>2. \/ recordEditCuts(t, s, id, lost, c)[z][x] = t[z][x]
      \/ /\ t[z][x][p][l] = Inf
         /\ recordEditCuts(t, s, id, lost, c)[z][x][p][l] = c[l]
      \/ recordEditCuts(t, s, id, lost, c)[z][x][p][l] = t[z][x][p][l]
  BY <1>1 DEF recordEditCuts
<1>3. \/ dropEdits(t, s, id)[z][x] = t[z][x]
      \/ dropEdits(t, s, id)[z][x][p][l] = IF t[z][x][p][l] # Inf THEN 0 ELSE Inf
  BY <1>1 DEF dropEdits
<1> QED
  BY <1>1, <1>2, <1>3, LengthOrder

\* Lengths recorded only fall.
Falling ==
    \A s \in Scopes, id \in Ids, l \in Logs :
        /\ cut'[s][id].logs[l] <= cut[s][id].logs[l]
        /\ \A p \in Permissions : editcut'[s][id][p][l] <= editcut[s][id][p][l]

\* Every length recorded is one.
LEMMA CutLengths ==
    ASSUME TypeOK
    PROVE  /\ cut \in CutTable /\ editcut \in EditCutTable
           /\ \A s \in Scopes, id \in Ids, l \in Logs :
                cut[s][id].logs[l] \in Lengths /\ \A p \in Permissions : editcut[s][id][p][l] \in Lengths
<1>1. cut \in CutTable /\ editcut \in EditCutTable
  BY Tables
<1> QED
  BY <1>1 DEF CutTable, EditCutTable, Cut, EditCut

\* As a fact about a view.
CutsTyped ==
    \A s \in Scopes, id \in Ids, l \in Logs :
        cut[s][id].logs[l] \in Lengths /\ \A p \in Permissions : editcut[s][id][p][l] \in Lengths

LEMMA CutsTypes == TypeOK => CutsTyped
BY CutLengths DEF CutsTyped

\* A ban, with or without dropping what was written, in one.
LEMMA BanFalls ==
    ASSUME TypeOK, NEW s \in Scopes, NEW id \in Ids, NEW c \in HeldLengths, NEW lost,
           NEW t \in {cut, recordCut(cut, s, id, c)}, NEW e,
           e = recordEditCuts(editcut, s, id, lost, c)
    PROVE  \A z \in Scopes, x \in Ids, l \in Logs :
              /\ t[z][x].logs[l] <= cut[z][x].logs[l]
              /\ dropAll(t, s, id, c)[z][x].logs[l] <= cut[z][x].logs[l]
              /\ \A p \in Permissions :
                    /\ e[z][x][p][l] <= editcut[z][x][p][l]
                    /\ dropEdits(e, s, id)[z][x][p][l] <= editcut[z][x][p][l]
<1>1. t \in CutTable /\ e \in EditCutTable
  BY CutLengths, CutType, EditCutType
<1>2. dropAll(t, s, id, c) \in CutTable /\ dropEdits(e, s, id) \in EditCutTable
  BY <1>1, CutType, EditCutType
<1> TAKE z \in Scopes, x \in Ids, l \in Logs
<1>3. /\ cut[z][x].logs[l] \in Lengths /\ t[z][x].logs[l] \in Lengths
      /\ dropAll(t, s, id, c)[z][x].logs[l] \in Lengths
  BY <1>1, <1>2, CutLengths DEF CutTable, Cut
<1>4. t[z][x].logs[l] <= cut[z][x].logs[l]
  <2>1. CASE t = cut
    BY <1>3, <2>1, LengthOrder
  <2>2. CASE t = recordCut(cut, s, id, c)
    BY <2>2, CutLengths, CutsFall
  <2> QED
    BY <2>1, <2>2
<1>5. dropAll(t, s, id, c)[z][x].logs[l] <= cut[z][x].logs[l]
  <2>1. dropAll(t, s, id, c)[z][x].logs[l] <= t[z][x].logs[l]
    BY <1>1, CutsFall
  <2>2. /\ cut[z][x].logs[l] \in Nat /\ t[z][x].logs[l] \in Nat
        /\ dropAll(t, s, id, c)[z][x].logs[l] \in Nat
    BY <1>3, LengthOrder
  <2> QED
    BY <1>4, <2>1, <2>2
<1>6. ASSUME NEW p \in Permissions
      PROVE  /\ e[z][x][p][l] <= editcut[z][x][p][l]
             /\ dropEdits(e, s, id)[z][x][p][l] <= editcut[z][x][p][l]
  <2>1. /\ e[z][x][p][l] \in Lengths /\ dropEdits(e, s, id)[z][x][p][l] \in Lengths
        /\ editcut[z][x][p][l] \in Lengths
    BY <1>1, <1>2, CutLengths DEF EditCutTable, EditCut
  <2>2. e[z][x][p][l] <= editcut[z][x][p][l]
    BY CutLengths, EditCutsFall
  <2>3. dropEdits(e, s, id)[z][x][p][l] <= e[z][x][p][l]
    BY <1>1, EditCutsFall
  <2>4. /\ e[z][x][p][l] \in Nat /\ dropEdits(e, s, id)[z][x][p][l] \in Nat
        /\ editcut[z][x][p][l] \in Nat
    BY <2>1, LengthOrder
  <2> QED
    BY <2>2, <2>3, <2>4
<1> QED
  BY <1>4, <1>5, <1>6

\* No decision gives back what a cut took.
LEMMA FallingStep == TypeOK /\ [DecisionNext]_vars => Falling
<1> SUFFICES ASSUME TypeOK, [DecisionNext]_vars PROVE Falling
  OBVIOUS
<1>1. CASE UNCHANGED <<cut, editcut>>
  BY <1>1, CutLengths, LengthOrder DEF Falling
<1>2. CASE ContentNext \/ UNCHANGED vars
  <2>1. ContentNext => UNCHANGED cutVars
    BY DEF ContentNext, Moderate, SettingsSet, TypesSet, LogsList, KeyRotate, OnlyContent
  <2> QED
    BY <1>1, <1>2, <2>1 DEF vars, memberVars, cutVars
<1>3. CASE \E p \in Privacy : SpaceInit(p)
  BY <1>1, <1>3 DEF SpaceInit, cutVars
<1>4. ASSUME NEW w \in Devices,
             \/ \E id \in Ids : MemberAdd(w, id)
             \/ \E name \in CustomRoles, perms \in DefinedPerms : RoleDefine(w, name, perms)
             \/ \E s \in Scopes, id \in Ids : Unban(w, s, id)
             \/ \E inv \in Invites, d \in Devices : InviteRedeem(w, inv, d)
             \/ \E inv \in Invites : InviteRevoke(w, inv)
             \/ \E d \in Devices : WriterAdd(w, d)
             \/ \E s \in Scopes, x \in Subs, p \in Privacy, only \in WriteRoles :
                    SubspaceCreate(w, s, x, p, only)
             \/ \E d \in Removable : DeviceRemove(w, d)
      PROVE  Falling
  <2>1. ASSUME NEW id \in Ids, NEW s \in Scopes, MemberAdd(w, id) \/ Unban(w, s, id)
        PROVE  UNCHANGED <<cut, editcut>>
    BY <2>1 DEF MemberAdd, Unban, cutVars
  <2>2. ASSUME NEW inv \in Invites, NEW d, InviteRedeem(w, inv, d) \/ InviteRevoke(w, inv)
        PROVE  UNCHANGED <<cut, editcut>>
    BY <2>2 DEF InviteRedeem, InviteRevoke, cutVars
  <2>3. ASSUME NEW d, NEW p, WriterAdd(w, d) \/ DeviceRemove(w, d) \/ RoleDefine(w, d, p)
        PROVE  UNCHANGED <<cut, editcut>>
    BY <2>3 DEF WriterAdd, DeviceRemove, RoleDefine, cutVars
  <2>4. ASSUME NEW s \in Scopes, NEW x \in Subs, NEW p, NEW only, SubspaceCreate(w, s, x, p, only)
        PROVE  UNCHANGED <<cut, editcut>>
    BY <2>4 DEF SubspaceCreate, cutVars
  <2>5. Top \in Scopes
    BY DEF Scopes
  <2> QED
    BY <1>1, <1>4, <2>1, <2>2, <2>3, <2>4, <2>5
<1>5. ASSUME NEW w \in Devices, NEW s \in Scopes, NEW id \in Ids, NEW c \in Cuts,
             \/ MemberRemove(w, s, id, c)
             \/ \E role \in AssignedRoles : RoleSet(w, s, id, role, c)
             \/ \E drop \in Drops : BanMember(w, s, id, c, drop)
             \/ BanAgain(w, s, id, c)
      PROVE  Falling
  <2>1. c \in HeldLengths
    BY InputAssumption DEF HeldLengths
  <2>2. ASSUME NEW lost, cut' \in {cut, recordCut(cut, s, id, c)},
               editcut' = recordEditCuts(editcut, s, id, lost, c)
        PROVE  Falling
    BY <2>1, <2>2, BanFalls DEF Falling
  <2>3. MemberRemove(w, s, id, c) => Falling
    BY <2>2 DEF MemberRemove
  <2>4. ASSUME NEW role \in AssignedRoles, RoleSet(w, s, id, role, c) PROVE Falling
    BY <2>2, <2>4 DEF RoleSet
  <2>5. ASSUME NEW drop \in Drops, BanMember(w, s, id, c, drop) PROVE Falling
    <3>1. PICK t \in {cut, recordCut(cut, s, id, c)} : cut' = IF drop THEN dropAll(t, s, id, c) ELSE t
      BY <2>5 DEF BanMember
    <3>2. \E lost : editcut' = IF drop THEN dropEdits(recordEditCuts(editcut, s, id, lost, c), s, id)
                               ELSE recordEditCuts(editcut, s, id, lost, c)
      BY <2>5 DEF BanMember
    <3> QED
      BY <2>1, <3>1, <3>2, BanFalls DEF Falling
  <2>6. BanAgain(w, s, id, c) => Falling
    <3> SUFFICES ASSUME BanAgain(w, s, id, c) PROVE Falling
      OBVIOUS
    <3>1. cut' = dropAll(cut, s, id, c) /\ editcut' = dropEdits(editcut, s, id)
      BY DEF BanAgain
    <3>2. \A z \in Scopes, x \in Ids, l \in Logs :
            /\ dropAll(cut, s, id, c)[z][x].logs[l] <= cut[z][x].logs[l]
            /\ \A p \in Permissions : dropEdits(editcut, s, id)[z][x][p][l] <= editcut[z][x][p][l]
      BY <2>1, CutLengths, CutsFall, EditCutsFall
    <3> QED
      BY <3>1, <3>2 DEF Falling
  <2> QED
    BY <1>5, <2>3, <2>4, <2>5, <2>6
<1> QED
  BY <1>2, <1>3, <1>4, <1>5 DEF DecisionNext, Next

-----------------------------------------------------------------------------
(* The invariant holds at first, and every decision keeps it.              *)

\* In the empty view.
LEMMA StateInit == ContentInit => StateInv
<1> SUFFICES ASSUME ContentInit PROVE StateInv
  OBVIOUS
<1>1. KeyInv /\ ContentTypeOK
  BY KeyInit, ContentTypeInit DEF ContentInit
<1>2. EntriesFull /\ BansOfScopes /\ DropCut
  BY DEF ContentInit, Init, EntriesFull, BansOfScopes, DropCut, NoEntry, NoBan
<1>3. TopOpen
  BY DEF ContentInit, Init, TopOpen, NoInfo, Scopes
<1> QED
  BY <1>1, <1>2, <1>3 DEF StateInv

\* What a decision finds.
LEMMA StateFacts ==
    ASSUME StateInv
    PROVE  /\ TypeOK /\ OwnerInv /\ KeyInv /\ Top \in Scopes
           /\ member \in MemberTable /\ banned \in BanTable /\ space \in [Scopes -> Info]
           /\ \A s \in Scopes, id \in Ids : member[s][id].role = None => member[s][id] = NoEntry
           /\ \A s \in Scopes, id \in Ids : banned[s][id] # NoBan => IsScope(s)
           /\ \A role \in RoleNames : role # None
<1>1. TypeOK /\ OwnerInv /\ KeyInv
  BY DEF StateInv, KeyInv, GoneInv, OwnerInv
<1> QED
  BY <1>1, KeyFacts, NoneAssumption DEF StateInv, EntriesFull, BansOfScopes, TypeOK

\* A redeemed invite's entries carry its role.
LEMMA RedeemEntries ==
    ASSUME StateInv, NEW w, NEW inv \in Invites, NEW d \in Devices, InviteRedeem(w, inv, d)
    PROVE  \A z \in Scopes, x \in Ids : member'[z][x] = member[z][x] \/ member'[z][x].role = inv.role
<1> DEFINE s == inv.space
           id == Person[d]
           e == [role |-> inv.role, key |-> d]
           f == [role |-> inv.role, key |-> None]
<1>1. PICK m \in {member, [member EXCEPT ![s][id] = e]} :
        member' = m \/ member' = [m EXCEPT ![inv.sub][id] = f]
  BY DEF InviteRedeem
<1>2. e.role = inv.role /\ f.role = inv.role /\ e \in Entry /\ s \in Scopes /\ id \in Ids
  BY InputAssumption, PersonAssumption DEF Invite, Entry, Role
<1> HIDE DEF e, f, s, id
<1>3. m \in MemberTable
  <2>1. member \in [Scopes -> [Ids -> Entry]] /\ member[s] \in [Ids -> Entry]
    BY <1>2, StateFacts DEF MemberTable
  <2>2. [member[s] EXCEPT ![id] = e] \in [Ids -> Entry]
    BY <1>2, <2>1
  <2>3. [member EXCEPT ![s] = [member[s] EXCEPT ![id] = e]] \in [Scopes -> [Ids -> Entry]]
    BY <1>2, <2>1, <2>2
  <2>4. [member EXCEPT ![s][id] = e] = [member EXCEPT ![s] = [member[s] EXCEPT ![id] = e]]
    BY <1>2, <2>1
  <2> QED
    BY <1>1, <2>1, <2>3, <2>4 DEF MemberTable
<1>4. \A z \in Scopes, x \in Ids : m[z][x] = member[z][x] \/ m[z][x] = e
  BY <1>1, StateFacts DEF MemberTable
<1>5. \A z \in Scopes, x \in Ids : member'[z][x] = m[z][x] \/ member'[z][x] = f
  BY <1>1, <1>3 DEF MemberTable
<1> QED
  BY <1>2, <1>4, <1>5

\* Every entry made has a role; those taken are none.
LEMMA FullStep == StateInv /\ [Next]_memberVars => EntriesFull'
<1> SUFFICES ASSUME StateInv, [Next]_memberVars PROVE EntriesFull'
  OBVIOUS
<1>1. CASE UNCHANGED member
  BY <1>1 DEF StateInv, EntriesFull
<1>2. ASSUME NEW id \in Ids, NEW s \in Scopes, NEW e, member' = [member EXCEPT ![s][id] = e],
             e = NoEntry \/ e.role # None
      PROVE  EntriesFull'
  BY <1>2, StateFacts DEF MemberTable, EntriesFull
<1>3. CASE \E p \in Privacy : SpaceInit(p)
  <2>1. Person[Creator] \in Ids /\ Top \in Scopes /\ [role |-> "owner", key |-> None].role # None
    BY PersonAssumption, StateFacts DEF RoleNames, Builtin
  <2>2. member' = [member EXCEPT ![Top][Person[Creator]] = [role |-> "owner", key |-> None]]
    BY <1>3 DEF SpaceInit
  <2> QED
    BY <1>2, <2>1, <2>2
<1>4. ASSUME NEW w \in Devices,
             \/ \E name \in CustomRoles, perms \in DefinedPerms : RoleDefine(w, name, perms)
             \/ \E s \in Scopes, id \in Ids, c \in Cuts : BanAgain(w, s, id, c)
             \/ \E s \in Scopes, id \in Ids : Unban(w, s, id)
             \/ \E inv \in Invites : InviteRevoke(w, inv)
             \/ \E d \in Devices : WriterAdd(w, d)
             \/ \E s \in Scopes, x \in Subs, p \in Privacy, only \in WriteRoles :
                    SubspaceCreate(w, s, x, p, only)
             \/ \E d \in Removable : DeviceRemove(w, d)
      PROVE  UNCHANGED member
  BY <1>4 DEF RoleDefine, BanAgain, Unban, InviteRevoke, WriterAdd, SubspaceCreate, DeviceRemove, personVars
<1>5. ASSUME NEW w \in Devices, NEW id \in Ids, MemberAdd(w, id) PROVE EntriesFull'
  <2>1. Joined(id).role # None /\ Top \in Scopes
    BY StateFacts DEF Joined, RoleNames, Builtin
  <2>2. member' = [member EXCEPT ![Top][id] = Joined(id)]
    BY <1>5 DEF MemberAdd
  <2> QED
    BY <1>2, <2>1, <2>2
<1>6. ASSUME NEW w \in Devices, NEW s \in Scopes, NEW id \in Ids, NEW c, MemberRemove(w, s, id, c)
      PROVE  EntriesFull'
  <2>1. \A z \in Scopes, x \in Ids : member'[z][x] \in {member[z][x], NoEntry}
    BY <1>6, StateFacts DEF MemberRemove, dropBelow, MemberTable
  <2> QED
    BY <2>1, StateFacts DEF EntriesFull
<1>7. ASSUME NEW w \in Devices, NEW s \in Scopes, NEW id \in Ids, NEW role \in AssignedRoles, NEW c,
             RoleSet(w, s, id, role, c)
      PROVE  EntriesFull'
  <2>1. role # None
    BY InputAssumption, StateFacts
  <2>2. PICK k : member' = [member EXCEPT ![s][id] = [role |-> role, key |-> k]]
    BY <1>7 DEF RoleSet
  <2>3. [role |-> role, key |-> k].role # None
    BY <2>1
  <2> QED
    BY <1>2, <2>2, <2>3
<1>8. ASSUME NEW w \in Devices, NEW s \in Scopes, NEW id \in Ids, NEW c, NEW drop, BanMember(w, s, id, c, drop)
      PROVE  EntriesFull'
  <2>1. UNCHANGED member \/ member' = [member EXCEPT ![s][id] = NoEntry]
    BY <1>8 DEF BanMember
  <2> QED
    BY <1>1, <1>2, <2>1
<1>9. ASSUME NEW w \in Devices, NEW inv \in Invites, NEW d \in Devices, InviteRedeem(w, inv, d)
      PROVE  EntriesFull'
  <2>1. inv.role # None
    BY InputAssumption, StateFacts DEF Invite
  <2>2. \A z \in Scopes, x \in Ids : member'[z][x] = member[z][x] \/ member'[z][x].role = inv.role
    BY <1>9, RedeemEntries
  <2> QED
    BY <2>1, <2>2, StateFacts DEF EntriesFull
<1>10. UNCHANGED memberVars => UNCHANGED member
  BY DEF memberVars, personVars
<1> QED
  BY <1>1, <1>3, <1>4, <1>5, <1>6, <1>7, <1>8, <1>9, <1>10 DEF Next

\* A scope there is stays one, and who may write in the top space too.
LEMMA ScopesStep == StateInv /\ [Next]_memberVars => BansOfScopes' /\ TopOpen'
<1> SUFFICES ASSUME StateInv, [Next]_memberVars PROVE BansOfScopes' /\ TopOpen'
  OBVIOUS
<1>1. ASSUME UNCHANGED space,
             \A s \in Scopes, id \in Ids : banned'[s][id] # NoBan => banned[s][id] # NoBan \/ IsScope(s)
      PROVE  BansOfScopes' /\ TopOpen'
  BY <1>1, StateFacts DEF StateInv, BansOfScopes, TopOpen, IsScope, chainOf
<1>2. CASE UNCHANGED <<banned, space>>
  BY <1>1, <1>2
<1>3. ASSUME NEW p, SpaceInit(p) PROVE BansOfScopes' /\ TopOpen'
  <2>1. space' = [space EXCEPT ![Top].private = p] /\ UNCHANGED banned
    BY <1>3 DEF SpaceInit
  <2>2. \A s \in Scopes : chainOf(s)' = chainOf(s) /\ space'[s].writeRoles = space[s].writeRoles
    BY <2>1, StateFacts DEF chainOf, Info
  <2> QED
    BY <2>1, <2>2, StateFacts DEF StateInv, BansOfScopes, TopOpen, IsScope
<1>4. ASSUME NEW w \in Devices,
             \/ \E id \in Ids : MemberAdd(w, id)
             \/ \E name \in CustomRoles, perms \in DefinedPerms : RoleDefine(w, name, perms)
             \/ \E inv \in Invites : InviteRevoke(w, inv)
             \/ \E d \in Devices : WriterAdd(w, d)
             \/ \E d \in Removable : DeviceRemove(w, d)
      PROVE  UNCHANGED <<banned, space>>
  BY <1>4 DEF MemberAdd, RoleDefine, InviteRevoke, WriterAdd, DeviceRemove, personVars, spaceVars
<1>5. ASSUME NEW w \in Devices, NEW s \in Scopes, NEW id \in Ids, NEW c,
             MemberRemove(w, s, id, c) \/ BanAgain(w, s, id, c)
      PROVE  UNCHANGED <<banned, space>>
  BY <1>5 DEF MemberRemove, BanAgain, personVars, spaceVars
<1>6. ASSUME NEW w \in Devices, NEW s \in Scopes, NEW id \in Ids, NEW role, NEW c,
             RoleSet(w, s, id, role, c)
      PROVE  UNCHANGED <<banned, space>>
  BY <1>6 DEF RoleSet, spaceVars
<1>7. ASSUME NEW w \in Devices, NEW inv \in Invites, NEW d \in Devices, InviteRedeem(w, inv, d)
      PROVE  UNCHANGED <<banned, space>>
  BY <1>7 DEF InviteRedeem, spaceVars
<1>8. ASSUME NEW w \in Devices, NEW s \in Scopes, NEW id \in Ids, NEW c, NEW drop, BanMember(w, s, id, c, drop)
      PROVE  BansOfScopes' /\ TopOpen'
  <2>1. UNCHANGED space /\ IsScope(s) /\ \E e : banned' = [banned EXCEPT ![s][id] = e]
    BY <1>8 DEF BanMember, May, spaceVars
  <2>2. \A z \in Scopes, x \in Ids : z # s => banned'[z][x] = banned[z][x]
    BY <2>1, StateFacts DEF BanTable
  <2> QED
    BY <1>1, <2>1, <2>2
<1>9. ASSUME NEW w \in Devices, NEW s \in Scopes, NEW id \in Ids, Unban(w, s, id)
      PROVE  BansOfScopes' /\ TopOpen'
  <2>1. UNCHANGED space /\ banned' = [banned EXCEPT ![s][id] = NoBan]
    BY <1>9 DEF Unban, spaceVars
  <2>2. \A z \in Scopes, x \in Ids : banned'[z][x] # NoBan => banned[z][x] # NoBan
    BY <2>1, StateFacts DEF BanTable
  <2> QED
    BY <1>1, <2>1, <2>2
<1>10. ASSUME NEW w \in Devices, NEW s \in Scopes, NEW x \in Subs, NEW p, NEW only,
              SubspaceCreate(w, s, x, p, only)
       PROVE  BansOfScopes' /\ TopOpen'
  <2>1. /\ UNCHANGED banned /\ ~ IsScope(x) /\ x # Top
        /\ \E i : space' = [space EXCEPT ![x] = i]
    BY <1>10, ScopeAssumption DEF SubspaceCreate, personVars
  <2>2. \A z \in Scopes : z # x => space'[z] = space[z]
    BY <2>1, StateFacts
  <2> QED
    BY <2>1, <2>2, StateFacts DEF StateInv, BansOfScopes, TopOpen, IsScope, chainOf
<1>11. UNCHANGED memberVars => UNCHANGED <<banned, space>>
  BY DEF memberVars, personVars, spaceVars
<1> QED
  BY <1>2, <1>3, <1>4, <1>5, <1>6, <1>7, <1>8, <1>9, <1>10, <1>11 DEF Next

\* Who loses a role where they are is not banned there: only a ban or another
\* drop reaches the cuts of someone banned with drop: 'all', and leaves them
\* at 0.
LEMMA DropStep == StateInv /\ [Next]_memberVars => DropCut'
<1> SUFFICES ASSUME StateInv, [Next]_memberVars PROVE DropCut'
  OBVIOUS
<1>1. ASSUME UNCHANGED cut,
             \A s \in Scopes, id \in Ids : banned'[s][id].drop => banned[s][id].drop
      PROVE  DropCut'
  BY <1>1 DEF StateInv, DropCut
<1>2. CASE UNCHANGED <<banned, cut>>
  BY <1>1, <1>2
<1>3. CASE \E p \in Privacy : SpaceInit(p)
  BY <1>2, <1>3 DEF SpaceInit, cutVars
<1>4. ASSUME NEW w \in Devices,
             \/ \E id \in Ids : MemberAdd(w, id)
             \/ \E name \in CustomRoles, perms \in DefinedPerms : RoleDefine(w, name, perms)
             \/ \E inv \in Invites : InviteRevoke(w, inv)
             \/ \E d \in Devices : WriterAdd(w, d)
             \/ \E d \in Removable : DeviceRemove(w, d)
             \/ \E s \in Scopes, x \in Subs, p \in Privacy, only \in WriteRoles :
                    SubspaceCreate(w, s, x, p, only)
      PROVE  UNCHANGED <<banned, cut>>
  BY <1>4 DEF MemberAdd, RoleDefine, InviteRevoke, WriterAdd, DeviceRemove, SubspaceCreate, personVars, cutVars
<1>5. ASSUME NEW w \in Devices, NEW inv \in Invites, NEW d \in Devices, InviteRedeem(w, inv, d)
      PROVE  UNCHANGED <<banned, cut>>
  BY <1>5 DEF InviteRedeem
<1>6. ASSUME NEW w \in Devices, NEW s \in Scopes, NEW id \in Ids, Unban(w, s, id)
      PROVE  DropCut'
  <2>1. UNCHANGED cut /\ banned' = [banned EXCEPT ![s][id] = NoBan]
    BY <1>6 DEF Unban, cutVars
  <2>2. \A z \in Scopes, x \in Ids : banned'[z][x] = banned[z][x] \/ banned'[z][x] = NoBan
    BY <2>1, StateFacts DEF BanTable
  <2> QED
    BY <1>1, <2>1, <2>2 DEF NoBan
<1>7. ASSUME NEW s \in Scopes, NEW id \in Ids, NEW c \in HeldLengths,
             cut' \in {cut, recordCut(cut, s, id, c)}, UNCHANGED banned, ~ bannedIn(banned, s, id),
             IsScope(s)
      PROVE  DropCut'
  <2>1. banned[s][id] = NoBan
    <3>1. 1 \in DOMAIN chainOf(s) /\ chainOf(s)[1] = s
      BY <1>7, StateFacts, KeyFacts, ChainLen DEF Suffixes
    <3> QED
      BY <1>7, <3>1 DEF bannedIn
  <2>2. \A z \in Scopes, x \in Ids : z # s \/ x # id => cut'[z][x] = cut[z][x]
    <3>1. \A z \in Scopes, x \in Ids : z # s \/ x # id => recordCut(cut, s, id, c)[z][x] = cut[z][x]
      BY StateFacts, CutLengths DEF recordCut, CutTable
    <3> QED
      BY <1>7, <3>1
  <2> QED
    BY <1>7, <2>1, <2>2 DEF StateInv, DropCut, NoBan
<1>8. \A c \in Cuts : c \in HeldLengths
  BY InputAssumption DEF HeldLengths
<1>9. ASSUME NEW w \in Devices, NEW s \in Scopes, NEW id \in Ids, NEW c \in Cuts, MemberRemove(w, s, id, c)
      PROVE  DropCut'
  <2>1. /\ UNCHANGED banned /\ cut' \in {cut, recordCut(cut, s, id, c)}
        /\ roleOf(s, id) # None /\ IsScope(s)
    BY <1>9 DEF MemberRemove
  <2>2. ~ bannedIn(banned, s, id)
    BY <2>1 DEF roleOf, roleIn, memberIn, NoEntry
  <2> QED
    BY <1>7, <1>8, <2>1, <2>2
<1>10. ASSUME NEW w \in Devices, NEW s \in Scopes, NEW id \in Ids, NEW role, NEW c \in Cuts,
              RoleSet(w, s, id, role, c)
       PROVE  DropCut'
  <2>1. /\ UNCHANGED banned /\ cut' \in {cut, recordCut(cut, s, id, c)}
        /\ ~ bannedIn(banned, s, id) /\ IsScope(s)
    BY <1>10 DEF RoleSet
  <2> QED
    BY <1>7, <1>8, <2>1
<1>11. ASSUME NEW w \in Devices, NEW s \in Scopes, NEW id \in Ids, NEW c \in Cuts, NEW drop,
              BanMember(w, s, id, c, drop)
       PROVE  DropCut'
  <2>1. PICK t \in {cut, recordCut(cut, s, id, c)} : cut' = IF drop THEN dropAll(t, s, id, c) ELSE t
    BY <1>11 DEF BanMember
  <2>2. banned' = [banned EXCEPT ![s][id] = [by |-> Person[w], drop |-> drop]]
    BY <1>11 DEF BanMember
  <2>3. t \in CutTable
    BY <1>8, StateFacts, CutLengths, CutType
  <2>4. \A z \in Scopes, x \in Ids : z # s \/ x # id => t[z][x] = cut[z][x]
    BY StateFacts, CutLengths DEF recordCut, CutTable
  <2>5. ASSUME NEW z \in Scopes, NEW x \in Ids, NEW l \in Logs, banned'[z][x].drop
        PROVE  cut'[z][x].logs[l] \in {0, Inf}
    <3>1. CASE z = s /\ x = id
      <4>1. banned'[s][id] = [by |-> Person[w], drop |-> drop]
        BY <2>2, StateFacts DEF BanTable
      <4>2. drop
        BY <2>5, <3>1, <4>1
      <4> QED
        BY <1>8, <2>1, <2>3, <3>1, <4>2, CutsFall
    <3>2. CASE ~ (z = s /\ x = id)
      <4>1. banned'[z][x] = banned[z][x]
        BY <2>2, <3>2, StateFacts DEF BanTable
      <4>2. t[z][x].logs[l] \in {0, Inf}
        BY <2>4, <2>5, <3>2, <4>1 DEF StateInv, DropCut
      <4>3. CASE drop
        <5>1. \/ dropAll(t, s, id, c)[z][x] = t[z][x]
              \/ dropAll(t, s, id, c)[z][x].logs[l] \in {0, Inf}
          BY <1>8, <2>3, CutsFall
        <5> QED
          BY <2>1, <4>2, <4>3, <5>1
      <4>4. CASE ~ drop
        BY <2>1, <4>2, <4>4
      <4> QED
        BY <4>3, <4>4
    <3> QED
      BY <3>1, <3>2
  <2> QED
    BY <2>5 DEF DropCut
<1>12. ASSUME NEW w \in Devices, NEW s \in Scopes, NEW id \in Ids, NEW c \in Cuts, BanAgain(w, s, id, c)
       PROVE  DropCut'
  <2>1. UNCHANGED banned /\ cut' = dropAll(cut, s, id, c)
    BY <1>12 DEF BanAgain, personVars
  <2>2. \A z \in Scopes, x \in Ids, l \in Logs :
          \/ dropAll(cut, s, id, c)[z][x] = cut[z][x]
          \/ dropAll(cut, s, id, c)[z][x].logs[l] \in {0, Inf}
    BY <1>8, StateFacts, CutLengths, CutsFall
  <2> QED
    BY <2>1, <2>2 DEF StateInv, DropCut
<1>13. UNCHANGED memberVars => UNCHANGED <<banned, cut>>
  BY DEF memberVars, personVars, cutVars
<1> QED
  BY <1>2, <1>3, <1>4, <1>5, <1>6, <1>9, <1>10, <1>11, <1>12, <1>13 DEF Next

\* Every decision keeps the invariant.
LEMMA StateStep == StateInv /\ [DecisionNext]_vars => StateInv'
<1> SUFFICES ASSUME StateInv, [DecisionNext]_vars PROVE StateInv'
  OBVIOUS
<1>1. ContentTypeOK'
  BY ContentTypeStep DEF StateInv
<1>2. CASE ContentNext
  <2>1. TypeOK' /\ OwnerInv
    BY <1>1, StateFacts DEF ContentTypeOK
  <2>2. OwnerInv' /\ UNCHANGED <<personVars, spaceVars, keyVars, cutVars, inviteVars>>
    BY <1>2, <2>1, OwnerContent
  <2>3. UNCHANGED <<owner, member, banned, space, keys, gone, cut>>
    BY <2>2 DEF personVars, spaceVars, keyVars, cutVars
  <2>4. GoneInv'
    BY <2>2, <2>3 DEF StateInv, KeyInv, GoneInv
  <2>5. KeyInv'
    BY <2>3, <2>4, StateFacts, KeySame
  <2>6. EntriesFull' /\ BansOfScopes' /\ DropCut' /\ TopOpen'
    BY <2>3 DEF StateInv, EntriesFull, BansOfScopes, DropCut, TopOpen, IsScope, chainOf
  <2> QED
    BY <1>1, <2>5, <2>6 DEF StateInv
<1>3. CASE (Next /\ UNCHANGED contentVars) \/ UNCHANGED vars
  <2>1. [Next]_memberVars
    BY <1>3 DEF vars
  <2>2. KeyInv'
    BY <2>1, StateFacts, KeyStep
  <2> QED
    BY <1>1, <2>1, <2>2, FullStep, ScopesStep, DropStep DEF StateInv
<1> QED
  BY <1>2, <1>3 DEF DecisionNext

LEMMA StateSafe == DecisionSpec => []StateInv
<1>1. ContentInit => StateInv
  BY StateInit
<1>2. StateInv /\ [DecisionNext]_vars => StateInv'
  BY StateStep
<1> QED
  BY <1>1, <1>2, PTL DEF DecisionSpec

-----------------------------------------------------------------------------
(* The readers agree with apply.                                           *)

\* The role that counts in a sub-space: its own entry's, or what counts in the
\* scope above, where a private sub-space lets it through.
LEMMA RoleUp ==
    ASSUME TypeOK, Suffixes, NEW s \in Scopes, NEW id \in Ids, Len(chainOf(s)) > 1, IsScope(s)
    PROVE  LET up == roleOf(chainOf(s)[2], id)
           IN  roleOf(s, id) = IF bannedIn(banned, s, id) THEN None
                               ELSE IF member[s][id].role # None THEN member[s][id].role
                               ELSE IF space[s].private /\ up \notin {"owner", "admin"} THEN None
                               ELSE up
<1> DEFINE c == chainOf(s)
           n == Len(c)
           u == c[2]
           d == chainOf(u)
<1>1. n \in Nat /\ n > 1 /\ DOMAIN c = 1..n /\ member \in MemberTable /\ u \in Scopes /\ c[1] = s
  BY ChainType, Tables DEF Suffixes
<1>2. Len(d) = n - 1 /\ \A j \in 1..(n - 1) : d[j] = c[j + 1]
  <2>1. 2 \in 1..n
    BY <1>1
  <2>2. Len(d) = n - 2 + 1 /\ \A j \in 1..(n - 2 + 1) : d[j] = c[2 + j - 1]
    BY <1>1, <2>1 DEF Suffixes
  <2>3. \A j \in 1..(n - 1) : 2 + j - 1 = j + 1
    OBVIOUS
  <2>4. n - 2 + 1 = n - 1
    BY <1>1
  <2>5. 1..(n - 2 + 1) = 1..(n - 1)
    BY <2>4
  <2> HIDE DEF d, c, n
  <2>6. \A j \in 1..(n - 1) : d[j] = c[j + 1]
    BY <2>2, <2>3, <2>5
  <2> QED
    BY <2>2, <2>4, <2>6
<1>3. DOMAIN d = 1..(n - 1)
  <2>1. DOMAIN d = 1..Len(d)
    BY <1>1, ChainType
  <2> HIDE DEF d, n
  <2> QED
    BY <1>2, <2>1
<1>4. CASE bannedIn(banned, s, id)
  BY <1>1, <1>4, RoleCounts DEF roleOf
<1>5. CASE ~ bannedIn(banned, s, id) /\ member[s][id].role # None
  <2>1. 1 \in DOMAIN c /\ 1..(1 - 1) = {}
    BY <1>1
  <2>2. Counts(member, s, id, 1)
    BY <1>1, <1>5, <2>1 DEF Counts
  <2> QED
    BY <1>1, <1>5, <2>1, <2>2, RoleCounts DEF roleOf
<1>6. CASE ~ bannedIn(banned, s, id) /\ member[s][id].role = None
  <2>1. ASSUME roleOf(s, id) # None
        PROVE  /\ roleOf(u, id) = roleOf(s, id)
               /\ space[s].private => roleOf(u, id) \in {"owner", "admin"}
    <3>1. PICK i \in DOMAIN c : Counts(member, s, id, i) /\ roleOf(s, id) = member[c[i]][id].role
      BY <1>1, <2>1, RoleCounts DEF roleOf
    <3>2. i # 1
      BY <1>1, <1>6, <2>1, <3>1
    <3>3. 2 \in 1..i /\ 1 \in 1..(i - 1)
      BY <1>1, <3>2
    <3>4. roleOf(u, id) = member[c[i]][id].role
      BY <1>1, <1>6, <3>1, <3>3, CountsAbove DEF roleOf
    <3>5. space[s].private => member[c[i]][id].role \in {"owner", "admin"}
      BY <1>1, <3>1, <3>3 DEF Counts
    <3> QED
      BY <3>1, <3>4, <3>5
  <2>2. ASSUME roleOf(u, id) # None, space[s].private => roleOf(u, id) \in {"owner", "admin"}
        PROVE  roleOf(s, id) # None
    <3>1. PICK k \in 1..(n - 1) : Counts(member, u, id, k) /\ roleOf(u, id) = member[d[k]][id].role
      BY <1>1, <1>3, <2>2, RoleCounts DEF roleOf
    <3>2. k + 1 \in 1..n /\ d[k] = c[k + 1]
      <4> HIDE DEF d, c, n
      <4> QED
        BY <1>1, <1>2
    <3>3. ASSUME NEW j \in 1..(k + 1 - 1)
          PROVE  /\ member[c[j]][id].role = None
                 /\ space[c[j]].private => member[c[k + 1]][id].role \in {"owner", "admin"}
      <4>1. CASE j = 1
        BY <1>1, <1>6, <2>2, <3>1, <3>2, <4>1
      <4>2. CASE j # 1
        <5>1. j - 1 \in 1..(k - 1) /\ j - 1 \in 1..(n - 1) /\ j - 1 + 1 = j
          BY <1>1, <4>2
        <5>2. d[j - 1] = c[j]
          BY <1>2, <5>1
        <5> QED
          BY <3>1, <3>2, <5>1, <5>2 DEF Counts
      <4> QED
        BY <4>1, <4>2
    <3>4. member[c[k + 1]][id].role # None
      BY <2>2, <3>1, <3>2
    <3>5. Counts(member, s, id, k + 1)
      BY <1>1, <3>2, <3>3, <3>4 DEF Counts
    <3> QED
      BY <1>1, <1>6, <3>2, <3>4, <3>5, RoleCounts DEF roleOf
  <2>3. roleOf(s, id) = IF space[s].private /\ roleOf(u, id) \notin {"owner", "admin"} THEN None
                        ELSE roleOf(u, id)
    BY <2>1, <2>2
  <2> QED
    BY <1>6, <2>3
<1> QED
  BY <1>4, <1>5, <1>6

\* What the reader of the i-th scope of s's chain says of id, when g is what
\* those above say.
ReadAt(s, id, g, i) ==
    LET c == chainOf(s)
    IN  IF i = Len(c) THEN member[Top][id]
        ELSE IF stateBanned(c[i], id) THEN NoEntry
        ELSE IF member[c[i]][id] # NoEntry THEN member[c[i]][id]
        ELSE IF space[c[i]].private /\ g[i + 1].role \notin {"owner", "admin"} THEN NoEntry
        ELSE g[i + 1]

Readers(s, id, g) == g = [i \in 1..Len(chainOf(s)) |-> ReadAt(s, id, g, i)]

\* Each reader asks the one above it, and the last is the space's own.
LEMMA ReadersAre ==
    ASSUME TypeOK, NEW s \in Scopes, NEW id \in Ids, IsScope(s)
    PROVE  \E g : Readers(s, id, g) /\ stateMember(s, id) = g[1]
<1> DEFINE n == Len(chainOf(s))
           From(k, g) == g = [i \in k..n |-> ReadAt(s, id, g, i)]
           Unread == {k \in 1..n : ~ \E g : From(k, g)}
<1>1. n \in Nat \ {0}
  BY ChainLen
<1> HIDE DEF n
<1>2. Unread = {}
  <2> SUFFICES ASSUME Unread # {} PROVE FALSE
    OBVIOUS
  <2>1. PICK k \in Unread : \A j \in Unread : j <= k
    BY <1>1, SomeGreatest
  <2>2. k # n
    <3>1. From(n, [i \in n..n |-> member[Top][id]])
      <4>1. \A g : \A i \in n..n : ReadAt(s, id, g, i) = member[Top][id]
        BY <1>1 DEF ReadAt, n
      <4> QED
        BY <4>1
    <3> QED
      BY <3>1
  <2>3. k \in 1..n /\ k + 1 \in 1..n /\ k + 1 \notin Unread
    BY <1>1, <2>1, <2>2
  <2>4. PICK g : From(k + 1, g)
    BY <2>3
  <2> DEFINE h == [i \in k..n |-> IF i = k THEN ReadAt(s, id, g, k) ELSE g[i]]
  <2>5. ASSUME NEW i \in k..n PROVE h[i] = ReadAt(s, id, h, i)
    <3>1. i \in Nat /\ k \in Nat /\ (i # n => i + 1 \in k..n /\ i + 1 # k)
      BY <1>1, <2>3, <2>5
    <3>2. i # n => h[i + 1] = g[i + 1]
      BY <3>1
    <3> HIDE DEF h
    <3>3. ReadAt(s, id, h, i) = ReadAt(s, id, g, i)
      BY <3>2 DEF ReadAt, n
    <3>4. i # k => i \in (k + 1)..n
      BY <1>1, <3>1
    <3>5. i # k => g[i] = ReadAt(s, id, g, i)
      BY <2>4, <3>4
    <3>6. h[i] = IF i = k THEN ReadAt(s, id, g, k) ELSE g[i]
      BY <2>5 DEF h
    <3> QED
      BY <3>3, <3>5, <3>6
  <2>6. h = [i \in k..n |-> h[i]]
    OBVIOUS
  <2> HIDE DEF h
  <2>7. From(k, h)
    BY <2>5, <2>6
  <2> QED
    BY <2>1, <2>7
<1>3. 1 \notin Unread /\ 1 \in 1..n
  BY <1>1, <1>2
<1>4. PICK g : From(1, g)
  BY <1>3
<1>5. Readers(s, id, g)
  BY <1>4 DEF Readers, n
<1> QED
  BY <1>5 DEF stateMember, Readers, ReadAt

\* What members read of someone is their role, and an entry only with a role.
LEMMA ReadMember ==
    ASSUME StateInv, NEW s \in Scopes, NEW id \in Ids, IsScope(s)
    PROVE  /\ stateMember(s, id).role = roleOf(s, id)
           /\ stateMember(s, id).role = None => stateMember(s, id) = NoEntry
<1> DEFINE c == chainOf(s)
           n == Len(c)
<1>1. PICK g : Readers(s, id, g) /\ stateMember(s, id) = g[1]
  BY StateFacts, ReadersAre
<1>2. n \in Nat \ {0} /\ DOMAIN c = 1..n /\ c[n] = Top /\ c[1] = s
  BY StateFacts, KeyFacts, ChainLen DEF ChainShape, Suffixes
<1> DEFINE Right(i) == g[i].role = roleOf(c[i], id) /\ (g[i].role = None => g[i] = NoEntry)
           Wrong == {i \in 1..n : ~ Right(i)}
<1>3. Right(n)
  <2>1. n \in 1..n
    <3> HIDE DEF n, c
    <3> QED
      BY <1>2
  <2>2. g[n] = ReadAt(s, id, g, n)
    BY <1>1, <2>1 DEF Readers
  <2>3. g[n] = member[Top][id]
    BY <2>2 DEF ReadAt
  <2>4. roleOf(Top, id) = member[Top][id].role
    BY StateFacts, KeyFacts
  <2> QED
    BY <1>2, <2>3, <2>4, StateFacts
<1>4. ASSUME NEW i \in 1..n, i # n, Right(i + 1) PROVE Right(i)
  <2> DEFINE t == c[i]
             up == roleOf(c[i + 1], id)
  <2>1. i + 1 \in 1..n /\ n - i + 1 > 1 /\ 2 \in 1..(n - i + 1) /\ i + 2 - 1 = i + 1 /\ i \in DOMAIN c
    <3> HIDE DEF n, c
    <3> QED
      BY <1>2, <1>4
  <2>2. t \in Scopes
    BY <2>1, StateFacts, ChainType
  <2>3. Len(chainOf(t)) = n - i + 1 /\ chainOf(t)[2] = c[i + 1]
    BY <1>4, <2>1, <2>2, StateFacts, KeyFacts DEF Suffixes
  <2>4. IsScope(t)
    BY <2>1, <2>3 DEF IsScope
  <2>5. roleOf(t, id) = IF bannedIn(banned, t, id) THEN None
                        ELSE IF member[t][id].role # None THEN member[t][id].role
                        ELSE IF space[t].private /\ up \notin {"owner", "admin"} THEN None
                        ELSE up
    BY <2>1, <2>2, <2>3, <2>4, StateFacts, KeyFacts, RoleUp
  <2>6. g[i] = IF stateBanned(t, id) THEN NoEntry
               ELSE IF member[t][id] # NoEntry THEN member[t][id]
               ELSE IF space[t].private /\ g[i + 1].role \notin {"owner", "admin"} THEN NoEntry
               ELSE g[i + 1]
    BY <1>1, <1>4 DEF Readers, ReadAt
  <2>7. member[t][id].role = None <=> member[t][id] = NoEntry
    BY <2>2, StateFacts DEF NoEntry
  <2>8. NoEntry.role = None /\ (stateBanned(t, id) <=> bannedIn(banned, t, id))
    BY DEF NoEntry, stateBanned
  <2>9. g[i + 1].role = up /\ (g[i + 1].role = None => g[i + 1] = NoEntry)
    BY <1>4
  <2> HIDE DEF t, up
  <2>10. g[i].role = roleOf(t, id) /\ (g[i].role = None => g[i] = NoEntry)
    BY <2>5, <2>6, <2>7, <2>8, <2>9
  <2> QED
    BY <2>10 DEF t
<1>5. Wrong = {}
  <2> SUFFICES ASSUME Wrong # {} PROVE FALSE
    OBVIOUS
  <2> HIDE DEF Right
  <2>1. PICK k \in Wrong : \A j \in Wrong : j <= k
    BY <1>2, SomeGreatest
  <2>2. k \in 1..n /\ ~ Right(k) /\ k # n
    BY <1>3, <2>1
  <2>3. k + 1 \in 1..n /\ ~ (k + 1 <= k)
    <3> HIDE DEF n, c
    <3> QED
      BY <1>2, <2>2
  <2>4. Right(k + 1)
    BY <2>1, <2>3
  <2> QED
    BY <1>4, <2>2, <2>4
<1>6. Right(1)
  BY <1>2, <1>5
<1> QED
  BY <1>1, <1>2, <1>6

\* ReadersAgree holds in every view: whoever reads the log's view finds the
\* roles apply decided by, in every scope, however deep.
THEOREM AgreeSafe == DecisionSpec => []ReadersAgree
<1>1. StateInv => ReadersAgree
  BY ReadMember DEF ReadersAgree
<1> QED
  BY <1>1, StateSafe, PTL

-----------------------------------------------------------------------------
(* What a cut and a drop leave.                                            *)

\* The lowest length a cut in s or above names the log with is one of theirs.
LEMMA LowestCut ==
    ASSUME TypeOK, NEW s \in Scopes, NEW id \in Ids, NEW l \in Logs, IsScope(s)
    PROVE  /\ stateCut(s, id).logs[l] \in Lengths
           /\ \E i \in DOMAIN chainOf(s) : stateCut(s, id).logs[l] = cut[chainOf(s)[i]][id].logs[l]
           /\ \A i \in DOMAIN chainOf(s) : stateCut(s, id).logs[l] <= cut[chainOf(s)[i]][id].logs[l]
<1> DEFINE c == chainOf(s)
           cuts == {cut[c[i]][id] : i \in DOMAIN c}
           named == {t.logs[l] : t \in cuts}
           P(m) == (\E t \in cuts : t.logs[l] = m) /\ \A t \in cuts : m <= t.logs[l]
           n == CHOOSE m \in Lengths : P(m)
<1>1. stateCut(s, id).logs[l] = n
  BY DEF stateCut
<1>2. \A i \in DOMAIN c : c[i] \in Scopes
  BY ChainType
<1>3. \A t \in cuts : t.logs[l] \in Lengths
  BY <1>2, CutLengths
<1>4. cuts # {}
  <2>1. 1 \in DOMAIN c
    BY ChainLen
  <2> QED
    BY <2>1
<1>5. \E m \in Lengths : P(m)
  <2>1. named \subseteq Lengths /\ named # {}
    BY <1>3, <1>4
  <2>2. named \subseteq Nat
    BY <2>1, LengthOrder
  <2> HIDE DEF named
  <2>3. PICK m \in named : \A k \in named : m <= k
    BY <2>1, <2>2, LeastIsOne
  <2> QED
    BY <1>3, <2>3 DEF named
<1>6. n \in Lengths /\ P(n)
  BY <1>5
<1> QED
  BY <1>1, <1>6

\* So of what relies on a permission.
LEMMA LowestEditCut ==
    ASSUME TypeOK, NEW s \in Scopes, NEW id \in Ids, NEW p \in Permissions, NEW l \in Logs, IsScope(s)
    PROVE  LET n == stateEditCut(s, id, p, l)
           IN  /\ n \in Lengths
               /\ \E i \in DOMAIN chainOf(s) : n = editcut[chainOf(s)[i]][id][p][l]
               /\ \A i \in DOMAIN chainOf(s) : n <= editcut[chainOf(s)[i]][id][p][l]
<1> DEFINE c == chainOf(s)
           cuts == {editcut[c[i]][id][p][l] : i \in DOMAIN c}
<1>1. \A i \in DOMAIN c : editcut[c[i]][id][p][l] \in Lengths
  BY ChainType, CutLengths
<1>2. cuts \subseteq Lengths /\ cuts # {}
  <2>1. 1 \in DOMAIN c
    BY ChainLen
  <2> QED
    BY <1>1, <2>1
<1>3. PICK n \in cuts : \A m \in cuts : n <= m
  <2> HIDE DEF cuts
  <2>1. cuts \subseteq Nat
    BY <1>2, LengthOrder
  <2> QED
    BY <1>2, <2>1, LeastIsOne
<1> QED
  BY <1>2, <1>3 DEF stateEditCut

\* Nobody banned in a scope or above may write there.
LEMMA BannedSilent ==
    ASSUME StateInv, NEW s \in Scopes, NEW id \in Ids, IsScope(s), bannedIn(banned, s, id)
    PROVE  ~ canWrite(s, id)
<1>1. roleOf(s, id) = None
  BY StateFacts, RoleCounts DEF roleOf
<1>2. stateMember(s, id) = NoEntry
  BY <1>1, ReadMember
<1>3. stateRole(s, id) = None
  BY <1>2 DEF stateRole, stateBanned
<1>4. None \notin RoleNames /\ None # "owner"
  BY NoneAssumption DEF RoleNames, Builtin
<1>5. ~ can(None, "post", roles)
  BY <1>4 DEF can, permissionsOf, IsRole, RoleNames
<1> QED
  BY <1>3, <1>5 DEF canWrite

\* DropHolds holds in every view: what apply recorded for a ban that drops all,
\* first or again, takes every log a reader looks at, whatever was cut before.
THEOREM DropSafe == DecisionSpec => []DropHolds
<1>1. StateInv => DropHolds
  <2> SUFFICES ASSUME StateInv, NEW s \in Scopes, NEW id \in Ids, NEW l \in Logs, banned[s][id].drop,
                      \A i \in 2..Len(chainOf(s)) : cut[chainOf(s)[i]][id].logs[l] = Inf
               PROVE  limitOf(s, id, l) = 0
    BY DEF DropHolds
  <2> DEFINE c == chainOf(s)
             low == stateCut(s, id).logs[l]
  <2>1. banned[s][id] # NoBan /\ IsScope(s)
    BY StateFacts DEF NoBan
  <2>2. DOMAIN c = 1..Len(c) /\ Len(c) \in Nat \ {0} /\ c[1] = s
    BY <2>1, StateFacts, KeyFacts, ChainLen DEF Suffixes
  <2>3. cut[s][id].logs[l] \in {0, Inf}
    BY DEF StateInv, DropCut
  <2>4. PICK i \in DOMAIN c : low = cut[c[i]][id].logs[l]
    BY <2>1, StateFacts, LowestCut
  <2>5. low \in {0, Inf}
    <3>1. i = 1 \/ i \in 2..Len(c)
      <4> HIDE DEF c, low
      <4> QED
        BY <2>2, <2>4
    <3> QED
      BY <2>2, <2>3, <2>4, <3>1
  <2>6. bannedIn(banned, s, id)
    BY <2>1, <2>2 DEF bannedIn
  <2>7. ~ canWrite(s, id)
    BY <2>1, <2>6, BannedSilent
  <2> QED
    BY <2>5, <2>7, LengthOrder DEF limitOf
<1> QED
  BY <1>1, StateSafe, PTL

\* A scope there is keeps its place among the others.
LEMMA ChainsKept ==
    ASSUME StateInv, [DecisionNext]_vars
    PROVE  \A s \in Scopes : IsScope(s) => chainOf(s)' = chainOf(s)
<1>1. CASE UNCHANGED space
  BY <1>1 DEF chainOf
<1>2. CASE ContentNext
  <2>1. TypeOK' /\ OwnerInv
    BY ContentTypeStep, StateFacts DEF StateInv, ContentTypeOK
  <2> QED
    BY <1>1, <1>2, <2>1, OwnerContent DEF spaceVars
<1>3. ASSUME NEW p, SpaceInit(p) PROVE \A s \in Scopes : space'[s].chain = space[s].chain
  BY <1>3, StateFacts DEF SpaceInit, Info
<1>4. ASSUME NEW w \in Devices, NEW s \in Scopes, NEW x \in Subs, NEW p, NEW only,
             SubspaceCreate(w, s, x, p, only)
      PROVE  \A z \in Scopes : IsScope(z) => space'[z] = space[z]
  <2>1. ~ IsScope(x) /\ \E i : space' = [space EXCEPT ![x] = i]
    BY <1>4 DEF SubspaceCreate
  <2> QED
    BY <2>1, StateFacts
<1>5. ASSUME NEW w \in Devices,
             \/ \E id \in Ids : MemberAdd(w, id)
             \/ \E name \in CustomRoles, perms \in DefinedPerms : RoleDefine(w, name, perms)
             \/ \E s \in Scopes, id \in Ids : Unban(w, s, id)
             \/ \E inv \in Invites : InviteRevoke(w, inv)
             \/ \E inv \in Invites, d \in Devices : InviteRedeem(w, inv, d)
             \/ \E d \in Devices : WriterAdd(w, d)
             \/ \E d \in Removable : DeviceRemove(w, d)
      PROVE  UNCHANGED space
  <2>1. ASSUME NEW inv, NEW d, InviteRedeem(w, inv, d) PROVE UNCHANGED space
    BY <2>1 DEF InviteRedeem, spaceVars
  <2>2. ASSUME NEW inv, InviteRevoke(w, inv) PROVE UNCHANGED space
    BY <2>2 DEF InviteRevoke, spaceVars
  <2>3. ASSUME NEW d, WriterAdd(w, d) \/ DeviceRemove(w, d) \/ MemberAdd(w, d) PROVE UNCHANGED space
    BY <2>3 DEF WriterAdd, DeviceRemove, MemberAdd, spaceVars
  <2>4. ASSUME NEW s, NEW id, Unban(w, s, id) \/ RoleDefine(w, s, id) PROVE UNCHANGED space
    BY <2>4 DEF Unban, RoleDefine, spaceVars
  <2> QED
    BY <1>5, <2>1, <2>2, <2>3, <2>4
<1>6. ASSUME NEW w \in Devices, NEW s \in Scopes, NEW id \in Ids, NEW c \in Cuts,
             \/ MemberRemove(w, s, id, c)
             \/ \E role \in AssignedRoles : RoleSet(w, s, id, role, c)
             \/ \E drop \in Drops : BanMember(w, s, id, c, drop)
             \/ BanAgain(w, s, id, c)
      PROVE  UNCHANGED space
  BY <1>6 DEF MemberRemove, RoleSet, BanMember, BanAgain, spaceVars
<1>7. UNCHANGED vars => UNCHANGED space
  BY DEF vars, memberVars, spaceVars
<1>8. ASSUME Next PROVE \A s \in Scopes : IsScope(s) => space'[s].chain = space[s].chain
  <2>1. CASE \E p : SpaceInit(p)
    BY <1>3, <2>1
  <2>2. CASE \E w \in Devices, s \in Scopes, x \in Subs, p \in Privacy, only \in WriteRoles :
               SubspaceCreate(w, s, x, p, only)
    BY <1>4, <2>2
  <2>3. ASSUME ~ \E p : SpaceInit(p),
               ~ \E w \in Devices, s \in Scopes, x \in Subs, p \in Privacy, only \in WriteRoles :
                     SubspaceCreate(w, s, x, p, only)
        PROVE  UNCHANGED space
    BY <1>5, <1>6, <1>8, <2>3 DEF Next
  <2> QED
    BY <2>1, <2>2, <2>3
<1> QED
  BY <1>1, <1>2, <1>7, <1>8 DEF DecisionNext, chainOf

\* What a reader finds the log cut at, as a fact about a view.
LowestNow ==
    \A s \in Scopes, id \in Ids, l \in Logs : IsScope(s) =>
        /\ stateCut(s, id).logs[l] \in Lengths
        /\ \A i \in DOMAIN chainOf(s) : stateCut(s, id).logs[l] <= cut[chainOf(s)[i]][id].logs[l]

LEMMA LowestCuts == TypeOK => LowestNow
BY LowestCut DEF LowestNow

\* So of what relies on a permission.
LowestEditNow ==
    \A s \in Scopes, id \in Ids, p \in Permissions, l \in Logs : IsScope(s) =>
        /\ stateEditCut(s, id, p, l) \in Lengths
        /\ \A i \in DOMAIN chainOf(s) : stateEditCut(s, id, p, l) <= editcut[chainOf(s)[i]][id][p][l]

LEMMA LowestEditCuts == TypeOK => LowestEditNow
BY LowestEditCut DEF LowestEditNow

\* What counts, by the lowest length recorded.
LimitsNow ==
    \A s \in Scopes, id \in Ids, l \in Logs :
        /\ stateCut(s, id).logs[l] # Inf => limitOf(s, id, l) = stateCut(s, id).logs[l]
        /\ \A p \in Permissions :
            /\ stateEditCut(s, id, p, l) # Inf => editLimit(s, id, p, l) = stateEditCut(s, id, p, l)
            /\ stateEditCut(s, id, p, l) = Inf => editLimit(s, id, p, l) \in {0, Inf}

LEMMA Limits == LimitsNow
BY DEF LimitsNow, limitOf, editLimit

LimitsKept ==
    \A s \in Scopes, id \in Ids, l \in Logs : IsScope(s) =>
        /\ stateCut(s, id).logs[l] # Inf => limitOf(s, id, l)' <= limitOf(s, id, l)
        /\ \A p \in Permissions :
            editLimit(s, id, p, l) \notin {0, Inf} =>
                editLimit(s, id, p, l)' <= editLimit(s, id, p, l)

\* The scopes a reader asks stay the same, and what each names only falls: so
\* does the lowest of them.
LEMMA LimitStep == StateInv /\ StateInv' /\ [DecisionNext]_vars => LimitsKept
<1> SUFFICES ASSUME StateInv, StateInv', [DecisionNext]_vars,
                    NEW s \in Scopes, NEW id \in Ids, NEW l \in Logs, IsScope(s)
             PROVE  /\ stateCut(s, id).logs[l] # Inf => limitOf(s, id, l)' <= limitOf(s, id, l)
                    /\ \A p \in Permissions :
                        editLimit(s, id, p, l) \notin {0, Inf} =>
                            editLimit(s, id, p, l)' <= editLimit(s, id, p, l)
  BY DEF LimitsKept
<1>1. TypeOK /\ Falling
  BY StateFacts, FallingStep
<1>2. TypeOK'
  BY DEF StateInv, ContentTypeOK
<1>3. LowestNow' /\ LowestEditNow' /\ LimitsNow /\ LimitsNow'
  <2>1. (TypeOK => LowestNow)' /\ (TypeOK => LowestEditNow)' /\ LimitsNow'
    BY LowestCuts, LowestEditCuts, Limits, PTL
  <2> QED
    BY <1>2, <2>1, Limits
<1>4. chainOf(s)' = chainOf(s) /\ IsScope(s)'
  <2>1. chainOf(s)' = chainOf(s)
    BY ChainsKept
  <2> QED
    BY <2>1 DEF IsScope
<1>5. ASSUME NEW n \in Lengths, NEW m \in Lengths, NEW a, NEW b \in Lengths,
             n = a, m <= b, b <= a
      PROVE  m <= n /\ (n # Inf => m # Inf)
  <2>1. n \in Nat /\ m \in Nat /\ b \in Nat /\ n <= Inf /\ m <= Inf /\ Inf \in Nat
    BY LengthOrder
  <2> QED
    BY <1>5, <2>1
<1>6. ASSUME stateCut(s, id).logs[l] # Inf PROVE limitOf(s, id, l)' <= limitOf(s, id, l)
  <2>1. PICK i \in DOMAIN chainOf(s) : stateCut(s, id).logs[l] = cut[chainOf(s)[i]][id].logs[l]
    BY <1>1, LowestCut
  <2> DEFINE z == chainOf(s)[i]
  <2>2. z \in Scopes /\ cut[z][id].logs[l] \in Lengths
    BY <1>1, ChainType, CutLengths
  <2> HIDE DEF z
  <2>3. cut'[z][id].logs[l] \in Lengths /\ cut'[z][id].logs[l] <= cut[z][id].logs[l]
    <3>1. (TypeOK => CutsTyped)'
      BY CutsTypes, PTL
    <3> QED
      BY <1>1, <1>2, <2>2, <3>1 DEF Falling, CutsTyped
  <2>4. (stateCut(s, id).logs[l])' \in Lengths /\ (stateCut(s, id).logs[l])' <= cut'[z][id].logs[l]
    BY <1>3, <1>4, <2>1 DEF LowestNow, z
  <2>5. /\ (stateCut(s, id).logs[l])' <= stateCut(s, id).logs[l]
        /\ (stateCut(s, id).logs[l])' # Inf
    BY <1>5, <1>6, <2>1, <2>2, <2>3, <2>4 DEF z
  <2>6. /\ limitOf(s, id, l) = stateCut(s, id).logs[l]
        /\ limitOf(s, id, l)' = (stateCut(s, id).logs[l])'
    BY <1>3, <1>6, <2>5 DEF LimitsNow
  <2> QED
    BY <2>5, <2>6
<1>7. ASSUME NEW p \in Permissions, editLimit(s, id, p, l) \notin {0, Inf}
      PROVE  editLimit(s, id, p, l)' <= editLimit(s, id, p, l)
  <2>1. stateEditCut(s, id, p, l) # Inf
    BY <1>3, <1>7 DEF LimitsNow
  <2>2. PICK i \in DOMAIN chainOf(s) : stateEditCut(s, id, p, l) = editcut[chainOf(s)[i]][id][p][l]
    BY <1>1, LowestEditCut
  <2> DEFINE z == chainOf(s)[i]
  <2>3. z \in Scopes /\ editcut[z][id][p][l] \in Lengths
    BY <1>1, ChainType, CutLengths
  <2> HIDE DEF z
  <2>4. editcut'[z][id][p][l] \in Lengths /\ editcut'[z][id][p][l] <= editcut[z][id][p][l]
    <3>1. (TypeOK => CutsTyped)'
      BY CutsTypes, PTL
    <3> QED
      BY <1>1, <1>2, <2>3, <3>1 DEF Falling, CutsTyped
  <2>5. stateEditCut(s, id, p, l)' \in Lengths /\ stateEditCut(s, id, p, l)' <= editcut'[z][id][p][l]
    BY <1>3, <1>4, <2>2 DEF LowestEditNow, z
  <2>6. stateEditCut(s, id, p, l)' <= stateEditCut(s, id, p, l) /\ stateEditCut(s, id, p, l)' # Inf
    BY <1>5, <2>1, <2>2, <2>3, <2>4, <2>5 DEF z
  <2>7. /\ editLimit(s, id, p, l) = stateEditCut(s, id, p, l)
        /\ editLimit(s, id, p, l)' = stateEditCut(s, id, p, l)'
    BY <1>3, <2>1, <2>6 DEF LimitsNow
  <2> QED
    BY <2>6, <2>7
<1> QED
  BY <1>6, <1>7

\* CutIsFinal: no decision, of whoever, makes a log once cut count for more, in
\* the scope it was cut in or in one below, of its records or of what relies on
\* a permission.
THEOREM FinalSafe == DecisionSpec => CutIsFinal
<1>1. StateInv /\ StateInv' /\ [DecisionNext]_vars => [LimitsKept]_vars
  BY LimitStep
<1> QED
  BY <1>1, StateSafe, PTL DEF DecisionSpec, CutIsFinal, LimitsKept

-----------------------------------------------------------------------------
(* Codes of admission, where every role an app defines may post.  An       *)
(* invite's step up to one that may not keeps the code of the role before, *)
(* and nothing takes it back when that role ends.                          *)

PostersOnly == \A perms \in DefinedPerms : "post" \in perms

\* Whoever has a role in the top space may post there; whoever was cut and was
\* let back in carries a code, and whoever is out carries none.
AdmitInv ==
    /\ \A r \in CustomRoles : roles[r] # None => "post" \in roles[r]
    /\ \A id \in Ids :
        LET role == member[Top][id].role
        IN  /\ role # None => IsRole(role, roles)
            /\ role = None => admit[Top][id] = None
            /\ role \notin {None, "owner"} /\ cut[Top][id].on => admit[Top][id] # None
            /\ admit[Top][id] # None => admit[Top][id] <= codes

\* What a decision may do to the entries about id in the top space: nothing,
\* take the role and the code, make the owner, or give a role and a new code to
\* who was cut and carries none.
RowKept(id) ==
    /\ member'[Top][id].role = member[Top][id].role
    /\ cut'[Top][id].on = cut[Top][id].on
    /\ admit'[Top][id] = admit[Top][id]

RowOut(id) ==
    /\ member'[Top][id].role = None
    /\ cut[Top][id].on => cut'[Top][id].on
    /\ admit'[Top][id] = None

RowOwner(id) ==
    /\ member'[Top][id].role = "owner"
    /\ cut'[Top][id].on = cut[Top][id].on
    /\ admit'[Top][id] = admit[Top][id]

RowIn(id) ==
    /\ member'[Top][id].role # None /\ IsRole(member'[Top][id].role, roles)
    /\ cut'[Top][id].on = cut[Top][id].on
    /\ admit'[Top][id] = IF cut[Top][id].on /\ admit[Top][id] = None THEN codes + 1
                         ELSE admit[Top][id]
    /\ admit'[Top][id] # admit[Top][id] => codes' = codes + 1

TopRows ==
    /\ codes' \in Nat /\ codes <= codes'
    /\ \A id \in Ids : RowKept(id) \/ RowOut(id) \/ RowOwner(id) \/ RowIn(id)

\* What decisions find and leave in the tables, by scope and by person.
LEMMA AdmitFacts ==
    ASSUME StateInv, PostersOnly, AdmitInv
    PROVE  /\ codes \in Nat /\ Top \in Scopes /\ ~ \E s : below(Top, s)
           /\ cut \in [Scopes -> [Ids -> Cut]] /\ admit \in [Scopes -> [Ids -> Nat \cup {None}]]
           /\ member \in [Scopes -> [Ids -> Entry]] /\ banned \in [Scopes -> [Ids -> Ban]]
           /\ \A role : IsRole(role, roles) => can(role, "post", roles)
           /\ ~ can(None, "post", roles)
           /\ \A id \in Ids : roleOf(Top, id) = member[Top][id].role
           /\ \A id \in Ids : banned[Top][id] # NoBan => member[Top][id].role = None
<1>1. TypeOK /\ KeyInv /\ Top \in Scopes
  BY StateFacts
<1>2. chainOf(Top) = <<Top>>
  BY <1>1, KeyFacts DEF ChainShape
<1>3. ~ \E s : below(Top, s)
  <2>1. Len(<<Top>>) = 1 /\ 2..1 = {}
    OBVIOUS
  <2> QED
    BY <1>2, <2>1 DEF below
<1>4. \A role : IsRole(role, roles) => can(role, "post", roles)
  <2>1. \A role \in Builtin : "post" \in ROLES[role]
    BY DEF ROLES
  <2> QED
    BY <2>1, CustomAssumption DEF AdmitInv, IsRole, can, permissionsOf
<1>5. ~ can(None, "post", roles)
  <2>1. None \notin Builtin /\ None \notin CustomRoles /\ None # "owner"
    BY NoneAssumption DEF RoleNames, Builtin
  <2> QED
    BY <2>1 DEF can, permissionsOf, IsRole
<1>6. \A id \in Ids : banned[Top][id] # NoBan => member[Top][id].role = None
  BY <1>1, KeyFacts
<1>7. \A id \in Ids : roleOf(Top, id) = member[Top][id].role
  BY <1>1, <1>6, KeyFacts
<1> QED
  BY <1>1, <1>3, <1>4, <1>5, <1>6, <1>7 DEF TypeOK

\* The rows are kept where only other scopes, or other tables, change.
LEMMA RowsSame ==
    ASSUME StateInv, PostersOnly, AdmitInv,
           \A id \in Ids : RowKept(id), codes' \in {codes, codes + 1}
    PROVE  TopRows
BY AdmitFacts DEF TopRows

\* Whoever is let in, or gets another role.
LEMMA RowsAdmit ==
    ASSUME StateInv, PostersOnly, AdmitInv, NEW id \in Ids, NEW s \in Scopes, NEW e,
           e.role # None, IsRole(e.role, roles),
           member'[Top] = [member EXCEPT ![s][id] = e][Top],
           admit'[Top] = admitted(admit, s, id, e.role)[Top], UNCHANGED cut, Code
    PROVE  TopRows
<1>1. codes' \in {codes, codes + 1} /\ codes' \in Nat /\ codes <= codes'
  BY AdmitFacts DEF Code
<1>2. CASE s # Top
  <2>1. member'[Top] = member[Top] /\ admit'[Top] = admit[Top]
    BY <1>2, AdmitFacts DEF admitted
  <2> QED
    BY <1>1, <2>1, RowsSame DEF RowKept
<1>3. CASE s = Top
  <2>1. member'[Top] = [member[Top] EXCEPT ![id] = e]
    BY <1>3, AdmitFacts
  <2>2. \A x \in Ids : member'[Top][x] = IF x = id THEN e ELSE member[Top][x]
    BY <2>1, AdmitFacts
  <2>3. \A x \in Ids : x # id => admit'[Top][x] = admit[Top][x]
    BY <1>3, AdmitFacts DEF admitted
  <2>4. admit'[Top][id] = IF cut[Top][id].on /\ admit[Top][id] = None THEN codes + 1 ELSE admit[Top][id]
    BY <1>3, AdmitFacts DEF admitted
  <2>5. admit'[Top][id] # admit[Top][id] => codes' = codes + 1
    BY DEF Code
  <2>6. RowIn(id)
    BY <2>2, <2>4, <2>5 DEF RowIn
  <2>7. \A x \in Ids : x # id => RowKept(x)
    BY <2>2, <2>3 DEF RowKept
  <2> QED
    BY <1>1, <2>6, <2>7 DEF TopRows
<1> QED
  BY <1>2, <1>3

\* Whoever is taken out of a scope or banned from it.
LEMMA RowsOut ==
    ASSUME StateInv, PostersOnly, AdmitInv, NEW id \in Ids, NEW s \in Scopes,
           UNCHANGED codes,
           \A x \in Ids : s # Top \/ x # id => RowKept(x),
           s = Top => RowOut(id)
    PROVE  TopRows
BY AdmitFacts DEF TopRows

\* A cut, or a drop, in one scope reaches no one else's of the top space.
LEMMA CutsAbove ==
    ASSUME StateInv, PostersOnly, AdmitInv, NEW id \in Ids, NEW s \in Scopes, NEW c,
           NEW t \in {cut, recordCut(cut, s, id, c)}
    PROVE  /\ \A x \in Ids : s # Top \/ x # id =>
                t[Top][x] = cut[Top][x] /\ dropAll(t, s, id, c)[Top][x] = cut[Top][x]
           /\ cut[s][id].on => t[s][id].on /\ dropAll(t, s, id, c)[s][id].on
<1>1. \A x \in Ids : s # Top \/ x # id => t[Top][x] = cut[Top][x]
  BY AdmitFacts DEF recordCut
<1>2. cut[s][id].on => t[s][id].on
  BY AdmitFacts DEF recordCut
<1>3. t[Top] \in [Ids -> {t[Top][x] : x \in Ids}] /\ t[s] \in [Ids -> {t[s][x] : x \in Ids}]
  BY AdmitFacts DEF recordCut
<1>4. s # Top => dropAll(t, s, id, c)[Top] = t[Top]
  BY AdmitFacts DEF dropAll
<1>5. \A x \in Ids : x # id => dropAll(t, s, id, c)[s][x] = t[s][x]
  BY <1>3 DEF dropAll
<1>6. dropAll(t, s, id, c)[s][id].on
  BY <1>3 DEF dropAll
<1> QED
  BY <1>1, <1>2, <1>4, <1>5, <1>6

\* An invite gives its role and, to who was cut, a code.
LEMMA RowsRedeem ==
    ASSUME StateInv, PostersOnly, AdmitInv, NEW w \in Devices, NEW inv \in Invites, NEW d \in Devices,
           InviteRedeem(w, inv, d)
    PROVE  TopRows
<1> DEFINE s == inv.space
           id == Person[d]
           e == [role |-> inv.role, key |-> d]
           f == [role |-> inv.role, key |-> None]
<1>1. s \in Scopes /\ id \in Ids /\ inv.sub \in Subs \cup {None}
  BY InputAssumption, PersonAssumption DEF Invite
<1>2. e.role = inv.role /\ f.role = inv.role /\ inv.role # None /\ IsRole(inv.role, roles)
  BY NoneAssumption DEF InviteRedeem, mayInvite, IsRole, RoleNames, Builtin
<1>3. UNCHANGED cut /\ Code
  BY DEF InviteRedeem
<1>4. codes' \in {codes, codes + 1}
  BY <1>3 DEF Code
<1>5. \E m \in {member, [member EXCEPT ![s][id] = e]}, a \in {admit, admitted(admit, s, id, inv.role)} :
        /\ (m = member /\ a = admit) \/ (m = [member EXCEPT ![s][id] = e] /\ a = admitted(admit, s, id, inv.role))
        /\ \/ member' = m /\ admit' = a
           \/ /\ below(inv.sub, s)
              /\ member' = [m EXCEPT ![inv.sub][id] = f]
              /\ admit' = admitted(a, inv.sub, id, inv.role)
  BY DEF InviteRedeem, Routes
<1> HIDE DEF s, id, e, f
<1>6. PICK m \in {member, [member EXCEPT ![s][id] = e]}, a \in {admit, admitted(admit, s, id, inv.role)} :
        /\ (m = member /\ a = admit) \/ (m = [member EXCEPT ![s][id] = e] /\ a = admitted(admit, s, id, inv.role))
        /\ \/ member' = m /\ admit' = a
           \/ /\ below(inv.sub, s)
              /\ member' = [m EXCEPT ![inv.sub][id] = f]
              /\ admit' = admitted(a, inv.sub, id, inv.role)
  BY <1>5
<1>7. member'[Top] = m[Top] /\ admit'[Top] = a[Top]
  <2>1. inv.sub # Top \/ (member' = m /\ admit' = a)
    BY <1>6, AdmitFacts
  <2>2. DOMAIN m = Scopes /\ DOMAIN a = Scopes
    BY <1>6, AdmitFacts DEF admitted
  <2> QED
    BY <1>6, <2>1, <2>2, AdmitFacts DEF admitted
<1>8. CASE m = member /\ a = admit
  BY <1>3, <1>4, <1>7, <1>8, RowsSame DEF RowKept
<1>9. CASE m = [member EXCEPT ![s][id] = e] /\ a = admitted(admit, s, id, inv.role)
  BY <1>1, <1>2, <1>3, <1>7, <1>9, RowsAdmit
<1> QED
  BY <1>6, <1>8, <1>9

\* Every decision does to the entries of the top space what TopRows says.
LEMMA RowsStep == StateInv /\ PostersOnly /\ AdmitInv /\ [DecisionNext]_vars => TopRows
<1> SUFFICES ASSUME StateInv, PostersOnly, AdmitInv, [DecisionNext]_vars PROVE TopRows
  OBVIOUS
<1>1. ASSUME UNCHANGED <<member, cut, admit, codes>> PROVE TopRows
  BY <1>1, RowsSame DEF RowKept
<1>2. CASE ContentNext \/ UNCHANGED vars
  <2>1. ContentNext => UNCHANGED <<personVars, cutVars>>
    BY DEF ContentNext, Moderate, SettingsSet, TypesSet, LogsList, KeyRotate, OnlyContent
  <2> QED
    BY <1>1, <1>2, <2>1 DEF vars, memberVars, personVars, cutVars
<1>3. ASSUME NEW p, SpaceInit(p) PROVE TopRows
  <2>1. /\ member' = [member EXCEPT ![Top][Person[Creator]] = [role |-> "owner", key |-> None]]
        /\ UNCHANGED <<cut, admit, codes>>
    BY <1>3 DEF SpaceInit, cutVars
  <2>2. \A x \in Ids : member'[Top][x] = member[Top][x] \/ member'[Top][x].role = "owner"
    BY <2>1, AdmitFacts
  <2> QED
    BY <2>1, <2>2, AdmitFacts DEF TopRows, RowKept, RowOwner
<1>4. ASSUME NEW w \in Devices, NEW id \in Ids, MemberAdd(w, id) PROVE TopRows
  <2>1. /\ member' = [member EXCEPT ![Top][id] = Joined(id)]
        /\ admit' = admitted(admit, Top, id, "member") /\ Code /\ UNCHANGED cut
    BY <1>4 DEF MemberAdd
  <2>2. Joined(id).role = "member" /\ "member" # None /\ IsRole("member", roles)
    BY NoneAssumption DEF Joined, IsRole, Builtin, RoleNames
  <2> QED
    BY <2>1, <2>2, AdmitFacts, RowsAdmit
<1>5. ASSUME NEW w \in Devices, NEW s \in Scopes, NEW id \in Ids, NEW c, MemberRemove(w, s, id, c)
      PROVE  TopRows
  <2> DEFINE n == [member EXCEPT ![s][id] = NoEntry]
             m == dropBelow(n, s, id)
             after == roleIn(m, banned, s, id)
             loses == can(roleOf(s, id), "post", roles) /\ ~ can(after, "post", roles)
  <2>1. /\ roleOf(s, id) # None /\ member' = m /\ UNCHANGED <<banned, codes>>
        /\ cut' = IF loses THEN recordCut(cut, s, id, c) ELSE cut
        /\ admit' = IF loses THEN [admit EXCEPT ![s][id] = None] ELSE admit
    BY <1>5 DEF MemberRemove
  <2>2. m \in MemberTable /\ m[Top] = n[Top]
    <3>1. n \in MemberTable
      BY AdmitFacts, EmptyTypes DEF MemberTable
    <3> HIDE DEF n
    <3> QED
      BY <3>1, AdmitFacts, DropBelowType DEF dropBelow
  <2>3. \A x \in Ids : s # Top \/ x # id => RowKept(x)
    <3>1. \A x \in Ids : s # Top \/ x # id => m[Top][x] = member[Top][x] /\ admit'[Top][x] = admit[Top][x]
      BY <2>1, <2>2, AdmitFacts
    <3>2. \A x \in Ids : s # Top \/ x # id => cut'[Top][x] = cut[Top][x]
      BY <2>1, CutsAbove
    <3> QED
      BY <2>1, <3>1, <3>2 DEF RowKept
  <2>4. ASSUME s = Top PROVE RowOut(id)
    <3>1. m[Top][id] = NoEntry
      BY <2>2, <2>4, AdmitFacts
    <3> HIDE DEF m
    <3>2. after = None
      <4>1. TypeOK /\ ChainShape /\ m \in MemberTable
        BY <2>2, StateFacts, KeyFacts
      <4>2. roleIn(m, banned, Top, id) = IF banned[Top][id] # NoBan THEN None ELSE m[Top][id].role
        BY <4>1, TopRole
      <4> QED
        BY <2>4, <3>1, <4>2 DEF NoEntry
    <3>3. can(roleOf(s, id), "post", roles)
      BY <2>1, <2>4, AdmitFacts DEF AdmitInv
    <3>4. loses
      BY <3>2, <3>3, AdmitFacts
    <3>5. admit'[Top][id] = None /\ (cut[Top][id].on => cut'[Top][id].on)
      BY <2>1, <2>4, <3>4, AdmitFacts, CutsAbove
    <3> QED
      BY <2>1, <3>1, <3>5 DEF RowOut, NoEntry
  <2> QED
    BY <2>1, <2>3, <2>4, RowsOut
<1>6. ASSUME NEW w \in Devices, NEW s \in Scopes, NEW id \in Ids, NEW role \in AssignedRoles, NEW c,
             RoleSet(w, s, id, role, c)
      PROVE  TopRows
  <2> DEFINE e == memberIn(member, banned, s, id)
             loses == can(e.role, "post", roles) /\ ~ can(role, "post", roles)
  <2>1. /\ IsRole(role, roles) /\ role # None
        /\ \E k : member' = [member EXCEPT ![s][id] = [role |-> role, key |-> k]]
        /\ cut' = IF loses THEN recordCut(cut, s, id, c) ELSE cut
        /\ admit' = IF loses THEN [admit EXCEPT ![s][id] = None] ELSE admitted(admit, s, id, role)
        /\ IF loses THEN codes' = codes ELSE Code
    BY <1>6, NoneAssumption, InputAssumption DEF RoleSet, mayAssign
  <2>2. ~ loses
    BY <2>1, AdmitFacts
  <2>3. PICK k : member' = [member EXCEPT ![s][id] = [role |-> role, key |-> k]]
    BY <2>1
  <2> HIDE DEF loses
  <2>4. [role |-> role, key |-> k].role = role
    OBVIOUS
  <2>5. UNCHANGED cut /\ admit' = admitted(admit, s, id, role) /\ Code
    BY <2>1, <2>2
  <2> QED
    BY <2>1, <2>3, <2>4, <2>5, RowsAdmit
<1>7. ASSUME NEW w \in Devices, NEW s \in Scopes, NEW id \in Ids, NEW c, NEW drop,
             BanMember(w, s, id, c, drop)
      PROVE  TopRows
  <2> DEFINE role == roleOf(s, id)
             loses == IF role = None THEN Named(c) ELSE can(role, "post", roles)
  <2>1. /\ member' = IF role = None THEN member ELSE [member EXCEPT ![s][id] = NoEntry]
        /\ admit' = IF loses \/ drop THEN [admit EXCEPT ![s][id] = None] ELSE admit
        /\ UNCHANGED codes
        /\ \E t \in {cut, recordCut(cut, s, id, c)} : cut' = IF drop THEN dropAll(t, s, id, c) ELSE t
    BY <1>7 DEF BanMember
  <2>2. \A x \in Ids : s # Top \/ x # id => cut'[Top][x] = cut[Top][x]
    BY <2>1, CutsAbove
  <2>3. cut[s][id].on => cut'[s][id].on
    BY <2>1, CutsAbove
  <2> HIDE DEF loses
  <2>4. \A x \in Ids : s # Top \/ x # id =>
            member'[Top][x] = member[Top][x] /\ admit'[Top][x] = admit[Top][x]
    BY <2>1, AdmitFacts
  <2>5. ASSUME s = Top PROVE RowOut(id)
    <3>1. role = member[Top][id].role
      BY <2>5, AdmitFacts
    <3>2. member'[Top][id].role = None
      BY <2>1, <2>5, <3>1, AdmitFacts DEF NoEntry
    <3>3. admit'[Top][id] = None
      <4>1. role # None => loses
        BY <3>1, AdmitFacts DEF AdmitInv, loses
      <4>2. role = None => admit[Top][id] = None
        BY <3>1 DEF AdmitInv
      <4>3. [admit EXCEPT ![s][id] = None][Top][id] = None
        BY <2>5, AdmitFacts
      <4> QED
        BY <2>1, <4>1, <4>2, <4>3
    <3> QED
      BY <2>3, <2>5, <3>2, <3>3 DEF RowOut
  <2> QED
    BY <2>1, <2>2, <2>4, <2>5, RowsOut DEF RowKept
<1>8. ASSUME NEW w \in Devices, NEW s \in Scopes, NEW id \in Ids, NEW c, BanAgain(w, s, id, c)
      PROVE  TopRows
  <2>1. /\ banned[s][id] # NoBan /\ UNCHANGED <<member, codes>>
        /\ cut' = dropAll(cut, s, id, c) /\ admit' = [admit EXCEPT ![s][id] = None]
    BY <1>8 DEF BanAgain, personVars
  <2>2. \A x \in Ids : s # Top \/ x # id => cut'[Top][x] = cut[Top][x] /\ admit'[Top][x] = admit[Top][x]
    BY <2>1, AdmitFacts, CutsAbove
  <2>3. ASSUME s = Top PROVE RowOut(id)
    BY <2>1, <2>3, AdmitFacts, CutsAbove DEF RowOut
  <2> QED
    BY <2>1, <2>2, <2>3, RowsOut DEF RowKept
<1>9. ASSUME NEW w \in Devices, NEW inv \in Invites, NEW d \in Devices, InviteRedeem(w, inv, d)
      PROVE  TopRows
  BY <1>9, RowsRedeem
<1>10. ASSUME NEW w \in Devices,
              \/ \E name \in CustomRoles, perms \in DefinedPerms : RoleDefine(w, name, perms)
              \/ \E s \in Scopes, id \in Ids : Unban(w, s, id)
              \/ \E inv \in Invites : InviteRevoke(w, inv)
              \/ \E d \in Devices : WriterAdd(w, d)
              \/ \E s \in Scopes, x \in Subs, p \in Privacy, only \in WriteRoles :
                     SubspaceCreate(w, s, x, p, only)
              \/ \E d \in Removable : DeviceRemove(w, d)
       PROVE  TopRows
  <2>1. UNCHANGED <<member, cut, admit, codes>>
    BY <1>10 DEF RoleDefine, Unban, InviteRevoke, WriterAdd, SubspaceCreate, DeviceRemove, personVars, cutVars
  <2> QED
    BY <1>1, <2>1
<1> QED
  BY <1>2, <1>3, <1>4, <1>5, <1>6, <1>7, <1>8, <1>9, <1>10 DEF DecisionNext, Next

\* A role once defined stays one that may post.
LEMMA RolesPost ==
    ASSUME StateInv, PostersOnly, AdmitInv, [DecisionNext]_vars
    PROVE  /\ \A r \in CustomRoles : roles'[r] # None => "post" \in roles'[r]
           /\ \A role : IsRole(role, roles) => IsRole(role, roles')
<1>1. ASSUME UNCHANGED roles
      PROVE  /\ \A r \in CustomRoles : roles'[r] # None => "post" \in roles'[r]
             /\ \A role : IsRole(role, roles) => IsRole(role, roles')
  BY <1>1 DEF AdmitInv
<1>2. CASE ContentNext \/ UNCHANGED vars
  <2>1. ContentNext => UNCHANGED personVars
    BY DEF ContentNext, Moderate, SettingsSet, TypesSet, LogsList, KeyRotate, OnlyContent
  <2> QED
    BY <1>1, <1>2, <2>1 DEF vars, memberVars, personVars
<1>3. ASSUME NEW w \in Devices, NEW name \in CustomRoles, NEW perms \in DefinedPerms,
             RoleDefine(w, name, perms)
      PROVE  /\ \A r \in CustomRoles : roles'[r] # None => "post" \in roles'[r]
             /\ \A role : IsRole(role, roles) => IsRole(role, roles')
  <2>1. roles \in RoleTable /\ perms # None /\ "post" \in perms
    BY StateFacts, InputAssumption, NoneAssumption DEF TypeOK, PostersOnly
  <2>2. \A r \in CustomRoles : roles'[r] = IF r = name THEN perms ELSE roles[r]
    BY <1>3, <2>1 DEF RoleDefine, RoleTable
  <2> QED
    BY <2>1, <2>2 DEF AdmitInv, IsRole
<1>4. ASSUME NEW w \in Devices,
             \/ \E id \in Ids : MemberAdd(w, id)
             \/ \E s \in Scopes, id \in Ids : Unban(w, s, id)
             \/ \E inv \in Invites : InviteRevoke(w, inv)
             \/ \E d \in Devices : WriterAdd(w, d)
             \/ \E s \in Scopes, x \in Subs, p \in Privacy, only \in WriteRoles :
                    SubspaceCreate(w, s, x, p, only)
             \/ \E d \in Removable : DeviceRemove(w, d)
      PROVE  UNCHANGED roles
  BY <1>4 DEF MemberAdd, Unban, InviteRevoke, WriterAdd, SubspaceCreate, DeviceRemove, personVars
<1>5. ASSUME NEW w \in Devices, NEW s \in Scopes, NEW id \in Ids, NEW c \in Cuts,
             \/ MemberRemove(w, s, id, c)
             \/ \E role \in AssignedRoles : RoleSet(w, s, id, role, c)
             \/ \E drop \in Drops : BanMember(w, s, id, c, drop)
             \/ BanAgain(w, s, id, c)
      PROVE  UNCHANGED roles
  BY <1>5 DEF MemberRemove, RoleSet, BanMember, BanAgain, personVars
<1>6. ASSUME NEW w \in Devices, NEW inv \in Invites, NEW d \in Devices, InviteRedeem(w, inv, d)
      PROVE  UNCHANGED roles
  BY <1>6 DEF InviteRedeem
<1>7. ASSUME NEW p, SpaceInit(p) PROVE UNCHANGED roles
  BY <1>7 DEF SpaceInit
<1> QED
  BY <1>1, <1>2, <1>3, <1>4, <1>5, <1>6, <1>7 DEF DecisionNext, Next

LEMMA AdmitInit == ContentInit => AdmitInv
BY NoneAssumption DEF ContentInit, Init, AdmitInv, NoEntry, NoCut, Scopes

LEMMA AdmitStep == StateInv /\ PostersOnly /\ AdmitInv /\ [DecisionNext]_vars => AdmitInv'
<1> SUFFICES ASSUME StateInv, PostersOnly, AdmitInv, [DecisionNext]_vars PROVE AdmitInv'
  OBVIOUS
<1>1. TopRows
  BY RowsStep
<1>2. /\ \A r \in CustomRoles : roles'[r] # None => "post" \in roles'[r]
      /\ \A role : IsRole(role, roles) => IsRole(role, roles')
  BY RolesPost
<1>3. ASSUME NEW id \in Ids
      PROVE  LET role == member'[Top][id].role
             IN  /\ role # None => IsRole(role, roles')
                 /\ role = None => admit'[Top][id] = None
                 /\ role \notin {None, "owner"} /\ cut'[Top][id].on => admit'[Top][id] # None
                 /\ admit'[Top][id] # None => admit'[Top][id] <= codes'
  <2> DEFINE role == member[Top][id].role
             new  == member'[Top][id].role
             a    == admit[Top][id]
             b    == admit'[Top][id]
  <2>1. /\ role # None => IsRole(role, roles)
        /\ role = None => a = None
        /\ role \notin {None, "owner"} /\ cut[Top][id].on => a # None
        /\ a # None => a <= codes
    BY DEF AdmitInv
  <2>2. a \in Nat \cup {None} /\ codes \in Nat /\ codes' \in Nat /\ codes <= codes' /\ codes + 1 # None
    BY <1>1, AdmitFacts, PersonAssumption DEF TopRows
  <2>3. "owner" # None /\ IsRole("owner", roles')
    BY NoneAssumption DEF RoleNames, Builtin, IsRole
  <2>4. CASE RowKept(id)
    BY <1>2, <2>1, <2>2, <2>4 DEF RowKept
  <2>5. CASE RowOut(id)
    BY <2>5 DEF RowOut
  <2>6. CASE RowOwner(id)
    BY <2>1, <2>2, <2>3, <2>6 DEF RowOwner
  <2>7. CASE RowIn(id)
    <3>1. b = None \/ b <= codes'
      BY <2>1, <2>2, <2>7 DEF RowIn
    <3>2. new # None /\ IsRole(new, roles')
      BY <1>2, <2>7 DEF RowIn
    <3>3. cut'[Top][id].on => b # None
      BY <2>2, <2>7 DEF RowIn
    <3> QED
      BY <3>1, <3>2, <3>3
  <2> QED
    BY <1>1, <2>4, <2>5, <2>6, <2>7 DEF TopRows
<1> QED
  BY <1>2, <1>3 DEF AdmitInv

-----------------------------------------------------------------------------
(* What was written stays, where every role an app defines may post and    *)
(* deciders hold every log they decide about.                              *)

CutsHeld == \A c \in Cuts, l \in Logs : c[l] # Inf

\* A log a cut names stays at that length, or is dropped.
CutsStay ==
    \A s \in Scopes, id \in Ids, l \in Logs :
        cut[s][id].logs[l] # Inf => cut'[s][id].logs[l] \in {0, cut[s][id].logs[l]}

\* Who loses the right to write has a length recorded for every log.
LossCut ==
    \A id \in Ids :
        \/ member'[Top][id].role # None
        \/ member[Top][id].role = None /\ (banned'[Top][id] # NoBan => banned[Top][id] # NoBan)
        \/ \A l \in Logs : cut'[Top][id].logs[l] # Inf
        \/ banned[Top][id] # NoBan

\* By a cut, by dropping all, or by both.
LEMMA CutStays ==
    ASSUME TypeOK, NEW s \in Scopes, NEW id \in Ids, NEW c \in HeldLengths,
           NEW t \in {cut, recordCut(cut, s, id, c)}, cut' = t \/ cut' = dropAll(t, s, id, c)
    PROVE  CutsStay
<1> SUFFICES ASSUME NEW z \in Scopes, NEW x \in Ids, NEW l \in Logs, cut[z][x].logs[l] # Inf
             PROVE  cut'[z][x].logs[l] \in {0, cut[z][x].logs[l]}
  BY DEF CutsStay
<1>1. cut \in CutTable /\ t \in CutTable
  BY CutLengths, CutType
<1>2. t[z][x].logs[l] = cut[z][x].logs[l]
  <2>1. recordCut(cut, s, id, c)[s][id].logs[l] = IF cut[s][id].logs[l] # Inf THEN cut[s][id].logs[l] ELSE c[l]
    BY <1>1 DEF recordCut, CutTable
  <2>2. z # s \/ x # id => recordCut(cut, s, id, c)[z][x] = cut[z][x]
    BY <1>1, CutsFall
  <2> QED
    BY <2>1, <2>2
<1>3. \/ dropAll(t, s, id, c)[z][x] = t[z][x]
      \/ dropAll(t, s, id, c)[z][x].logs[l] \in {0, Inf}
  BY <1>1, CutsFall
<1>4. dropAll(t, s, id, c)[z][x].logs[l] <= t[z][x].logs[l]
  BY <1>1, CutsFall
<1>5. /\ cut[z][x].logs[l] \in Nat /\ cut[z][x].logs[l] <= Inf /\ Inf \in Nat
  BY CutLengths, LengthOrder
<1>6. dropAll(t, s, id, c)[z][x].logs[l] \in {0, cut[z][x].logs[l]}
  BY <1>2, <1>3, <1>4, <1>5
<1> QED
  BY <1>2, <1>6

\* A cut recorded, and all dropped after it or not, names every log held.
LEMMA CutNames ==
    ASSUME TypeOK, CutsHeld, NEW s \in Scopes, NEW id \in Ids, NEW c \in Cuts, NEW l \in Logs
    PROVE  /\ recordCut(cut, s, id, c)[s][id].logs[l] # Inf
           /\ dropAll(recordCut(cut, s, id, c), s, id, c)[s][id].logs[l] # Inf
<1>1. cut \in CutTable /\ c \in HeldLengths /\ c[l] # Inf
  BY CutLengths, InputAssumption DEF CutsHeld, HeldLengths
<1>2. recordCut(cut, s, id, c)[s][id].logs[l] # Inf
  BY <1>1 DEF recordCut, CutTable, Cut
<1>3. /\ dropAll(recordCut(cut, s, id, c), s, id, c)[s][id].logs[l]
           <= recordCut(cut, s, id, c)[s][id].logs[l]
      /\ recordCut(cut, s, id, c) \in CutTable
  BY <1>1, CutType, CutsFall
<1>4. /\ recordCut(cut, s, id, c)[s][id].logs[l] \in Nat
      /\ recordCut(cut, s, id, c)[s][id].logs[l] <= Inf /\ Inf \in Nat
  BY <1>3, LengthOrder DEF CutTable, Cut
<1> QED
  BY <1>2, <1>3, <1>4

LEMMA KeptSteps ==
    StateInv /\ PostersOnly /\ AdmitInv /\ CutsHeld /\ [DecisionNext]_vars => CutsStay /\ LossCut
<1> SUFFICES ASSUME StateInv, PostersOnly, AdmitInv, CutsHeld, [DecisionNext]_vars
             PROVE  CutsStay /\ LossCut
  OBVIOUS
<1>1. ASSUME UNCHANGED cut,
             \A x \in Ids : banned'[Top][x] # NoBan => banned[Top][x] # NoBan,
             \A x \in Ids : member'[Top][x].role # None \/ member'[Top][x].role = member[Top][x].role
      PROVE  CutsStay /\ LossCut
  BY <1>1 DEF CutsStay, LossCut
<1>2. CASE ContentNext \/ UNCHANGED vars
  <2>1. ContentNext => UNCHANGED <<personVars, cutVars>>
    BY DEF ContentNext, Moderate, SettingsSet, TypesSet, LogsList, KeyRotate, OnlyContent
  <2>2. UNCHANGED <<member, banned, cut>>
    BY <1>2, <2>1 DEF vars, memberVars, personVars, cutVars
  <2> QED
    BY <1>1, <2>2
<1>3. ASSUME NEW p, SpaceInit(p) PROVE CutsStay /\ LossCut
  <2>1. /\ member' = [member EXCEPT ![Top][Person[Creator]] = [role |-> "owner", key |-> None]]
        /\ UNCHANGED <<cut, banned>> /\ "owner" # None
    BY <1>3, NoneAssumption DEF SpaceInit, cutVars, RoleNames, Builtin
  <2>2. \A x \in Ids : member'[Top][x] = member[Top][x] \/ member'[Top][x].role = "owner"
    BY <2>1, AdmitFacts
  <2> QED
    BY <1>1, <2>1, <2>2
<1>4. ASSUME NEW w \in Devices, NEW id \in Ids, MemberAdd(w, id) PROVE CutsStay /\ LossCut
  <2>1. member' = [member EXCEPT ![Top][id] = Joined(id)] /\ UNCHANGED <<cut, banned>>
    BY <1>4 DEF MemberAdd
  <2>2. Joined(id).role # None
    BY NoneAssumption DEF Joined, RoleNames, Builtin
  <2>3. \A x \in Ids : member'[Top][x] = member[Top][x] \/ member'[Top][x] = Joined(id)
    BY <2>1, AdmitFacts
  <2> QED
    BY <1>1, <2>1, <2>2, <2>3
<1>5. ASSUME NEW w \in Devices, NEW s \in Scopes, NEW id \in Ids, NEW c \in Cuts, MemberRemove(w, s, id, c)
      PROVE  CutsStay /\ LossCut
  <2>1. /\ cut' \in {cut, recordCut(cut, s, id, c)} /\ UNCHANGED banned
        /\ member' = dropBelow([member EXCEPT ![s][id] = NoEntry], s, id)
    BY <1>5 DEF MemberRemove
  <2>2. CutsStay
    BY <2>1, StateFacts, CutStays, InputAssumption DEF HeldLengths
  <2>3. member'[Top] = [member EXCEPT ![s][id] = NoEntry][Top]
    BY <2>1, AdmitFacts DEF dropBelow
  <2>4. \A x \in Ids : s # Top \/ x # id => member'[Top][x] = member[Top][x]
    BY <2>3, AdmitFacts
  <2>5. ASSUME s = Top, NEW l \in Logs PROVE cut'[Top][id].logs[l] # Inf
    <3> DEFINE m == dropBelow([member EXCEPT ![s][id] = NoEntry], s, id)
               after == roleIn(m, banned, s, id)
               loses == can(roleOf(s, id), "post", roles) /\ ~ can(after, "post", roles)
    <3>1. roleOf(s, id) # None /\ cut' = IF loses THEN recordCut(cut, s, id, c) ELSE cut
      BY <1>5 DEF MemberRemove
    <3>2. m[Top][id] = NoEntry /\ m \in MemberTable
      <4>1. [member EXCEPT ![s][id] = NoEntry] \in MemberTable
        BY AdmitFacts, EmptyTypes DEF MemberTable
      <4>2. [member EXCEPT ![s][id] = NoEntry][Top][id] = NoEntry
        BY <2>5, AdmitFacts
      <4> QED
        BY <2>1, <2>3, <4>1, <4>2, DropBelowType
    <3> HIDE DEF m
    <3>3. after = None
      <4>1. TypeOK /\ ChainShape /\ m \in MemberTable
        BY <3>2, StateFacts, KeyFacts
      <4>2. roleIn(m, banned, Top, id) = IF banned[Top][id] # NoBan THEN None ELSE m[Top][id].role
        BY <4>1, TopRole
      <4> QED
        BY <2>5, <3>2, <4>2 DEF NoEntry
    <3>4. loses
      BY <2>5, <3>1, <3>3, AdmitFacts DEF AdmitInv
    <3> QED
      BY <2>5, <3>1, <3>4, StateFacts, CutNames
  <2> QED
    BY <2>1, <2>2, <2>4, <2>5 DEF LossCut
<1>6. ASSUME NEW w \in Devices, NEW s \in Scopes, NEW id \in Ids, NEW role \in AssignedRoles, NEW c \in Cuts,
             RoleSet(w, s, id, role, c)
      PROVE  CutsStay /\ LossCut
  <2>1. /\ role # None /\ UNCHANGED banned /\ cut' \in {cut, recordCut(cut, s, id, c)}
        /\ \E k : member' = [member EXCEPT ![s][id] = [role |-> role, key |-> k]]
    BY <1>6, NoneAssumption, InputAssumption DEF RoleSet
  <2>2. CutsStay
    BY <2>1, StateFacts, CutStays, InputAssumption DEF HeldLengths
  <2>3. \A x \in Ids : member'[Top][x] = member[Top][x] \/ member'[Top][x].role = role
    BY <2>1, AdmitFacts
  <2> QED
    BY <2>1, <2>2, <2>3 DEF LossCut
<1>7. ASSUME NEW w \in Devices, NEW s \in Scopes, NEW id \in Ids, NEW c \in Cuts, NEW drop,
             BanMember(w, s, id, c, drop)
      PROVE  CutsStay /\ LossCut
  <2> DEFINE role == roleOf(s, id)
             loses == IF role = None THEN Named(c) ELSE can(role, "post", roles)
             t == IF loses THEN recordCut(cut, s, id, c) ELSE cut
  <2>1. /\ member' = IF role = None THEN member ELSE [member EXCEPT ![s][id] = NoEntry]
        /\ cut' = IF drop THEN dropAll(t, s, id, c) ELSE t
        /\ \E e : banned' = [banned EXCEPT ![s][id] = e]
    BY <1>7 DEF BanMember
  <2>2. CutsStay
    BY <2>1, StateFacts, CutStays, InputAssumption DEF HeldLengths
  <2>3. \A x \in Ids : s # Top \/ x # id =>
            member'[Top][x] = member[Top][x] /\ banned'[Top][x] = banned[Top][x]
    BY <2>1, AdmitFacts
  <2>4. ASSUME s = Top, NEW l \in Logs PROVE cut'[Top][id].logs[l] # Inf
    <3>1. loses
      <4>1. role # None => can(role, "post", roles)
        BY <2>4, AdmitFacts DEF AdmitInv
      <4>2. Named(c)
        BY DEF Named, CutsHeld
      <4> QED
        BY <4>1, <4>2
    <3>2. t = recordCut(cut, s, id, c)
      BY <3>1
    <3> HIDE DEF t
    <3> QED
      BY <2>1, <2>4, <3>2, StateFacts, CutNames
  <2> QED
    BY <2>2, <2>3, <2>4 DEF LossCut
<1>8. ASSUME NEW w \in Devices, NEW s \in Scopes, NEW id \in Ids, NEW c \in Cuts, BanAgain(w, s, id, c)
      PROVE  CutsStay /\ LossCut
  <2>1. cut' = dropAll(cut, s, id, c) /\ UNCHANGED <<member, banned>>
    BY <1>8 DEF BanAgain, personVars
  <2>2. CutsStay
    BY <2>1, StateFacts, CutStays, InputAssumption DEF HeldLengths
  <2> QED
    BY <2>1, <2>2 DEF LossCut
<1>9. ASSUME NEW w \in Devices, NEW inv \in Invites, NEW d \in Devices, InviteRedeem(w, inv, d)
      PROVE  CutsStay /\ LossCut
  <2>1. UNCHANGED <<cut, banned>> /\ inv.role # None
    BY <1>9, InputAssumption, NoneAssumption DEF InviteRedeem, Invite
  <2> QED
    BY <1>1, <1>9, <2>1, AdmitFacts, RedeemEntries
<1>10. ASSUME NEW w \in Devices, NEW s \in Scopes, NEW id \in Ids, Unban(w, s, id)
       PROVE  CutsStay /\ LossCut
  <2>1. UNCHANGED <<cut, member>> /\ banned' = [banned EXCEPT ![s][id] = NoBan]
    BY <1>10 DEF Unban, cutVars
  <2>2. \A x \in Ids : banned'[Top][x] # NoBan => banned[Top][x] # NoBan
    BY <2>1, AdmitFacts
  <2> QED
    BY <1>1, <2>1, <2>2
<1>11. ASSUME NEW w \in Devices,
              \/ \E name \in CustomRoles, perms \in DefinedPerms : RoleDefine(w, name, perms)
              \/ \E inv \in Invites : InviteRevoke(w, inv)
              \/ \E d \in Devices : WriterAdd(w, d)
              \/ \E s \in Scopes, x \in Subs, p \in Privacy, only \in WriteRoles :
                     SubspaceCreate(w, s, x, p, only)
              \/ \E d \in Removable : DeviceRemove(w, d)
       PROVE  CutsStay /\ LossCut
  <2>1. UNCHANGED <<member, banned, cut>>
    BY <1>11 DEF RoleDefine, InviteRevoke, WriterAdd, SubspaceCreate, DeviceRemove, personVars, cutVars
  <2> QED
    BY <1>1, <2>1
<1> QED
  BY <1>2, <1>3, <1>4, <1>5, <1>6, <1>7, <1>8, <1>9, <1>10, <1>11 DEF DecisionNext, Next

\* What a reader of the top space finds.
TopReadNow ==
    \A id \in Ids, l \in Logs :
        /\ cut[Top][id].logs[l] \in Lengths
        /\ limitOf(Top, id, l) = IF cut[Top][id].logs[l] # Inf THEN cut[Top][id].logs[l]
                                 ELSE IF canWrite(Top, id) THEN Inf ELSE 0
        /\ canWrite(Top, id) <=> \/ member[Top][id].role # None
                                 \/ settings[Top].public /\ banned[Top][id] = NoBan
        /\ banned[Top][id] # NoBan => member[Top][id].role = None

LEMMA TopLimits == PostersOnly /\ StateInv /\ AdmitInv => TopReadNow
<1> SUFFICES ASSUME PostersOnly, StateInv, AdmitInv, NEW id \in Ids, NEW l \in Logs
             PROVE  /\ cut[Top][id].logs[l] \in Lengths
                    /\ limitOf(Top, id, l) = IF cut[Top][id].logs[l] # Inf THEN cut[Top][id].logs[l]
                                             ELSE IF canWrite(Top, id) THEN Inf ELSE 0
                    /\ canWrite(Top, id) <=> \/ member[Top][id].role # None
                                             \/ settings[Top].public /\ banned[Top][id] = NoBan
                    /\ banned[Top][id] # NoBan => member[Top][id].role = None
  BY DEF TopReadNow
<1>1. TypeOK /\ KeyInv /\ Top \in Scopes
  BY StateFacts
<1>2. chainOf(Top) = <<Top>> /\ DOMAIN <<Top>> = {1} /\ <<Top>>[1] = Top /\ IsScope(Top)
  BY <1>1, KeyFacts DEF ChainShape, IsScope
<1>3. cut[Top][id].logs[l] \in Lengths /\ stateCut(Top, id).logs[l] = cut[Top][id].logs[l]
  BY <1>1, <1>2, CutLengths, LowestCut
<1>4. stateBanned(Top, id) <=> banned[Top][id] # NoBan
  BY <1>2 DEF stateBanned, bannedIn
<1>5. /\ stateMember(Top, id).role = member[Top][id].role
      /\ stateMember(Top, id) = NoEntry <=> member[Top][id].role = None
  BY <1>1, <1>2, AdmitFacts, ReadMember DEF NoEntry
<1>6. can("member", "post", roles) /\ None # "member"
  BY AdmitFacts, NoneAssumption DEF IsRole, RoleNames, Builtin
<1>7. member[Top][id].role # None => can(member[Top][id].role, "post", roles)
  BY AdmitFacts DEF AdmitInv
<1>8. stateRole(Top, id) = IF member[Top][id].role # None THEN member[Top][id].role
                           ELSE IF settings[Top].public /\ banned[Top][id] = NoBan THEN "member"
                           ELSE None
  BY <1>4, <1>5 DEF stateRole
<1>9. canWrite(Top, id) <=> can(stateRole(Top, id), "post", roles)
  BY DEF canWrite, StateInv, TopOpen
<1>10. banned[Top][id] # NoBan => member[Top][id].role = None
  BY AdmitFacts
<1> QED
  BY <1>3, <1>6, <1>7, <1>8, <1>9, <1>10, AdmitFacts DEF limitOf

\* Being public is never taken back.
LEMMA PublicStays ==
    ASSUME StateInv, [DecisionNext]_vars
    PROVE  settings[Top].public => settings'[Top].public
<1>1. Top \in Scopes /\ settings \in [Scopes -> Settings]
  BY StateFacts DEF StateInv, ContentTypeOK
<1>2. UNCHANGED settings => (settings[Top].public => settings'[Top].public)
  OBVIOUS
<1>3. Next /\ UNCHANGED contentVars => UNCHANGED settings
  BY DEF contentVars
<1>4. UNCHANGED vars => UNCHANGED settings
  BY DEF vars, contentVars
<1>5. ASSUME NEW w \in Devices, NEW s \in Scopes, NEW d \in SettingChoices, SettingsSet(w, s, d)
      PROVE  settings[Top].public => settings'[Top].public
  <2>1. PICK helpers, public : settings' = [settings EXCEPT ![s] = settingsWith(@, d, helpers, public)]
    BY <1>5 DEF SettingsSet
  <2>2. settings'[Top] = IF s = Top THEN settingsWith(settings[Top], d, helpers, public)
                         ELSE settings[Top]
    BY <1>1, <2>1
  <2>3. settingsWith(settings[Top], d, helpers, public).public = (settings[Top].public \/ public)
    BY DEF settingsWith
  <2>4. CASE s = Top
    <3>1. settings'[Top].public = (settings[Top].public \/ public)
      BY <2>2, <2>3, <2>4
    <3> QED
      BY <3>1
  <2> QED
    BY <2>2, <2>4
<1>6. ContentNext =>
          \/ UNCHANGED settings
          \/ \E w \in Devices, s \in Scopes, d \in SettingChoices : SettingsSet(w, s, d)
  BY DEF ContentNext, Moderate, TypesSet, LogsList, KeyRotate
<1> QED
  BY <1>2, <1>3, <1>4, <1>5, <1>6 DEF DecisionNext

KeptNow ==
    \A id \in Ids, l \in Logs :
        limitOf(Top, id, l) > 0 => limitOf(Top, id, l)' > 0 \/ cut'[Top][id].logs[l] = 0

LEMMA KeptStep ==
    /\ StateInv /\ AdmitInv /\ StateInv' /\ AdmitInv'
    /\ PostersOnly /\ CutsHeld /\ [DecisionNext]_vars
    => KeptNow
<1> SUFFICES ASSUME StateInv, AdmitInv, StateInv', AdmitInv', PostersOnly, CutsHeld, [DecisionNext]_vars,
                    NEW id \in Ids, NEW l \in Logs, limitOf(Top, id, l) > 0
             PROVE  limitOf(Top, id, l)' > 0 \/ cut'[Top][id].logs[l] = 0
  BY DEF KeptNow
<1>1. TopReadNow /\ TopReadNow'
  <2>1. (PostersOnly /\ StateInv /\ AdmitInv => TopReadNow)'
    BY TopLimits, PTL
  <2> QED
    BY <2>1, TopLimits DEF PostersOnly
<1>2. CutsStay /\ LossCut /\ Top \in Scopes
  BY KeptSteps, StateFacts
<1>3. Inf \in Nat /\ Inf > 0 /\ cut[Top][id].logs[l] \in Nat /\ cut'[Top][id].logs[l] \in Nat
  <2>1. cut[Top][id].logs[l] \in Lengths /\ cut'[Top][id].logs[l] \in Lengths
    BY <1>1 DEF TopReadNow
  <2>2. cut[Top][id].logs[l] \in Nat /\ cut'[Top][id].logs[l] \in Nat
    BY <2>1, LengthOrder
  <2>3. Inf \in Nat /\ Inf > 0
    BY BoundAssumption DEF Inf
  <2> QED
    BY <2>2, <2>3
<1>4. CASE cut[Top][id].logs[l] # Inf
  <2>1. cut'[Top][id].logs[l] \in {0, cut[Top][id].logs[l]} /\ cut[Top][id].logs[l] > 0
    BY <1>1, <1>2, <1>4 DEF CutsStay, TopReadNow
  <2> QED
    BY <1>1, <1>3, <1>4, <2>1 DEF TopReadNow
<1>5. CASE cut'[Top][id].logs[l] # Inf
  BY <1>1, <1>3, <1>5 DEF TopReadNow
<1>6. CASE cut[Top][id].logs[l] = Inf /\ cut'[Top][id].logs[l] = Inf
  <2>1. canWrite(Top, id)
    BY <1>1, <1>6 DEF TopReadNow
  <2>2. member[Top][id].role # None \/ (settings[Top].public /\ banned[Top][id] = NoBan)
    BY <1>1, <2>1 DEF TopReadNow
  <2>3. banned[Top][id] = NoBan
    BY <1>1, <2>2 DEF TopReadNow
  <2>4. member'[Top][id].role # None \/ (settings'[Top].public /\ banned'[Top][id] = NoBan)
    BY <1>2, <1>6, <2>2, <2>3, PublicStays DEF LossCut
  <2>5. canWrite(Top, id)'
    BY <1>1, <2>4 DEF TopReadNow
  <2> QED
    BY <1>1, <1>3, <1>6, <2>5 DEF TopReadNow
<1> QED
  BY <1>4, <1>5, <1>6

\* Where every role an app defines may post, and deciders hold every log they
\* decide about: what someone wrote in the top space keeps counting when they
\* lose their role, are banned without a drop, or come and go, unless a ban
\* dropped all of it or the decider held nothing of it.
THEOREM KeptSafe == PostersOnly /\ CutsHeld => (DecisionSpec => KeptInTop)
<1> SUFFICES ASSUME PostersOnly, CutsHeld PROVE DecisionSpec => KeptInTop
  OBVIOUS
<1>1. ContentInit => StateInv /\ AdmitInv
  BY StateInit, AdmitInit
<1>2. StateInv /\ AdmitInv /\ [DecisionNext]_vars => (StateInv /\ AdmitInv)'
  BY StateStep, AdmitStep
<1>3. StateInv /\ AdmitInv /\ (StateInv /\ AdmitInv)' /\ [DecisionNext]_vars => [KeptNow]_vars
  BY KeptStep
<1> QED
  BY <1>1, <1>2, <1>3, PTL DEF DecisionSpec, KeptInTop, KeptNow
=============================================================================
