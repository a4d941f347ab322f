---------------------------- MODULE Membership ----------------------------
(***************************************************************************)
(* Who is in a space, with which role, and which devices speak for them:   *)
(* the decisions about people that lib/decisions/apply.js applies, in the  *)
(* one order every member applies them in.  A step is one counted          *)
(* decision; a decision its author may not take changes nothing and is a   *)
(* stuttering step.  The variables are the keys of the decision log's view *)
(* (member:, banned:, role:, subspace:, writer:, gone:, cut:, admit:, ...) *)
(* per scope: the top space and each sub-space.                            *)
(*                                                                         *)
(* A device is identified with its writer key of the decision log: a       *)
(* device has one, its Autobase's local key.                               *)
(***************************************************************************)
EXTENDS Roles, Integers, Sequences, FiniteSets

CONSTANTS
    Ids,             \* identities
    Devices,         \* devices, and their writer keys
    Person,          \* the identity a device is bootstrapped from
    Creator,         \* the device that made the space: its first writer
    Top,             \* the top space
    Subs,            \* keys a sub-space may be made with
    Invites,         \* signed invites in circulation
    Logs,            \* an identity's device logs (each identity has its own)
    MaxLen,          \* bound: the longest log
    MaxCodes,        \* bound: decisions that let someone back in
    AssignedRoles,   \* inputs: roles people are given with role/set
    DefinedPerms,    \* inputs: permission lists of role/define
    Cuts,            \* inputs: the lengths a decider held, per log
    Drops,           \* inputs: does a ban drop everything?
    Privacy,         \* inputs: is a space made private?
    Removable,       \* inputs: devices their identity removes
    WriteRoles       \* inputs: who may write in a sub-space ({}: every poster)

Scopes == {Top} \cup Subs
Inf == MaxLen + 1               \* no length recorded: no limit
Lengths == 0..Inf
Invite == [id : Nat, space : Scopes, maker : Ids, role : RoleNames,
           uses : Nat, sub : Subs \cup {None}]

ASSUME PersonAssumption ==
    /\ Person \in [Devices -> Ids]
    /\ Creator \in Devices
    /\ None \notin Ids \cup Devices \cup Subs \cup Nat
ASSUME ScopeAssumption == Top \notin Subs
ASSUME BoundAssumption == MaxLen \in Nat /\ MaxCodes \in Nat
ASSUME InputAssumption ==
    /\ Invites \subseteq Invite
    /\ AssignedRoles \subseteq RoleNames
    /\ DefinedPerms \subseteq SUBSET Permissions
    /\ Cuts \subseteq [Logs -> Lengths]
    /\ Drops \subseteq BOOLEAN /\ Privacy \subseteq BOOLEAN
    /\ WriteRoles \subseteq SUBSET RoleNames
    /\ Removable \subseteq Devices

VARIABLES
    owner,      \* meta.owner, None before space/init
    member,     \* member:<id> of each scope: the role, and the redemption's key
    banned,     \* banned:<id> of each scope: by whom, and everything dropped?
    roles,      \* role:<name>
    subs,       \* subspaces: the sub-spaces in the order they were made
    space,      \* subspace:<key> (and meta.private of the top space)
    keys,       \* writers:<id>, writer:<key>.indexer, and Autobase's own lists
    gone,       \* gone:<id>:<device>
    cut,        \* cut:<id> of each scope
    editcut,    \* editcut:<id> of each scope
    admit,      \* admit:<id> of each scope: the code of the decision, or None
    codes,      \* how many decisions let someone back in: the codes given out
    redeemed,   \* redeemed:<invite>:<id>
    uses,       \* uses:<invite>
    revoked,    \* revoked:<invite>
    by          \* whose permission the newest counted decision rests on: its
                \* author, or the maker of the invite it redeems

personVars == <<owner, member, banned, roles>>
spaceVars  == <<subs, space>>
keyVars    == <<keys, gone>>
cutVars    == <<cut, editcut, admit, codes>>
inviteVars == <<redeemed, uses, revoked>>
memberVars == <<personVars, spaceVars, keyVars, cutVars, inviteVars, by>>

Entry == [role : Role, key : Devices \cup {None}]
NoEntry == [role |-> None, key |-> None]
Ban == [by : Ids \cup {None}, drop : BOOLEAN]
NoBan == [by |-> None, drop |-> FALSE]
Info == [chain : Seq(Scopes), private : BOOLEAN, writeRoles : SUBSET RoleNames]
NoInfo == [chain |-> <<>>, private |-> FALSE, writeRoles |-> {}]
Cut == [on : BOOLEAN, logs : [Logs -> Lengths]]
NoCut == [on |-> FALSE, logs |-> [l \in Logs |-> Inf]]
EditCut == [Permissions -> [Logs -> Lengths]]
NoEditCut == [p \in Permissions |-> [l \in Logs |-> Inf]]
Keys == [list : [Ids -> Seq(Devices)],   \* who speaks for an identity, oldest first
         settler : SUBSET Devices,       \* the view's indexer flag
         base : SUBSET Devices,          \* Autobase's writers
         settling : SUBSET Devices]      \* Autobase's indexers

TypeOK ==
    /\ owner \in Ids \cup {None}
    /\ member \in [Scopes -> [Ids -> Entry]]
    /\ banned \in [Scopes -> [Ids -> Ban]]
    /\ roles \in RoleTable
    /\ subs \in Seq(Subs)
    /\ space \in [Scopes -> Info]
    /\ keys \in Keys
    /\ gone \in SUBSET Devices
    /\ cut \in [Scopes -> [Ids -> Cut]]
    /\ editcut \in [Scopes -> [Ids -> EditCut]]
    /\ admit \in [Scopes -> [Ids -> Nat \cup {None}]]
    /\ codes \in Nat
    /\ redeemed \in [Invites -> SUBSET Ids]
    /\ uses \in [Invites -> Nat]
    /\ revoked \in SUBSET Invites
    /\ by \in Ids \cup {None}

-----------------------------------------------------------------------------
(* Reading the view: scopes and effective entries.  A scope's chain is the *)
(* scope and those above it, nearest first, ending in Top (chainOf walks   *)
(* the parents, which never change).                                       *)

chainOf(s) == space[s].chain
IsScope(s) == chainOf(s) # <<>>
below(x, s) == \E i \in 2..Len(chainOf(x)) : chainOf(x)[i] = s

\* Banned in the scope or anywhere above it, by the ban table b.
bannedIn(b, s, id) == \E i \in DOMAIN chainOf(s) : b[chainOf(s)[i]][id] # NoBan

\* The i-th scope of s's chain gives the entry that counts in s: the nearest
\* with one, no private sub-space in between unless it is an owner or admin.
Counts(m, s, id, i) ==
    LET c == chainOf(s)
        role == m[c[i]][id].role
    IN  /\ i \in DOMAIN c
        /\ role # None
        /\ \A j \in 1..(i - 1) : /\ m[c[j]][id].role = None
                                 /\ space[c[j]].private => role \in {"owner", "admin"}

\* The member entry of id as it counts in s, by the tables m and b.
memberIn(m, b, s, id) ==
    IF ~ bannedIn(b, s, id) /\ \E i \in DOMAIN chainOf(s) : Counts(m, s, id, i)
    THEN m[chainOf(s)[CHOOSE i \in DOMAIN chainOf(s) : Counts(m, s, id, i)]][id]
    ELSE NoEntry

roleIn(m, b, s, id) == memberIn(m, b, s, id).role
roleOf(s, id) == roleIn(member, banned, s, id)

-----------------------------------------------------------------------------
(* Devices that speak for an identity.                                     *)

Holds(k, d) == \E i \in DOMAIN k.list[Person[d]] : k.list[Person[d]][i] = d
Speaks(w) == Holds(keys, w)

Author(w, s) == roleOf(s, Person[w])
May(w, s, permission) ==
    /\ Speaks(w) /\ IsScope(s)
    /\ can(Author(w, s), permission, roles)

\* The tables m, b let id decide or moderate somewhere.
writesAnywhere(m, b, id) ==
    \E s \in Scopes : IsScope(s) /\ mayWrite(roleIn(m, b, s, id), roles)

\* A list without d, which it holds at most once.
Without(list, d) ==
    IF \E i \in DOMAIN list : list[i] = d
    THEN LET at == CHOOSE i \in DOMAIN list : list[i] = d
         IN  [i \in 1..(Len(list) - 1) |-> IF i < at THEN list[i] ELSE list[i + 1]]
    ELSE list

\* Autobase: a writer added without settling rights loses them, and a removed
\* one is out, but the last settler stays (host.removeable).
Demoted(k, d) == [k EXCEPT !.settling = IF @ = {d} THEN @ ELSE @ \ {d}]

\* Mutant: the last settler too.
removeFromBase_last(k, d) == [k EXCEPT !.base = @ \ {d}, !.settling = @ \ {d}]

removeFromBase(k, d) ==
    IF k.settling = {d} THEN k
    ELSE [k EXCEPT !.base = @ \ {d}, !.settling = @ \ {d}]

\* Mutant: a removed device may claim again.
addKey_gone(k, d) ==
    IF Holds(k, d) THEN k
    ELSE Demoted([k EXCEPT !.list[Person[d]] = Append(@, d), !.base = @ \cup {d}], d)

addKey(k, d) ==
    IF Holds(k, d) \/ d \in gone THEN k
    ELSE Demoted([k EXCEPT !.list[Person[d]] = Append(@, d), !.base = @ \cup {d}], d)

forget(k, d) ==
    [k EXCEPT !.list[Person[d]] = Without(@, d), !.settler = @ \ {d}]

\* Every key of id goes; if they were all the settlers Autobase had, the last
\* in the list stays one for it.
ForgetAll(k, id) ==
    LET list == k.list[id]
        out  == {list[i] : i \in DOMAIN list}
        last == IF k.settling \subseteq out
                THEN {list[i] : i \in {i \in DOMAIN list :
                        /\ list[i] \in k.settling
                        /\ \A j \in DOMAIN list : j > i => list[j] \notin k.settling}}
                ELSE {}
    IN  [list     |-> [k.list EXCEPT ![id] = <<>>],
         settler  |-> k.settler \ out,
         base     |-> k.base \ (out \ last),
         settling |-> k.settling \ (out \ last)]

\* Mutant: the roles are read before the decision is applied.
settle_before(k, m, b, id) ==
    IF ~ writesAnywhere(member, banned, id) THEN ForgetAll(k, id) ELSE k

\* Mutant: a settler is never handed over or demoted.
settle_once(k, m, b, id) ==
    IF ~ writesAnywhere(m, b, id) THEN ForgetAll(k, id) ELSE k

\* After any change to id's roles or keys, by the tables m and b.
settle(k, m, b, id) ==
    LET list == k.list[id]
        settlers == {list[i] : i \in DOMAIN list} \cap k.settler
        decides == can(roleIn(m, b, Top, id), "decide", roles)
    IN  IF ~ writesAnywhere(m, b, id) THEN ForgetAll(k, id)
        ELSE IF decides /\ settlers = {} /\ list # <<>>
             THEN [k EXCEPT !.settler = @ \cup {list[1]}, !.base = @ \cup {list[1]},
                            !.settling = @ \cup {list[1]}]
        ELSE IF ~ decides /\ settlers # {}
             THEN LET d == list[CHOOSE i \in DOMAIN list :
                                  /\ list[i] \in settlers
                                  /\ \A j \in 1..(i - 1) : list[j] \notin settlers]
                  IN  Demoted([k EXCEPT !.settler = @ \ {d}], d)
        ELSE k

-----------------------------------------------------------------------------
(* What someone wrote counts up to the lengths recorded when they lost the *)
(* right to write it.                                                      *)

Named(c) == \E l \in Logs : c[l] # Inf

\* Mutant: the latest cut counts.
recordCut_latest(t, s, id, c) == [t EXCEPT ![s][id] = [on |-> TRUE, logs |-> c]]

\* Mutant: the lengths held are not recorded.
recordCut_bare(t, s, id, c) == [t EXCEPT ![s][id].on = TRUE]

\* A log cut earlier keeps its first cut.
recordCut(t, s, id, c) ==
    [t EXCEPT ![s][id] = [on |-> TRUE,
                          logs |-> [l \in Logs |-> IF @.logs[l] # Inf THEN @.logs[l] ELSE c[l]]]]

lostPermissions(before, after) ==
    permissionsOf(before, roles) \ (permissionsOf(after, roles) \cup {"post"})

recordEditCuts(t, s, id, lost, c) ==
    [t EXCEPT ![s][id] = [p \in Permissions |-> [l \in Logs |->
                            IF p \in lost /\ @[p][l] = Inf THEN c[l] ELSE @[p][l]]]]

\* Mutant: earlier cuts stay.
dropAll_new(t, s, id, c) ==
    [t EXCEPT ![s][id] = [on |-> TRUE, logs |-> [l \in Logs |->
        IF @.logs[l] = Inf /\ c[l] # Inf THEN 0 ELSE @.logs[l]]]]

\* Nothing id wrote counts, in s and below: every log c or an earlier cut
\* names there counts up to 0.
dropAll(t, s, id, c) ==
    [x \in Scopes |->
        IF x = s \/ (below(x, s) /\ t[x][id].on)
        THEN [t[x] EXCEPT ![id] = [on |-> TRUE, logs |-> [l \in Logs |->
                IF c[l] # Inf \/ @.logs[l] # Inf THEN 0 ELSE Inf]]]
        ELSE t[x]]

dropEdits(t, s, id) ==
    [x \in Scopes |->
        IF x = s \/ below(x, s)
        THEN [t[x] EXCEPT ![id] = [p \in Permissions |-> [l \in Logs |->
                IF @[p][l] # Inf THEN 0 ELSE Inf]]]
        ELSE t[x]]

\* The admission table once role is given to id in s, who was cut there.
admitted(a, s, id, role) ==
    IF can(role, "post", roles) /\ cut[s][id].on /\ a[s][id] = None
    THEN [a EXCEPT ![s][id] = codes + 1]
    ELSE a

\* A decision's code is the hash of its bytes: never given out before.
Code ==
    /\ codes' = IF admit' = admit THEN codes ELSE codes + 1
    /\ codes' <= MaxCodes

\* Removed from s: id's own entries in every sub-space below go too.
dropBelow(m, s, id) ==
    [x \in Scopes |-> IF below(x, s) THEN [m[x] EXCEPT ![id] = NoEntry] ELSE m[x]]

-----------------------------------------------------------------------------
(* The decisions.  w is the device that wrote it, s the scope it is about. *)

Init ==
    /\ owner = None
    /\ member = [s \in Scopes |-> [id \in Ids |-> NoEntry]]
    /\ banned = [s \in Scopes |-> [id \in Ids |-> NoBan]]
    /\ roles = [r \in CustomRoles |-> None]
    /\ subs = <<>>
    /\ space = [s \in Scopes |-> IF s = Top THEN [NoInfo EXCEPT !.chain = <<Top>>] ELSE NoInfo]
    /\ keys = [list |-> [id \in Ids |-> <<>>], settler |-> {},
               base |-> {Creator}, settling |-> {Creator}]
    /\ gone = {}
    /\ cut = [s \in Scopes |-> [id \in Ids |-> NoCut]]
    /\ editcut = [s \in Scopes |-> [id \in Ids |-> NoEditCut]]
    /\ admit = [s \in Scopes |-> [id \in Ids |-> None]]
    /\ codes = 0
    /\ redeemed = [inv \in Invites |-> {}]
    /\ uses = [inv \in Invites |-> 0]
    /\ revoked = {}
    /\ by = None

SpaceInit(p) ==
    LET id == Person[Creator]
    IN  /\ owner = None
        /\ owner' = id
        /\ member' = [member EXCEPT ![Top][id] = [role |-> "owner", key |-> None]]
        /\ space' = [space EXCEPT ![Top].private = p]
        /\ keys' = [keys EXCEPT !.list[id] = <<Creator>>, !.settler = {Creator}]
        /\ by' = id
        /\ UNCHANGED <<banned, roles, subs, gone, cutVars, inviteVars>>

\* Mutant: the entry keeps the identity's key as if it were a writer's.
Joined_key(id) == [role |-> "member", key |-> id]

\* Only a redemption's entry has a writer key.
Joined(id) == [role |-> "member", key |-> None]

MemberAdd(w, id) ==
    /\ May(w, Top, "decide")
    /\ roleOf(Top, id) = None /\ banned[Top][id] = NoBan
    /\ member' = [member EXCEPT ![Top][id] = Joined(id)]
    /\ admit' = admitted(admit, Top, id, "member")
    /\ Code
    /\ by' = Person[w]
    /\ UNCHANGED <<owner, banned, roles, spaceVars, keyVars, cut, editcut, inviteVars>>

MemberRemove(w, s, id, c) ==
    LET role  == roleOf(s, id)
        m     == dropBelow([member EXCEPT ![s][id] = NoEntry], s, id)
        after == roleIn(m, banned, s, id)
        loses == can(role, "post", roles) /\ ~ can(after, "post", roles)
    IN  /\ Speaks(w) /\ IsScope(s)
        /\ role # None /\ mayRemove(Author(w, s), role, "decide", roles)
        /\ member[s][id] # NoEntry
        /\ member' = m
        /\ cut' = IF loses THEN recordCut(cut, s, id, c) ELSE cut
        /\ admit' = IF loses THEN [admit EXCEPT ![s][id] = None] ELSE admit
        /\ editcut' = recordEditCuts(editcut, s, id, lostPermissions(role, after), c)
        /\ keys' = settle(keys, m, banned, id)
        /\ by' = Person[w]
        /\ UNCHANGED <<owner, banned, roles, spaceVars, gone, codes, inviteVars>>

\* Only the space's own permissions may be taken from a role: its holders'
\* records rely on the others.  Holders' keys are left as they are.
RoleDefine(w, name, perms) ==
    /\ May(w, Top, "roles")
    /\ roles[name] # None => roles[name] \ OWN \subseteq perms
    /\ grantable(Author(w, Top), perms, roles)
    /\ roles' = [roles EXCEPT ![name] = perms]
    /\ by' = Person[w]
    /\ UNCHANGED <<owner, member, banned, spaceVars, keyVars, cutVars, inviteVars>>

RoleSet(w, s, id, role, c) ==
    LET e     == memberIn(member, banned, s, id)
        m     == [member EXCEPT ![s][id] = [role |-> role, key |-> e.key]]
        loses == can(e.role, "post", roles) /\ ~ can(role, "post", roles)
        k     == IF e.key # None /\ mayWrite(role, roles) THEN addKey(keys, e.key) ELSE keys
    IN  /\ Speaks(w) /\ IsScope(s)
        /\ ~ bannedIn(banned, s, id)
        /\ mayAssign(Author(w, s), e.role, role, roles)
        /\ member' = m
        /\ cut' = IF loses THEN recordCut(cut, s, id, c) ELSE cut
        /\ admit' = IF loses THEN [admit EXCEPT ![s][id] = None] ELSE admitted(admit, s, id, role)
        /\ IF loses THEN codes' = codes ELSE Code
        /\ editcut' = recordEditCuts(editcut, s, id, lostPermissions(e.role, role), c)
        /\ keys' = settle(k, m, banned, id)
        /\ by' = Person[w]
        /\ UNCHANGED <<owner, banned, roles, spaceVars, gone, inviteVars>>

\* Someone with no role in s may write below it: the lengths named count.
BanMember(w, s, id, c, drop) ==
    LET role  == roleOf(s, id)
        b     == [banned EXCEPT ![s][id] = [by |-> Person[w], drop |-> drop]]
        m     == IF role = None THEN member ELSE [member EXCEPT ![s][id] = NoEntry]
        loses == IF role = None THEN Named(c) ELSE can(role, "post", roles)
        t     == IF loses THEN recordCut(cut, s, id, c) ELSE cut
        e     == recordEditCuts(editcut, s, id, lostPermissions(role, None), c)
    IN  /\ May(w, s, "moderate")
        /\ banned[s][id] = NoBan
        /\ mayRemove(Author(w, s), role, "moderate", roles)
        /\ banned' = b
        /\ member' = m
        /\ cut' = IF drop THEN dropAll(t, s, id, c) ELSE t
        /\ editcut' = IF drop THEN dropEdits(e, s, id) ELSE e
        /\ admit' = IF loses \/ drop THEN [admit EXCEPT ![s][id] = None] ELSE admit
        /\ keys' = settle(keys, m, b, id)
        /\ by' = Person[w]
        /\ UNCHANGED <<owner, roles, spaceVars, gone, codes, inviteVars>>

\* Banned already: what they wrote is still dropped.
BanAgain(w, s, id, c) ==
    /\ May(w, s, "moderate")
    /\ banned[s][id] # NoBan
    /\ cut' = dropAll(cut, s, id, c)
    /\ editcut' = dropEdits(editcut, s, id)
    /\ admit' = [admit EXCEPT ![s][id] = None]
    /\ by' = Person[w]
    /\ UNCHANGED <<personVars, spaceVars, keyVars, codes, inviteVars>>

\* Not by someone whose rank is below the banner's now.  The cut stays.
Unban(w, s, id) ==
    LET byRole == roleOf(s, banned[s][id].by)
    IN  /\ May(w, s, "moderate")
        /\ banned[s][id] # NoBan
        /\ \/ Author(w, s) = "owner"
           \/ byRole = None
           \/ rankOf(byRole) <= rankOf(Author(w, s))
        /\ banned' = [banned EXCEPT ![s][id] = NoBan]
        /\ by' = Person[w]
        /\ UNCHANGED <<owner, member, roles, spaceVars, keyVars, cutVars, inviteVars>>

\* The roles settle(id) reads on its way: of the top space, then of the
\* sub-spaces in order, up to the first that lets id write decisions.
RolesRead(m, id) ==
    LET order == <<Top>> \o subs
        role(i) == roleIn(m, banned, order[i], id)
    IN  {role(i) : i \in {i \in DOMAIN order :
                            \A j \in 1..(i - 1) : ~ mayWrite(role(j), roles)}}

\* The invite's role in the sub-space it lists too, if its maker may invite
\* to it there.  Of the custom roles, only those read so far are known.
Routes(inv, m, id, custom) ==
    LET x == inv.sub
        own == m[x][id].role
        there == roleIn(m, banned, x, id)
    IN  /\ x # None
        /\ below(x, inv.space)
        /\ ~ bannedIn(banned, x, id)
        /\ mayInvite(roleIn(m, banned, x, inv.maker), inv.role, custom)
        /\ there = None \/ rankOf(there) < rankOf(inv.role)
        /\ own = None \/ rankOf(own) < rankOf(inv.role)

\* Mutant: one use too many.
usable_more(inv, id) == id \notin redeemed[inv] /\ inv \notin revoked /\ uses[inv] <= inv.uses

\* The invite can still be used by id, who has not used it.
usable(inv, id) ==
    /\ id \notin redeemed[inv]
    /\ inv \notin revoked
    /\ inv.uses = 0 \/ uses[inv] < inv.uses

\* d: the invitee's device that signed the redemption.  The recorder's stamp
\* is its own choice, so an invite is redeemable or expired as it says; an
\* expired one is a stuttering step.
InviteRedeem(w, inv, d) ==
    LET s      == inv.space
        id     == Person[d]
        maker  == roleOf(s, inv.maker)
        role   == roleOf(s, id)
        raises == role = None \/ rankOf(role) < rankOf(inv.role)   \* never a step down
        m      == IF raises THEN [member EXCEPT ![s][id] = [role |-> inv.role, key |-> d]]
                  ELSE member
        k      == IF mayWrite(inv.role, roles) THEN addKey(keys, d) ELSE keys
        read   == {Author(w, s), maker, inv.role, role}
                    \cup (IF raises THEN RolesRead(m, id) ELSE {})
        routes == Routes(inv, m, id, [r \in CustomRoles |-> IF r \in read THEN roles[r] ELSE None])
        a      == IF raises THEN admitted(admit, s, id, inv.role) ELSE admit
    IN  /\ May(w, s, "decide")
        /\ ~ bannedIn(banned, s, id)
        /\ usable(inv, id)
        /\ mayInvite(maker, inv.role, roles)
        /\ member' = IF routes THEN [m EXCEPT ![inv.sub][id] = [role |-> inv.role, key |-> None]]
                     ELSE m
        /\ keys' = IF raises THEN settle(k, m, banned, id) ELSE keys
        /\ admit' = IF routes THEN admitted(a, inv.sub, id, inv.role) ELSE a
        /\ Code
        /\ redeemed' = [redeemed EXCEPT ![inv] = @ \cup {id}]
        /\ uses' = [uses EXCEPT ![inv] = @ + 1]
        /\ by' = inv.maker
        /\ UNCHANGED <<owner, banned, roles, spaceVars, gone, cut, editcut, revoked>>

\* By who may decide there, or by the invite's maker.
InviteRevoke(w, inv) ==
    /\ Speaks(w) /\ IsScope(inv.space)
    /\ May(w, inv.space, "decide") \/ Person[w] = inv.maker
    /\ inv \notin revoked
    /\ revoked' = revoked \cup {inv}
    /\ by' = Person[w]
    /\ UNCHANGED <<personVars, spaceVars, keyVars, cutVars, redeemed, uses>>

\* A device's claim, signed by it; any writer records it.
WriterAdd(w, d) ==
    /\ Speaks(w)
    /\ writesAnywhere(member, banned, Person[d])
    /\ addKey(keys, d) # keys
    /\ keys' = settle(addKey(keys, d), member, banned, Person[d])
    /\ by' = Person[w]
    /\ UNCHANGED <<personVars, spaceVars, gone, cutVars, inviteVars>>

\* x: the new sub-space's key.
SubspaceCreate(w, s, x, p, only) ==
    /\ May(w, s, "decide")
    /\ ~ IsScope(x)
    /\ space' = [space EXCEPT ![x] = [chain |-> <<x>> \o chainOf(s), private |-> p,
                                      writeRoles |-> only]]
    /\ subs' = Append(subs, x)
    /\ by' = Person[w]
    /\ UNCHANGED <<personVars, keyVars, cutVars, inviteVars>>

\* The identity key's removal of its device; any writer records it.
DeviceRemove(w, d) ==
    LET k == IF Speaks(d) THEN forget(keys, d) ELSE keys
        settled == settle(k, member, banned, Person[d])
    IN  /\ Speaks(w)
        /\ d \notin gone
        /\ gone' = gone \cup {d}
        /\ keys' = IF Speaks(d) THEN removeFromBase(settled, d) ELSE settled
        /\ by' = Person[w]
        /\ UNCHANGED <<personVars, spaceVars, cutVars, inviteVars>>

Next ==
    \/ \E p \in Privacy : SpaceInit(p)
    \/ \E w \in Devices :
        \/ \E id \in Ids : MemberAdd(w, id)
        \/ \E s \in Scopes, id \in Ids, c \in Cuts : MemberRemove(w, s, id, c)
        \/ \E name \in CustomRoles, perms \in DefinedPerms : RoleDefine(w, name, perms)
        \/ \E s \in Scopes, id \in Ids, role \in AssignedRoles, c \in Cuts :
                RoleSet(w, s, id, role, c)
        \/ \E s \in Scopes, id \in Ids, c \in Cuts, drop \in Drops : BanMember(w, s, id, c, drop)
        \/ \E s \in Scopes, id \in Ids, c \in Cuts : TRUE \in Drops /\ BanAgain(w, s, id, c)
        \/ \E s \in Scopes, id \in Ids : Unban(w, s, id)
        \/ \E inv \in Invites, d \in Devices : InviteRedeem(w, inv, d)
        \/ \E inv \in Invites : InviteRevoke(w, inv)
        \/ \E d \in Devices : WriterAdd(w, d)
        \/ \E s \in Scopes, x \in Subs, p \in Privacy, only \in WriteRoles :
                SubspaceCreate(w, s, x, p, only)
        \/ \E d \in Removable : DeviceRemove(w, d)

Spec == Init /\ [][Next]_memberVars

-----------------------------------------------------------------------------
(* Properties.                                                             *)

rankAt(s, id) == IF roleOf(s, id) = None THEN 0 ELSE rankOf(roleOf(s, id))
Listed == {d \in Devices : Speaks(d)}

\* Whatever people decide, in the space or inside any sub-space, its owner
\* stays the owner everywhere and nobody else ever is: no role change, ban,
\* removal or invite, of a sub-space either, takes the role away or hands it
\* out (mayAssign, mayInvite, mayRemove and the order memberIn looks in).
OneOwner ==
    owner # None =>
        \A s \in Scopes : IsScope(s) => \A id \in Ids : roleOf(s, id) = "owner" <=> id = owner

\* A device speaks for someone only while they may decide or moderate
\* somewhere: every removal, ban, demotion or replaced entry that ends it,
\* here or in a sub-space, takes their keys away (settle).  A custom role may
\* have lost these permissions since, which role/define leaves to the next
\* change of its holder.
SpeakersMayWrite ==
    \A d \in Devices : Speaks(d) =>
        \/ writesAnywhere(member, banned, Person[d])
        \/ \E s \in Scopes : IsScope(s) /\ roleOf(s, Person[d]) \in CustomRoles

\* One device of each member with `decide' settles the order, none of anyone
\* else's, whatever order roles, claims and device removals came in (settle).
\* Custom roles may have gained or lost `decide' since.
OneSettlerPerDecider ==
    \A id \in Ids :
        LET settlers == {d \in Listed \cap keys.settler : Person[d] = id}
            role == roleOf(Top, id)
        IN  /\ Cardinality(settlers) <= 1
            /\ role \in {"owner", "admin"} /\ keys.list[id] # <<>> => settlers # {}
            /\ role \in Role \ (CustomRoles \cup {"owner", "admin"}) => settlers = {}

\* A removed device never speaks again, whoever claims for it or is given a
\* role whose entry remembers its key (addKey, device/remove).
GoneDevicesSilent == \A d \in gone : ~ Speaks(d)

\* Autobase's writers and settlers follow the view's: every device that
\* speaks may append, every settler settles, and what Autobase could not
\* remove is at most one device, a settler it had no other in place of.
BaseFollowsView ==
    owner # None =>
        /\ Listed \subseteq keys.base
        /\ keys.settler \subseteq keys.settling \cap Listed
        /\ keys.settling # {}
        /\ Cardinality(keys.settling \ keys.settler) <= 1
        /\ keys.base \ Listed \subseteq keys.settling \ keys.settler

\* An invite lets in as many people as it says, each once.
UsesCounted ==
    \A inv \in Invites :
        /\ uses[inv] = Cardinality(redeemed[inv])
        /\ inv.uses # 0 => uses[inv] <= inv.uses

\* No decision, directly or through a removal, a ban lifted or an invite,
\* raises the rank anywhere of the person it rests on; and nobody loses rank
\* anywhere to someone who does not outrank them in that scope or in one above
\* it.
RankRespected ==
    [][\A s \in Scopes, id \in Ids :
        /\ IsScope(s) /\ owner # None /\ id = by' => rankAt(s, id)' <= rankAt(s, id)
        /\ rankAt(s, id)' < rankAt(s, id) =>
            \E i \in DOMAIN chainOf(s) : \/ by' = owner
                                         \/ rankAt(chainOf(s)[i], by') > rankAt(chainOf(s)[i], id)
      ]_memberVars
=============================================================================
