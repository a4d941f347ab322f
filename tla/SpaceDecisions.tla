-------------------------- MODULE SpaceDecisions --------------------------
(***************************************************************************)
(* The whole decision log of a space: the decisions about people of module *)
(* Membership, and those about the space and its content that              *)
(* lib/decisions/apply.js applies in the same order: moderation of         *)
(* records, settings, record types, listed logs and the keys of a private  *)
(* space.  Both kinds read the roles that count at their point of it.      *)
(***************************************************************************)
EXTENDS Membership

CONSTANTS
    Records,         \* records a moderator acts on
    Commits,         \* commitments of the keys deciders rotate to
    MaxEpoch,        \* bound: the last epoch
    TypeNames,       \* record types an app declares
    MaxVersions,     \* bound: versions of the types
    ListedLogs,      \* logs a member lists for others to find
    MaxHelpers,      \* MAX_HELPERS
    SettingChoices   \* inputs: what a settings/set names

Epochs == 0..MaxEpoch
Moderation == [flagged : BOOLEAN, hidden : BOOLEAN, removed : BOOLEAN]
Policy == {"auto", "everything"}
\* The settings that differ in who may change them and how: the rules and the
\* history setting are recorded like the policy.
Settings == [policy : Policy \cup {None}, limited : BOOLEAN,
             helpers : SUBSET Devices, public : BOOLEAN]
\* None: the decision doesn't name it.  A helper list may repeat a key.
Choice == [policy : Policy \cup {None}, limited : BOOLEAN \cup {None},
           helpers : {None} \cup Seq(Devices), public : BOOLEAN]

ASSUME ContentAssumption ==
    /\ MaxEpoch \in Nat /\ MaxVersions \in Nat /\ MaxHelpers \in Nat
    /\ SettingChoices \subseteq Choice
    /\ None \notin Commits \cup Epochs

VARIABLES
    mod,        \* mod:<record> of each scope
    settings,   \* meta of each scope
    types,      \* types:<n>: the declarations, by version
    listed,     \* listed:<log>
    epochs      \* epochs of each scope

contentVars == <<mod, settings, types, listed, epochs>>
vars == <<memberVars, contentVars>>

EpochTable == [current : Epochs \cup {-1}, commits : [Epochs -> Commits \cup {None}],
               others : [Commits -> Epochs \cup {None}]]

ContentTypeOK ==
    /\ TypeOK
    /\ mod \in [Scopes -> [Records -> Moderation]]
    /\ settings \in [Scopes -> Settings]
    /\ types \in Seq(SUBSET TypeNames)
    /\ listed \in SUBSET ListedLogs
    /\ epochs \in [Scopes -> EpochTable]

ContentInit ==
    /\ Init
    /\ mod = [s \in Scopes |-> [r \in Records |->
                [flagged |-> FALSE, hidden |-> FALSE, removed |-> FALSE]]]
    /\ settings = [s \in Scopes |-> [policy |-> None, limited |-> FALSE,
                                     helpers |-> {}, public |-> FALSE]]
    /\ types = <<>>
    /\ listed = {}
    /\ epochs = [s \in Scopes |-> [current |-> -1, commits |-> [e \in Epochs |-> None],
                                   others |-> [c \in Commits |-> None]]]

-----------------------------------------------------------------------------
\* A decision of this module changes no one's membership.
OnlyContent(w) == by' = Person[w] /\ UNCHANGED <<personVars, spaceVars, keyVars, cutVars, inviteVars>>

\* flag, hide, reveal or remove a record; removed is for good.
moderated(m, action) ==
    CASE action = "flag"   -> [m EXCEPT !.flagged = TRUE]
      [] action = "hide"   -> [m EXCEPT !.hidden = TRUE]
      [] action = "reveal" -> [m EXCEPT !.hidden = FALSE]
      [] action = "remove" -> [m EXCEPT !.removed = TRUE]

\* Mutant: a removed record is moderated on.
standing_always(m) == TRUE

standing(m) == ~ m.removed

Moderate(w, s, r, action) ==
    /\ May(w, s, "moderate")
    /\ standing(mod[s][r])
    /\ mod' = [mod EXCEPT ![s][r] = moderated(@, action)]
    /\ OnlyContent(w)
    /\ UNCHANGED <<settings, types, listed, epochs>>

\* The helpers count from the owner, for the top space, and not too many of
\* them; public never counts for a private scope, and is never taken back.
validHelpers(list) == list # None /\ Len(list) <= MaxHelpers

\* Mutant: a private scope too.
mayBePublic_any(s) == TRUE

mayBePublic(s) == ~ space[s].private

\* The settings with what the decision names, and what of it counts.
settingsWith(old, d, helpers, public) ==
    [policy  |-> IF d.policy # None THEN d.policy ELSE old.policy,
     limited |-> IF d.limited # None THEN d.limited ELSE old.limited,
     helpers |-> IF helpers THEN {d.helpers[i] : i \in DOMAIN d.helpers} ELSE old.helpers,
     public  |-> old.public \/ public]

SettingsSet(w, s, d) ==
    LET helpers == Author(w, s) = "owner" /\ s = Top /\ validHelpers(d.helpers)
        public == d.public /\ mayBePublic(s)
    IN  /\ May(w, s, "decide")
        /\ d.policy # None \/ d.limited # None \/ helpers \/ public
        /\ settings' = [settings EXCEPT ![s] = settingsWith(@, d, helpers, public)]
        /\ OnlyContent(w)
        /\ UNCHANGED <<mod, types, listed, epochs>>

\* Mutant: any declaration.
compatible_any(old, new) == TRUE

\* The next version only adds to the current one (Types.checkCompatible); one
\* recorded meanwhile makes this one count for nothing.
compatible(old, new) == old \subseteq new

TypesSet(w, version, declared) ==
    /\ May(w, Top, "decide")
    /\ version = Len(types) + 1
    /\ version > 1 => compatible(types[version - 1], declared)
    /\ types' = Append(types, declared)
    /\ OnlyContent(w)
    /\ UNCHANGED <<mod, settings, listed, epochs>>

LogsList(w, logs) ==
    /\ Speaks(w) /\ mayWrite(Author(w, Top), roles)
    /\ ~ (logs \subseteq listed)
    /\ listed' = listed \cup logs
    /\ OnlyContent(w)
    /\ UNCHANGED <<mod, settings, types, epochs>>

\* Mutant: of two rotations at once, the last becomes the epoch's.
rotated_last(t, epoch, commit) ==
    IF epoch <= t.current + 1
    THEN [t EXCEPT !.current = epoch, !.commits[epoch] = commit]
    ELSE t

\* Of two rotations at once, the first in the order becomes current; the
\* other's key stays readable.
rotated(t, epoch, commit) ==
    CASE epoch = t.current + 1 ->
            [t EXCEPT !.current = epoch, !.commits[epoch] = commit]
      [] epoch <= t.current /\ t.commits[epoch] # commit /\ t.others[commit] = None ->
            [t EXCEPT !.others[commit] = epoch]
      [] OTHER -> t

KeyRotate(w, s, epoch, commit) ==
    /\ Speaks(w) /\ IsScope(s) /\ mayWrite(Author(w, s), roles)
    /\ space[s].private
    /\ rotated(epochs[s], epoch, commit) # epochs[s]
    /\ epochs' = [epochs EXCEPT ![s] = rotated(@, epoch, commit)]
    /\ OnlyContent(w)
    /\ UNCHANGED <<mod, settings, types, listed>>

ContentNext ==
    \E w \in Devices :
        \/ \E s \in Scopes, r \in Records, action \in {"flag", "hide", "reveal", "remove"} :
                Moderate(w, s, r, action)
        \/ \E s \in Scopes, d \in SettingChoices : SettingsSet(w, s, d)
        \/ \E version \in 1..MaxVersions, declared \in SUBSET TypeNames :
                TypesSet(w, version, declared)
        \/ \E logs \in SUBSET ListedLogs : LogsList(w, logs)
        \/ \E s \in Scopes, epoch \in Epochs, commit \in Commits : KeyRotate(w, s, epoch, commit)

DecisionNext == (Next /\ UNCHANGED contentVars) \/ ContentNext
DecisionSpec == ContentInit /\ [][DecisionNext]_vars

-----------------------------------------------------------------------------
(* Properties.                                                             *)

\* A space anyone may join never has a key, whatever order it is made public
\* and its keys are rotated in: whoever joined would be granted it.
PublicNeverKeyed ==
    \A s \in Scopes : settings[s].public => epochs[s].current = -1 /\ ~ space[s].private

\* Keys of a private space: epochs follow each other, the key that became an
\* epoch's stays it, and a key that lost to another at its epoch stays known
\* as that epoch's, so records sealed with either stay readable.
KeysStayKnown ==
    [][\A s \in Scopes :
        LET t == epochs[s]
        IN  /\ epochs'[s].current \in {t.current, t.current + 1}
            /\ \A e \in Epochs : /\ (e <= epochs'[s].current) = (epochs'[s].commits[e] # None)
                                 /\ t.commits[e] # None => epochs'[s].commits[e] = t.commits[e]
            /\ \A c \in Commits :
                 /\ t.others[c] # None => epochs'[s].others[c] = t.others[c]
                 /\ epochs'[s].others[c] # None =>
                      epochs'[s].commits[epochs'[s].others[c]] \notin {None, c}]_vars

\* A record taken down stays down, as it was: no later action of any
\* moderator, in whatever order, shows it or changes how it is shown.
RemovedForGood ==
    [][\A s \in Scopes, r \in Records : mod[s][r].removed => mod'[s][r] = mod[s][r]]_vars

\* Every version of the types stays as recorded and the latest declares all
\* that any version did: a record written under any version can still be read.
TypesOnlyGrow ==
    [][/\ \A v \in DOMAIN types : v \in DOMAIN types' /\ types'[v] = types[v]
       /\ \A v \in DOMAIN types : types[v] \subseteq types'[Len(types')]]_vars
=============================================================================
