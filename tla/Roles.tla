------------------------------- MODULE Roles -------------------------------
(***************************************************************************)
(* Roles and permissions of a space (lib/decisions/state.js): the built-in *)
(* roles, their ranks, and the rules that say who may give a role, invite  *)
(* to it, or take someone out.  The rules are pure: `custom' is the table  *)
(* of the app's own roles as the caller has read it (role name ->          *)
(* permissions, None for a name it has not read or that is not defined).   *)
(***************************************************************************)
EXTENDS Naturals

CONSTANTS
    CustomRoles,   \* names an app may define with role/define
    AppPerms,      \* permissions of the app's own (e.g. "edit-pages")
    None           \* no role, no key, no entry

OWN == {"decide", "moderate", "invite", "roles"}
POWER == {"decide", "moderate", "roles"}
Permissions == OWN \cup {"post"} \cup AppPerms

Builtin == {"owner", "admin", "moderator", "member", "guest"}
RoleNames == Builtin \cup CustomRoles
Role == RoleNames \cup {None}
RoleTable == [CustomRoles -> {None} \cup SUBSET Permissions]

ASSUME NoneAssumption ==
    /\ None \notin RoleNames
    /\ \A perms \in SUBSET Permissions : perms # None
ASSUME CustomAssumption == CustomRoles \cap Builtin = {}

ROLES == [r \in Builtin |->
            CASE r \in {"owner", "admin"} -> OWN \cup {"post"}
              [] r = "moderator"          -> {"moderate", "post"}
              [] OTHER                    -> {"post"}]

RANK == [r \in Builtin |->
            CASE r = "owner" -> 5 [] r = "admin" -> 4 [] r = "moderator" -> 3
              [] r = "member" -> 2 [] OTHER -> 1]
CUSTOM_RANK == 2

rankOf(role) == IF role \in Builtin THEN RANK[role] ELSE CUSTOM_RANK

\* A name that stands for a role in `custom'.
IsRole(role, custom) ==
    \/ role \in Builtin
    \/ role \in CustomRoles /\ custom[role] # None

\* The permissions of a role; none for a name that stands for no role.
permissionsOf(role, custom) ==
    CASE role \in Builtin          -> ROLES[role]
      [] ~ IsRole(role, custom)    -> {}
      [] OTHER                     -> custom[role]

\* The owner holds every permission, the app's included.
can(role, permission, custom) ==
    role = "owner" \/ permission \in permissionsOf(role, custom)

\* Either permission makes a member's device a writer of the decision log.
mayWrite(role, custom) == can(role, "decide", custom) \/ can(role, "moderate", custom)

\* The space's own permissions are handed on only by who holds them.
grantable(author, perms, custom) ==
    author = "owner" \/ perms \cap OWN \subseteq permissionsOf(author, custom)

\* Mutant: an owner's role is like any other.
mayAssign_owner(author, current, role, custom) ==
    can(author, "roles", custom) /\ IsRole(role, custom)

mayAssign(author, current, role, custom) ==
    /\ can(author, "roles", custom)
    /\ role # "owner" /\ current # "owner"
    /\ IsRole(role, custom)
    /\ \/ author = "owner"
       \/ /\ current # None => rankOf(current) < rankOf(author)
          /\ rankOf(role) < rankOf(author)
          /\ grantable(author, permissionsOf(role, custom), custom)

mayInvite(maker, role, custom) ==
    LET peer == role = maker /\ permissionsOf(role, custom) \cap POWER = {}
    IN  /\ can(maker, "invite", custom)
        /\ role # "owner"
        /\ IsRole(role, custom)
        /\ \/ maker = "owner"
           \/ /\ rankOf(role) < rankOf(maker) \/ role \in {"member", "guest"} \/ peer
              /\ grantable(maker, permissionsOf(role, custom), custom)

\* Mutant: at one's own rank too.
mayRemove_peers(author, target, permission, custom) ==
    /\ can(author, permission, custom) /\ target # "owner"
    /\ target = None \/ rankOf(target) <= rankOf(author)

mayRemove(author, target, permission, custom) ==
    /\ can(author, permission, custom)
    /\ target # "owner"
    /\ target = None \/ author = "owner" \/ rankOf(target) < rankOf(author)
=============================================================================
