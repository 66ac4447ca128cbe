--------------------------- MODULE AccessDecision ---------------------------
(***************************************************************************)
(* The decisions of authorization/: may a user do something to a device?   *)
(* A user's teams carry roles, which allow actions, and at most one scope, *)
(* which constrains device metadata.  The code decides in several places:  *)
(* before a handler of one device runs, before a device exists, on lists   *)
(* of devices, and for the permissions shown to the user interface.        *)
(*                                                                         *)
(* A scope value that is not a list accepts the one value.  A key whose    *)
(* value is null counts as absent everywhere in this code.  Every request  *)
(* provisions its user first (ensure_user_exists), so a user has a row.    *)
(***************************************************************************)
EXTENDS NullValue

CONSTANTS
    Keys,               \* keys of device metadata
    Values,             \* their values
    Permissions,        \* the platform's own actions, which a role can allow
    GlobalPermissions,  \* those whose resource type is not a device
    NoScope,            \* a team without a scope
    Unnamed,            \* the request names no device, or its metadata are not consulted
    Missing             \* the device has no row

ASSUME DecisionValues ==
    /\ Null \notin Values
    /\ GlobalPermissions \subseteq Permissions

Metas == UNION {[ks -> Values] : ks \in SUBSET Keys}

(* A patch removes a key by the value null. *)
Patches == UNION {[ks -> Values \cup {Null}] : ks \in SUBSET Keys}

Scopes == [attr : UNION {[ks -> SUBSET Values] : ks \in SUBSET Keys}, rule : {"ALL", "ANY"}]

(* What get_teams_with_roles_and_scopes returns: the roles of a team only  *)
(* matter by the actions they allow together.                              *)
TeamData == [scope : Scopes \cup {NoScope}, allows : SUBSET Permissions]

UserData == [admin : BOOLEAN, teams : SUBSET TeamData]

ASSUME Sentinels ==
    /\ NoScope \notin Scopes
    /\ Unnamed \notin Metas /\ Missing \notin Metas
    /\ Unnamed # Missing

-----------------------------------------------------------------------------
(* One scope, one permission *)

KeyMatches(k, accepted, meta) == k \in DOMAIN meta /\ meta[k] \in accepted

MatchesScope(scope, meta) ==
    \/ DOMAIN scope.attr = {}
    \/ /\ scope.rule = "ALL"
       /\ \A k \in DOMAIN scope.attr : KeyMatches(k, scope.attr[k], meta)
    \/ /\ scope.rule = "ANY"
       /\ \E k \in DOMAIN scope.attr : KeyMatches(k, scope.attr[k], meta)

TeamsWith(p, user) == {team \in user.teams : p \in team.allows}

Unscoped(teams) == \E team \in teams : team.scope = NoScope

EvaluatePermission(p, user, meta) ==
    \/ user.admin
    \/ /\ TeamsWith(p, user) # {}
       /\ meta # Unnamed /\ ~Unscoped(TeamsWith(p, user)) =>
            \E team \in TeamsWith(p, user) : MatchesScope(team.scope, meta)

-----------------------------------------------------------------------------
(* Checks before a handler runs *)

ScopeRequired(p, user) == ~user.admin /\ ~Unscoped(TeamsWith(p, user))

Consulted(p, user, device) == IF ScopeRequired(p, user) THEN device ELSE Unnamed

Authorize(p, user, device, requireDevice) ==
    /\ user.admin \/ TeamsWith(p, user) # {}
    /\ ScopeRequired(p, user) =>
        /\ requireDevice => device # Unnamed
        /\ device # Missing
    /\ EvaluatePermission(p, user, Consulted(p, user, device))

(* A path that lacks its device parameter is a misconfiguration: denied.   *)
PathCheck(p, user, device) ==
    /\ device = Unnamed => p \in GlobalPermissions
    /\ Authorize(p, user, device, FALSE)

(* The owner of an endpoint or a service is looked up first (404).         *)
ResolvedCheck(p, user, device) == Authorize(p, user, device, TRUE)

(* patch_data: a null removes the key, anything else sets it.              *)
PatchData(meta, patch) ==
    LET removed == {k \in DOMAIN patch : patch[k] = Null}
    IN  [k \in (DOMAIN meta \cup DOMAIN patch) \ removed |->
            IF k \in DOMAIN patch THEN patch[k] ELSE meta[k]]

(* The device is within scope as it is and as it will be. *)
PatchCheck(p, user, device, patch) ==
    /\ Authorize(p, user, device, FALSE)
    /\ ScopeRequired(p, user) => EvaluatePermission(p, user, PatchData(device, patch))

CreateCheck(p, user, meta) ==
    \/ user.admin
    \/ EvaluatePermission(p, user, Unnamed) /\ EvaluatePermission(p, user, meta)

AnyPermissionCheck(ps, user) ==
    user.admin \/ \E p \in ps : EvaluatePermission(p, user, Unnamed)

-----------------------------------------------------------------------------
(* The copies of the decision *)

RequireDevicePermission(p, user, device) ==
    \/ user.admin
    \/ /\ TeamsWith(p, user) # {}
       /\ \/ Unscoped(TeamsWith(p, user))
          \/ device # Missing /\ EvaluatePermission(p, user, device)

(* Who may list at all, and the filter the list routes apply. *)
MayList(p, user) == user.admin \/ TeamsWith(p, user) # {}

Unrestricted(p, user) == user.admin \/ Unscoped(TeamsWith(p, user))

(* Mutant of FilterDevice: only the scoped teams are asked. *)
FilterScopedOnly(p, user, meta) ==
    \/ user.admin
    \/ \E team \in TeamsWith(p, user) :
            team.scope # NoScope /\ MatchesScope(team.scope, meta)

FilterDevice(p, user, meta) ==
    \/ Unrestricted(p, user)
    \/ \E team \in TeamsWith(p, user) : MatchesScope(team.scope, meta)

(* GET /auth/permissions/device *)
DevicePermissions(user, meta) ==
    {p \in Permissions \ GlobalPermissions : EvaluatePermission(p, user, meta)}

(* GET /auth/permissions/platform *)
PlatformPermissions(user) ==
    {p \in GlobalPermissions : EvaluatePermission(p, user, Unnamed)}
=============================================================================
