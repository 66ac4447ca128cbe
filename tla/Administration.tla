--------------------------- MODULE Administration ---------------------------
(***************************************************************************)
(* Users, teams, scopes and roles, as routers/auth edits them.  A handler  *)
(* reads what it needs to decide and commits in a later step; nothing      *)
(* serialises two administrators, so the keys of the schema decide: a      *)
(* membership refers to a user and a team and a team to its scope, none of *)
(* them with a cascade, while the roles of a team and the actions of a     *)
(* role go with what they belong to.                                       *)
(*                                                                         *)
(* The session writes the columns and the association rows that differ     *)
(* from what it loaded, and only those.  Identifiers are not used twice.   *)
(* Where a check cannot influence the write that follows it (removing a    *)
(* member, deleting a role, creating a scope or a role) the two are one    *)
(* step.  Names, and the conflicts on them, are part of Fail.              *)
(***************************************************************************)
EXTENDS AccessDecision

CONSTANTS
    Users, Teams, ScopeIds, Roles,
    Rules,      \* the attributes and access rules a scope may be given
    Requests,   \* slots for concurrent HTTP requests
    Unused,     \* an identifier not handed out yet
    Deleted,
    None        \* what a request's argument is when it has none

ASSUME AdministrationValues ==
    /\ Rules \subseteq Scopes /\ Rules # {}
    /\ Unused # Deleted
    /\ {Unused, Deleted} \cap (Scopes \cup ScopeIds \cup {NoScope, "live"}) = {}
    /\ Unused \notin [admin : BOOLEAN, new : BOOLEAN]
    /\ NoScope \notin ScopeIds
    /\ None \notin Users \cup Teams \cup ScopeIds \cup Roles

VARIABLES
    user,      \* [Users -> [admin, new], or Unused]: table users
    team,      \* [Teams -> scope_id, or Unused or Deleted]: table teams
    scope,     \* [ScopeIds -> Rules, or Unused or Deleted]: table scopes
    role,      \* [Roles -> "live", or Unused or Deleted]: table roles
    member,    \* table team_assigned_users
    assigned,  \* table team_assigned_roles
    allows,    \* table role_actions
    pc,        \* where each request is suspended
    arg,       \* what each request was sent and has loaded
    undisturbed \* ghost: requests since whose reads nobody else wrote

tables == <<user, team, scope, role, member, assigned, allows>>
vars == <<user, team, scope, role, member, assigned, allows, pc, arg, undisturbed>>

-----------------------------------------------------------------------------
Accounts == [admin : BOOLEAN, new : BOOLEAN]

TeamExists(t) == team[t] \notin {Unused, Deleted}
ScopeExists(s) == scope[s] \notin {Unused, Deleted}
RoleExists(x) == role[x] = "live"

ScopeUsable(s) == s # NoScope => ScopeExists(s)

RolesOf(t) == {x \in Roles : <<t, x>> \in assigned}
ActionsOf(x) == {p \in Permissions : <<x, p>> \in allows}
MembersOf(t) == {u \in Users : <<u, t>> \in member}

Steps == {"idle", "newTeam", "team", "dropTeam", "member", "scope", "dropScope", "role"}

(* Two overlapping updates of a scope may leave one's attributes and the   *)
(* other's rule.                                                           *)
StoredRules == [attr : {x.attr : x \in Rules}, rule : {"ALL", "ANY"}]

AnyRule == CHOOSE x \in Rules : TRUE

Blank == [user |-> None, team |-> None, scope |-> NoScope, role |-> None,
          roles |-> {}, actions |-> {}, rule |-> AnyRule,
          oldScope |-> NoScope, oldRoles |-> {}, oldActions |-> {}, oldRule |-> AnyRule,
          wasNew |-> FALSE]

Args == [user : Users \cup {None}, team : Teams \cup {None}, scope : ScopeIds \cup {NoScope},
         role : Roles \cup {None}, roles : SUBSET Roles, actions : SUBSET Permissions,
         rule : Rules, oldScope : ScopeIds \cup {NoScope}, oldRoles : SUBSET Roles,
         oldActions : SUBSET Permissions, oldRule : StoredRules, wasNew : BOOLEAN]

Begin(r, step, sent) ==
    /\ pc[r] = "idle"
    /\ pc' = [pc EXCEPT ![r] = step]
    /\ arg' = [arg EXCEPT ![r] = sent]
    /\ undisturbed' = undisturbed \cup {r}
    /\ UNCHANGED tables

(* A transaction commits: whatever it wrote, others have read before. *)
Commit(r) ==
    /\ pc' = [pc EXCEPT ![r] = "idle"]
    /\ arg' = [arg EXCEPT ![r] = Blank]
    /\ undisturbed' = {}

(* A constraint, a vanished row, the database or the client. *)
Fail(r) ==
    /\ pc[r] # "idle"
    /\ pc' = [pc EXCEPT ![r] = "idle"]
    /\ arg' = [arg EXCEPT ![r] = Blank]
    /\ undisturbed' = undisturbed \ {r}
    /\ UNCHANGED tables

(* A write of one step, by a request that is not suspended. *)
AtOnce ==
    /\ undisturbed' = {}
    /\ UNCHANGED <<pc, arg>>

-----------------------------------------------------------------------------
(* Every request of a user: ensure_exists *)

EnsureExists(u, admin) ==
    /\ user' = [user EXCEPT ![u] =
                    [admin |-> admin,
                     new |-> ~admin /\ (user[u] = Unused \/ user[u].new)]]
    /\ AtOnce
    /\ UNCHANGED <<team, scope, role, member, assigned, allows>>

-----------------------------------------------------------------------------
(* Teams *)

CreateTeam(r, s, roles) ==
    /\ ScopeUsable(s)
    /\ \A x \in roles : RoleExists(x)
    /\ Begin(r, "newTeam", [Blank EXCEPT !.scope = s, !.roles = roles])

InsertTeam(r, t) ==
    /\ pc[r] = "newTeam"
    /\ team[t] = Unused
    /\ ScopeUsable(arg[r].scope)
    /\ \A x \in arg[r].roles : RoleExists(x)
    /\ team' = [team EXCEPT ![t] = arg[r].scope]
    /\ assigned' = assigned \cup ({t} \X arg[r].roles)
    /\ Commit(r)
    /\ UNCHANGED <<user, scope, role, member, allows>>

UpdateTeam(r, t, s, roles) ==
    /\ TeamExists(t)
    /\ ScopeUsable(s)
    /\ \A x \in roles : RoleExists(x)
    /\ Begin(r, "team", [Blank EXCEPT !.team = t, !.scope = s, !.roles = roles,
                                      !.oldScope = team[t], !.oldRoles = RolesOf(t)])

(* Mutant of RolesWritten: roles are added, never taken away. *)
RolesAdded(r) ==
    LET t == arg[r].team
        added == {x \in arg[r].roles \ arg[r].oldRoles : RoleExists(x)}
    IN  /\ \A x \in added : <<t, x>> \notin assigned
        /\ assigned' = assigned \cup ({t} \X added)

(* Rows differing from what was loaded.  A row to add must not be there,   *)
(* and a role that has gone meanwhile is left out (or fails the request).  *)
RolesWritten(r) ==
    LET t == arg[r].team
        added == {x \in arg[r].roles \ arg[r].oldRoles : RoleExists(x)}
    IN  /\ \A x \in added : <<t, x>> \notin assigned
        /\ assigned' = (assigned \ ({t} \X (arg[r].oldRoles \ arg[r].roles)))
                            \cup ({t} \X added)

CommitTeam(r) ==
    LET t == arg[r].team
        moved == arg[r].scope # arg[r].oldScope
    IN  /\ pc[r] = "team"
        /\ TeamExists(t)
        /\ moved => ScopeUsable(arg[r].scope)
        /\ team' = [team EXCEPT ![t] = IF moved THEN arg[r].scope ELSE @]
        /\ RolesWritten(r)
        /\ Commit(r)
        /\ UNCHANGED <<user, scope, role, member, allows>>

DeleteTeam(r, t) ==
    /\ TeamExists(t)
    /\ MembersOf(t) = {}
    /\ Begin(r, "dropTeam", [Blank EXCEPT !.team = t])

(* Mutant of CommitDeleteTeam: memberships do not hold the team. *)
DropTeamAnyway(r) ==
    LET t == arg[r].team
    IN  /\ pc[r] = "dropTeam"
        /\ TeamExists(t)
        /\ team' = [team EXCEPT ![t] = Deleted]
        /\ assigned' = assigned \ ({t} \X Roles)
        /\ Commit(r)
        /\ UNCHANGED <<user, scope, role, member, allows>>

CommitDeleteTeam(r) ==
    LET t == arg[r].team
    IN  /\ pc[r] = "dropTeam"
        /\ TeamExists(t)
        /\ MembersOf(t) = {}
        /\ team' = [team EXCEPT ![t] = Deleted]
        /\ assigned' = assigned \ ({t} \X Roles)
        /\ Commit(r)
        /\ UNCHANGED <<user, scope, role, member, allows>>

-----------------------------------------------------------------------------
(* Members *)

AddUser(r, t, u) ==
    /\ TeamExists(t)
    /\ user[u] # Unused
    /\ u \notin MembersOf(t)
    /\ Begin(r, "member", [Blank EXCEPT !.team = t, !.user = u, !.wasNew = user[u].new])

CommitAddUser(r) ==
    LET t == arg[r].team
        u == arg[r].user
    IN  /\ pc[r] = "member"
        /\ TeamExists(t)
        /\ u \notin MembersOf(t)
        /\ member' = member \cup {<<u, t>>}
        /\ user' = [user EXCEPT ![u].new = @ /\ ~arg[r].wasNew]
        /\ Commit(r)
        /\ UNCHANGED <<team, scope, role, assigned, allows>>

RemoveUser(t, u) ==
    /\ TeamExists(t)
    /\ u \in MembersOf(t)
    /\ member' = member \ {<<u, t>>}
    /\ AtOnce
    /\ UNCHANGED <<user, team, scope, role, assigned, allows>>

-----------------------------------------------------------------------------
(* Scopes *)

CreateScope(s, rule) ==
    /\ scope[s] = Unused
    /\ scope' = [scope EXCEPT ![s] = rule]
    /\ AtOnce
    /\ UNCHANGED <<user, team, role, member, assigned, allows>>

UpdateScope(r, s, rule) ==
    /\ ScopeExists(s)
    /\ Begin(r, "scope", [Blank EXCEPT !.scope = s, !.rule = rule, !.oldRule = scope[s]])

(* A column is written if it differs from what was loaded. *)
Column(new, old, stored) == IF new # old THEN new ELSE stored

CommitScope(r) ==
    LET s == arg[r].scope
        new == arg[r].rule
        old == arg[r].oldRule
    IN  /\ pc[r] = "scope"
        /\ ScopeExists(s)
        /\ scope' = [scope EXCEPT ![s] =
                        [attr |-> Column(new.attr, old.attr, @.attr),
                         rule |-> Column(new.rule, old.rule, @.rule)]]
        /\ Commit(r)
        /\ UNCHANGED <<user, team, role, member, assigned, allows>>

UsedBy(s) == {t \in Teams : team[t] = s}

DeleteScope(r, s) ==
    /\ ScopeExists(s)
    /\ UsedBy(s) = {}
    /\ Begin(r, "dropScope", [Blank EXCEPT !.scope = s])

(* Mutant of CommitDeleteScope: ON DELETE SET NULL. *)
DropScopeSetNull(r) ==
    LET s == arg[r].scope
    IN  /\ pc[r] = "dropScope"
        /\ ScopeExists(s)
        /\ scope' = [scope EXCEPT ![s] = Deleted]
        /\ team' = [t \in Teams |-> IF team[t] = s THEN NoScope ELSE team[t]]
        /\ Commit(r)
        /\ UNCHANGED <<user, role, member, assigned, allows>>

CommitDeleteScope(r) ==
    LET s == arg[r].scope
    IN  /\ pc[r] = "dropScope"
        /\ ScopeExists(s)
        /\ UsedBy(s) = {}
        /\ scope' = [scope EXCEPT ![s] = Deleted]
        /\ Commit(r)
        /\ UNCHANGED <<user, team, role, member, assigned, allows>>

-----------------------------------------------------------------------------
(* Roles *)

CreateRole(x, actions) ==
    /\ role[x] = Unused
    /\ role' = [role EXCEPT ![x] = "live"]
    /\ allows' = allows \cup ({x} \X actions)
    /\ AtOnce
    /\ UNCHANGED <<user, team, scope, member, assigned>>

UpdateRole(r, x, actions) ==
    /\ RoleExists(x)
    /\ Begin(r, "role", [Blank EXCEPT !.role = x, !.actions = actions,
                                      !.oldActions = ActionsOf(x)])

CommitRole(r) ==
    LET x == arg[r].role
        added == arg[r].actions \ arg[r].oldActions
    IN  /\ pc[r] = "role"
        /\ RoleExists(x)
        /\ \A p \in added : <<x, p>> \notin allows
        /\ allows' = (allows \ ({x} \X (arg[r].oldActions \ arg[r].actions)))
                        \cup ({x} \X added)
        /\ Commit(r)
        /\ UNCHANGED <<user, team, scope, role, member, assigned>>

(* An extension withdraws an action (module ExtensionRegistry). *)
StripAction(x, p) ==
    /\ RoleExists(x)
    /\ <<x, p>> \in allows
    /\ allows' = allows \ {<<x, p>>}
    /\ AtOnce
    /\ UNCHANGED <<user, team, scope, role, member, assigned>>

DeleteRole(x) ==
    /\ RoleExists(x)
    /\ role' = [role EXCEPT ![x] = Deleted]
    /\ allows' = allows \ ({x} \X Permissions)
    /\ assigned' = assigned \ (Teams \X {x})
    /\ AtOnce
    /\ UNCHANGED <<user, team, scope, member>>

-----------------------------------------------------------------------------
Init ==
    /\ user = [u \in Users |-> Unused]
    /\ team = [t \in Teams |-> Unused]
    /\ scope = [s \in ScopeIds |-> Unused]
    /\ role = [x \in Roles |-> Unused]
    /\ member = {} /\ assigned = {} /\ allows = {}
    /\ pc = [r \in Requests |-> "idle"]
    /\ arg = [r \in Requests |-> Blank]
    /\ undisturbed = {}

EditTeam(r) ==
    \/ \E s \in ScopeIds \cup {NoScope}, roles \in SUBSET Roles :
        CreateTeam(r, s, roles) \/ \E t \in Teams : UpdateTeam(r, t, s, roles)
    \/ \E t \in Teams : InsertTeam(r, t) \/ DeleteTeam(r, t)
    \/ CommitTeam(r) \/ CommitDeleteTeam(r)
    \/ \E t \in Teams, u \in Users : AddUser(r, t, u)
    \/ CommitAddUser(r)

EditScope(r) ==
    \/ \E s \in ScopeIds : (\E rule \in Rules : UpdateScope(r, s, rule)) \/ DeleteScope(r, s)
    \/ CommitScope(r) \/ CommitDeleteScope(r)

EditRole(r) ==
    \/ \E x \in Roles, actions \in SUBSET Permissions : UpdateRole(r, x, actions)
    \/ CommitRole(r)

Next ==
    \/ \E r \in Requests : EditTeam(r) \/ EditScope(r) \/ EditRole(r) \/ Fail(r)
    \/ \E u \in Users, admin \in BOOLEAN : EnsureExists(u, admin)
    \/ \E t \in Teams, u \in Users : RemoveUser(t, u)
    \/ \E s \in ScopeIds, rule \in Rules : CreateScope(s, rule)
    \/ \E x \in Roles, actions \in SUBSET Permissions : CreateRole(x, actions)
    \/ \E x \in Roles : DeleteRole(x) \/ \E p \in Permissions : StripAction(x, p)

Spec == Init /\ [][Next]_vars

-----------------------------------------------------------------------------
(* Properties *)

(* Each table and suspended handler holds what it can hold. *)
TypeOK ==
    /\ user \in [Users -> Accounts \cup {Unused}]
    /\ team \in [Teams -> ScopeIds \cup {NoScope, Unused, Deleted}]
    /\ scope \in [ScopeIds -> StoredRules \cup {Unused, Deleted}]
    /\ role \in [Roles -> {"live", Unused, Deleted}]
    /\ member \subseteq Users \X Teams
    /\ assigned \subseteq Teams \X Roles
    /\ allows \subseteq Roles \X Permissions
    /\ pc \in [Requests -> Steps]
    /\ arg \in [Requests -> Args]
    /\ \A r \in Requests :
        /\ pc[r] \in {"team", "dropTeam", "member"} => arg[r].team \in Teams
        /\ pc[r] = "member" => arg[r].user \in Users
        /\ pc[r] \in {"scope", "dropScope"} => arg[r].scope \in ScopeIds
        /\ pc[r] = "role" => arg[r].role \in Roles
    /\ undisturbed \subseteq Requests

(* Whatever deletions overlap whatever assignments, everything assigned is *)
(* there: a member's account and team, a team's scope and roles, a role    *)
(* with actions.                                                           *)
NothingDangles ==
    /\ \A m \in member : user[m[1]] # Unused /\ TeamExists(m[2])
    /\ \A t \in Teams : team[t] \in ScopeIds => ScopeExists(team[t])
    /\ \A a \in assigned : TeamExists(a[1]) /\ RoleExists(a[2])
    /\ \A a \in allows : RoleExists(a[1])

(* A user counts as new only while it has no team and has never been an    *)
(* administrator: the flag is cleared from a value loaded earlier, in      *)
(* another request than the one that sets it.                              *)
NewIsUnassigned ==
    \A u \in Users : user[u] # Unused /\ user[u].new =>
        ~user[u].admin /\ \A t \in Teams : <<u, t>> \notin member

(* get_teams_with_roles_and_scopes *)
TeamsWithRolesAndScopes(u) ==
    [admin |-> user[u].admin,
     teams |-> {[scope |-> IF team[t] \in ScopeIds THEN scope[team[t]] ELSE NoScope,
                 allows |-> UNION {ActionsOf(x) : x \in RolesOf(t)}]
                    : t \in {t \in Teams : <<u, t>> \in member}}]

Allowed ==
    [u \in {u \in Users : user[u] # Unused} |->
        {pm \in Permissions \X Metas :
            EvaluatePermission(pm[1], TeamsWithRolesAndScopes(u), pm[2])}]

Withdrawn ==
    \/ \E t \in Teams : TeamExists(t) /\ team'[t] = Deleted
    \/ \E s \in ScopeIds : ScopeExists(s) /\ scope'[s] = Deleted
    \/ \E x \in Roles : RoleExists(x) /\ role'[x] = Deleted
    \/ member' # member /\ member' \subseteq member

(* Deleting a team, a scope or a role, or removing a member, never permits *)
(* anybody anything: above all, a scope does not vanish from under a team  *)
(* that would then be unrestricted.                                        *)
WithdrawingNeverPermits ==
    [][Withdrawn => \A u \in DOMAIN Allowed : Allowed'[u] \subseteq Allowed[u]]_vars

(* An update that nothing overlapped leaves exactly what it asked for,     *)
(* though it writes only the differences from what it loaded.              *)
UpdatesAreExact ==
    [][\A r \in undisturbed : pc'[r] = "idle" /\ tables' # tables =>
        /\ pc[r] = "team" =>
            /\ team'[arg[r].team] = arg[r].scope
            /\ {x \in Roles : <<arg[r].team, x>> \in assigned'} = arg[r].roles
        /\ pc[r] = "scope" => scope'[arg[r].scope] = arg[r].rule
        /\ pc[r] = "role" =>
            {p \in Permissions : <<arg[r].role, p>> \in allows'} = arg[r].actions]_vars
=============================================================================
