------------------------ MODULE AdministrationProofs ------------------------
(***************************************************************************)
(* What the administration of users, teams, scopes and roles never loses,  *)
(* for any numbers of each and any overlap of requests.                    *)
(***************************************************************************)
EXTENDS Administration, TLAPS

-----------------------------------------------------------------------------
(* Types *)

ArgOK(r) ==
    /\ pc[r] \in {"team", "dropTeam", "member"} => arg[r].team \in Teams
    /\ pc[r] = "member" => arg[r].user \in Users
    /\ pc[r] \in {"scope", "dropScope"} => arg[r].scope \in ScopeIds
    /\ pc[r] = "role" => arg[r].role \in Roles

TablesOK ==
    /\ user \in [Users -> Accounts \cup {Unused}]
    /\ team \in [Teams -> ScopeIds \cup {NoScope, Unused, Deleted}]
    /\ scope \in [ScopeIds -> StoredRules \cup {Unused, Deleted}]
    /\ role \in [Roles -> {"live", Unused, Deleted}]
    /\ member \subseteq Users \X Teams
    /\ assigned \subseteq Teams \X Roles
    /\ allows \subseteq Roles \X Permissions

SlotsOK ==
    /\ pc \in [Requests -> Steps]
    /\ arg \in [Requests -> Args]
    /\ \A r \in Requests : ArgOK(r)
    /\ undisturbed \subseteq Requests

LEMMA TypeParts == (TypeOK <=> TablesOK /\ SlotsOK) /\ (TablesOK' /\ SlotsOK' => TypeOK')
<1>1. TypeOK <=> TablesOK /\ SlotsOK
    BY DEF TypeOK, TablesOK, SlotsOK, ArgOK
<1>2. TablesOK' /\ SlotsOK' => TypeOK'
    BY DEF TypeOK, TablesOK, SlotsOK, ArgOK
<1> QED
    BY <1>1, <1>2

LEMMA BlankIsArg == Blank \in Args
<1>1. AnyRule \in Rules
    BY AdministrationValues DEF AnyRule
<1>2. AnyRule \in StoredRules
    BY <1>1, AdministrationValues DEF StoredRules, Scopes
<1> QED
    BY <1>1, <1>2 DEF Blank, Args

(* An account a request is about to add to a team stays, and while it is   *)
(* new it was new when it was loaded.                                      *)
JoinersKnown ==
    \A r \in Requests : pc[r] = "member" =>
        /\ user[arg[r].user] # Unused
        /\ user[arg[r].user].new => arg[r].wasNew

LEMMA InitType == Init => TypeOK
<1> SUFFICES ASSUME Init PROVE TypeOK
    OBVIOUS
<1>1. TablesOK
    BY DEF Init, TablesOK
<1>2. \A r \in Requests : pc[r] = "idle"
    BY DEF Init
<1>3. SlotsOK
    BY <1>2, BlankIsArg DEF Init, SlotsOK, ArgOK, Steps
<1> QED
    BY <1>1, <1>3, TypeParts

LEMMA BeginType ==
    ASSUME TypeOK, NEW r \in Requests, NEW step \in Steps, NEW sent \in Args, Begin(r, step, sent),
           step \in {"team", "dropTeam", "member"} => sent.team \in Teams,
           step = "member" => sent.user \in Users,
           step \in {"scope", "dropScope"} => sent.scope \in ScopeIds,
           step = "role" => sent.role \in Roles
    PROVE  TypeOK'
<1>1. TablesOK'
    BY TypeParts DEF Begin, tables, TablesOK
<1>2. \A q \in Requests : ArgOK(q)'
    BY DEF Begin, ArgOK, TypeOK
<1>3. SlotsOK'
    BY <1>2, TypeParts DEF Begin, SlotsOK
<1> QED
    BY <1>1, <1>3, TypeParts

LEMMA CommitType ==
    ASSUME TypeOK, NEW r \in Requests, TablesOK',
           pc' = [pc EXCEPT ![r] = "idle"], arg' = [arg EXCEPT ![r] = Blank],
           undisturbed' \subseteq undisturbed
    PROVE  TypeOK'
<1>1. \A q \in Requests : ArgOK(q)'
    BY DEF ArgOK, TypeOK
<1>2. SlotsOK'
    BY <1>1, BlankIsArg, TypeParts DEF SlotsOK, Steps
<1> QED
    BY <1>2, TypeParts

LEMMA AtOnceType ==
    ASSUME TypeOK, TablesOK', AtOnce
    PROVE  TypeOK'
<1>1. SlotsOK'
    BY TypeParts DEF AtOnce, SlotsOK, ArgOK
<1> QED
    BY <1>1, TypeParts

LEMMA ArgTypes ==
    ASSUME TypeOK, NEW r \in Requests
    PROVE  /\ arg[r].scope \in ScopeIds \cup {NoScope}
           /\ arg[r].oldScope \in ScopeIds \cup {NoScope}
           /\ arg[r].roles \subseteq Roles /\ arg[r].oldRoles \subseteq Roles
           /\ arg[r].actions \subseteq Permissions /\ arg[r].oldActions \subseteq Permissions
           /\ arg[r].rule \in Rules /\ arg[r].oldRule \in StoredRules
           /\ arg[r].wasNew \in BOOLEAN
           /\ ArgOK(r)
BY DEF TypeOK, Args, ArgOK

LEMMA StoredRuleTypes ==
    /\ \A x \in Rules : x.attr \in {y.attr : y \in Rules} /\ x.rule \in {"ALL", "ANY"}
    /\ Rules \subseteq StoredRules
    /\ StoredRules \subseteq Scopes
<1>1. ASSUME NEW x \in Rules
      PROVE  /\ x.attr \in {y.attr : y \in Rules} /\ x.rule \in {"ALL", "ANY"}
             /\ x \in StoredRules
    <2>1. x \in Scopes
        BY AdministrationValues
    <2>2. x.rule \in {"ALL", "ANY"} /\ x = [attr |-> x.attr, rule |-> x.rule]
        BY <2>1 DEF Scopes
    <2> QED
        BY <2>2 DEF StoredRules
<1>2. ASSUME NEW v \in StoredRules
      PROVE  v \in Scopes
    <2>1. PICK x \in Rules : v.attr = x.attr
        BY DEF StoredRules
    <2>2. x \in Scopes
        BY AdministrationValues
    <2> QED
        BY <2>1, <2>2 DEF Scopes, StoredRules
<1> QED
    BY <1>1, <1>2

LEMMA CommitTeamTables ==
    ASSUME TypeOK, NEW r \in Requests, CommitTeam(r)
    PROVE  TablesOK'
<1> DEFINE t == arg[r].team
           added == {x \in arg[r].roles \ arg[r].oldRoles : RoleExists(x)}
<1>1. t \in Teams /\ added \subseteq Roles
    BY ArgTypes DEF CommitTeam, ArgOK
<1>2. assigned' \subseteq Teams \X Roles
    BY <1>1 DEF CommitTeam, RolesWritten, TypeOK
<1>3. team' \in [Teams -> ScopeIds \cup {NoScope, Unused, Deleted}]
    BY ArgTypes DEF CommitTeam, TypeOK
<1> QED
    BY <1>2, <1>3 DEF CommitTeam, TypeOK, TablesOK

LEMMA CommitScopeTables ==
    ASSUME TypeOK, NEW r \in Requests, CommitScope(r)
    PROVE  TablesOK'
<1> DEFINE s == arg[r].scope
           new == arg[r].rule
           old == arg[r].oldRule
           v == [attr |-> Column(new.attr, old.attr, scope[s].attr),
                 rule |-> Column(new.rule, old.rule, scope[s].rule)]
<1>1. s \in ScopeIds /\ new \in Rules
    BY ArgTypes DEF CommitScope, ArgOK
<1>2. scope[s] \in StoredRules
    BY <1>1 DEF CommitScope, ScopeExists, TypeOK, StoredRules
<1>3. v \in StoredRules
    BY <1>1, <1>2, StoredRuleTypes DEF Column, StoredRules
<1>4. scope' = [scope EXCEPT ![s] = v]
    BY DEF CommitScope
<1> HIDE DEF v
<1>5. scope' \in [ScopeIds -> StoredRules \cup {Unused, Deleted}]
    BY <1>3, <1>4 DEF TypeOK, StoredRules
<1> QED
    BY <1>5 DEF CommitScope, TypeOK, TablesOK, StoredRules

LEMMA TypeStep == TypeOK /\ JoinersKnown /\ [Next]_vars => TypeOK'
<1> SUFFICES ASSUME TypeOK, JoinersKnown, [Next]_vars PROVE TypeOK'
    OBVIOUS
<1>1. CASE UNCHANGED vars
    <2>1. TablesOK' /\ SlotsOK'
        BY <1>1, TypeParts DEF vars, TablesOK, SlotsOK, ArgOK
    <2> QED
        BY <2>1, TypeParts
<1>2. ASSUME NEW u \in Users, NEW admin \in BOOLEAN, EnsureExists(u, admin)
      PROVE  TypeOK'
    <2>1. [admin |-> admin, new |-> ~admin /\ (user[u] = Unused \/ user[u].new)] \in Accounts
        BY DEF Accounts
    <2>2. TablesOK'
        BY <1>2, <2>1 DEF EnsureExists, TypeOK, TablesOK
    <2> QED
        BY <1>2, <2>2, AtOnceType DEF EnsureExists
<1>3. ASSUME NEW r \in Requests, NEW s \in ScopeIds \cup {NoScope}, NEW roles \in SUBSET Roles,
             CreateTeam(r, s, roles)
      PROVE  TypeOK'
    <2>1. [Blank EXCEPT !.scope = s, !.roles = roles] \in Args
        BY BlankIsArg DEF Args
    <2> QED
        BY <1>3, <2>1, BeginType DEF CreateTeam, Steps
<1>4. ASSUME NEW r \in Requests, NEW t \in Teams, InsertTeam(r, t)
      PROVE  TypeOK'
    <2>1. TablesOK'
        BY <1>4, ArgTypes DEF InsertTeam, TypeOK, TablesOK
    <2> QED
        BY <1>4, <2>1, CommitType DEF InsertTeam, Commit
<1>5. ASSUME NEW r \in Requests, NEW t \in Teams, NEW s \in ScopeIds \cup {NoScope},
             NEW roles \in SUBSET Roles, UpdateTeam(r, t, s, roles)
      PROVE  TypeOK'
    <2> DEFINE sent == [Blank EXCEPT !.team = t, !.scope = s, !.roles = roles,
                                     !.oldScope = team[t], !.oldRoles = RolesOf(t)]
    <2>1. team[t] \in ScopeIds \cup {NoScope} /\ RolesOf(t) \in SUBSET Roles
        BY <1>5 DEF UpdateTeam, TeamExists, TypeOK, RolesOf
    <2>2. sent \in Args /\ sent.team = t
        BY <2>1, BlankIsArg DEF Args
    <2>3. Begin(r, "team", sent)
        BY <1>5 DEF UpdateTeam
    <2> HIDE DEF sent
    <2> QED
        BY <2>2, <2>3, BeginType DEF Steps
<1>6. ASSUME NEW r \in Requests, CommitTeam(r)
      PROVE  TypeOK'
    BY <1>6, CommitTeamTables, CommitType DEF CommitTeam, Commit
<1>7. ASSUME NEW r \in Requests, NEW t \in Teams, DeleteTeam(r, t)
      PROVE  TypeOK'
    <2>1. [Blank EXCEPT !.team = t] \in Args /\ [Blank EXCEPT !.team = t].team = t
        BY BlankIsArg DEF Args
    <2> QED
        BY <1>7, <2>1, BeginType DEF DeleteTeam, Steps
<1>8. ASSUME NEW r \in Requests, CommitDeleteTeam(r)
      PROVE  TypeOK'
    <2>1. TablesOK'
        BY <1>8 DEF CommitDeleteTeam, TypeOK, TablesOK
    <2> QED
        BY <1>8, <2>1, CommitType DEF CommitDeleteTeam, Commit
<1>9. ASSUME NEW r \in Requests, NEW t \in Teams, NEW u \in Users, AddUser(r, t, u)
      PROVE  TypeOK'
    <2> DEFINE sent == [Blank EXCEPT !.team = t, !.user = u, !.wasNew = user[u].new]
    <2>1. user[u].new \in BOOLEAN
        BY <1>9 DEF AddUser, TypeOK, Accounts
    <2>2. sent \in Args /\ sent.team = t /\ sent.user = u
        BY <2>1, BlankIsArg DEF Args
    <2>3. Begin(r, "member", sent)
        BY <1>9 DEF AddUser
    <2> HIDE DEF sent
    <2> QED
        BY <2>2, <2>3, BeginType DEF Steps
<1>10. ASSUME NEW r \in Requests, CommitAddUser(r)
       PROVE  TypeOK'
    <2>1. arg[r].user \in Users /\ arg[r].team \in Teams
        BY <1>10, ArgTypes DEF CommitAddUser, ArgOK
    <2>2. user' \in [Users -> Accounts \cup {Unused}]
        <3>1. \A w \in Accounts : [w EXCEPT !.new = @ /\ ~arg[r].wasNew] \in Accounts
            BY DEF Accounts
        <3>2. user[arg[r].user] \in Accounts
            BY <1>10, <2>1 DEF CommitAddUser, JoinersKnown, TypeOK
        <3>3. [user[arg[r].user] EXCEPT !.new = @ /\ ~arg[r].wasNew] \in Accounts
            BY <3>1, <3>2
        <3> QED
            BY <1>10, <3>3 DEF CommitAddUser, TypeOK
    <2>3. TablesOK'
        BY <1>10, <2>1, <2>2 DEF CommitAddUser, TypeOK, TablesOK
    <2> QED
        BY <1>10, <2>3, CommitType DEF CommitAddUser, Commit
<1>11. ASSUME NEW t \in Teams, NEW u \in Users, RemoveUser(t, u)
       PROVE  TypeOK'
    <2>1. TablesOK'
        BY <1>11 DEF RemoveUser, TypeOK, TablesOK
    <2> QED
        BY <1>11, <2>1, AtOnceType DEF RemoveUser
<1>12. ASSUME NEW s \in ScopeIds, NEW rule \in Rules, CreateScope(s, rule)
       PROVE  TypeOK'
    <2>1. scope' \in [ScopeIds -> StoredRules \cup {Unused, Deleted}]
        BY <1>12, StoredRuleTypes DEF CreateScope, TypeOK, StoredRules
    <2>2. TablesOK'
        BY <1>12, <2>1 DEF CreateScope, TypeOK, TablesOK, StoredRules
    <2> QED
        BY <1>12, <2>2, AtOnceType DEF CreateScope
<1>13. ASSUME NEW r \in Requests, NEW s \in ScopeIds, NEW rule \in Rules, UpdateScope(r, s, rule)
       PROVE  TypeOK'
    <2> DEFINE sent == [Blank EXCEPT !.scope = s, !.rule = rule, !.oldRule = scope[s]]
    <2>0. scope[s] \in StoredRules
        BY <1>13 DEF UpdateScope, ScopeExists, TypeOK
    <2>1. sent \in Args /\ sent.scope = s
        BY <2>0, BlankIsArg DEF Args
    <2>2. Begin(r, "scope", sent)
        BY <1>13 DEF UpdateScope
    <2> HIDE DEF sent
    <2> QED
        BY <2>1, <2>2, BeginType DEF Steps
<1>14. ASSUME NEW r \in Requests, CommitScope(r)
       PROVE  TypeOK'
    BY <1>14, CommitScopeTables, CommitType DEF CommitScope, Commit
<1>15. ASSUME NEW r \in Requests, NEW s \in ScopeIds, DeleteScope(r, s)
       PROVE  TypeOK'
    <2>1. [Blank EXCEPT !.scope = s] \in Args /\ [Blank EXCEPT !.scope = s].scope = s
        BY BlankIsArg DEF Args
    <2> QED
        BY <1>15, <2>1, BeginType DEF DeleteScope, Steps
<1>16. ASSUME NEW r \in Requests, CommitDeleteScope(r)
       PROVE  TypeOK'
    <2>1. TablesOK'
        BY <1>16 DEF CommitDeleteScope, TypeOK, TablesOK
    <2> QED
        BY <1>16, <2>1, CommitType DEF CommitDeleteScope, Commit
<1>17. ASSUME NEW x \in Roles, NEW actions \in SUBSET Permissions, CreateRole(x, actions)
       PROVE  TypeOK'
    <2>1. TablesOK'
        BY <1>17 DEF CreateRole, TypeOK, TablesOK
    <2> QED
        BY <1>17, <2>1, AtOnceType DEF CreateRole
<1>18. ASSUME NEW r \in Requests, NEW x \in Roles, NEW actions \in SUBSET Permissions,
              UpdateRole(r, x, actions)
       PROVE  TypeOK'
    <2> DEFINE sent == [Blank EXCEPT !.role = x, !.actions = actions,
                                     !.oldActions = ActionsOf(x)]
    <2>1. ActionsOf(x) \in SUBSET Permissions
        BY DEF ActionsOf
    <2>2. sent \in Args /\ sent.role = x
        BY <2>1, BlankIsArg DEF Args
    <2>3. Begin(r, "role", sent)
        BY <1>18 DEF UpdateRole
    <2> HIDE DEF sent
    <2> QED
        BY <2>2, <2>3, BeginType DEF Steps
<1>19. ASSUME NEW r \in Requests, CommitRole(r)
       PROVE  TypeOK'
    <2>1. arg[r].role \in Roles /\ arg[r].actions \subseteq Permissions
        BY <1>19, ArgTypes DEF CommitRole, ArgOK
    <2>2. allows' \subseteq Roles \X Permissions
        BY <1>19, <2>1 DEF CommitRole, TypeOK
    <2>3. TablesOK'
        BY <1>19, <2>2 DEF CommitRole, TypeOK, TablesOK
    <2> QED
        BY <1>19, <2>3, CommitType DEF CommitRole, Commit
<1>20. ASSUME NEW x \in Roles, NEW p \in Permissions, StripAction(x, p)
       PROVE  TypeOK'
    <2>1. TablesOK'
        BY <1>20 DEF StripAction, TypeOK, TablesOK
    <2> QED
        BY <1>20, <2>1, AtOnceType DEF StripAction
<1>21. ASSUME NEW x \in Roles, DeleteRole(x)
       PROVE  TypeOK'
    <2>1. TablesOK'
        BY <1>21 DEF DeleteRole, TypeOK, TablesOK
    <2> QED
        BY <1>21, <2>1, AtOnceType DEF DeleteRole
<1>22. ASSUME NEW r \in Requests, Fail(r)
       PROVE  TypeOK'
    <2>1. TablesOK'
        BY <1>22, TypeParts DEF Fail, tables, TablesOK
    <2> QED
        BY <1>22, <2>1, CommitType DEF Fail
<1> QED
    BY <1>1, <1>2, <1>3, <1>4, <1>5, <1>6, <1>7, <1>8, <1>9, <1>10, <1>11, <1>12, <1>13, <1>14,
       <1>15, <1>16, <1>17, <1>18, <1>19, <1>20, <1>21, <1>22
    DEF Next, EditTeam, EditScope, EditRole

-----------------------------------------------------------------------------
(* The steps that write tables *)

LEMMA NextCases ==
    ASSUME [Next]_vars
    PROVE  \/ UNCHANGED tables
           \/ \E r \in Requests, t \in Teams : InsertTeam(r, t)
           \/ \E r \in Requests : CommitTeam(r)
           \/ \E r \in Requests : CommitDeleteTeam(r)
           \/ \E r \in Requests : CommitAddUser(r)
           \/ \E r \in Requests : CommitScope(r)
           \/ \E r \in Requests : CommitDeleteScope(r)
           \/ \E r \in Requests : CommitRole(r)
           \/ \E u \in Users, admin \in BOOLEAN : EnsureExists(u, admin)
           \/ \E t \in Teams, u \in Users : RemoveUser(t, u)
           \/ \E s \in ScopeIds, rule \in Rules : CreateScope(s, rule)
           \/ \E x \in Roles, actions \in SUBSET Permissions : CreateRole(x, actions)
           \/ \E x \in Roles : DeleteRole(x)
           \/ \E x \in Roles, p \in Permissions : StripAction(x, p)
<1>1. CASE UNCHANGED vars
    BY <1>1 DEF vars, tables
<1>2. ASSUME NEW r \in Requests, EditTeam(r)
      PROVE  \/ UNCHANGED tables
             \/ \E t \in Teams : InsertTeam(r, t)
             \/ CommitTeam(r) \/ CommitDeleteTeam(r) \/ CommitAddUser(r)
    BY <1>2 DEF EditTeam, CreateTeam, UpdateTeam, DeleteTeam, AddUser, Begin
<1>3. ASSUME NEW r \in Requests, EditScope(r)
      PROVE  UNCHANGED tables \/ CommitScope(r) \/ CommitDeleteScope(r)
    BY <1>3 DEF EditScope, UpdateScope, DeleteScope, Begin
<1>4. ASSUME NEW r \in Requests, EditRole(r)
      PROVE  UNCHANGED tables \/ CommitRole(r)
    BY <1>4 DEF EditRole, UpdateRole, Begin
<1>5. ASSUME NEW r \in Requests, Fail(r)
      PROVE  UNCHANGED tables
    BY <1>5 DEF Fail
<1> QED
    BY <1>1, <1>2, <1>3, <1>4, <1>5 DEF Next

LEMMA Identifiers ==
    /\ \A w \in Accounts : w # Unused
    /\ \A v \in StoredRules : v \notin {Unused, Deleted}
    /\ \A s \in ScopeIds \cup {NoScope} : s \notin {Unused, Deleted}
    /\ "live" \notin {Unused, Deleted} /\ NoScope \notin ScopeIds
BY AdministrationValues, StoredRuleTypes DEF Accounts

-----------------------------------------------------------------------------
(* Nothing dangles *)

MembersBelong == \A u \in Users, t \in Teams :
                    <<u, t>> \in member => user[u] # Unused /\ TeamExists(t)
ScopesThere == \A t \in Teams : team[t] \in ScopeIds => ScopeExists(team[t])
RolesThere == \A t \in Teams, x \in Roles :
                    <<t, x>> \in assigned => TeamExists(t) /\ RoleExists(x)
ActionsBelong == \A x \in Roles, p \in Permissions : <<x, p>> \in allows => RoleExists(x)

DanglesParts == MembersBelong /\ ScopesThere /\ RolesThere /\ ActionsBelong

LEMMA DanglesSplit ==
    ASSUME TypeOK
    PROVE  NothingDangles <=> DanglesParts
BY DEF TypeOK, NothingDangles, DanglesParts, MembersBelong, ScopesThere, RolesThere, ActionsBelong

LEMMA DanglesSplitNext ==
    ASSUME TypeOK'
    PROVE  DanglesParts' => NothingDangles'
BY DEF TypeOK, NothingDangles, DanglesParts, MembersBelong, ScopesThere, RolesThere, ActionsBelong,
       TeamExists, ScopeExists, RoleExists

LEMMA DanglesStep ==
    ASSUME TypeOK, TypeOK', JoinersKnown, DanglesParts, [Next]_vars
    PROVE  DanglesParts'
<1> USE DEF TeamExists, ScopeExists, RoleExists
<1>1. CASE UNCHANGED tables
    BY <1>1 DEF tables, DanglesParts, MembersBelong, ScopesThere, RolesThere, ActionsBelong
<1>2. ASSUME NEW r \in Requests, NEW t \in Teams, InsertTeam(r, t)
      PROVE  DanglesParts'
    <2>1. arg[r].scope \in ScopeIds \cup {NoScope} /\ arg[r].roles \subseteq Roles
        BY ArgTypes
    <2>2. MembersBelong'
        BY <1>2 DEF InsertTeam, DanglesParts, MembersBelong, TypeOK
    <2>3. ScopesThere'
        BY <1>2, <2>1, Identifiers DEF InsertTeam, ScopeUsable, DanglesParts, ScopesThere, TypeOK
    <2>4. RolesThere'
        BY <1>2, <2>1, Identifiers DEF InsertTeam, DanglesParts, RolesThere, TypeOK
    <2> QED
        BY <1>2, <2>2, <2>3, <2>4 DEF InsertTeam, DanglesParts, ActionsBelong
<1>3. ASSUME NEW r \in Requests, CommitTeam(r)
      PROVE  DanglesParts'
    <2> DEFINE t == arg[r].team
               added == {x \in arg[r].roles \ arg[r].oldRoles : RoleExists(x)}
    <2>1. t \in Teams /\ arg[r].scope \in ScopeIds \cup {NoScope} /\ added \subseteq Roles
        BY <1>3, ArgTypes DEF CommitTeam, ArgOK
    <2>2. \A y \in Teams \ {t} : team'[y] = team[y]
        BY <1>3 DEF CommitTeam, TypeOK
    <2>3. /\ team'[t] \notin {Unused, Deleted}
          /\ team'[t] = team[t] \/ (team'[t] = arg[r].scope /\ ScopeUsable(arg[r].scope))
        <3>1. team'[t] = IF arg[r].scope # arg[r].oldScope THEN arg[r].scope ELSE team[t]
            BY <1>3, <2>1 DEF CommitTeam, TypeOK
        <3>2. /\ team[t] \notin {Unused, Deleted}
              /\ arg[r].scope # arg[r].oldScope => ScopeUsable(arg[r].scope)
            BY <1>3 DEF CommitTeam
        <3>3. arg[r].scope \notin {Unused, Deleted}
            BY <2>1, Identifiers
        <3>4. CASE arg[r].scope # arg[r].oldScope
            BY <3>1, <3>2, <3>3, <3>4
        <3>5. CASE arg[r].scope = arg[r].oldScope
            BY <3>1, <3>2, <3>5
        <3> QED
            BY <3>4, <3>5
    <2>4. MembersBelong'
        BY <1>3, <2>2, <2>3 DEF CommitTeam, DanglesParts, MembersBelong
    <2>5. ScopesThere'
        BY <1>3, <2>1, <2>2, <2>3, Identifiers
        DEF CommitTeam, ScopeUsable, DanglesParts, ScopesThere
    <2>6. \A a \in assigned' : a \in assigned \/ (a \in {t} \X added)
        BY <1>3 DEF CommitTeam, RolesWritten
    <2>7. RolesThere'
        BY <1>3, <2>1, <2>2, <2>3, <2>6 DEF CommitTeam, DanglesParts, RolesThere
    <2> QED
        BY <1>3, <2>4, <2>5, <2>7 DEF CommitTeam, DanglesParts, ActionsBelong
<1>4. ASSUME NEW r \in Requests, CommitDeleteTeam(r)
      PROVE  DanglesParts'
    <2> DEFINE t == arg[r].team
    <2>1. t \in Teams
        BY <1>4, ArgTypes DEF CommitDeleteTeam, ArgOK
    <2>2. \A y \in Teams : team'[y] = IF y = t THEN Deleted ELSE team[y]
        BY <1>4 DEF CommitDeleteTeam, TypeOK
    <2>3. MembersBelong'
        BY <1>4, <2>2 DEF CommitDeleteTeam, MembersOf, DanglesParts, MembersBelong
    <2>4. ScopesThere'
        BY <1>4, <2>2, Identifiers DEF CommitDeleteTeam, DanglesParts, ScopesThere
    <2>5. RolesThere'
        BY <1>4, <2>2 DEF CommitDeleteTeam, DanglesParts, RolesThere
    <2> QED
        BY <1>4, <2>3, <2>4, <2>5 DEF CommitDeleteTeam, DanglesParts, ActionsBelong
<1>5. ASSUME NEW r \in Requests, CommitAddUser(r)
      PROVE  DanglesParts'
    <2>1. arg[r].user \in Users /\ arg[r].team \in Teams
        BY <1>5, ArgTypes DEF CommitAddUser, ArgOK
    <2>2. user[arg[r].user] # Unused
        BY <1>5 DEF CommitAddUser, JoinersKnown
    <2>3. user'[arg[r].user] # Unused
        <3>1. [user[arg[r].user] EXCEPT !.new = @ /\ ~arg[r].wasNew] \in Accounts
            BY <2>1, <2>2, ArgTypes DEF TypeOK, Accounts
        <3> QED
            BY <1>5, <2>1, <3>1, Identifiers DEF CommitAddUser, TypeOK
    <2>4. \A u \in Users \ {arg[r].user} : user'[u] = user[u]
        BY <1>5 DEF CommitAddUser, TypeOK
    <2>5. MembersBelong'
        BY <1>5, <2>3, <2>4 DEF CommitAddUser, DanglesParts, MembersBelong
    <2> QED
        BY <1>5, <2>5 DEF CommitAddUser, DanglesParts, ScopesThere, RolesThere, ActionsBelong
<1>6. ASSUME NEW r \in Requests, CommitScope(r)
      PROVE  DanglesParts'
    <2> DEFINE s == arg[r].scope
    <2>1. s \in ScopeIds
        BY <1>6, ArgTypes DEF CommitScope, ArgOK
    <2>2. \A y \in ScopeIds \ {s} : scope'[y] = scope[y]
        BY <1>6 DEF CommitScope, TypeOK
    <2>3. scope'[s] \notin {Unused, Deleted}
        <3> DEFINE v == [attr |-> Column(arg[r].rule.attr, arg[r].oldRule.attr, scope[s].attr),
                         rule |-> Column(arg[r].rule.rule, arg[r].oldRule.rule, scope[s].rule)]
        <3>1. scope[s] \in StoredRules /\ arg[r].rule \in StoredRules
            BY <1>6, <2>1, ArgTypes, StoredRuleTypes DEF CommitScope, TypeOK
        <3>2. v \in StoredRules
            BY <3>1 DEF Column, StoredRules
        <3>3. scope'[s] = v
            BY <1>6, <2>1 DEF CommitScope, TypeOK
        <3> QED
            BY <3>2, <3>3, Identifiers
    <2>4. ScopesThere'
        BY <1>6, <2>2, <2>3 DEF CommitScope, DanglesParts, ScopesThere
    <2> QED
        BY <1>6, <2>4 DEF CommitScope, DanglesParts, MembersBelong, RolesThere, ActionsBelong
<1>7. ASSUME NEW r \in Requests, CommitDeleteScope(r)
      PROVE  DanglesParts'
    <2>1. \A y \in ScopeIds \ {arg[r].scope} : scope'[y] = scope[y]
        BY <1>7 DEF CommitDeleteScope, TypeOK
    <2>2. ScopesThere'
        BY <1>7, <2>1 DEF CommitDeleteScope, UsedBy, DanglesParts, ScopesThere
    <2> QED
        BY <1>7, <2>2 DEF CommitDeleteScope, DanglesParts, MembersBelong, RolesThere, ActionsBelong
<1>8. ASSUME NEW r \in Requests, CommitRole(r)
      PROVE  DanglesParts'
    <2>1. ActionsBelong'
        BY <1>8 DEF CommitRole, DanglesParts, ActionsBelong
    <2> QED
        BY <1>8, <2>1 DEF CommitRole, DanglesParts, MembersBelong, ScopesThere, RolesThere
<1>9. ASSUME NEW u \in Users, NEW admin \in BOOLEAN, EnsureExists(u, admin)
      PROVE  DanglesParts'
    <2>1. [admin |-> admin, new |-> ~admin /\ (user[u] = Unused \/ user[u].new)] # Unused
        <3>1. [admin |-> admin, new |-> ~admin /\ (user[u] = Unused \/ user[u].new)] \in Accounts
            BY DEF Accounts
        <3> QED
            BY <3>1, Identifiers
    <2>2. MembersBelong'
        BY <1>9, <2>1 DEF EnsureExists, DanglesParts, MembersBelong, TypeOK
    <2> QED
        BY <1>9, <2>2 DEF EnsureExists, DanglesParts, ScopesThere, RolesThere, ActionsBelong
<1>10. ASSUME NEW t \in Teams, NEW u \in Users, RemoveUser(t, u)
       PROVE  DanglesParts'
    BY <1>10 DEF RemoveUser, DanglesParts, MembersBelong, ScopesThere, RolesThere, ActionsBelong
<1>11. ASSUME NEW s \in ScopeIds, NEW rule \in Rules, CreateScope(s, rule)
       PROVE  DanglesParts'
    <2>1. rule \notin {Unused, Deleted}
        BY StoredRuleTypes, Identifiers
    <2>2. ScopesThere'
        BY <1>11, <2>1 DEF CreateScope, DanglesParts, ScopesThere, TypeOK
    <2> QED
        BY <1>11, <2>2 DEF CreateScope, DanglesParts, MembersBelong, RolesThere, ActionsBelong
<1>12. ASSUME NEW x \in Roles, NEW actions \in SUBSET Permissions, CreateRole(x, actions)
       PROVE  DanglesParts'
    <2>1. RolesThere' /\ ActionsBelong'
        BY <1>12 DEF CreateRole, DanglesParts, RolesThere, ActionsBelong, TypeOK
    <2> QED
        BY <1>12, <2>1 DEF CreateRole, DanglesParts, MembersBelong, ScopesThere
<1>13. ASSUME NEW x \in Roles, DeleteRole(x)
       PROVE  DanglesParts'
    <2>1. RolesThere' /\ ActionsBelong'
        BY <1>13 DEF DeleteRole, DanglesParts, RolesThere, ActionsBelong, TypeOK
    <2> QED
        BY <1>13, <2>1 DEF DeleteRole, DanglesParts, MembersBelong, ScopesThere
<1>14. ASSUME NEW x \in Roles, NEW p \in Permissions, StripAction(x, p)
       PROVE  DanglesParts'
    BY <1>14 DEF StripAction, DanglesParts, MembersBelong, ScopesThere, RolesThere, ActionsBelong
<1> QED
    BY NextCases, <1>1, <1>2, <1>3, <1>4, <1>5, <1>6, <1>7, <1>8, <1>9, <1>10, <1>11, <1>12,
       <1>13, <1>14

-----------------------------------------------------------------------------
(* New accounts *)

LEMMA JoinersStep ==
    ASSUME TypeOK, JoinersKnown, [Next]_vars
    PROVE  JoinersKnown'
<1> USE DEF JoinersKnown
<1>1. CASE UNCHANGED vars
    BY <1>1 DEF vars
<1>2. ASSUME NEW r \in Requests, EditTeam(r)
      PROVE  JoinersKnown'
    <2>1. ASSUME NEW t \in Teams, NEW u \in Users, AddUser(r, t, u)
          PROVE  JoinersKnown'
        <3> DEFINE sent == [Blank EXCEPT !.team = t, !.user = u, !.wasNew = user[u].new]
        <3>1. sent.user = u /\ sent.wasNew = user[u].new
            BY DEF Blank
        <3>2. pc' = [pc EXCEPT ![r] = "member"] /\ arg' = [arg EXCEPT ![r] = sent]
            BY <2>1 DEF AddUser, Begin
        <3>3. user' = user /\ user[u] # Unused
            BY <2>1 DEF AddUser, Begin, tables
        <3> HIDE DEF sent
        <3> QED
            BY <3>1, <3>2, <3>3 DEF TypeOK
    <2>2. CASE CommitAddUser(r)
        <3> DEFINE u == arg[r].user
        <3>1. u \in Users /\ user[u] \in Accounts
            BY <2>2, ArgTypes DEF CommitAddUser, ArgOK, TypeOK
        <3>2. user'[u] \in Accounts /\ (user'[u].new => user[u].new)
            <4>1. user'[u] = [user[u] EXCEPT !.new = @ /\ ~arg[r].wasNew]
                BY <2>2, <3>1 DEF CommitAddUser, TypeOK
            <4>2. arg[r].wasNew \in BOOLEAN
                BY ArgTypes
            <4> QED
                BY <3>1, <4>1, <4>2 DEF Accounts
        <3>3. \A v \in Users \ {u} : user'[v] = user[v]
            BY <2>2 DEF CommitAddUser, TypeOK
        <3>4. \A q \in Requests : pc'[q] = "member" =>
                    pc[q] = "member" /\ arg'[q] = arg[q] /\ arg[q].user \in Users
            BY <2>2, ArgTypes DEF CommitAddUser, Commit, TypeOK, ArgOK
        <3> QED
            BY <3>1, <3>2, <3>3, <3>4, Identifiers
    <2>3. ASSUME \/ \E s \in ScopeIds \cup {NoScope}, roles \in SUBSET Roles :
                        CreateTeam(r, s, roles) \/ \E t \in Teams : UpdateTeam(r, t, s, roles)
                 \/ \E t \in Teams : InsertTeam(r, t) \/ DeleteTeam(r, t)
                 \/ CommitTeam(r) \/ CommitDeleteTeam(r)
          PROVE  JoinersKnown'
        <3>1. /\ user' = user
              /\ \E step \in Steps \ {"member"} : pc' = [pc EXCEPT ![r] = step]
              /\ \A q \in Requests \ {r} : arg'[q] = arg[q]
            BY <2>3 DEF CreateTeam, UpdateTeam, InsertTeam, DeleteTeam, CommitTeam,
                        CommitDeleteTeam, Begin, Commit, tables, Steps, TypeOK
        <3> QED
            BY <3>1 DEF TypeOK
    <2> QED
        BY <1>2, <2>1, <2>2, <2>3 DEF EditTeam
<1>3. ASSUME NEW r \in Requests, EditScope(r) \/ EditRole(r) \/ Fail(r)
      PROVE  JoinersKnown'
    <2>1. /\ user' = user
          /\ \E step \in Steps \ {"member"} : pc' = [pc EXCEPT ![r] = step]
          /\ \A q \in Requests \ {r} : arg'[q] = arg[q]
        BY <1>3 DEF EditScope, EditRole, UpdateScope, DeleteScope, CommitScope, CommitDeleteScope,
                    UpdateRole, CommitRole, Fail, Begin, Commit, tables, Steps, TypeOK
    <2> QED
        BY <2>1 DEF TypeOK
<1>4. ASSUME NEW u \in Users, NEW admin \in BOOLEAN, EnsureExists(u, admin)
      PROVE  JoinersKnown'
    <2> DEFINE w == [admin |-> admin, new |-> ~admin /\ (user[u] = Unused \/ user[u].new)]
    <2>1. w \in Accounts /\ (w.new => user[u] = Unused \/ user[u].new)
        BY DEF Accounts
    <2>2. user' = [user EXCEPT ![u] = w] /\ UNCHANGED <<pc, arg>>
        BY <1>4 DEF EnsureExists, AtOnce
    <2> HIDE DEF w
    <2> QED
        BY <2>1, <2>2, Identifiers, ArgTypes DEF TypeOK, ArgOK
<1>5. ASSUME \/ \E t \in Teams, u \in Users : RemoveUser(t, u)
             \/ \E s \in ScopeIds, rule \in Rules : CreateScope(s, rule)
             \/ \E x \in Roles, actions \in SUBSET Permissions : CreateRole(x, actions)
             \/ \E x \in Roles : DeleteRole(x) \/ \E p \in Permissions : StripAction(x, p)
      PROVE  JoinersKnown'
    <2>1. UNCHANGED <<user, pc, arg>>
        BY <1>5 DEF RemoveUser, CreateScope, CreateRole, DeleteRole, StripAction, AtOnce
    <2> QED
        BY <2>1
<1> QED
    BY <1>1, <1>2, <1>3, <1>4, <1>5 DEF Next

LEMMA NewStep ==
    ASSUME TypeOK, JoinersKnown, DanglesParts, NewIsUnassigned, [Next]_vars
    PROVE  NewIsUnassigned'
<1> USE DEF NewIsUnassigned
<1>1. CASE user' = user /\ member' \subseteq member
    BY <1>1
<1>2. ASSUME NEW r \in Requests, CommitAddUser(r)
      PROVE  NewIsUnassigned'
    <2> DEFINE u == arg[r].user
               t == arg[r].team
    <2>1. u \in Users /\ t \in Teams /\ user[u] \in Accounts /\ (user[u].new => arg[r].wasNew)
        BY <1>2, ArgTypes DEF CommitAddUser, ArgOK, TypeOK, JoinersKnown
    <2>2. user'[u].new = FALSE
        <3>1. user'[u] = [user[u] EXCEPT !.new = @ /\ ~arg[r].wasNew]
            BY <1>2, <2>1 DEF CommitAddUser, TypeOK
        <3>2. arg[r].wasNew \in BOOLEAN
            BY ArgTypes
        <3> QED
            BY <2>1, <3>1, <3>2 DEF Accounts
    <2>3. \A v \in Users \ {u} : user'[v] = user[v]
        BY <1>2 DEF CommitAddUser, TypeOK
    <2>4. member' = member \cup {<<u, t>>}
        BY <1>2 DEF CommitAddUser
    <2> QED
        BY <2>1, <2>2, <2>3, <2>4
<1>3. ASSUME NEW u \in Users, NEW admin \in BOOLEAN, EnsureExists(u, admin)
      PROVE  NewIsUnassigned'
    <2> DEFINE w == [admin |-> admin, new |-> ~admin /\ (user[u] = Unused \/ user[u].new)]
    <2>1. w.admin = admin /\ (w.new => ~admin /\ (user[u] = Unused \/ user[u].new))
        OBVIOUS
    <2>2. user' = [user EXCEPT ![u] = w] /\ member' = member
        BY <1>3 DEF EnsureExists
    <2>3. user[u] = Unused => \A t \in Teams : <<u, t>> \notin member
        BY DEF DanglesParts, MembersBelong
    <2> HIDE DEF w
    <2> QED
        BY <2>1, <2>2, <2>3 DEF TypeOK
<1>4. \/ user' = user /\ member' \subseteq member
      \/ \E r \in Requests : CommitAddUser(r)
      \/ \E u \in Users, admin \in BOOLEAN : EnsureExists(u, admin)
    BY NextCases DEF tables, InsertTeam, CommitTeam, CommitDeleteTeam, CommitScope,
        CommitDeleteScope, CommitRole, RemoveUser, CreateScope, CreateRole, DeleteRole, StripAction
<1> QED
    BY <1>1, <1>2, <1>3, <1>4

-----------------------------------------------------------------------------
(* The inductive invariant *)

IInv == TypeOK /\ JoinersKnown /\ NothingDangles /\ NewIsUnassigned

LEMMA InitInv == Init => IInv
<1> SUFFICES ASSUME Init PROVE IInv
    OBVIOUS
<1>1. TypeOK
    BY InitType
<1>2. JoinersKnown /\ NothingDangles /\ NewIsUnassigned
    BY Identifiers DEF Init, JoinersKnown, NothingDangles, NewIsUnassigned
<1> QED
    BY <1>1, <1>2 DEF IInv

LEMMA InvStep == IInv /\ [Next]_vars => IInv'
<1> SUFFICES ASSUME IInv, [Next]_vars PROVE IInv'
    OBVIOUS
<1>1. TypeOK'
    BY TypeStep DEF IInv
<1>2. DanglesParts
    BY DanglesSplit DEF IInv
<1>3. NothingDangles'
    BY <1>1, <1>2, DanglesStep, DanglesSplitNext DEF IInv
<1>4. JoinersKnown'
    BY JoinersStep DEF IInv
<1>5. NewIsUnassigned'
    BY <1>2, NewStep DEF IInv
<1> QED
    BY <1>1, <1>3, <1>4, <1>5 DEF IInv

THEOREM Inductive == Spec => []IInv
BY InitInv, InvStep, PTL DEF Spec

(* Every row and every suspended request holds what it can hold. *)
THEOREM TypeCorrect == Spec => []TypeOK
<1>1. IInv => TypeOK
    BY DEF IInv
<1> QED
    BY <1>1, Inductive, PTL

(* Members, assigned roles and allowed actions belong to rows that exist.  *)
THEOREM NothingEverDangles == Spec => []NothingDangles
<1>1. IInv => NothingDangles
    BY DEF IInv
<1> QED
    BY <1>1, Inductive, PTL

(* A new user has no team and is no administrator. *)
THEOREM NewMeansUnassigned == Spec => []NewIsUnassigned
<1>1. IInv => NewIsUnassigned
    BY DEF IInv
<1> QED
    BY <1>1, Inductive, PTL

-----------------------------------------------------------------------------
(* Withdrawals *)

(* A user with a team for each of another's teams, of the same scope and   *)
(* allowing at least as much, is permitted whatever the other is.          *)
LEMMA MoreTeamsNeverRevoke ==
    ASSUME NEW p, NEW meta, NEW less, NEW more,
           less.admin => more.admin,
           \A team1 \in less.teams : \E team2 \in more.teams :
                team2.scope = team1.scope /\ team1.allows \subseteq team2.allows,
           EvaluatePermission(p, less, meta)
    PROVE  EvaluatePermission(p, more, meta)
<1>1. ASSUME NEW team1 \in TeamsWith(p, less)
      PROVE  \E team2 \in TeamsWith(p, more) : team2.scope = team1.scope
    BY DEF TeamsWith
<1>2. CASE less.admin
    BY <1>2 DEF EvaluatePermission
<1>3. CASE ~less.admin
    <2>1. TeamsWith(p, more) # {}
        BY <1>1, <1>3 DEF EvaluatePermission
    <2>2. Unscoped(TeamsWith(p, less)) => Unscoped(TeamsWith(p, more))
        BY <1>1 DEF Unscoped
    <2>3. ASSUME NEW team1 \in TeamsWith(p, less), MatchesScope(team1.scope, meta)
          PROVE  \E team2 \in TeamsWith(p, more) : MatchesScope(team2.scope, meta)
        BY <1>1, <2>3
    <2> QED
        BY <1>3, <2>1, <2>2, <2>3 DEF EvaluatePermission
<1> QED
    BY <1>2, <1>3

ScopeOf(t) == IF team[t] \in ScopeIds THEN scope[team[t]] ELSE NoScope
AllowedBy(t) == UNION {ActionsOf(x) : x \in RolesOf(t)}

LEMMA LessPermitsLess ==
    ASSUME user' = user, member' \subseteq member,
           \A u \in Users, t \in Teams : <<u, t>> \in member' =>
                ScopeOf(t)' = ScopeOf(t) /\ AllowedBy(t)' \subseteq AllowedBy(t)
    PROVE  \A u \in DOMAIN Allowed : Allowed'[u] \subseteq Allowed[u]
<1> SUFFICES ASSUME NEW u \in Users, user[u] # Unused
             PROVE  Allowed'[u] \subseteq Allowed[u]
    BY DEF Allowed
<1> DEFINE now == TeamsWithRolesAndScopes(u)
           next == TeamsWithRolesAndScopes(u)'
<1>1. /\ now.admin = user[u].admin /\ next.admin = user[u].admin
      /\ now.teams = {[scope |-> ScopeOf(t), allows |-> AllowedBy(t)] :
                        t \in {t \in Teams : <<u, t>> \in member}}
      /\ next.teams = {[scope |-> ScopeOf(t)', allows |-> AllowedBy(t)'] :
                        t \in {t \in Teams : <<u, t>> \in member'}}
    BY DEF TeamsWithRolesAndScopes, ScopeOf, AllowedBy
<1>2. ASSUME NEW team1 \in next.teams
      PROVE  \E team2 \in now.teams :
                team2.scope = team1.scope /\ team1.allows \subseteq team2.allows
    <2>1. PICK t \in Teams : /\ <<u, t>> \in member'
                             /\ team1 = [scope |-> ScopeOf(t)', allows |-> AllowedBy(t)']
        BY <1>1
    <2> DEFINE team2 == [scope |-> ScopeOf(t), allows |-> AllowedBy(t)]
    <2>2. team2 \in now.teams
        BY <1>1, <2>1
    <2>3. team2.scope = team1.scope /\ team1.allows \subseteq team2.allows
        BY <2>1
    <2> QED
        BY <2>2, <2>3
<1>3. /\ Allowed[u] = {pm \in Permissions \X Metas : EvaluatePermission(pm[1], now, pm[2])}
      /\ Allowed'[u] = {pm \in Permissions \X Metas : EvaluatePermission(pm[1], next, pm[2])}
    BY DEF Allowed
<1> HIDE DEF now, next
<1>4. \A p, meta : EvaluatePermission(p, next, meta) => EvaluatePermission(p, now, meta)
    BY <1>1, <1>2, MoreTeamsNeverRevoke
<1> QED
    BY <1>3, <1>4

LEMMA WithdrawnCases ==
    ASSUME TypeOK, [Next]_vars, Withdrawn
    PROVE  \/ \E r \in Requests : CommitDeleteTeam(r) \/ CommitDeleteScope(r)
           \/ \E t \in Teams, u \in Users : RemoveUser(t, u)
           \/ \E x \in Roles : DeleteRole(x)
<1> USE DEF TeamExists, ScopeExists, RoleExists
<1> DEFINE Kept == /\ \A t \in Teams : team'[t] = Deleted => team[t] = Deleted
                   /\ \A s \in ScopeIds : scope'[s] = Deleted => scope[s] = Deleted
                   /\ \A x \in Roles : role'[x] = Deleted => role[x] = Deleted
                   /\ member \subseteq member'
<1>1. ~Kept
    <2>1. (\E t \in Teams : TeamExists(t) /\ team'[t] = Deleted) => ~Kept
        OBVIOUS
    <2>2. (\E s \in ScopeIds : ScopeExists(s) /\ scope'[s] = Deleted) => ~Kept
        OBVIOUS
    <2>3. (\E x \in Roles : RoleExists(x) /\ role'[x] = Deleted) => ~Kept
        BY Identifiers
    <2>4. member' # member /\ member' \subseteq member => ~Kept
        OBVIOUS
    <2> QED
        BY <2>1, <2>2, <2>3, <2>4 DEF Withdrawn
<1>2. UNCHANGED tables => Kept
    BY DEF tables
<1>3. ASSUME NEW r \in Requests, NEW t \in Teams, InsertTeam(r, t)
      PROVE  Kept
    BY <1>3, ArgTypes, Identifiers DEF InsertTeam, TypeOK
<1>4. ASSUME NEW r \in Requests, CommitTeam(r)
      PROVE  Kept
    <2>1. arg[r].scope # Deleted
        BY ArgTypes, Identifiers
    <2> QED
        BY <1>4, <2>1 DEF CommitTeam, TypeOK
<1>5. ASSUME NEW r \in Requests, CommitScope(r)
      PROVE  Kept
    <2>1. TablesOK'
        BY <1>5, CommitScopeTables
    <2> DEFINE s == arg[r].scope
               v == [attr |-> Column(arg[r].rule.attr, arg[r].oldRule.attr, scope[s].attr),
                     rule |-> Column(arg[r].rule.rule, arg[r].oldRule.rule, scope[s].rule)]
    <2>2. s \in ScopeIds /\ scope[s] \in StoredRules /\ arg[r].rule \in StoredRules
        BY <1>5, ArgTypes, StoredRuleTypes DEF CommitScope, ArgOK, TypeOK
    <2>3. v \in StoredRules
        BY <2>2 DEF Column, StoredRules
    <2>4. scope' = [scope EXCEPT ![s] = v]
        BY <1>5 DEF CommitScope
    <2>5. v # Deleted
        BY <2>3, Identifiers
    <2> HIDE DEF v
    <2>6. \A y \in ScopeIds : scope'[y] = Deleted => scope[y] = Deleted
        BY <2>4, <2>5 DEF TypeOK
    <2> QED
        BY <1>5, <2>6 DEF CommitScope
<1>6. ASSUME NEW s \in ScopeIds, NEW rule \in Rules, CreateScope(s, rule)
      PROVE  Kept
    BY <1>6, StoredRuleTypes, Identifiers DEF CreateScope, TypeOK
<1>7. ASSUME NEW x \in Roles, NEW actions \in SUBSET Permissions, CreateRole(x, actions)
      PROVE  Kept
    BY <1>7, Identifiers DEF CreateRole, TypeOK
<1>8. (\E r \in Requests : CommitAddUser(r) \/ CommitRole(r)) => Kept
    BY DEF CommitAddUser, CommitRole
<1>9. (\E u \in Users, admin \in BOOLEAN : EnsureExists(u, admin)) => Kept
    BY DEF EnsureExists
<1>10. (\E x \in Roles, p \in Permissions : StripAction(x, p)) => Kept
    BY DEF StripAction
<1> HIDE DEF Kept
<1> QED
    BY <1>1, <1>2, <1>3, <1>4, <1>5, <1>6, <1>7, <1>8, <1>9, <1>10, NextCases

LEMMA WithdrawStep ==
    ASSUME TypeOK, [Next]_vars, Withdrawn
    PROVE  \A u \in DOMAIN Allowed : Allowed'[u] \subseteq Allowed[u]
<1>1. ASSUME NEW r \in Requests, CommitDeleteTeam(r)
      PROVE  /\ user' = user /\ member' \subseteq member
             /\ \A u \in Users, t \in Teams : <<u, t>> \in member' =>
                    ScopeOf(t)' = ScopeOf(t) /\ AllowedBy(t)' \subseteq AllowedBy(t)
    <2>1. UNCHANGED <<user, member, scope, allows>> /\ assigned' \subseteq assigned
        BY <1>1 DEF CommitDeleteTeam
    <2>2. \A u \in Users, t \in Teams : <<u, t>> \in member => team'[t] = team[t]
        BY <1>1 DEF CommitDeleteTeam, MembersOf, TypeOK
    <2>3. \A t \in Teams : AllowedBy(t)' \subseteq AllowedBy(t)
        BY <2>1 DEF AllowedBy, ActionsOf, RolesOf
    <2> QED
        BY <2>1, <2>2, <2>3 DEF ScopeOf
<1>2. ASSUME NEW r \in Requests, CommitDeleteScope(r)
      PROVE  /\ user' = user /\ member' \subseteq member
             /\ \A u \in Users, t \in Teams : <<u, t>> \in member' =>
                    ScopeOf(t)' = ScopeOf(t) /\ AllowedBy(t)' \subseteq AllowedBy(t)
    <2>1. UNCHANGED <<user, member, team, assigned, allows>>
        BY <1>2 DEF CommitDeleteScope
    <2>2. \A t \in Teams : team[t] \in ScopeIds => scope'[team[t]] = scope[team[t]]
        BY <1>2 DEF CommitDeleteScope, UsedBy, TypeOK
    <2> QED
        BY <2>1, <2>2 DEF ScopeOf, AllowedBy, ActionsOf, RolesOf
<1>3. ASSUME NEW v \in Users, NEW y \in Teams, RemoveUser(y, v)
      PROVE  /\ user' = user /\ member' \subseteq member
             /\ \A u \in Users, t \in Teams : <<u, t>> \in member' =>
                    ScopeOf(t)' = ScopeOf(t) /\ AllowedBy(t)' \subseteq AllowedBy(t)
    BY <1>3 DEF RemoveUser, ScopeOf, AllowedBy, ActionsOf, RolesOf
<1>4. ASSUME NEW x \in Roles, DeleteRole(x)
      PROVE  /\ user' = user /\ member' \subseteq member
             /\ \A u \in Users, t \in Teams : <<u, t>> \in member' =>
                    ScopeOf(t)' = ScopeOf(t) /\ AllowedBy(t)' \subseteq AllowedBy(t)
    <2>1. /\ UNCHANGED <<user, member, team, scope>>
          /\ assigned' \subseteq assigned /\ allows' \subseteq allows
        BY <1>4 DEF DeleteRole
    <2> QED
        BY <2>1 DEF ScopeOf, AllowedBy, ActionsOf, RolesOf
<1> QED
    BY <1>1, <1>2, <1>3, <1>4, WithdrawnCases, LessPermitsLess

(* Deleting a team, a scope or a role, or removing a member, never permits *)
(* anybody anything.                                                       *)
THEOREM WithdrawalsNeverPermit == Spec => WithdrawingNeverPermits
<1>1. TypeOK /\ [Next]_vars =>
        [Withdrawn => \A u \in DOMAIN Allowed : Allowed'[u] \subseteq Allowed[u]]_vars
    BY WithdrawStep
<1> QED
    BY <1>1, TypeCorrect, PTL DEF Spec, WithdrawingNeverPermits

-----------------------------------------------------------------------------
(* Updates *)

(* What a request loaded is still so while nobody else has written. *)
Loaded(r) ==
    /\ pc[r] = "team" =>
        /\ arg[r].oldScope = team[arg[r].team] /\ arg[r].oldRoles = RolesOf(arg[r].team)
        /\ \A x \in arg[r].roles : RoleExists(x)
    /\ pc[r] = "scope" => arg[r].oldRule = scope[arg[r].scope]
    /\ pc[r] = "role" => arg[r].oldActions = ActionsOf(arg[r].role)

LoadedInv == \A r \in undisturbed : Loaded(r)

LEMMA LoadedStep ==
    ASSUME TypeOK, LoadedInv, [Next]_vars
    PROVE  LoadedInv'
<1>1. CASE undisturbed' = {}
    BY <1>1 DEF LoadedInv
<1>2. CASE UNCHANGED vars
    BY <1>2 DEF vars, LoadedInv, Loaded, RolesOf, ActionsOf, RoleExists
<1>3. ASSUME NEW r \in Requests, NEW step, NEW sent, Begin(r, step, sent),
             step = "team" =>
                /\ sent.oldScope = team[sent.team] /\ sent.oldRoles = RolesOf(sent.team)
                /\ \A x \in sent.roles : RoleExists(x),
             step = "scope" => sent.oldRule = scope[sent.scope],
             step = "role" => sent.oldActions = ActionsOf(sent.role)
      PROVE  LoadedInv'
    <2>1. \A q \in Requests : pc'[q] = (IF q = r THEN step ELSE pc[q])
                              /\ arg'[q] = (IF q = r THEN sent ELSE arg[q])
        BY <1>3 DEF Begin, TypeOK
    <2>2. undisturbed' = undisturbed \cup {r} /\ undisturbed \subseteq Requests
          /\ UNCHANGED <<team, scope, role, assigned, allows>>
        BY <1>3 DEF Begin, TypeOK, tables
    <2> QED
        BY <1>3, <2>1, <2>2 DEF LoadedInv, Loaded, RolesOf, ActionsOf, RoleExists
<1>4. ASSUME NEW r \in Requests, Fail(r)
      PROVE  LoadedInv'
    BY <1>4 DEF Fail, tables, LoadedInv, Loaded, RolesOf, ActionsOf, RoleExists, TypeOK
<1>5. ASSUME NEW r \in Requests, NEW t \in Teams, NEW s \in ScopeIds \cup {NoScope},
             NEW roles \in SUBSET Roles, UpdateTeam(r, t, s, roles)
      PROVE  LoadedInv'
    <2> DEFINE sent == [Blank EXCEPT !.team = t, !.scope = s, !.roles = roles,
                                     !.oldScope = team[t], !.oldRoles = RolesOf(t)]
    <2>1. /\ sent.team = t /\ sent.oldScope = team[t] /\ sent.oldRoles = RolesOf(t)
          /\ sent.roles = roles
        BY DEF Blank
    <2>2. Begin(r, "team", sent) /\ \A x \in roles : RoleExists(x)
        BY <1>5 DEF UpdateTeam
    <2> HIDE DEF sent
    <2> QED
        BY <1>3, <2>1, <2>2
<1>6. ASSUME NEW r \in Requests, NEW s \in ScopeIds, NEW rule \in Rules, UpdateScope(r, s, rule)
      PROVE  LoadedInv'
    <2> DEFINE sent == [Blank EXCEPT !.scope = s, !.rule = rule, !.oldRule = scope[s]]
    <2>1. sent.scope = s /\ sent.oldRule = scope[s]
        BY DEF Blank
    <2>2. Begin(r, "scope", sent)
        BY <1>6 DEF UpdateScope
    <2> HIDE DEF sent
    <2> QED
        BY <1>3, <2>1, <2>2
<1>7. ASSUME NEW r \in Requests, NEW x \in Roles, NEW actions \in SUBSET Permissions,
             UpdateRole(r, x, actions)
      PROVE  LoadedInv'
    <2> DEFINE sent == [Blank EXCEPT !.role = x, !.actions = actions,
                                     !.oldActions = ActionsOf(x)]
    <2>1. sent.role = x /\ sent.oldActions = ActionsOf(x)
        BY DEF Blank
    <2>2. Begin(r, "role", sent)
        BY <1>7 DEF UpdateRole
    <2> HIDE DEF sent
    <2> QED
        BY <1>3, <2>1, <2>2
<1>8. ASSUME NEW r \in Requests,
             \/ \E s \in ScopeIds \cup {NoScope}, roles \in SUBSET Roles : CreateTeam(r, s, roles)
             \/ \E t \in Teams : DeleteTeam(r, t) \/ \E u \in Users : AddUser(r, t, u)
             \/ \E s \in ScopeIds : DeleteScope(r, s)
      PROVE  LoadedInv'
    <2>1. \E step \in {"newTeam", "dropTeam", "member", "dropScope"} : \E sent : Begin(r, step, sent)
        BY <1>8 DEF CreateTeam, DeleteTeam, AddUser, DeleteScope
    <2> QED
        BY <1>3, <2>1
<1>9. ASSUME NEW r \in Requests, EditTeam(r)
      PROVE  LoadedInv'
    <2>1. CASE \/ \E t \in Teams : InsertTeam(r, t)
               \/ CommitTeam(r) \/ CommitDeleteTeam(r) \/ CommitAddUser(r)
        BY <1>1, <2>1 DEF InsertTeam, CommitTeam, CommitDeleteTeam, CommitAddUser, Commit
    <2> QED
        BY <1>5, <1>8, <1>9, <2>1 DEF EditTeam
<1>10. ASSUME NEW r \in Requests, EditScope(r) \/ EditRole(r)
       PROVE  LoadedInv'
    <2>1. CASE CommitScope(r) \/ CommitDeleteScope(r) \/ CommitRole(r)
        BY <1>1, <2>1 DEF CommitScope, CommitDeleteScope, CommitRole, Commit
    <2> QED
        BY <1>6, <1>7, <1>8, <1>10, <2>1 DEF EditScope, EditRole
<1>11. ASSUME \/ \E u \in Users, admin \in BOOLEAN : EnsureExists(u, admin)
              \/ \E t \in Teams, u \in Users : RemoveUser(t, u)
              \/ \E s \in ScopeIds, rule \in Rules : CreateScope(s, rule)
              \/ \E x \in Roles, actions \in SUBSET Permissions : CreateRole(x, actions)
              \/ \E x \in Roles : DeleteRole(x) \/ \E p \in Permissions : StripAction(x, p)
       PROVE  LoadedInv'
    BY <1>1, <1>11 DEF EnsureExists, RemoveUser, CreateScope, CreateRole, DeleteRole, StripAction,
        AtOnce
<1> QED
    BY <1>2, <1>4, <1>9, <1>10, <1>11 DEF Next

(* Requests that end by writing do so by the step that is theirs. *)
LEMMA OwnStep ==
    ASSUME TypeOK, [Next]_vars, NEW r \in Requests, pc'[r] = "idle", tables' # tables
    PROVE  /\ pc[r] = "team" => CommitTeam(r)
           /\ pc[r] = "scope" => CommitScope(r)
           /\ pc[r] = "role" => CommitRole(r)
<1> SUFFICES ASSUME pc[r] \in {"team", "scope", "role"}
             PROVE  /\ pc[r] = "team" => CommitTeam(r)
                    /\ pc[r] = "scope" => CommitScope(r)
                    /\ pc[r] = "role" => CommitRole(r)
    OBVIOUS
<1>1. tables' = tables <=> UNCHANGED tables
    OBVIOUS
<1>2. ASSUME NEW q \in Requests, pc' = [pc EXCEPT ![q] = "idle"]
      PROVE  q = r
    BY <1>2 DEF TypeOK
<1>3. ASSUME NEW q \in Requests, NEW t \in Teams
      PROVE  ~InsertTeam(q, t)
    BY <1>2 DEF InsertTeam, Commit
<1>4. ASSUME NEW q \in Requests
      PROVE  ~CommitDeleteTeam(q) /\ ~CommitAddUser(q) /\ ~CommitDeleteScope(q)
    BY <1>2 DEF CommitDeleteTeam, CommitAddUser, CommitDeleteScope, Commit
<1>5. ASSUME NEW q \in Requests, CommitTeam(q) \/ CommitScope(q) \/ CommitRole(q)
      PROVE  q = r
    BY <1>2, <1>5 DEF CommitTeam, CommitScope, CommitRole, Commit
<1>6. pc' # pc
    OBVIOUS
<1>7. \E q \in Requests : CommitTeam(q) \/ CommitScope(q) \/ CommitRole(q)
    BY <1>1, <1>3, <1>4, <1>6, NextCases
    DEF EnsureExists, RemoveUser, CreateScope, CreateRole, DeleteRole, StripAction, AtOnce
<1>8. CommitTeam(r) \/ CommitScope(r) \/ CommitRole(r)
    BY <1>5, <1>7
<1> QED
    BY <1>8 DEF CommitTeam, CommitScope, CommitRole

LEMMA ExactStep ==
    ASSUME TypeOK, [Next]_vars, NEW r \in Requests, Loaded(r), pc'[r] = "idle", tables' # tables
    PROVE  /\ pc[r] = "team" =>
                /\ team'[arg[r].team] = arg[r].scope
                /\ {x \in Roles : <<arg[r].team, x>> \in assigned'} = arg[r].roles
           /\ pc[r] = "scope" => scope'[arg[r].scope] = arg[r].rule
           /\ pc[r] = "role" =>
                {p \in Permissions : <<arg[r].role, p>> \in allows'} = arg[r].actions
<1>1. CASE pc[r] = "team"
    <2> DEFINE t == arg[r].team
               added == {x \in arg[r].roles \ arg[r].oldRoles : RoleExists(x)}
    <2>1. /\ CommitTeam(r) /\ t \in Teams /\ arg[r].roles \subseteq Roles
          /\ arg[r].oldScope = team[t] /\ arg[r].oldRoles = RolesOf(t)
          /\ added = arg[r].roles \ arg[r].oldRoles
        BY <1>1, OwnStep, ArgTypes DEF ArgOK, Loaded
    <2>2. team'[t] = arg[r].scope
        BY <2>1 DEF CommitTeam, TypeOK
    <2>3. assigned' = (assigned \ ({t} \X (RolesOf(t) \ arg[r].roles)))
                            \cup ({t} \X (arg[r].roles \ RolesOf(t)))
        BY <2>1 DEF CommitTeam, RolesWritten
    <2>4. {x \in Roles : <<t, x>> \in assigned'} = arg[r].roles
        BY <2>1, <2>3 DEF RolesOf
    <2> QED
        BY <1>1, <2>2, <2>4
<1>2. CASE pc[r] = "scope"
    <2> DEFINE s == arg[r].scope
               new == arg[r].rule
    <2>1. /\ CommitScope(r) /\ s \in ScopeIds /\ new \in StoredRules
          /\ arg[r].oldRule = scope[s]
        BY <1>2, OwnStep, ArgTypes, StoredRuleTypes DEF ArgOK, Loaded
    <2>2. new = [attr |-> new.attr, rule |-> new.rule]
        BY <2>1 DEF StoredRules
    <2>3. scope'[s] = [attr |-> Column(new.attr, scope[s].attr, scope[s].attr),
                       rule |-> Column(new.rule, scope[s].rule, scope[s].rule)]
        BY <2>1 DEF CommitScope, TypeOK
    <2>4. scope'[s] = [attr |-> new.attr, rule |-> new.rule]
        BY <2>3 DEF Column
    <2> QED
        BY <1>2, <2>2, <2>4
<1>3. CASE pc[r] = "role"
    <2> DEFINE x == arg[r].role
    <2>1. /\ CommitRole(r) /\ arg[r].actions \subseteq Permissions
          /\ arg[r].oldActions = ActionsOf(x)
        BY <1>3, OwnStep, ArgTypes DEF Loaded
    <2>2. allows' = (allows \ ({x} \X (ActionsOf(x) \ arg[r].actions)))
                        \cup ({x} \X (arg[r].actions \ ActionsOf(x)))
        BY <2>1 DEF CommitRole
    <2>3. {p \in Permissions : <<x, p>> \in allows'} = arg[r].actions
        BY <2>1, <2>2 DEF ActionsOf
    <2> QED
        BY <1>3, <2>3
<1> QED
    BY <1>1, <1>2, <1>3

(* An update that nothing overlapped leaves exactly what it asked for. *)
THEOREM AloneUpdatesAreExact == Spec => UpdatesAreExact
<1>1. Init => LoadedInv
    BY DEF Init, LoadedInv
<1>2. TypeOK /\ LoadedInv /\ [Next]_vars => LoadedInv'
    BY LoadedStep
<1>3. TypeOK /\ LoadedInv /\ [Next]_vars =>
        [\A r \in undisturbed : pc'[r] = "idle" /\ tables' # tables =>
            /\ pc[r] = "team" =>
                /\ team'[arg[r].team] = arg[r].scope
                /\ {x \in Roles : <<arg[r].team, x>> \in assigned'} = arg[r].roles
            /\ pc[r] = "scope" => scope'[arg[r].scope] = arg[r].rule
            /\ pc[r] = "role" =>
                {p \in Permissions : <<arg[r].role, p>> \in allows'} = arg[r].actions]_vars
    <2> SUFFICES ASSUME TypeOK, LoadedInv, [Next]_vars, NEW r \in undisturbed,
                        pc'[r] = "idle", tables' # tables
                 PROVE  /\ pc[r] = "team" =>
                            /\ team'[arg[r].team] = arg[r].scope
                            /\ {x \in Roles : <<arg[r].team, x>> \in assigned'} = arg[r].roles
                        /\ pc[r] = "scope" => scope'[arg[r].scope] = arg[r].rule
                        /\ pc[r] = "role" =>
                            {p \in Permissions : <<arg[r].role, p>> \in allows'} = arg[r].actions
        OBVIOUS
    <2>1. r \in Requests /\ Loaded(r)
        BY DEF TypeOK, LoadedInv
    <2> QED
        BY <2>1, ExactStep
<1> QED
    BY <1>1, <1>2, <1>3, TypeCorrect, PTL DEF Spec, UpdatesAreExact
=============================================================================
