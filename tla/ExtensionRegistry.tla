------------------------- MODULE ExtensionRegistry -------------------------
(***************************************************************************)
(* The lifecycle of dynamic API extensions: the /extensions management     *)
(* handlers of extensions/setup.py, the business rules of                  *)
(* extensions/registry.py, the transactions of db/sqlalchemy/extension.py  *)
(* and the live route tables of extensions/runtime.py.                     *)
(*                                                                         *)
(* The handlers are coroutines of one process that interleave at every     *)
(* await.  PUT, enable, disable and DELETE hold one asyncio lock per       *)
(* extension name; POST and the role editor of /auth/roles hold none.      *)
(* PostgreSQL runs at READ COMMITTED: a transaction's reads are one step,  *)
(* its writes become visible in a later one, and only the constraints of   *)
(* the schema are evaluated together with the writes.  An early return     *)
(* that changes nothing and holds no lock is a stuttering step.            *)
(***************************************************************************)

CONSTANTS
    Names,       \* extension names
    Actions,     \* names of RBAC actions, platform and extension ones
    Platform,    \* the actions sync_permissions_to_db seeds
    Roles,       \* RBAC roles
    Manifests,   \* the registration documents a client may send
    Requests,    \* slots for concurrent HTTP requests
    NoManifest,  \* no row, or no live route
    NoName,
    NoRole,
    NoRemote,    \* a manifest without a `ui` section
    Anywhere,    \* a contribution without a `when` filter
    Free         \* an unlocked asyncio lock

(***************************************************************************)
(* What a manifest says that the rules below tell apart: the actions it    *)
(* introduces, the actions its routes and its UI contributions require,    *)
(* its ui.remoteName and its `replace:*` contributions.                    *)
(***************************************************************************)
ASSUME ManifestShape ==
    /\ NoManifest \notin Manifests
    /\ \A m \in Manifests :
        /\ m.actions \subseteq Actions
        /\ m.requires \subseteq Actions
        /\ m.uiRequires \subseteq Actions
        /\ m.remote = NoRemote => m.uiRequires = {} /\ m.replaces = {}

ASSUME PlatformShape == Platform \subseteq Actions

ASSUME DistinctValues ==
    /\ Free \notin Requests
    /\ NoName \notin Names
    /\ NoRole \notin Roles

VARIABLES
    manifest,  \* [Names -> Manifests, or NoManifest]: the row, upstreams, routes, ui
    enabled,   \* the names whose row has enabled = true
    owns,      \* table extension_actions
    catalog,   \* table actions
    grants,    \* table role_actions
    live,      \* [Names -> Manifests, or NoManifest]: the routes mounted in memory
    lock,      \* _extension_locks: [Names -> the request that holds it, or Free]
    pc,        \* where each request is suspended
    arg,       \* what each request has read or been given
    unsynced   \* names whose mount the code logged as failed or left undone

db == <<manifest, enabled, owns, catalog, grants>>
vars == <<manifest, enabled, owns, catalog, grants, live, lock, pc, arg, unsynced>>

-----------------------------------------------------------------------------
(* Request bookkeeping *)

Waiting == {"put_wait", "enable_wait", "disable_wait", "delete_wait"}

BeforeCommit ==
    {"put_validate", "put_commit", "enable_check", "enable_commit", "delete_commit"}

AfterCommit == {"put_mount", "put_undo", "enable_publish", "disable_unmount"}

Unlocked == {"post_commit", "role_commit"}

Holding == BeforeCommit \cup AfterCommit

Steps == {"idle"} \cup Waiting \cup Holding \cup Unlocked

Blank == [name |-> NoName, doc |-> NoManifest, old |-> {}, was |-> FALSE,
          seen |-> {}, role |-> NoRole, want |-> {}]

Args == [name : Names \cup {NoName}, doc : Manifests \cup {NoManifest},
         old : SUBSET Actions, was : BOOLEAN, seen : SUBSET (Roles \X Actions),
         role : Roles \cup {NoRole}, want : SUBSET Actions]

Goto(r, step) == pc' = [pc EXCEPT ![r] = step]

Answer(r) ==
    /\ Goto(r, "idle")
    /\ arg' = [arg EXCEPT ![r] = Blank]

Release(r) == lock' = [lock EXCEPT ![arg[r].name] = Free]

Take(r) ==
    /\ lock[arg[r].name] = Free
    /\ lock' = [lock EXCEPT ![arg[r].name] = r]

-----------------------------------------------------------------------------
(* Reads and rules *)

Registered(n) == manifest[n] # NoManifest

Owned(n) == {a \in Actions : <<n, a>> \in owns}

OwnedByOther(n, a) == \E k \in Names \ {n} : <<k, a>> \in owns

Granted(a) == \E role \in Roles : <<role, a>> \in grants

OwnershipValid(n, m) ==
    /\ \A a \in m.actions :
        /\ ~OwnedByOther(n, a)
        /\ a \in Owned(n) \/ a \notin catalog
    /\ \A a \in m.requires \ m.actions :
        /\ \A k \in Names : <<k, a>> \notin owns
        /\ a \in catalog

UiValid(n, m) ==
    m.remote # NoRemote =>
        /\ \A k \in Names \ {n} : Registered(k) => manifest[k].remote # m.remote
        /\ m.uiRequires \ m.actions \subseteq catalog

WhenOverlaps(a, b) ==
    \/ a = Anywhere
    \/ b = Anywhere
    \/ \A field \in DOMAIN a \cap DOMAIN b : a[field] \cap b[field] # {}

Collide(m, other) ==
    \E c \in m.replaces, d \in other.replaces :
        c.place = d.place /\ WhenOverlaps(c.when, d.when)

ReplaceConflicts(n, m) ==
    \E k \in enabled \ {n} : Collide(m, manifest[k])

(* Mutant of Orphans: the grants are not consulted. *)
OrphansEvenIfGranted(n, candidates, granted) ==
    {a \in candidates : ~OwnedByOther(n, a)}

(* delete_orphaned_actions skips an action that is owned or granted. *)
Orphans(n, candidates, granted) ==
    {a \in candidates : ~OwnedByOther(n, a) /\ \A role \in Roles : <<role, a>> \notin granted}

(* Mutant of UniqueOwner: the schema before migration e5f6a7b8c9d0. *)
NoUniqueOwner(n, m) == TRUE

(* extension_actions.action_name is unique. *)
UniqueOwner(n, m) == \A a \in m.actions : ~OwnedByOther(n, a)

(* extension_routes.required_action references actions.name, no cascade. *)
RoutesResolve(cat, man) ==
    \A k \in Names : man[k] # NoManifest => man[k].requires \subseteq cat

-----------------------------------------------------------------------------
(* POST /extensions.  No lock: reads, then one transaction that commits.   *)

PostValidate(r, n, m) ==
    /\ pc[r] = "idle"
    /\ ~Registered(n)
    /\ OwnershipValid(n, m)
    /\ UiValid(n, m)
    /\ Goto(r, "post_commit")
    /\ arg' = [arg EXCEPT ![r].name = n, ![r].doc = m]
    /\ UNCHANGED <<db, live, lock, unsynced>>

(* Mutant of Inserted: the columns of extension_actions swapped. *)
InsertedSwapped(n, m) ==
    /\ manifest' = [manifest EXCEPT ![n] = m]
    /\ enabled' = enabled \ {n}
    /\ owns' = owns \cup (m.actions \X {n})
    /\ catalog' = catalog \cup m.actions

Inserted(n, m) ==
    /\ manifest' = [manifest EXCEPT ![n] = m]
    /\ enabled' = enabled \ {n}
    /\ owns' = owns \cup ({n} \X m.actions)
    /\ catalog' = catalog \cup m.actions

PostCommit(r) ==
    LET n == arg[r].name
        m == arg[r].doc
    IN  /\ pc[r] = "post_commit"
        /\ IF /\ ~Registered(n)
              /\ UniqueOwner(n, m)
              /\ RoutesResolve(catalog \cup m.actions, [manifest EXCEPT ![n] = m])
             THEN Inserted(n, m)
             ELSE UNCHANGED <<manifest, enabled, owns, catalog>>
        /\ Answer(r)
        /\ UNCHANGED <<grants, live, lock, unsynced>>

-----------------------------------------------------------------------------
(* A client sends one of the requests that take the extension's lock.      *)

Arrive(r, n, m, step) ==
    /\ pc[r] = "idle"
    /\ step \in Waiting
    /\ (m # NoManifest) <=> (step = "put_wait")
    /\ Goto(r, step)
    /\ arg' = [arg EXCEPT ![r].name = n, ![r].doc = m]
    /\ UNCHANGED <<db, live, lock, unsynced>>

-----------------------------------------------------------------------------
(* PUT /extensions/{name} *)

(* The 404 and 409 answers come before any write; the network fetch that   *)
(* follows runs with no transaction open.                                  *)
PutRead(r) ==
    LET n == arg[r].name
    IN  /\ pc[r] = "put_wait"
        /\ lock[n] = Free
        /\ IF Registered(n) /\ \A a \in Owned(n) \ arg[r].doc.actions : ~Granted(a)
             THEN /\ Take(r)
                  /\ Goto(r, "put_validate")
                  /\ arg' = [arg EXCEPT ![r].old = Owned(n), ![r].was = (n \in enabled)]
             ELSE /\ Answer(r)
                  /\ UNCHANGED lock
        /\ UNCHANGED <<db, live, unsynced>>

(* Mutant of PutValidate: the 409 leaves the lock held. *)
PutValidateKeepsLock(r) ==
    LET n == arg[r].name
        m == arg[r].doc
    IN  /\ pc[r] = "put_validate"
        /\ IF OwnershipValid(n, m) /\ UiValid(n, m)
             THEN Goto(r, "put_commit") /\ UNCHANGED <<arg, lock>>
             ELSE Answer(r) /\ UNCHANGED lock
        /\ UNCHANGED <<db, live, unsynced>>

PutValidate(r) ==
    LET n == arg[r].name
        m == arg[r].doc
    IN  /\ pc[r] = "put_validate"
        /\ IF /\ OwnershipValid(n, m)
              /\ UiValid(n, m)
              /\ arg[r].was => ~ReplaceConflicts(n, m)
             THEN Goto(r, "put_commit") /\ UNCHANGED <<arg, lock>>
             ELSE Answer(r) /\ Release(r)
        /\ UNCHANGED <<db, live, unsynced>>

Replaced(n, m, old) ==
    /\ manifest' = [manifest EXCEPT ![n] = m]
    /\ owns' = (owns \ ({n} \X Actions)) \cup ({n} \X m.actions)
    /\ catalog' = (catalog \cup m.actions) \ Orphans(n, old \ m.actions, grants)

PutCommit(r) ==
    LET n == arg[r].name
        m == arg[r].doc
        old == arg[r].old
        after == (catalog \cup m.actions) \ Orphans(n, old \ m.actions, grants)
    IN  /\ pc[r] = "put_commit"
        /\ IF UniqueOwner(n, m) /\ RoutesResolve(after, [manifest EXCEPT ![n] = m])
             THEN /\ Replaced(n, m, old)
                  /\ Goto(r, "put_mount")
                  /\ UNCHANGED <<arg, lock>>
             ELSE /\ Answer(r)
                  /\ Release(r)
                  /\ UNCHANGED <<manifest, owns, catalog>>
        /\ UNCHANGED <<enabled, grants, live, unsynced>>

Publish(n, routes) ==
    /\ live' = [live EXCEPT ![n] = routes]
    /\ unsynced' = unsynced \ {n}

(* Mutant of PutMount: the swap is forgotten. *)
PutMountKeepsOld(r) ==
    /\ pc[r] = "put_mount"
    /\ Answer(r)
    /\ Release(r)
    /\ UNCHANGED <<db, live, unsynced>>

(* A disabled extension is not mounted; an enabled one is rebuilt from its *)
(* committed rows and swapped in.                                          *)
PutMount(r) ==
    LET n == arg[r].name
    IN  /\ pc[r] = "put_mount"
        /\ IF n \in enabled
             THEN Publish(n, manifest[n])
             ELSE UNCHANGED <<live, unsynced>>
        /\ Answer(r)
        /\ Release(r)
        /\ UNCHANGED db

(* The rebuild fails: unmount now, then disable. *)
PutMountFails(r) ==
    LET n == arg[r].name
    IN  /\ pc[r] = "put_mount"
        /\ n \in enabled
        /\ Publish(n, NoManifest)
        /\ Goto(r, "put_undo")
        /\ UNCHANGED <<db, lock, arg>>

PutUndo(r) ==
    LET n == arg[r].name
    IN  /\ pc[r] = "put_undo"
        /\ enabled' = enabled \ {n}
        /\ Answer(r)
        /\ Release(r)
        /\ UNCHANGED <<manifest, owns, catalog, grants, live, unsynced>>

-----------------------------------------------------------------------------
(* POST /extensions/{name}/enable *)

(* Refresh of the stored schemas, then the build of scratch routes.        *)
EnableBuild(r) ==
    /\ pc[r] = "enable_wait"
    /\ Take(r)
    /\ Goto(r, "enable_check")
    /\ arg' = [arg EXCEPT ![r].doc = manifest[arg[r].name]]
    /\ UNCHANGED <<db, live, unsynced>>

EnableCheck(r) ==
    LET n == arg[r].name
    IN  /\ pc[r] = "enable_check"
        /\ IF Registered(n) /\ ~ReplaceConflicts(n, manifest[n])
             THEN Goto(r, "enable_commit") /\ UNCHANGED <<arg, lock>>
             ELSE Answer(r) /\ Release(r)
        /\ UNCHANGED <<db, live, unsynced>>

EnableCommit(r) ==
    /\ pc[r] = "enable_commit"
    /\ enabled' = enabled \cup {arg[r].name}
    /\ Goto(r, "enable_publish")
    /\ UNCHANGED <<manifest, owns, catalog, grants, live, lock, arg, unsynced>>

EnablePublish(r) ==
    /\ pc[r] = "enable_publish"
    /\ Publish(arg[r].name, arg[r].doc)
    /\ Answer(r)
    /\ Release(r)
    /\ UNCHANGED db

-----------------------------------------------------------------------------
(* POST /extensions/{name}/disable *)

DisableCommit(r) ==
    LET n == arg[r].name
    IN  /\ pc[r] = "disable_wait"
        /\ lock[n] = Free
        /\ IF Registered(n)
             THEN /\ Take(r)
                  /\ enabled' = enabled \ {n}
                  /\ Goto(r, "disable_unmount")
                  /\ UNCHANGED arg
             ELSE /\ Answer(r)
                  /\ UNCHANGED <<enabled, lock>>
        /\ UNCHANGED <<manifest, owns, catalog, grants, live, unsynced>>

DisableUnmount(r) ==
    /\ pc[r] = "disable_unmount"
    /\ Publish(arg[r].name, NoManifest)
    /\ Answer(r)
    /\ Release(r)
    /\ UNCHANGED db

-----------------------------------------------------------------------------
(* DELETE /extensions/{name} *)

(* The grants of the extension's actions, as list_roles reads them. *)
DeleteStrip(r) ==
    LET n == arg[r].name
    IN  /\ pc[r] = "delete_wait"
        /\ lock[n] = Free
        /\ IF Registered(n)
             THEN /\ Take(r)
                  /\ Goto(r, "delete_commit")
                  /\ arg' = [arg EXCEPT ![r].old = Owned(n),
                                        ![r].seen = grants \cap (Roles \X Owned(n))]
             ELSE /\ Answer(r)
                  /\ UNCHANGED lock
        /\ UNCHANGED <<db, live, unsynced>>

Removed(n, old, seen) ==
    /\ grants' = grants \ seen
    /\ manifest' = [manifest EXCEPT ![n] = NoManifest]
    /\ enabled' = enabled \ {n}
    /\ owns' = owns \ ({n} \X Actions)
    /\ catalog' = catalog \ Orphans(n, old, grants \ seen)

(* Nothing is awaited between the commit and the synchronous unmount.      *)
DeleteCommit(r) ==
    LET n == arg[r].name
        old == arg[r].old
        seen == arg[r].seen
    IN  /\ pc[r] = "delete_commit"
        /\ IF RoutesResolve(catalog \ Orphans(n, old, grants \ seen),
                            [manifest EXCEPT ![n] = NoManifest])
             THEN /\ Removed(n, old, seen)
                  /\ Publish(n, NoManifest)
             ELSE UNCHANGED <<db, live, unsynced>>
        /\ Answer(r)
        /\ Release(r)

-----------------------------------------------------------------------------
(* PUT /auth/roles/{id}: the actions exist, then the role's set is written *)

RoleCheck(r, role, want) ==
    /\ pc[r] = "idle"
    /\ want \subseteq catalog
    /\ Goto(r, "role_commit")
    /\ arg' = [arg EXCEPT ![r].role = role, ![r].want = want]
    /\ UNCHANGED <<db, live, lock, unsynced>>

(* update_role selects the action rows again: one deleted meanwhile is     *)
(* dropped from the set.                                                   *)
RoleCommit(r) ==
    LET role == arg[r].role
    IN  /\ pc[r] = "role_commit"
        /\ grants' = (grants \ ({role} \X Actions))
                        \cup ({role} \X (arg[r].want \cap catalog))
        /\ Answer(r)
        /\ UNCHANGED <<manifest, enabled, owns, catalog, live, lock, unsynced>>

-----------------------------------------------------------------------------
(* Failures *)

(* An exception before the commit: the transaction rolls back. For enable  *)
(* this is also the build that fails.                                      *)
Fail(r) ==
    /\ pc[r] \in BeforeCommit
    /\ Answer(r)
    /\ Release(r)
    /\ UNCHANGED <<db, live, unsynced>>

(* The same for a request that holds no lock. *)
Abandon(r) ==
    /\ pc[r] \in Unlocked
    /\ Answer(r)
    /\ UNCHANGED <<db, live, lock, unsynced>>

(* A database error in the statements after the commit (_build_detail, or  *)
(* PUT's disable_extension): the handler leaves without publishing.        *)
FailAfterCommit(r) ==
    /\ pc[r] \in AfterCommit
    /\ unsynced' = unsynced \cup {arg[r].name}
    /\ Answer(r)
    /\ Release(r)
    /\ UNCHANGED <<db, live>>

(* Mutant of Restart: disabled extensions are loaded too. *)
RestartLoadsAll(skipped) ==
    /\ live' = [n \in Names |-> IF n \in skipped THEN NoManifest ELSE manifest[n]]
    /\ unsynced' = enabled \cap skipped
    /\ lock' = [n \in Names |-> Free]
    /\ pc' = [r \in Requests |-> "idle"]
    /\ arg' = [r \in Requests |-> Blank]
    /\ UNCHANGED db

(* The process dies and starts again.  hydrate_all_routes completes before *)
(* the API serves; an extension that cannot be built is logged and skipped *)
(* and a failed load starts the API without any.                           *)
Restart(skipped) ==
    /\ live' = [n \in Names |-> IF n \in enabled \ skipped THEN manifest[n] ELSE NoManifest]
    /\ unsynced' = enabled \cap skipped
    /\ lock' = [n \in Names |-> Free]
    /\ pc' = [r \in Requests |-> "idle"]
    /\ arg' = [r \in Requests |-> Blank]
    /\ UNCHANGED db

-----------------------------------------------------------------------------
(* Specification *)

Init ==
    /\ manifest = [n \in Names |-> NoManifest]
    /\ enabled = {}
    /\ owns = {}
    /\ catalog = Platform
    /\ grants = {}
    /\ live = [n \in Names |-> NoManifest]
    /\ lock = [n \in Names |-> Free]
    /\ pc = [r \in Requests |-> "idle"]
    /\ arg = [r \in Requests |-> Blank]
    /\ unsynced = {}

Submit(r) ==
    \/ \E n \in Names, m \in Manifests : PostValidate(r, n, m)
    \/ \E n \in Names, m \in Manifests \cup {NoManifest}, step \in Waiting :
            Arrive(r, n, m, step)
    \/ \E role \in Roles, want \in SUBSET Actions : RoleCheck(r, role, want)

(* The actions that start by acquiring the lock. *)
Begin(r) ==
    \/ PutRead(r)
    \/ EnableBuild(r)
    \/ DisableCommit(r)
    \/ DeleteStrip(r)

Proceed(r) ==
    \/ PostCommit(r)
    \/ PutValidate(r) \/ PutCommit(r) \/ PutMount(r) \/ PutMountFails(r) \/ PutUndo(r)
    \/ EnableCheck(r) \/ EnableCommit(r) \/ EnablePublish(r)
    \/ DisableUnmount(r)
    \/ DeleteCommit(r)
    \/ RoleCommit(r)
    \/ Fail(r) \/ Abandon(r) \/ FailAfterCommit(r)

Next ==
    \/ \E r \in Requests : Submit(r) \/ Begin(r) \/ Proceed(r)
    \/ \E skipped \in SUBSET Names : Restart(skipped)

Spec == Init /\ [][Next]_vars

-----------------------------------------------------------------------------
(* Properties *)

(* Each variable holds the kind of value the tables, route tables, locks   *)
(* and suspended handlers can hold.                                        *)
TypeOK ==
    /\ manifest \in [Names -> Manifests \cup {NoManifest}]
    /\ enabled \subseteq Names
    /\ owns \subseteq Names \X Actions
    /\ catalog \subseteq Actions
    /\ grants \subseteq Roles \X Actions
    /\ live \in [Names -> Manifests \cup {NoManifest}]
    /\ lock \in [Names -> Requests \cup {Free}]
    /\ pc \in [Requests -> Steps]
    /\ arg \in [Requests -> Args]
    /\ unsynced \subseteq Names

(* However registrations and replacements race between their ownership     *)
(* reads and their commits, an action has one owner, that owner is a       *)
(* registered extension whose manifest introduces the action, and platform *)
(* actions stay unowned.                                                   *)
ActionOwnership ==
    /\ \A a \in Actions, n, k \in Names :
        <<n, a>> \in owns /\ <<k, a>> \in owns => n = k
    /\ \A n \in Names :
        Owned(n) = IF Registered(n) THEN manifest[n].actions ELSE {}
    /\ \A a \in Platform : \A n \in Names : <<n, a>> \notin owns

(* Orphan cleanup never removes an action something still points at: the   *)
(* platform's, an owned one, one a role grants, or one a route of any      *)
(* registered extension requires.                                          *)
NoDanglingAction ==
    /\ Platform \subseteq catalog
    /\ \A n \in Names : Owned(n) \subseteq catalog
    /\ \A grant \in grants : grant[2] \in catalog
    /\ RoutesResolve(catalog, manifest)

(* Once no lifecycle request holds an extension's lock, the process serves *)
(* for it nothing but the routes of its stored manifest, and those only    *)
(* while it is enabled, unless a database error after a commit is on       *)
(* record; and a name with no row serves nothing in any case.              *)
NoStaleRoutes ==
    \A n \in Names : lock[n] = Free =>
        /\ n \notin unsynced /\ live[n] # NoManifest =>
            n \in enabled /\ live[n] = manifest[n]
        /\ ~Registered(n) => live[n] = NoManifest

(* Routes go live only from a committed manifest of an enabled extension,  *)
(* whatever ran while the handler that publishes them was suspended.       *)
PublishesCommittedRoutes ==
    [][\A n \in Names :
        live'[n] # live[n] /\ live'[n] # NoManifest
            => n \in enabled /\ live'[n] = manifest[n]]_vars

(* A lock is held exactly by a request that is in progress between its     *)
(* acquisition and its release: no early return, error or failed mount of  *)
(* the four handlers leaves a name locked for those that wait for it.      *)
LocksHaveHolders ==
    /\ \A r \in Requests : pc[r] \in Holding => lock[arg[r].name] = r
    /\ \A n \in Names : lock[n] # Free => pc[lock[n]] \in Holding /\ arg[lock[n]].name = n

Owner == [a \in Actions |->
            IF \E n \in Names : <<n, a>> \in owns
              THEN CHOOSE n \in Names : <<n, a>> \in owns
              ELSE NoName]

Atomic == INSTANCE AtomicRegistry WITH Nobody <- NoName, owner <- Owner

(* The handlers, with their suspensions and races, implement the registry  *)
(* in which every request is one step.                                     *)
ImplementsAtomicRegistry == Atomic!Spec

-----------------------------------------------------------------------------
(* What comments of the code say and the interleavings refute *)

(* registry.py:7-8, "Deregister still strips an extension's actions from   *)
(* every role so a deleted extension does not leave grants behind": every  *)
(* granted action is the platform's or belongs to a registered extension.  *)
NoGrantLeftBehind ==
    \A grant \in grants : grant[2] \in Platform \/ \E n \in Names : grant[2] \in Owned(n)
=============================================================================
