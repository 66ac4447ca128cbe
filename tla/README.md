# Edge Config API: verification project

The Edge Config API (`src/`, a FastAPI application) configures industrial edge
devices. It sits between clients (a browser UI and machine clients), a
PostgreSQL database, Azure IoT Hub, Azure Blob storage and SmartEMS, and it lets
an administrator register *extensions*: further API routes that it mounts while
it runs. Most of its defects cannot be found by calling one function: they are
in what happens between two `await`s. This directory holds TLA+ models of the
parts where that matters, the TLC runs that check them and the TLAPS proofs.

    tlc -workers 2 -config ExtensionRegistry.cfg MCExtensionRegistry
    tlapm ExtensionRegistryProofs.tla

## 1. How the program runs

These facts of the code are used by every module.

* One process, one event loop (`README.md:84` of the repository; the route
  tables of extensions and their locks are in memory). Handlers are coroutines;
  they interleave at an `await` and nowhere else.
* A request has one `AsyncSession` (`get_db`), `expire_on_commit=False`.
  PostgreSQL runs at READ COMMITTED. **A transaction's reads are one step, its
  writes with the constraints they must satisfy are a later step**: whatever
  is read may be stale when it is written. What the schema guarantees (unique
  keys, foreign keys with or without cascade) is evaluated with the write.
* Calls of SmartEMS, IoT Hub and Blob storage are steps of their own. Each may
  fail before it takes effect, or take effect and fail all the same.
* The only mutual exclusion is `_extension_locks` in `extensions/setup.py`: one
  `asyncio.Lock` per extension name.
* Conventions: an early return that changes nothing and holds no lock is a
  stuttering step and is not written. Acquiring the lock is merged with the
  first database access after it. A restart forgets every suspended request.

## 2. Inventory

| component | state | operations | hard part |
|---|---|---|---|
| Extension registry (`extensions/setup.py`, `registry.py`, `runtime.py`, `db/sqlalchemy/extension.py`) | extension rows, owned actions, action catalogue, live routes, locks | register, replace, enable, disable, deregister, start-up load | POST takes no lock; a PUT checks, closes its transaction, fetches over the network, then commits; commit and publish are two steps |
| Role editor (`routers/auth/routes/*role*`, `db/sqlalchemy/role.py`) | role grants | update a role's actions | races the registry's orphan cleanup |
| Password renewal (`routers/smart_ems/routes/*secret*`, `password_renewal_task_processor.py`, `db/sqlalchemy/password_renewal_task.py`) | renewal tasks; SmartEMS `forceRenewal` and secret | request, renew, periodic run, purge | several commits per request; the periodic run works on rows it loaded once; retries, crash between two systems |
| Module twin configuration (`routers/module_config`, `extensions/upstreams/iotedge.py`) | blob, desired and reported twin | post, `twin_write`, status | upload and patch of overlapping posts cross; lost answers |
| Device provisioning (`routers/devices`, `db/sqlalchemy/device.py`) | row, hub identity, SmartEMS entry | create with undo, delete | three systems, partial failure, two requests at once |
| Access control (`authorization/`) | none of its own; teams, scopes, roles | decide before a handler, filter lists, check a patch or a new device | four copies of one decision; the check precedes the handler's reads |
| Administration (`routers/auth`) | users, teams, scopes, roles, memberships | create, update, delete, assign | in-use checks before deletes; a session writes only what differs from what it loaded |
| Device metadata (`routers/general`) | JSON document per device | patch | lost update; a patch checked against an old document |
| Extension dispatch and keys (`extensions/runtime.py`, `extensions/upstreams`, `registry.py:109-198`) | mounted route, internal key, device keys | issue, rotate, revoke; call a route | the check, the handler and the upstream each read the device from the request |
| Extension health (`extensions/health.py`, `registry.py:593`) | last result per upstream | check now | probes take seconds while a PUT replaces the rows |
| Type catalogue (`routers/device_type`, `endpoint`, `service`, `db/merge.py`, `db/type_roles.py`) | field schemas, role mappings | create, patch, delete | a patch merges twice and writes once more; schema and instances change independently |
| Endpoint and service inventory | typed instances below a device | create, patch, retype, delete | cascades, `changeable: false`, validation before the write |
| Compose deployments (`db/sqlalchemy/compose.py`, `smart_ems.py:804`) | stored deployments, the active one, a SmartEMS variable per device | save, activate, clear, delete | host ports checked before the write; a row and a batch call in either order |
| Network discovery (`routers/network_discovery`) | host and port states, scan range, ports to scan | merge a scan, show the last one, compute the range | a merge of three sources, two commits, arithmetic of blocks |
| SmartEMS configuration routes (`routers/smart_ems`) | the document of a device in SmartEMS | NAT, forwarding, cellular, LAN, default template | no partial update: whole documents, numbered rule variables |
| SmartEMS client (`smart_ems.py`) | access and refresh token | log in, refresh | errors, refusals, expiry during an outage |
| Bootstrap (`bootstrap/`) | accounts, configuration and template version in SmartEMS; base deployment in IoT Hub | provision at start-up | a crash between any two calls; replicas that start together |
| Authentication (`auth.py`) | signing-key cache | validate, refresh | refresh not started when discovery fails |
| Migrations, importer, UI metrics, audit log, command proxy, lines, platform configuration | small | one call each | little |

How they interact: the extension registry and the role editor share the tables
`actions` and `role_actions`; `twin_write` of an extension and the module
endpoints share the module twin; password renewal rows refer to device rows, so
they decide whether a device can be deleted; the access check of every handler
reads device metadata, teams and scopes that other handlers write; services hang
below endpoints, endpoints below devices, and each of the three has a type whose
roles tell network discovery which field is an address or a port; the batch call
of a compose deployment writes the documents that the configuration routes edit.
`PROJECT.json` lists every component with its status and every hazard found
with the line where it bites.

## 3. Modules

| module | what it models | proofs |
|---|---|---|
| `ExtensionRegistry` | management handlers, business rules, transactions, route tables, role update | `ExtensionRegistryProofs` |
| `AtomicRegistry` | what the registry promises: every request is one step | the refinement, in `ExtensionRegistryProofs` |
| `PasswordRenewal` | secret disclosure, forced renewal, periodic task, SmartEMS and the device | `PasswordRenewalProofs` |
| `AtomicRenewal` | what the renewal promises: every task is worked off in one step | the refinement, in `PasswordRenewalProofs` |
| `ModuleTwinConfig` | posts of a configuration, the hub's twin, the module on the device | `ModuleTwinConfigProofs` |
| `ConfigDelivery` | what the delivery promises, without blobs, urls and the two calls of a post | the refinement, in `ModuleTwinConfigProofs` |
| `DeviceProvisioning` | creation with undo and deletion of a device across three systems | `DeviceProvisioningProofs` |
| `AccessDecision` | every check and filter of `authorization/`, as operators | through the two below |
| `DeviceMetadata` | the document of a device: checks, patches, creation, deletion (EXTENDS `AccessDecision`) | `DeviceMetadataProofs` |
| `NullValue`, `Requests` | null, and the slots of concurrent requests | |
| `TypedFields` | field definitions, instances valid for them, merges, roles, as operators | through `InventoryProofs` |
| `Inventory` | types, devices, endpoints and services (EXTENDS `TypedFields`) | `InventoryProofs` |
| `NetworkOverview` | merge and storage of a scan, scan range | `PlatformProofs` |
| `ComposeDeployments` | deployments, activation, the batch call | `PlatformProofs` |
| `SemsDeviceConfig` | the routes that edit one SmartEMS document | `PlatformProofs` |
| `ExtensionDispatch` | route rules, keys, checks, handler, upstream | `PlatformProofs` |
| `ExtensionHealth` | health checks against replacement of the upstreams | `PlatformProofs` |
| `SemsStartup` | bootstrap by several replicas, base deployment, token loop | `PlatformProofs` |
| `OneBootstrap` | what provisioning promises: all replicas together do what one bootstrap does | the refinement, in `PlatformProofs` |
| `Administration` | users, teams, scopes and roles under two administrators (EXTENDS `AccessDecision`) | `AdministrationProofs` |

The `MC...` modules hold the values the `.cfg` files give to the constants, and
symmetry sets. `MCPlatform` instantiates the six modules that share no state
(`Inventory`, `NetworkOverview`, `ComposeDeployments`, `SemsDeviceConfig`,
`ExtensionDispatch`, `ExtensionHealth`) in one run of alternatives: its variable
`part` is chosen at the start, and a behaviour is one of that part, the rest
being idle. The rows a part refers to and does not write are there from the start
and can only be deleted. `MCProgress` (renewal and delivery) and
`MCAccessAndStartup` (device metadata and start-up) do the same; the fairness of a
part asks nothing while the other part runs. `MCScanRange` and `MCSemsEndpoints`
hold the values of two violations.

### ExtensionRegistry

State: `manifest`, `enabled`, `owns`, `catalog`, `grants` are the tables
(`extensions` with its route and UI children, `extension_actions`, `actions`,
`role_actions`), `live` is the in-memory route table, `lock` is
`_extension_locks`, `pc` and `arg` are the suspended handlers. A manifest is the
record of what the rules tell apart: introduced actions, actions its routes and
its UI require, its `ui.remoteName`, its `replace:*` contributions. Each handler
is the sequence of its transactions (`PutRead`, network fetch, `PutValidate`,
`PutCommit`, `PutMount` or `PutMountFails` and `PutUndo`, ...). `RoleCheck` and
`RoleCommit` are PUT `/auth/roles/{id}`. `Restart(skipped)` is
`hydrate_all_routes` with the extensions it logs and skips. `unsynced` records
the names for which the code itself reports that memory and database differ (an
error after a commit, a skipped load).
Abstracted: keys and health checks (modules of their own), the schema fetch (it takes time and may
fail), the contents of routes. The set of roles is fixed and `EXTENSIONS_ENABLED`
is set.

### PasswordRenewal

State: `task` is the table, `forced` and `version` are SmartEMS's
`forceRenewal` flag and the secret the device has, `phase`, `queue`, `current`
the periodic task between two awaits. `covers` in a row is a ghost: the secret
whose disclosure the task answers. `Ask`, `Show`, `Count`, `Cancel`, `Insert` are
POST `secret/request`; `Renew`, `RenewCancel` are POST `secret/renew`; `Load`,
`ForceRenew`, `Complete`, `Err`, `Purge` are one run of the periodic task;
`AbortRun` is a commit that fails inside it. `Rotate` is the device. Time is a
date and `late` (23:00 or later). A task is due at 23:59:59; the last second of
a day is abstracted, so a task is due once its day is over. The age at which
completed rows are purged is left open: any completed row may be purged.

`AtomicRenewal` is the contract: a table of tasks, SmartEMS's flags and the
devices, and one step each for scheduling, cancelling, forcing, completing,
failing and forgetting. It says what may never happen to a row, whatever the
periodic task had loaded when it was interrupted: that it changes its device, day
or secret, is tried before its day is over, is completed while its secret is
neither replaced nor about to be, leaves a final status, or is forgotten unless
completed. It keeps the one liberty the code takes: a task may be worked off once
after it was cancelled. The variables that it drops are those a handler or the
periodic task holds between two awaits; the others are mapped by name.

### ModuleTwinConfig

`Upload` and `Patch` are the two halves of a post through the module endpoints
(`kind` "module", all writing the blob `<device>/<module>/current`) or through an
extension's `twin_write` (`kind` "extension", one blob per configId);
`UploadFails` and `PatchFails` are their failures, including those that took
effect. `ConfStatus` is what the status endpoint derives. `Sync`, `Download`,
`Apply`, `Report` are the module on the device, external code modelled from what
the API expects of it. `stamp` and `ahead` are ghosts: the order of uploads, and
that a post overwrote `current` without patching. Posts are not requests that
repeat: each carries its own payload and configId, so the model stops when all
have been sent, and deadlock checking is off in its run (`progress`; a renewal ends
at `MaxDay` too).

`ConfigDelivery` is the contract: a post stores its payload, then its id is named,
once; only that makes it accepted; the module takes the named id, runs a payload
that serves it (its own, or, where posts share `current`, one stored later) and
reports the id while it runs such a payload. Its `own` are the posts of extensions
whose payload is stored, `accepted` those answered 200, `order` is `stamp`,
`twin` and `working` are the ids of `desired` and `edge`. The phases of the module
and what each path holds are gone: a download is a stuttering step, and so are the
calls that fail without effect.

### DeviceProvisioning

One action per step of `create_device` and `delete_device`, with a failing twin
for each call, the undo (`UndoHub`, `UndoRow`, `UndoRowFails`), the renewal tasks
that refer to the row, and `Restart`. One device is modelled because devices
share none of this state. A commit takes effect or fails, except in
`InsertRowFails`: `upsert_device` commits and then reads the row back, and that
read may raise. SmartEMS refuses a second entry with the same serial number.
Ghosts: `alone` (requests nobody overlapped), `outcome` (what the last of these
answered), `excuse` (the row may outlive its registrations because a deletion
overlapped or failed, a restart found it, or an undo failed). Rows written by
`scripts/import_devices.py` are not modelled.

### AccessDecision

A user is what `get_teams_with_roles_and_scopes` returns: an administrator flag
and teams, each with at most one scope and the actions its roles allow together.
`EvaluatePermission` is the evaluator; `PathCheck`, `ResolvedCheck`,
`PatchCheck`, `CreateCheck` and `AnyPermissionCheck` are the dependencies placed
before handlers, `RequireDevicePermission`, `FilterDevice`, `DevicePermissions`
and `PlatformPermissions` decide the same question again elsewhere. `Unnamed`
says that no metadata are consulted, `Missing` that the device has no row. A key
whose value is null counts as absent, as it does everywhere in this code; a scope
value that is not a list is the set of that value.

### DeviceMetadata

One device, since devices share no document. A handler is its check
(`CheckPatch`, `CheckCreate`, `CheckDelete`), its read (`ReadDevice` merges and
validates what it reads then, not what was checked) and its write. A creation
goes on to the registrations of module `DeviceProvisioning`, and `UndoInsert` is
its undo. The device type is fixed (`Required`, `Accepted`, `Defaults`): changes
of types belong to the type catalogue. `Administer` replaces the caller's teams
at any time. The ghost `undisturbed` holds the requests since whose check
nothing they rely on was written. `Resolved` and `DeviceListed` are the list route.

### Administration

The tables are `user`, `team` (its scope), `scope`, `role`, `member`, `assigned`
and `allows`; an identifier is `Unused`, then in use, then `Deleted`, and is not
used again. `UpdateTeam`, `UpdateScope` and `UpdateRole` load what the session
will compare with (`oldScope`, `oldRoles`, ...); the `Commit...` actions write
the columns and rows that differ (`RolesWritten`, `Column`), under the keys the
schema has. `EnsureExists` is the upsert every request makes of its own user,
`StripAction` what the extension registry does to a role's actions. A check and
the write after it are one step where the check cannot influence the write
(removing a member, deleting a role, creating a scope or a role). Names and their
conflicts are part of `Fail`. `add_role`, `remove_role` and
`add_actions_to_role` are called by no route.

### Inventory (with TypedFields)

`types` and `inst` are the six tables; a row is its fields and roles, or its
type, owner and data. A field definition is its data type, the flags `required`
and `changeable`, its default and the values its validation admits; `ValidValue`,
`ValidDefinition`, `MergeTypeFields`, `ValidInstance`, `PatchFields`, `MergeData`,
`RolesFit` and `RolesOfFields` are `field_validation.py`, `routers/schemas.py`,
`db/merge.py` and `db/type_roles.py`. PATCH of a type is the route's read and
validation, the repository's own read and merge, and the UPDATE; a write of an
instance is read-and-validate, then write. `defaultPorts` are the ports that a
new service type adds in a second commit. `undisturbed` (requests since whose
start nothing else was written) and `loose` (types whose roles were patched alone
while another patch changed the fields) are ghosts. Labels, descriptions and the
ports added for one device are left out.

### NetworkOverview

`hostStatus` and `portStatus` are the stored states with their change times,
`scanRange` the stored range, `netConfig` the configured endpoints and services,
which users may change at any time. `Overview` is `build_network_overview`,
`LastKnownOverview` the one without a scan; the changes of the
host statuses (`NewHosts`, `Vanished`) and of the port statuses (`NewPorts`,
`VanishedPorts`) are written in two commits. A scan lists no host twice (the schema
would accept it, and the overview would then have such a host twice). Addresses are
numbers, a range is an
aligned block; `CoveringNetwork` is the smallest block that is neither narrower
than the smallest of `Sizes` nor wider than the largest, or the widest at the lowest
point if none holds them all. The range takes any IP address (`ip_address`, line 59)
where the overview takes IPv4 only: IPv6 addresses are numbers from `Space` on,
their mask is reckoned in 32 bits all the same, and the block it then gives is
`Scale` times as big (`IpNetwork`). `KnownAddresses` are the values that the code
resolves, type defaults included, `OwnAddresses` those that the device's endpoints
store; the comment at lines 41-46 admits the second only (section 6).

### ComposeDeployments

A deployment is the sequence of host ports it asks for. PUT checks the ports of
the others (`OtherPorts`) and writes in another step; activation reads, lists the
devices page by page, sends the batch, then writes the row; clearing deletes the
row first. A batch may fail before or after SmartEMS applied it. Devices join and
leave in SmartEMS meanwhile (external). `composeSolo` is a ghost: requests that
neither failed nor overlapped another.

### SemsDeviceConfig

`semsDoc` is the document of one device: template, LAN interfaces, NAT,
forwarding and cellular variables, every other variable, tags, firmware, name,
description, the switches (enabled, staging, what is to be installed or asked for)
and the endpoint devices with their ids and tags. Each
route reads it, refuses or computes a whole document (`PostNat`,
`PostForwarding`, `PostCellular`, `PostLan`, `ApplyTemplate`), and posts that in a
later step (`EditDevice`); `GetNat` and `GetForwarding` are the reads. Null and the text
"null" are told apart, because the NAT and forwarding routes turn one into the
other. Others edit the document meanwhile (external).
`Reinstalled` is `generate_resp_from_device_info`: it copies what was read, but the
endpoint devices get the gateway's access tags and lose their ids
(`TaggedAsGateway`); null for an id means that SmartEMS gives a new one. A gateway
without a VPN client has no endpoint devices, and no body of its names any.
`ApplyTemplate` makes its body without it and sets the name, the switches and the
masquerades whatever they were. `Own` lists what a route is about and `Resets` what it
sets besides. Labels, hardware data and addresses are copied by every route and
left out.

### ExtensionDispatch

A route is what its manifest says: upstream, visibility, action, scope, where the
device parameter is and whether it is declared. `MayMount` is
`_validate_manifest_cross_references`. A call is matched, checked (`CheckUser`,
`CheckInternalKey`, `CheckDeviceKey`), handled and sent upstream (`CallHttp`,
`CallIotedge`), each a step, while keys, scopes and the mounted route change. A
key is the number of its generation. `covered` and `reached` are ghosts: the
devices the credential covered when it was checked, and those the upstream is told
of, by the place where it finds them: the whole query, the path value that fills a
placeholder, the header `X-Device-Id`, the target of an iotedge call. An http
upstream is passed the query and the path wherever the scope is (`PassedOn`), and
may read any occurrence of a repeated parameter, where the check reads the last.
`CheckedPlaces` says which of the places the check of a route speaks for:
all of them, but for a user's call to a scoped route only the place of the scope;
the other one is passed on unchecked (section 6). In the query one parameter
names devices, the one of the scope (`device_id` by default); a value under any
other name is data. A user is the set of devices
in its scopes; whether it holds the action is the subject of `AccessDecision`.

### ExtensionHealth

`upstreamRows` are the rows by key, with the number of the manifest that inserted
them for their id. A check reads the rows, probes all of them (any answer, any
delay, `CheckUpstream`) and writes row by row, by id. `upon` is a ghost: the
target that was asked and its answer.

### SemsStartup

Each replica runs the bootstrap call by call, the base deployment, then the token
loop. SmartEMS holds the fixture administrator, the service account, the
configurations and the production version (a staged version that is not promoted
has no effect, so it is not kept); `deployed` is the base
deployment in IoT Hub. A failed call ends the bootstrap, a crash restarts the
replica, and an outage of SmartEMS begins and ends; crashes and outages are
bounded by `MaxFaults`, failed calls are not. A call that changes SmartEMS and
whose caller times out (`async_requests.py` waits five seconds) or crashes either
never reached SmartEMS or is kept in `unanswered`, from where it takes effect at
any later moment (`CarriedOut`), also after the next bootstrap of the same replica
or another one has gone on: so production may move with no replica reporting it.
At the start SmartEMS is
fresh, or was provisioned before: the fixture administrator has its default
password, a rotated one or is disabled, the service account is absent, usable or
has another password, and production holds nothing, the current content or what
an older release shipped.

`OneBootstrap` is the contract: the steps of one bootstrap in their order, with no
replica knowing anything. The account is created while the fixture administrator
can log in, that one is disabled once the account can, the shipped content goes into
production and a replica reports success only when both are so, and none of this
is taken back. Production may move without a report, when the answer is lost or
the replica dies. The stages, what each replica has read, the outage and the refresh
tokens are dropped; `reports`, `based` and `sessions` are the replicas whose
bootstrap ended well, that have seen to the base deployment, and whose token is good.

## 4. Runs

| run | bounds | what it shows |
|---|---|---|
| `extension_registry` | 2 names, 2 requests, 3 manifests, 1 role | types, action ownership, no dangling action, no stale routes, every lock has a holder, refinement of `AtomicRegistry` |
| `extension_grants` (violation) | 1 name, 2 requests | a grant survives the extension whose action it grants |
| `password_renewal` | 1 device, 2 requests, 2 rows, 2 nights, 1 fault, limit 2 | duplicates bounded, completed means forced, refinement of `AtomicRenewal` |
| `password_covered` (violation) | as `password_renewal` | a disclosed secret nobody will renew |
| `progress` | renewal: 1 request at a time, otherwise as `password_renewal`; delivery: 3 posts | every pending task is completed, cancelled or given up; OK is true, nothing older runs, no id stays pending, refinement of `ConfigDelivery` |
| `device_provisioning` | 3 requests, 1 fault, 6 keys and entries | answers are true, a row means registered, a string is never replaced |
| `device_whole_or_absent` (violation) | 1 request, no fault | a device with a renewal task cannot be deleted, and is left half deleted |
| `access_and_startup` | access: 1 device, 2 keys of 2 values, 5 permissions, 1 caller with 3 profiles, 2 requests; start-up: 2 replicas, 2 crashes or outages | what is stored is valid, all deciders agree, a patch nobody disturbed is exact and stays in scope; nobody is locked out, a finished bootstrap has provisioned, a session comes back, refinement of `OneBootstrap` |
| `administration` | 1 user, 1 team, 1 scope of 2 rules, 1 role, 2 requests | nothing dangles, withdrawing permits nobody anything, updates alone are exact |
| `platform` | 2 requests; thirteen parts, see below | inventory: nothing dangles, roles are on fields, undisturbed writes fit; discovery: everything configured is listed, only probes are recorded, a range widens to what is near its lowest point; compose: ports stay apart, devices match the active row; SmartEMS: an edit reads back and keeps what it is neither about nor resets; extensions: where a check looked for a device the upstream finds only what the credential covered, a healthy row was seen healthy |
| `endpoint_tags` (violation) | 1 request, 1 endpoint device, 2 tags | an edit of a gateway overwrites the access tags of its endpoint devices |
| `scan_range` (violation) | 1 request, 2 endpoints, 2 addresses | the default of a type, far below the stored range of a device, takes the range away from what it covered |

Why the bounds suffice. *Extensions*: every conflict in the code is between two
names or two requests (an owner and a claimant, a check and a commit); `Greedy`
is a manifest that must be refused, `Wide` and `Bare` differ by an action that
roles may be granted. *Passwords*: two requests produce duplicates; two rows hold a
cancelled and a new task; the second night retries what the first left; `MaxDay`,
`MaxVersion` and `MaxFaults` bound the clock, the device's secrets and the
database errors and restarts; an error limit of 2 in place of 5 reaches the limit
with one retry. *Twin*: three posts are an overwritten blob whose post fails,
two posts that cross and a module that lags behind. *Devices*: two creations
and a deletion overlap; `MaxMade` leaves room for two creations in flight
and one after them, `Known` lets the device be in IoT Hub or SmartEMS before. *Access*: two keys and
two values tell ALL from ANY and a stored value from a default; the three
profiles are an administrator, a user whose unscoped team allows less than the
scoped one, and a user with an ANY scope only. *Administration*: each race is
between two requests about one row and its neighbours, so one of each suffices;
two rules let an update be lost or mixed. Its proofs hold for any numbers. There
every identifier is used once, so the model ends when all are deleted, and
deadlock checking is off. *Platform*: inventory has a part for devices, one for
endpoints and one for services, each with the types below or above it in place,
two fields and two or three values, so that a field can be required, renamed away
or lose its role; discovery has three IPv4 addresses (two in one narrow block, one
outside) and an IPv6 one, two endpoints that share an address or a port or have
none, and three scans (the port, another port, nothing); the run about the
range alone has two addresses that no block holds together; compose has three deployments, two or
three devices on pages of two, so that a full last page and a second page occur;
SmartEMS has two kinds of edit at a time and rule lists that grow and shrink;
dispatch has 14 route descriptions (one of each shape the rules tell apart), two
devices, three keys and one call at a time, because calls write nothing others
read; health has two manifests in a row, and two checks at once where there is
one upstream. *Startup*: two replicas are needed for a call of one between two
calls of the other; two faults allow a crash during the recovery from another.

Symmetry is used for request slots, and for task rows, in safety runs only.

### Fairness

* `PasswordRenewal`: `WF(Process)`, because `repeat_every` runs the task every
  30 minutes and goes on after an exception; `WF(Tick)`, time passes; nothing is
  assumed of devices (`Rotate` is not fair).
* `ModuleTwinConfig`: a handler that has uploaded goes on to its patch (which may
  fail); a module that is online keeps synchronising. No client has to post.
* `SemsStartup`: the token loop never stops trying, since it catches every exception
  (`smart_ems.py:16-27`), and an outage ends. Nothing is assumed of restarts, and
  the bootstrap is not retried.
* The other modules state no liveness: a request is a finite sequence of calls and
  waits for nothing but a lock of the extension registry, and `LocksHaveHolders`
  says that a lock which is taken has a request that is about to release it.

## 5. What is proved

TLAPS proves the following for every value of the constants (any numbers of
names, requests, rows, devices, posts, failures), from the assumptions named
in the modules (`ManifestShape`, `PlatformShape`, `DistinctValues`, `Parameters`,
`FiniteSlots`, `Distinct`, `DecisionValues`, `Sentinels`, `MetadataValues`,
`AdministrationValues`, for the inventory `FieldValues`, `DefinitionsAreNotNull`,
`InventoryValues` and `RowsAreNotNull`, and for the smaller parts `NetworkValues`,
`ComposeValues`, `SemsValues`, `DispatchValues`, `HealthValues` and
`StartupValues`), which TLC evaluates in the runs. They say what sets the
constants belong to, that null is none of the values it stands beside, that page
sizes and bounds are numbers, and, where a proof counts or takes a greatest
element, that a set is finite.

* **Registry.** `TypeOK`, `ActionOwnership`, `NoDanglingAction`, `NoStaleRoutes`,
  `LocksHaveHolders`, `PublishesCommittedRoutes`, and the refinement of `AtomicRegistry`. None of the
  invariants is inductive alone: `IInv` joins them, `LocksHaveHolders` among them
  (a request at a locking step holds its lock and no other does), and adds that
  every request past its start has a name (`NamedInv`), that what a handler read before
  its commit is still true of the parts the lock protects (`ReadInv`), that a
  replacement or registration in flight claims only actions that are free of
  platform ownership (`ClaimInv`), and that the routes built and those
  mounted come from the committed manifest (`EnabledInv`, `BuildInv`, `LiveInv`).
  The last three are why POST without a lock is harmless: it only creates names
  that are absent, disabled and unmounted. The refinement maps `owns` to an owner
  function and each commit to one atomic step.
* **Passwords.** `TypeOK`, `PendingBounded`, `CompletedWasForced`,
  `AttemptsInTime`, from an `IInv` that says what a suspended request has read,
  what the periodic task may hold in its queue, and that the row it is about to
  complete has been forced or replaced. `PendingBounded` counts pending tasks and
  requests about to insert: a request that passes the count found none pending.
  The refinement of `AtomicRenewal` follows the steps: one that a request takes
  between two awaits stutters unless it writes; one of the periodic task works on a
  row it loaded earlier, and `IInv` gives what the abstract step needs of it, that
  the row still is the loaded one up to a cancellation, is not final, and is due.
  It needs one thing that no invariant said: what a suspended request has computed
  as the day of its task is no later than tomorrow, as long as it is suspended.
* **Twin.** `OkMeansRunning`, `UrlResolves`, `NeverOlder`, `ExtensionAsPosted`.
  The invariant relates the order of uploads to what each path stores, what the
  twin names and what the module has downloaded.
  The refinement of `ConfigDelivery` has a step per call: a payload in store gets the
  next position (`StoreImplements`), a patch names an id that is in use nowhere, since
  an id in use is that of a post whose patch is over (`EndImplements`), and what the
  module runs `Fits` the id it has taken (`ModuleImplements`). It needs besides
  that an idle module has taken no id (`IdleHolds`).
* **Devices.** `TypeOK`, `AnswersAreTrue`, `NeverRekeyed`, `RowMeansRegistered`. `AloneInv` says, for
  each step of a request nobody overlapped, which of the three systems hold
  which key. `RekeyInv` is needed for overlapping requests: an entry whose
  string is still blank and which a request is about to write is either written
  with the string that is there or by one writer only, because keys and ids are
  fresh. `RowMeansRegistered` rests on `RowHeld`: a row without an excuse stands
  for a complete device or has a `Guarantor`, a request that is still to register
  the device, undo it or delete it. One that looks up or writes the SmartEMS entry
  is one only while it has read the key that IoT Hub has. A step that ends a
  guarantor leaves the device whole, or without its row, or excused.
* **Access.** `DecidersAgree`: for every user, permission and document the
  checks, the helper, the filter and the permissions shown give one answer (a
  theorem about operators, without states). `TypeOK`, `StoredIsValid`,
  `ChecksAgree`, `PatchIsExact`; the invariant says that a suspended request is
  only about to write a document it has validated, and, while it is undisturbed,
  the merge of the stored one.
* **Administration.** `TypeOK`, `NothingDangles`, `NewIsUnassigned`,
  `WithdrawingNeverPermits`, `UpdatesAreExact`. The invariant adds that an
  account about to join a team exists and, while it is new, was loaded as new
  (`JoinersKnown`). `MoreTeamsNeverRevoke` is the monotonicity of the evaluator
  that `WithdrawingNeverPermits` rests on: no deletion takes a scope from under a
  team, so all each user's teams can do is lose actions or vanish.
* **Inventory.** `TypeOK`, `NothingDangles`, `RolesOnFields`,
  `PatchedDefinitionsAreValid`, `UndisturbedWritesFit`. `IInv` is `TypeOK`, `Rooted`
  (the default type is there and every row's references are), `HeldInv` (what a
  suspended patch of a type has merged has roles on its fields) and
  `RolesOnFields`. `UndisturbedWritesFit` needs `FreshInv` besides: while a request
  is undisturbed, the row and the types it read are those in the tables, so what
  it validated then is valid now.

`PlatformProofs` is about the six smaller modules, each under its own
specification (`NetSpec`, `ComposeSpec`, `SemsSpec`, `DispatchSpec`, `HealthSpec`,
`StartupSpec`): the part of `MCPlatform` that a run chooses only restricts where
such a behaviour starts and which requests it makes.

* **Discovery.** `NetTypeOK`, `OnlyProbesAreRecorded`, `RangeWidens`,
  `EveryConfiguredIsListed`. `NetInv` types what a request holds between its reads
  and its two commits; the rest are facts about the operators, proved for any
  scan, configuration and tables. `EveryConfiguredIsListed` shows that the four
  sources of `Overview` (hosts that were found, endpoints at a vanished host, at
  one that the scan did not reach, and without an address) never give two rows for
  one endpoint, and that of the endpoints that share an address exactly one
  carries the unclaimed ports. That `Min` and `Max` exist is by well-founded
  order (`NatMin`, `FiniteMax`); that an IPv6 block holds the IPv4-sized one that
  was measured is `BlocksNest`.
* **Compose.** `ComposeTypeOK`, `PortsStayApart`, `DevicesMatchActive`.
  `ComposeSoloInv` says what an undisturbed request may rely on at each step: a PUT,
  that its ports are still free; an activation, that the deployment is what it
  read (`StillActivating`), that the pages read so far hold the devices listed so
  far, and after the batch that each device has the compose. The arithmetic of the
  last page (`LastPage`: `rows \div n + 1` pages of `n` are enough) and of the page
  bounds (`PageListed`) is proved for every page size. That SmartEMS lists no device
  twice needs that a join and a leave keep a sequence injective.
* **SmartEMS configuration.** `SemsTypeOK`, `ReadsBack`, `EditsKeepTheRest`.
  `SemsRequestInv` relates the body a suspended edit will post to the document it
  read (`ExceptFor` the fields its route is about or resets, `KeepsVariables`,
  `KeepsFilled`) and to what it was
  sent (`SentKept`). `RulesRead`: rules numbered from 1 on are read back as
  they were sent, for any length up to `MaxRules`; `TextKept`: turning text into
  text again changes nothing.
* **Dispatch.** `DispatchTypeOK`, `DispatchIsGuarded`. `CallInv` carries, from the
  check to the upstream, what the credential covers (`CoveredCall`: for a user the
  device at the place of the scope, for a device key one device and all that is
  named) and, once the handler has let the call through, that a scoping
  query parameter is not repeated (`OneDevice`); `MayHear` is what may then be told
  the upstream. That a device key has one owner needs that keys are generated
  once. It follows from what `MayMount` lets a manifest declare; the key
  or scope may change afterwards, because `covered` is what was covered then.
* **Health.** `HealthTypeOK`, `HealthyIsItsOwn`. `HonestRows` holds of the table and
  of every check in flight, and `SameUpstream` says that a row of the table with
  the id of one that a check holds has the same upstream: ids are not used again.
* **Bootstrap.** `NeverLockedOut`, `DoneMeansProvisioned`. `ReplicaInv` says what a
  replica knows at each call whatever the others do; it is stable because nothing
  takes back a usable service account, a changed default password or the shipped
  content in production (`Progress`).
  The refinement of `OneBootstrap` takes each call to the step of one bootstrap
  that it completes, or to nothing: a replica that disables the administrator, promotes or
  reports does so on what it has read in earlier calls, and `ReplicaInv` says that it
  is still so. `SessionInv` adds that a good refresh token, like a good token,
  is held only while the service account can log in, `Unfinished` that a replica
  still at it has reported nothing and that one about to disable the administrator
  logged in as that one, whose password nobody has changed since.

Some of these theorems state properties that no run checks any more
(`PublishesCommittedRoutes`, `AttemptsInTime`, `UrlResolves`, `ExtensionAsPosted`,
`NewIsUnassigned`, `PatchedDefinitionsAreValid`, and the type invariants but for
those of the registry and of provisioning): the theorem says more than an instance
would. Every invariant and every safety property of the passing runs is proved.

What is only model-checked, and why:

* Liveness (`PendingEventuallyDone`, `PendingResolves`, `SessionRecovers`): TLAPS
  has no support for fairness and ENABLED here.
* The five violations.

## 6. Disagreements between the code and what it says

Five runs exhibit what follows (`findings` in `PROJECT.json` quote the line): grants
left behind by a deletion; a disclosed secret not scheduled for renewal; a device
half deleted because the foreign key of its renewal tasks lost its
`ON DELETE CASCADE` when a later migration created it again; a type's default
address that moves the scan range of a device (`get_network_scan_range.py:52`
against the comment at 41-46) so that it no longer covers what it did, where the
comments at 12-14 and 66-68 have an outlier fail to widen it at worst (an endpoint's
own address far below does the same); an edit of a gateway that gives its endpoint
devices the gateway's access tags (`smart_ems.py:951-964`), where the comment at
line 894 says that the device is copied.

More behaviours are states of the models that no run reports on, because no text
promises otherwise or because the property of the run excludes them by name.

* Registry: a name registered while another request enables it can be enabled and
  not mounted (POST takes no lock); two extensions with overlapping `replace:`
  contributions can both be enabled, each checked under its own lock. Of two
  overlapping health checks the slower one is stored, with the earlier
  `last_checked_at`. A scoped route whose query parameter is also a path
  placeholder has no required query parameter; its iotedge upstream answers 400.
  An http route that is scoped by path passes the query on, and one that is scoped
  by query fills its path placeholders (`http.py:185`, `:194`): a device named there
  reaches the upstream although nothing has checked it, so an extension must take
  the device from the place of the scope only.
* Passwords: a renewal cancelled after the periodic task has loaded its row is
  executed all the same.
* Access: `GET /devices` filters on metadata in which defaults stand for absent
  values (`get_devices.py:72`; the docstring in `abac_permission_check.py:430`
  says "raw metadata"), so it lists a device that its caller may not open.
* Inventory: two patches of one field can store a definition that neither
  validated; a patch of an inherited field on another device type stores a partial
  definition, which `GET /device-types` then fails to answer; a service type is
  committed before its default port is.
* Compose: overlapping PUTs can take one port; a clearing whose batch call failed
  cannot be retried, because its row is gone (404).
* SmartEMS: overlapping edits lose one of the two, and an edit read before a batch
  call restores the old `compose_deployment`; NAT and forwarding edits turn null
  variables into the text "null"; a LAN change does not check the NAT rules again;
  every edit posts endpoint devices without their ids;
  the default template omits `endpointDevices` and `masquerades`, which go back to
  their defaults, renames the device to its serial number and takes `staging` from
  the configuration; `or True` in
  `template_configurator.py:210-212` ignores three settings; the default of
  `eas_init_time` (line 68) is evaluated once, at import.
* Start-up: a service account with another password leaves the fixture
  administrator enabled; replicas of different releases move production back and
  forth; a version whose promotion failed stays in staging; a bootstrap that failed
  is not tried again until a restart. The docstring of
  `bootstrap/iothub_base_deployment.py` says PATCH and the code PUTs.

## 7. Plan, and what is not modelled

Done: extension registry, password renewal, module twin, provisioning; access
control, device metadata, administration; type catalogue, inventory, compose
deployments, discovery, SmartEMS configuration, start-up, extension dispatch and
health. Each of the four components whose steps are
hardest to order has an abstract specification that it is proved to implement: the
registry, the renewal, the delivery and the bootstrap. What a next step would be:

1. The type catalogue with `DeviceMetadata` in one specification, in place of the
   fixed type there.
2. `SemsDeviceConfig` with `ComposeDeployments`: the batch call against the edits.

Compose deployments, the SmartEMS document, device metadata, inventory and
administration have no abstract specification with one step per request, because
overlapping requests in them do lose updates (section 6): what such a specification
would say holds for undisturbed requests only, and the properties about those
(`DevicesMatchActive`, `EditsKeepTheRest`, `PatchIsExact`, `UndisturbedWritesFit`,
`UpdatesAreExact`) say it directly.

Not modelled, with the reason:

* Authentication: token validation and the caches of keys are a library's; the
  refresh of the keys is a loop around one call, whose start-up gap is a hazard.
* Bodies, schemas, headers, signatures and streaming of extension calls; reads of
  firmware, VPN, container and deployment states; the command proxy: conversions
  and single remote calls that change no state here.
* `scripts/import_devices.py`: run by hand; it writes tags unvalidated, keyed by
  the fields of the default type.
* `post_smart_ems_template_update_lan.py`: no router mounts it.
* Lines, UI metrics, platform configuration: one table or blob each, written whole.
* Migrations: run before anything else; the constraints they leave are in the models.
