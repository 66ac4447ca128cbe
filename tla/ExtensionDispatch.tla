-------------------------- MODULE ExtensionDispatch --------------------------
(***************************************************************************)
(* A request to a route that an extension contributes: what a manifest may *)
(* say of a route, the check that its visibility puts before the handler,  *)
(* the handler, and the call of the upstream; and the keys with which      *)
(* services and devices identify themselves.                               *)
(*                                                                         *)
(* Checks and calls await, so that keys, scopes and the mounted route      *)
(* change meanwhile; a request goes on with the route it has been matched  *)
(* to.  A request may name devices in the query and, if the route has it   *)
(* there, in the path.  The route says which of the two a user's scope is  *)
(* checked for; an http upstream is passed both.                           *)
(***************************************************************************)
EXTENDS Requests, Naturals, Sequences, SequencesExt

CONSTANTS
    RouteSpecs,   \* the routes that manifests describe
    KeyedDevices, \* devices
    MaxKeys       \* bound: how many keys are generated

(* What a route says: the upstream it calls and whether the manifest has   *)
(* what that call needs, who may call it, the action that it requires (one *)
(* of the extension's "own", a "global" one of the platform, or Null), and *)
(* where the device is: in the path, or in the query, where the manifest   *)
(* may declare the parameter.                                              *)
RouteShapes ==
    [upstream : {"http", "iotedge"}, callable : BOOLEAN,
     visibility : {"public", "internal", "device"}, action : {"own", "global", Null},
     scoped : BOOLEAN, scopeIn : {"path", "query"},
     inPath : BOOLEAN, declared : {"required", "optional", Null}]

ASSUME DispatchValues ==
    /\ RouteSpecs \subseteq RouteShapes
    /\ Null \notin KeyedDevices
    /\ MaxKeys \in Nat

Keys == 1..MaxKeys

VARIABLES
    mountedRoute, \* the route that the extension has published, or Null
    internalKey,  \* extensions.internal_key_hash, Null if there is no row
    deviceKeys,   \* table extension_device_keys
    keysMade,     \* how many keys have been generated; the latest is the highest
    userScope,    \* the devices in the scopes of the user, who holds the actions
    routePc,      \* where each request is
    routeArg,     \* the route it was matched to, and what it was sent
    covered,      \* what its credential covered when it was checked
    reached       \* the devices that the upstream is told of, and where

keyVars == <<internalKey, deviceKeys, keysMade>>
routeVars == <<routePc, routeArg, covered, reached>>
dispatchVars == <<mountedRoute, keyVars, userScope, routeVars>>

(* Where an upstream is told of a device: the query as it came, the path   *)
(* value that fills a placeholder, the header X-Device-Id, and the device  *)
(* whose module an iotedge upstream calls                                  *)
Places == {"query", "path", "header", "target"}
Nowhere == [place \in Places |-> {}]

NoCall == [route |-> Null, key |-> Null, query |-> <<>>, path |-> Null]

DispatchInit ==
    /\ mountedRoute = Null
    /\ internalKey = Null
    /\ deviceKeys = [d \in KeyedDevices |-> Null]
    /\ keysMade = 0
    /\ userScope = {}
    /\ routePc = [r \in Requests |-> "idle"]
    /\ routeArg = [r \in Requests |-> NoCall]
    /\ covered = [r \in Requests |-> {}]
    /\ reached = [r \in Requests |-> Nowhere]

-----------------------------------------------------------------------------
(* _validate_manifest_cross_references *)

Scopable(route) ==
    /\ route.scoped /\ route.scopeIn = "path" => route.inPath
    /\ route.scoped /\ route.scopeIn = "query" => route.declared # "optional"

PublicMayBe(route) ==
    /\ route.scoped => route.action # Null
    /\ route.upstream = "iotedge" => route.scoped

DeviceMayBe(route) ==
    /\ route.upstream = "http"
    /\ ~route.inPath
    /\ ~route.scoped
    /\ route.action = Null

MayMount(route) ==
    /\ route.callable
    /\ Scopable(route)
    /\ route.visibility = "public" => PublicMayBe(route)
    /\ route.visibility = "device" => DeviceMayBe(route)

-----------------------------------------------------------------------------
(* The extension and its keys *)

GeneratesKey ==
    /\ keysMade < MaxKeys
    /\ keysMade' = keysMade + 1

KeepsRequests == UNCHANGED <<userScope, routeVars>>

(* register_extension *)
RegisterKey ==
    /\ internalKey = Null
    /\ GeneratesKey
    /\ internalKey' = keysMade'
    /\ UNCHANGED <<mountedRoute, deviceKeys>>
    /\ KeepsRequests

RotateInternalKey ==
    /\ internalKey # Null
    /\ GeneratesKey
    /\ internalKey' = keysMade'
    /\ UNCHANGED <<mountedRoute, deviceKeys>>
    /\ KeepsRequests

IssueDeviceKey(d) ==
    /\ internalKey # Null
    /\ GeneratesKey
    /\ deviceKeys' = [deviceKeys EXCEPT ![d] = keysMade']
    /\ UNCHANGED <<mountedRoute, internalKey>>
    /\ KeepsRequests

(* Deleting the device does the same. *)
RevokeDeviceKey(d) ==
    /\ deviceKeys[d] # Null
    /\ deviceKeys' = [deviceKeys EXCEPT ![d] = Null]
    /\ UNCHANGED <<mountedRoute, internalKey, keysMade>>
    /\ KeepsRequests

(* The device keys go with the extension. *)
DeregisterKeys ==
    /\ internalKey # Null
    /\ internalKey' = Null
    /\ deviceKeys' = [d \in KeyedDevices |-> Null]
    /\ mountedRoute' = Null
    /\ UNCHANGED keysMade
    /\ KeepsRequests

(* A manifest with the route is enabled, or replaces the one there was. *)
MountRoute(route) ==
    /\ internalKey # Null
    /\ MayMount(route)
    /\ mountedRoute' = route
    /\ UNCHANGED keyVars
    /\ KeepsRequests

UnmountRoute ==
    /\ mountedRoute # Null
    /\ mountedRoute' = Null
    /\ UNCHANGED keyVars
    /\ KeepsRequests

(* The user's scopes, or the data of the devices in them, are edited. *)
Rescope(devices) ==
    /\ userScope' = devices
    /\ UNCHANGED <<mountedRoute, keyVars, routeVars>>

-----------------------------------------------------------------------------
(* A request *)

ToStage(r, stage) ==
    /\ routePc' = [routePc EXCEPT ![r] = stage]
    /\ UNCHANGED <<mountedRoute, keyVars, userScope, routeArg>>

Replies(r) ==
    /\ routePc' = [routePc EXCEPT ![r] = "idle"]
    /\ routeArg' = [routeArg EXCEPT ![r] = NoCall]
    /\ covered' = [covered EXCEPT ![r] = {}]
    /\ reached' = [reached EXCEPT ![r] = Nowhere]
    /\ UNCHANGED <<mountedRoute, keyVars, userScope>>

(* The request names devices in the query, repeatedly if it likes and      *)
(* also if the route does not ask for it, and in the path if the route has *)
(* one there.                                                              *)
CallRoute(r, key, query, path) ==
    /\ routePc[r] = "idle"
    /\ mountedRoute # Null
    /\ (path # Null) <=> mountedRoute.inPath
    /\ key \in Keys => key <= keysMade
    /\ routePc' = [routePc EXCEPT ![r] = mountedRoute.visibility]
    /\ routeArg' = [routeArg EXCEPT ![r] =
                        [route |-> mountedRoute, key |-> key, query |-> query, path |-> path]]
    /\ UNCHANGED <<mountedRoute, keyVars, userScope, covered, reached>>

(* The check passes or the request is refused.  A credential that passes   *)
(* covers the call and the devices: those in the user's scope, unless the  *)
(* manifest exempts an http route from it.                                 *)
Checked(r, isGood, devices) ==
    IF isGood
    THEN /\ ToStage(r, "handle")
         /\ covered' = [covered EXCEPT ![r] = {Null} \cup devices]
         /\ UNCHANGED reached
    ELSE Replies(r)

LastOf(query) == IF query = <<>> THEN Null ELSE Last(query)

(* The device that the route puts the user's scope to, if it is named *)
ScopedDevice(call) ==
    IF call.route.scopeIn = "path" THEN call.path ELSE LastOf(call.query)

(* ABACPermissionCheck, for a route that requires an action *)
UserMayCall(call) ==
    call.route.scoped =>
        IF ScopedDevice(call) = Null THEN call.route.action = "global"
        ELSE ScopedDevice(call) \in userScope

CheckUser(r) ==
    LET call == routeArg[r]
    IN  /\ routePc[r] = "public"
        /\ Checked(r, call.route.action # Null => UserMayCall(call),
                   IF call.route.scoped \/ call.route.upstream = "iotedge" THEN userScope
                   ELSE KeyedDevices)

CheckInternalKey(r) ==
    /\ routePc[r] = "internal"
    /\ Checked(r, routeArg[r].key # Null /\ routeArg[r].key = internalKey, KeyedDevices)

KeyedDevice(key) == {d \in KeyedDevices : key # Null /\ deviceKeys[d] = key}

Named(call) == (ToSet(call.query) \cup {call.path}) \ {Null}

(* The device is the one of the key, and none other is named. *)
CheckDeviceKey(r) ==
    LET call == routeArg[r]
        owner == KeyedDevice(call.key)
    IN  /\ routePc[r] = "device"
        /\ Checked(r, owner # {} /\ Named(call) \subseteq owner, owner)

NeedsQuery(route) ==
    \/ route.declared = "required"
    \/ ~route.inPath /\ IF route.scoped THEN route.scopeIn = "query" ELSE route.upstream = "iotedge"

OneDevice(call) ==
    call.route.scoped /\ call.route.scopeIn = "query" => Len(call.query) <= 1

(* Mutant of HandleCall: the parameter may be repeated. *)
HandleAnyCall(r) ==
    LET call == routeArg[r]
    IN  /\ routePc[r] = "handle"
        /\ \/ /\ NeedsQuery(call.route) => call.query # <<>>
              /\ ToStage(r, call.route.upstream)
              /\ UNCHANGED <<covered, reached>>
           \/ Replies(r)

(* The handler answers 400 to a repeated parameter, 422 to a missing one,  *)
(* and its own answers to a body that does not fit.                        *)
HandleCall(r) ==
    LET call == routeArg[r]
    IN  /\ routePc[r] = "handle"
        /\ \/ /\ NeedsQuery(call.route) => call.query # <<>>
              /\ OneDevice(call)
              /\ ToStage(r, call.route.upstream)
              /\ UNCHANGED <<covered, reached>>
           \/ Replies(r)

Reaches(r, told) ==
    /\ ToStage(r, "called")
    /\ reached' = [reached EXCEPT ![r] = told]
    /\ UNCHANGED covered

(* An http upstream gets the whole query, wherever the scope is, and its   *)
(* path may have a placeholder for the one that names a device.            *)
PassedOn(call, owner) ==
    [Nowhere EXCEPT !["query"] = ToSet(call.query), !["path"] = {call.path} \ {Null},
                    !["header"] = owner]

(* For a device route the owner of the key is added. *)
CallHttp(r) ==
    LET call == routeArg[r]
    IN  /\ routePc[r] = "http"
        /\ Reaches(r, PassedOn(call, IF call.route.visibility = "device"
                                     THEN covered[r] \ {Null} ELSE {}))

(* _resolve_device_id *)
TargetDevice(call) ==
    IF call.route.scoped THEN ScopedDevice(call) ELSE LastOf(call.query)

CallIotedge(r) ==
    /\ routePc[r] = "iotedge"
    /\ IF TargetDevice(routeArg[r]) = Null THEN Replies(r)
       ELSE Reaches(r, [Nowhere EXCEPT !["target"] = {TargetDevice(routeArg[r])}])

(* The upstream answers, or cannot be reached. *)
AnswerCall(r) == routePc[r] = "called" /\ Replies(r)

DispatchNext ==
    \/ RegisterKey \/ RotateInternalKey \/ DeregisterKeys
    \/ \E d \in KeyedDevices : IssueDeviceKey(d) \/ RevokeDeviceKey(d)
    \/ \E route \in RouteSpecs : MountRoute(route)
    \/ UnmountRoute
    \/ \E devices \in SUBSET KeyedDevices : Rescope(devices)
    \/ \E r \in Requests :
        \/ \E key \in Keys \cup {Null}, query \in BoundedSeq(KeyedDevices, 2),
              path \in KeyedDevices \cup {Null} : CallRoute(r, key, query, path)
        \/ CheckUser(r) \/ CheckInternalKey(r) \/ CheckDeviceKey(r)
        \/ HandleCall(r) \/ CallHttp(r) \/ CallIotedge(r) \/ AnswerCall(r)

DispatchSpec == DispatchInit /\ [][DispatchNext]_dispatchVars

-----------------------------------------------------------------------------
DispatchTypeOK ==
    /\ mountedRoute \in RouteSpecs \cup {Null}
    /\ internalKey \in Keys \cup {Null}
    /\ deviceKeys \in [KeyedDevices -> Keys \cup {Null}]
    /\ keysMade \in 0..MaxKeys
    /\ userScope \subseteq KeyedDevices
    /\ \A r \in Requests :
        /\ routePc[r] \in {"idle", "public", "internal", "device", "handle", "http",
                           "iotedge", "called"}
        /\ covered[r] \subseteq KeyedDevices \cup {Null}
        /\ reached[r] \in [Places -> SUBSET KeyedDevices]

(* The places that the check of a route speaks for: of a user's call only  *)
(* the one that the scope is put to, and the target that follows from it   *)
CheckedPlaces(route) ==
    IF route.visibility = "public" /\ route.scoped THEN {route.scopeIn, "target"} ELSE Places

(* Whatever manifest the route is from and whatever is rotated, reissued,  *)
(* rescoped or replaced meanwhile: where the check of a call looked for a  *)
(* device, the upstream finds none that the credential did not cover when  *)
(* it was checked, also if the request names several; and an upstream of a *)
(* device route is told of one device, the owner of the key, and no other. *)
(* The other place of a user's call to a scoped http route, the query of   *)
(* one scoped by path or the path of one scoped by query, is passed on     *)
(* unchecked, and nothing is said of it.                                   *)
DispatchIsGuarded ==
    \A r \in Requests : routePc[r] = "called" =>
        LET route == routeArg[r].route
        IN  /\ \A place \in CheckedPlaces(route) : reached[r][place] \subseteq covered[r]
            /\ route.visibility = "device" =>
                  \E d \in KeyedDevices : UNION {reached[r][place] : place \in Places} = {d}
=============================================================================
