----------------------------- MODULE MCPlatform -----------------------------
(***************************************************************************)
(* Instances for TLC of the modules of the platform's own data and of the  *)
(* edge device's configuration in SmartEMS.  They share no state, so a     *)
(* behaviour is one of one part: requests work on the rows of the part,    *)
(* and the rows they refer to are there from the start.                    *)
(***************************************************************************)
EXTENDS Inventory, NetworkOverview, ComposeDeployments, SemsDeviceConfig, ExtensionDispatch,
        ExtensionHealth, TLC

CONSTANTS dt, et1, et2, st, dflt, d, e, s

VARIABLE part

Slots == Permutations(Requests)

platformVars == <<vars, netVars, composeVars, semsVars, dispatchVars, healthVars>>

InventoryParts == {"devices", "endpoints", "services"}
NetworkParts == {"overview", "range"}
ComposeParts == {"put", "activate"}
SemsParts == {"natAndLan", "forwardsAndTemplate", "cellularAndNat"}
DispatchParts == {"users", "keys"}
HealthPart == "health"
Parts == InventoryParts \cup NetworkParts \cup ComposeParts \cup SemsParts \cup DispatchParts
         \cup {HealthPart}

-----------------------------------------------------------------------------
(* Inventory: rows that requests write, and rows around them that they can *)
(* only delete                                                             *)

MCAdmits == ("string" :> {"a", "b"}) @@ ("integer" :> {"n"})

Plain(type) == [type |-> type, required |-> FALSE, changeable |-> TRUE,
                default |-> Null, limit |-> Null]
Key == [Plain("string") EXCEPT !.required = TRUE, !.changeable = FALSE]
Titled == [Plain("string") EXCEPT !.default = "a"]
OnlyB == [Undefined EXCEPT !.limit = {"b"}]

MCDefaultFields == "x" :> Titled
Numbered == [Plain("integer") EXCEPT !.default = "n"]
MCNewFields == {"x" :> Titled, ("x" :> Key) @@ ("y" :> Numbered)}
MCFieldPatches == {"x" :> Null, "x" :> OnlyB}
MCMappings == {"x" :> "name", "y" :> "port"}
MCNewData == {"x" :> "a"}
MCSentData == {"x" :> "b", "x" :> Null}

Written ==
    ("devices" :> {dflt, dt, d}) @@ ("endpoints" :> {et1, e}) @@ ("services" :> {st, s})
Around == ("devices" :> {}) @@ ("endpoints" :> {et2, d}) @@ ("services" :> {et2, e, d})

Surroundings ==
    (et2 :> [fields |-> ("x" :> Titled) @@ ("y" :> Plain("integer")), mapping |-> Nothing]) @@
    (d :> [type |-> dflt, owner |-> Null, data |-> Nothing]) @@
    (e :> [type |-> et2, owner |-> d, data |-> Nothing])

Present == IF part \in InventoryParts THEN Around[part] ELSE {}

InventoryInit ==
    /\ types = [t \in Types |->
                    IF t = dflt THEN [fields |-> DefaultFields, mapping |-> Nothing]
                    ELSE IF t \in Present THEN Surroundings[t] ELSE Null]
    /\ inst = [i \in Instances |-> IF i \in Present THEN Surroundings[i] ELSE Null]
    /\ defaultPorts = {}
    /\ pc = [r \in Requests |-> "idle"]
    /\ arg = [r \in Requests |-> Blank]
    /\ undisturbed = {}
    /\ loose = {}

Confined ==
    LET named == Written[part] \cup Around[part] \cup {Null}
    IN  /\ \A t \in Types \ Written[part] : types'[t] \in {types[t], Null}
        /\ \A i \in Instances \ Written[part] : inst'[i] \in {inst[i], Null}
        /\ \A r \in Requests : /\ arg'[r].id \in Written[part] \cup {Null}
                                /\ {arg'[r].type, arg'[r].owner} \subseteq named
        /\ part # "services" => defaultPorts' = defaultPorts

InventoryNext ==
    /\ part \in InventoryParts
    /\ Next
    /\ Confined
    /\ UNCHANGED <<netVars, composeVars, semsVars, dispatchVars, healthVars>>

-----------------------------------------------------------------------------
(* Network discovery: two endpoints, each with a service; in one part the  *)
(* configuration is fixed, in the other nothing is scanned.                *)

MCEndpointOf == [x \in NetServices |-> IF x = "s1" THEN 1 ELSE 2]
Configured(ip1, ip2, port1, port2, default) ==
    [ip |-> <<ip1, ip2>>, default |-> default,
     port |-> [x \in NetServices |-> IF x = "s1" THEN port1 ELSE port2]]
SharedHost == Configured(4, 4, 80, 80, Null)
MCConfigurations ==
    {SharedHost, Configured(4, 6, 22, 80, Null), Configured(NotAnAddress, Null, 80, Null, 1),
     Configured(4, 14, 80, 80, Null), Configured(Null, 14, 80, 80, Null)}

Up(ports) == [status |-> "online", ports |-> [p \in ports |-> "online"]]
Scanned(found) == [covers |-> {4}, ports |-> {80}, found |-> found]
MCScans == {Scanned(4 :> Up({80})), Scanned(4 :> Up({22})), Scanned(Nothing)}

NetworkInit ==
    /\ NetInit
    /\ part \notin NetworkParts => netConfig = SharedHost

NetworkNext ==
    /\ part \in NetworkParts
    /\ NetNext
    /\ IF part = "overview"
       THEN netConfig' = netConfig /\ \A r \in Requests : netPc'[r] # "range"
       ELSE netClock' = netClock /\ \A r \in Requests : netPc'[r] # "hosts"
    /\ UNCHANGED <<vars, composeVars, semsVars, dispatchVars, healthVars>>

-----------------------------------------------------------------------------
(* Compose: deployments are written while there are no devices, or two are *)
(* activated while a device comes and goes.                                *)

MCComposeRequests == {<<80>>, <<81, 80>>, <<81>>}
Edge == <<"d1", "d2">>

Stored == ("a" :> <<80>>) @@ ("b" :> <<81>>) @@ ("c" :> Null)

ComposePartInit ==
    /\ deployments = IF part = "activate" THEN Stored ELSE [n \in Deployments |-> Null]
    /\ active = Null
    /\ edgeDevices = IF part = "activate" THEN Edge ELSE <<>>
    /\ edgeVariable = [x \in EdgeDevices |-> Null]
    /\ composePc = [r \in Requests |-> "idle"]
    /\ composeArg = [r \in Requests |-> ComposeBlank]
    /\ composeSolo = {}

ComposePartNext ==
    /\ part \in ComposeParts
    /\ ComposeNext
    /\ IF part = "put"
       THEN edgeDevices' = <<>> /\ \A r \in Requests : composePc'[r] \in {"idle", "insert", "update"}
       ELSE /\ edgeDevices' \in {Edge, <<"d3">> \o Edge}
            /\ \A r \in Requests : composePc'[r] \notin {"insert", "update"}
    /\ UNCHANGED <<vars, netVars, semsVars, dispatchVars, healthVars>>

-----------------------------------------------------------------------------
(* The configuration of an edge device, by requests of two kinds at a time *)

Kinds == ("natAndLan" :> {"nat", "lan"}) @@ ("forwardsAndTemplate" :> {"forwards", "template"})
         @@ ("cellularAndNat" :> {"cellular", "nat"})

NatRule(ext, int) == [name |-> "n1", ext |-> ext, int |-> int]
Forward(name, src) == [name |-> name, interface |-> "lan2", src |-> src, dest |-> 1]
MCNatRequests ==
    {[on |-> TRUE, rules |-> <<NatRule(8, 1)>>],
     [on |-> TRUE, rules |-> <<NatRule(8, 1), NatRule(9, 2)>>],
     [on |-> TRUE, rules |-> <<NatRule(8, 1), NatRule(9, 1)>>],
     [on |-> FALSE, rules |-> <<NatRule(8, 1)>>]}
MCForwardRequests == {<<>>, <<Forward("n1", 80)>>, <<Forward("n1", 80), Forward("n2", 80)>>}
MCLanRequests ==
    {[lan2 |-> Null, lan3 |-> [dhcp |-> FALSE, net |-> {1, 2}]],
     [lan2 |-> [dhcp |-> TRUE, net |-> Null], lan3 |-> [dhcp |-> FALSE, net |-> {8, 9}]]}
MCCellRequests == {Null, "on"}
MCText == (Null :> "null") @@ ("null" :> "null") @@ ("v" :> "v")
MCTypeConfigs ==
    {[template |-> "t2", tags |-> {"g2"}, firmware |-> 2, staging |-> FALSE, minimum |-> 1, vpn |-> TRUE,
      defined |-> "eas_update_at" :> "v"]}
MCOutsideEdits == {[name |-> "compose_deployment", value |-> "v"]}

Doc(template, nat, other, description) ==
    [enabled |-> TRUE, template |-> template, lan2 |-> {1}, lan3 |-> {1, 2},
     natOn |-> TRUE, nat |-> nat, forwards |-> Nothing, cellular |-> Null, other |-> other,
     tags |-> {"g1"}, firmware |-> 1, installFirmware |-> FALSE, installConfig |-> FALSE,
     requestConfig |-> FALSE, staging |-> TRUE, name |-> "given", description |-> description,
     endpoints |-> "e" :> [id |-> "i", tags |-> {"g2"}], masquerades |-> TRUE]
Bare == Doc(Null, Nothing, Nothing, Null)
MCSemsDocs ==
    {Doc("t1", (1 :> NatRule(8, 1)) @@ (3 :> NatRule(9, 2)), "eas_update_at" :> Null, "given"), Bare}

SemsPartInit ==
    /\ SemsInit
    /\ part \notin SemsParts => semsDoc = Bare

SemsPartNext ==
    /\ part \in SemsParts
    /\ SemsNext
    /\ \A r \in Requests : semsArg'[r].kind \in Kinds[part] \cup {Null}
    /\ UNCHANGED <<vars, netVars, composeVars, dispatchVars, healthVars>>

-----------------------------------------------------------------------------
(* Extension routes, called by one request at a time, which writes nothing *)
(* that others read: those of users, and those with keys                   *)

Route(upstream, visibility, action) ==
    [upstream |-> upstream, callable |-> TRUE, visibility |-> visibility, action |-> action,
     scoped |-> action # Null, scopeIn |-> "query", inPath |-> FALSE, declared |-> Null]
MCRouteSpecs ==
    LET users == Route("http", "public", "own")
        keys == Route("http", "device", Null)
    IN  {users, [users EXCEPT !.scopeIn = "path", !.inPath = TRUE], [users EXCEPT !.inPath = TRUE],
         [users EXCEPT !.declared = "optional"], [users EXCEPT !.scoped = FALSE],
         Route("http", "public", Null), Route("iotedge", "public", Null),
         [Route("iotedge", "public", "global") EXCEPT !.inPath = TRUE],
         [Route("iotedge", "public", "own") EXCEPT !.scopeIn = "path", !.inPath = TRUE],
         keys, [keys EXCEPT !.inPath = TRUE], [keys EXCEPT !.callable = FALSE],
         Route("iotedge", "internal", Null),
         [Route("http", "internal", Null) EXCEPT !.declared = "required"]}

DispatchPartNext ==
    /\ part \in DispatchParts
    /\ DispatchNext
    /\ \A r, q \in Requests : routePc'[r] # "idle" /\ routePc'[q] # "idle" => r = q
    /\ IF part = "users"
       THEN /\ keysMade' <= 1
            /\ \A r \in Requests : routeArg'[r].key = Null
            /\ mountedRoute' # Null => mountedRoute'.visibility = "public"
       ELSE /\ userScope' = {}
            /\ mountedRoute' # Null => mountedRoute'.visibility # "public"
    /\ UNCHANGED <<vars, netVars, composeVars, semsVars, healthVars>>

-----------------------------------------------------------------------------
(* Health checks, while a manifest takes another's place; two of them only *)
(* with one upstream                                                       *)

MCHealthManifests ==
    LET service(wanted) == [type |-> "http", target |-> "url", wanted |-> wanted]
        module(query) == [type |-> "iotedge", target |-> query, module |-> "m"]
    IN  {"k1" :> service(Null), "k1" :> service({"v1"}),
         ("k1" :> module("query")) @@ ("k2" :> service({"v1"})), "k1" :> module(Null)}

HealthPartNext ==
    /\ part = HealthPart
    /\ HealthNext
    /\ \A r, q \in Requests :
          healthPc'[r] # "idle" /\ healthPc'[q] # "idle" => r = q \/ "k2" \notin DOMAIN healthArg'[r]
    /\ UNCHANGED <<vars, netVars, composeVars, semsVars, dispatchVars>>

-----------------------------------------------------------------------------
MCInit ==
    /\ part \in Parts
    /\ InventoryInit /\ NetworkInit /\ ComposePartInit /\ SemsPartInit /\ DispatchInit
    /\ HealthInit

MCNext ==
    /\ \/ InventoryNext \/ NetworkNext \/ ComposePartNext
       \/ SemsPartNext \/ DispatchPartNext \/ HealthPartNext
    /\ UNCHANGED part

MCSpec == MCInit /\ [][MCNext]_<<platformVars, part>>
=============================================================================
