----------------------------- MODULE Inventory -----------------------------
(***************************************************************************)
(* Types (of devices, endpoints and services), the instances that have     *)
(* them, and the requests that write either.  A type says which fields an  *)
(* instance has, which values they admit and which field plays which role; *)
(* an instance is validated against its type when it is written, never     *)
(* when the type is.                                                       *)
(*                                                                         *)
(* PATCH of a type has three steps: the route reads the type and validates *)
(* the merged definitions, the repository reads it again and merges once   *)
(* more, and one UPDATE writes the result.  A request that writes an       *)
(* instance reads and validates in one step and writes in another.  What a *)
(* handler reads without writing in between is one step.  A label that is  *)
(* taken refuses a request and is left out.  A refused request changes     *)
(* nothing; the row's foreign keys and primary key are the database's.     *)
(* Creating a service type has two commits: the type, then the default of  *)
(* its port field as a port that is scanned on every device.  The ports    *)
(* that are added for one device are left out.                             *)
(***************************************************************************)
EXTENDS TypedFields

CONSTANTS
    DeviceTypes, EndpointTypes, ServiceTypes,
    DefaultType,    \* the device type whose fields every other one inherits
    DefaultFields,  \* what the first migration gives it
    Devices, Endpoints, Services,
    NewFields,      \* the fields clients send to create a type
    FieldPatches,   \* and to patch one
    Mappings,       \* [field -> role], as clients send it
    NewData,        \* the data clients send to create an instance
    SentData,       \* and to patch one
    ScanPorts       \* the ports that admins add and remove

Types == DeviceTypes \cup EndpointTypes \cup ServiceTypes
Instances == Devices \cup Endpoints \cup Services
Roles == DOMAIN EndpointRoles \cup DOMAIN ServiceRoles
AllMappings == PartialFunctions(FieldKeys, Roles)
AllFieldPatches == PartialFunctions(FieldKeys, Definitions \cup {Null})

ASSUME InventoryValues ==
    /\ DefaultType \in DeviceTypes
    /\ DefaultFields \in Schemas
    /\ ValidSchema(DefaultFields)
    /\ DeviceTypes \cap (EndpointTypes \cup ServiceTypes) = {}
    /\ EndpointTypes \cap ServiceTypes = {}
    /\ Devices \cap (Endpoints \cup Services) = {}
    /\ Endpoints \cap Services = {}
    /\ Null \notin Types \cup Instances
    /\ NewFields \subseteq Schemas
    /\ FieldPatches \subseteq AllFieldPatches
    /\ Mappings \subseteq AllMappings
    /\ NewData \subseteq Data
    /\ SentData \subseteq DataPatches
    /\ ScanPorts \subseteq Admits["integer"]

ASSUME RowsAreNotNull ==
    /\ Null \notin AllMappings \cup AllFieldPatches
    /\ Null \notin [fields : Schemas, mapping : AllMappings]
    /\ Null \notin [type : Types, owner : Instances \cup {Null}, data : Data]

VARIABLES
    types,        \* [Types -> a row of fields and mapping, or Null]
    inst,         \* [Instances -> a row of type, owner and data, or Null]
    defaultPorts, \* table default_scan_ports
    pc,           \* where each request is suspended
    arg,          \* what each request has been sent and has read
    undisturbed,  \* ghost: requests since whose reads nobody else wrote
    loose         \* ghost: types whose roles were last written alone, by a
                  \* request that had validated them against other fields

vars == <<types, inst, defaultPorts, pc, arg, undisturbed, loose>>

Blank == [id |-> Null, type |-> Null, owner |-> Null, patch |-> Null, mapping |-> Null,
          seen |-> Nothing, base |-> Nothing, data |-> Nothing, named |-> {},
          ports |-> {}]

Args == [id : Types \cup Instances \cup {Null},
         type : Types \cup {Null},
         owner : Instances \cup {Null},
         patch : AllFieldPatches \cup {Null},
         mapping : AllMappings \cup {Null},
         seen : Schemas,    \* the fields the route merged the patch into
         base : Schemas,    \* the fields the repository merged it into
         data : Data,
         named : SUBSET FieldKeys,
         ports : SUBSET Admits["integer"]]

Init ==
    /\ types = [t \in Types |->
                    IF t = DefaultType THEN [fields |-> DefaultFields, mapping |-> Nothing]
                    ELSE Null]
    /\ inst = [i \in Instances |-> Null]
    /\ defaultPorts = {}
    /\ pc = [r \in Requests |-> "idle"]
    /\ arg = [r \in Requests |-> Blank]
    /\ undisturbed = {}
    /\ loose = {}

(* Identifiers are never used twice: a new row takes one that no row has   *)
(* and no request in progress names.                                       *)
Unnamed(x) == \A r \in Requests : x \notin {arg[r].id, arg[r].type, arg[r].owner}

Begin(r, step, a) ==
    /\ pc[r] = "idle"
    /\ pc' = [pc EXCEPT ![r] = step]
    /\ arg' = [arg EXCEPT ![r] = a]
    /\ undisturbed' = undisturbed \cup {r}
    /\ UNCHANGED <<types, inst, defaultPorts, loose>>

End(r) ==
    /\ pc' = [pc EXCEPT ![r] = "idle"]
    /\ arg' = [arg EXCEPT ![r] = Blank]

Refuse(r) ==
    /\ End(r)
    /\ undisturbed' = undisturbed \ {r}
    /\ UNCHANGED <<types, inst, defaultPorts, loose>>

-----------------------------------------------------------------------------
(* Types *)

(* _effective_fields_for, _serialize_with_mirroring *)
EffectiveFields(t) ==
    IF t \in DeviceTypes \ {DefaultType}
    THEN MergeTypeFields(types[DefaultType].fields, types[t].fields)
    ELSE types[t].fields

AddType(t, fields, mapping) ==
    /\ types[t] = Null
    /\ Unnamed(t)
    /\ types' = [types EXCEPT ![t] = [fields |-> fields, mapping |-> mapping]]
    /\ undisturbed' = {}
    /\ loose' = loose \ {t}
    /\ UNCHANGED <<inst, defaultPorts>>

CreateDeviceType(t, fields) ==
    /\ ValidSchema(fields)
    /\ AddType(t, fields, Nothing)
    /\ UNCHANGED <<pc, arg>>

CreateEndpointType(t, fields, mapping) ==
    /\ ValidSchema(fields)
    /\ RolesFit(fields, mapping, EndpointRoles)
    /\ AddType(t, fields, mapping)
    /\ UNCHANGED <<pc, arg>>

PortDefaults(fields, mapping) ==
    {fields[k].default : k \in {x \in DOMAIN mapping : mapping[x] = "port"}} \ {Null}

(* A type whose port field has a default goes on to SeedPort. *)
CreateServiceType(r, t, fields, mapping) ==
    LET ports == PortDefaults(fields, mapping)
    IN  /\ pc[r] = "idle"
        /\ ValidSchema(fields)
        /\ RolesFit(fields, mapping, ServiceRoles)
        /\ AddType(t, fields, mapping)
        /\ pc' = [pc EXCEPT ![r] = IF ports = {} THEN "idle" ELSE "seed"]
        /\ arg' = [arg EXCEPT ![r] = [Blank EXCEPT !.ports = ports]]

SeedPort(r) ==
    /\ pc[r] = "seed"
    /\ defaultPorts' = defaultPorts \cup arg[r].ports
    /\ End(r)
    /\ UNCHANGED <<types, inst, undisturbed, loose>>

SetDefaultPorts(ports) ==
    /\ defaultPorts' = ports
    /\ UNCHANGED <<types, inst, pc, arg, undisturbed, loose>>

AddDefaultPort(port) == SetDefaultPorts(defaultPorts \cup {port})
RemoveDefaultPort(port) == SetDefaultPorts(defaultPorts \ {port})

(* The route: only sent fields make it read the type. *)
CheckTypePatch(r, t, patch, mapping) ==
    /\ patch # Null \/ mapping # Null
    /\ patch # Null => /\ types[t] # Null
                       /\ ValidSchema(PatchFields(EffectiveFields(t), patch))
    /\ Begin(r, "load",
             [Blank EXCEPT !.id = t, !.patch = patch, !.mapping = mapping,
                           !.seen = IF patch # Null THEN EffectiveFields(t) ELSE Nothing])

CheckDeviceTypePatch(r, t, patch) == CheckTypePatch(r, t, patch, Null)
CheckEndpointTypePatch(r, t, patch, mapping) == CheckTypePatch(r, t, patch, mapping)
CheckServiceTypePatch(r, t, patch, mapping) == CheckTypePatch(r, t, patch, mapping)

PatchedFields(base, patch) == IF patch # Null THEN PatchFields(base, patch) ELSE base

(* A sent mapping replaces the stored one; otherwise the roles of fields   *)
(* that the patch removes go.                                              *)
PatchedRoles(row, patch, mapping) ==
    IF mapping # Null THEN mapping
    ELSE RolesOfFields(row.mapping, PatchedFields(row.fields, patch))

PatchFits(r, roleTypes) ==
    LET t == arg[r].id
    IN  /\ types[t] # Null
        /\ RolesFit(PatchedFields(types[t].fields, arg[r].patch),
                    PatchedRoles(types[t], arg[r].patch, arg[r].mapping), roleTypes)

LoadType(r, kind, roleTypes) ==
    LET t == arg[r].id
    IN  /\ pc[r] = "load"
        /\ t \in kind
        /\ PatchFits(r, roleTypes)
        /\ pc' = [pc EXCEPT ![r] = "save"]
        /\ arg' = [arg EXCEPT ![r].base = types[t].fields,
                              ![r].mapping = PatchedRoles(types[t], arg[r].patch, arg[r].mapping)]
        /\ UNCHANGED <<types, inst, defaultPorts, undisturbed, loose>>

(* Mutant of LoadEndpointType: the mapping is stored as it was sent. *)
LoadUnchecked(r) ==
    LET t == arg[r].id
    IN  /\ pc[r] = "load"
        /\ t \in EndpointTypes
        /\ types[t] # Null
        /\ pc' = [pc EXCEPT ![r] = "save"]
        /\ arg' = [arg EXCEPT ![r].base = types[t].fields,
                              ![r].mapping = PatchedRoles(types[t], arg[r].patch, arg[r].mapping)]
        /\ UNCHANGED <<types, inst, defaultPorts, undisturbed, loose>>

LoadDeviceType(r) == LoadType(r, DeviceTypes, Nothing)
LoadEndpointType(r) == LoadType(r, EndpointTypes, EndpointRoles)
LoadServiceType(r) == LoadType(r, ServiceTypes, ServiceRoles)

RoleTypes(t) ==
    IF t \in EndpointTypes THEN EndpointRoles
    ELSE IF t \in ServiceTypes THEN ServiceRoles ELSE Nothing

(* 404, or 422 for a mapping that does not fit. *)
RefusePatch(r) ==
    /\ pc[r] = "load"
    /\ ~PatchFits(r, RoleTypes(arg[r].id))
    /\ Refuse(r)

(* UPDATE ... WHERE type_id: it writes nothing when the type is gone.      *)
(* Fields are written only if they were sent.                              *)
SaveType(r, kind) ==
    LET t == arg[r].id
        a == arg[r]
    IN  /\ pc[r] = "save"
        /\ t \in kind
        /\ types' = IF types[t] = Null THEN types
                    ELSE [types EXCEPT ![t] =
                            [fields |-> IF a.patch # Null THEN PatchFields(a.base, a.patch)
                                        ELSE types[t].fields,
                             mapping |-> a.mapping]]
        /\ loose' = IF types[t] # Null /\ a.patch = Null /\ types[t].fields # a.base
                    THEN loose \cup {t} ELSE loose \ {t}
        /\ undisturbed' = {}
        /\ End(r)
        /\ UNCHANGED <<inst, defaultPorts>>

SaveDeviceType(r) == SaveType(r, DeviceTypes)
SaveEndpointType(r) == SaveType(r, EndpointTypes)
SaveServiceType(r) == SaveType(r, ServiceTypes)

(* Rows go together with what refers to them ON DELETE CASCADE.            *)
OwnedBy(S) == {i \in Instances : inst[i] # Null /\ inst[i].owner \in S}

(* Mutant of Without: the rows of a row stay. *)
WithoutOnly(S) == [i \in Instances |-> IF i \in S THEN Null ELSE inst[i]]

Without(S) ==
    LET endpoints == OwnedBy(S)
        gone == S \cup endpoints \cup OwnedBy(endpoints)
    IN  [i \in Instances |-> IF i \in gone THEN Null ELSE inst[i]]

OfType(t) == {i \in Instances : inst[i] # Null /\ inst[i].type = t}

DropType(t, instances) ==
    /\ types[t] # Null
    /\ types' = [types EXCEPT ![t] = Null]
    /\ inst' = Without(instances)
    /\ undisturbed' = {}
    /\ loose' = loose \ {t}
    /\ UNCHANGED <<defaultPorts, pc, arg>>

(* The foreign key refuses a type in use. *)
DeleteDeviceType(t) ==
    /\ t # DefaultType
    /\ OfType(t) = {}
    /\ DropType(t, {})

DeleteEndpointType(t, cascade) ==
    /\ cascade \/ OfType(t) = {}
    /\ DropType(t, OfType(t))

DeleteServiceType(t, cascade) ==
    /\ cascade \/ OfType(t) = {}
    /\ DropType(t, OfType(t))

-----------------------------------------------------------------------------
(* Instances *)

(* The type is read and the data validated against it. *)
CheckNew(r, i, t, owner, data) ==
    /\ types[t] # Null
    /\ ValidInstance(data, EffectiveFields(t))
    /\ Begin(r, "insert", [Blank EXCEPT !.id = i, !.type = t, !.owner = owner, !.data = data])

NewRow(i) == inst[i] = Null /\ Unnamed(i)

(* A device has the identifier it is created with. *)
CreateDevice(r, d, t, data) == CheckNew(r, d, t, Null, data)

CreateEndpoint(r, e, t, d, data) ==
    /\ NewRow(e)
    /\ inst[d] # Null
    /\ CheckNew(r, e, t, d, data)

CreateService(r, s, t, e, data) ==
    /\ NewRow(s)
    /\ CheckNew(r, s, t, e, data)

(* What the foreign keys ask of a row. *)
RefersToRows(type, owner) ==
    /\ types[type] # Null
    /\ owner # Null => inst[owner] # Null

Insert(r) ==
    LET a == arg[r]
    IN  /\ pc[r] = "insert"
        /\ inst[a.id] = Null
        /\ RefersToRows(a.type, a.owner)
        /\ inst' = [inst EXCEPT ![a.id] = [type |-> a.type, owner |-> a.owner, data |-> a.data]]
        /\ undisturbed' = {}
        /\ End(r)
        /\ UNCHANGED <<types, defaultPorts, loose>>

RefuseInsert(r) ==
    /\ pc[r] = "insert"
    /\ inst[arg[r].id] # Null \/ ~RefersToRows(arg[r].type, arg[r].owner)
    /\ Refuse(r)

(* The instance and a type are read; the patched data is validated. *)
Load(r, i, t, patch) ==
    LET data == MergeData(inst[i].data, patch)
    IN  /\ types[t] # Null
        /\ ValidInstance(data, EffectiveFields(t))
        /\ Begin(r, "write",
                 [Blank EXCEPT !.id = i, !.type = IF t = inst[i].type THEN Null ELSE t,
                               !.data = data, !.named = DOMAIN patch])

(* Mutant of LoadDevice: the patch is validated on its own. *)
LoadAndTrust(r, d, patch) ==
    /\ inst[d] # Null
    /\ Begin(r, "write", [Blank EXCEPT !.id = d, !.data = MergeData(inst[d].data, patch),
                                       !.named = DOMAIN patch])

LoadDevice(r, d, patch) ==
    /\ inst[d] # Null
    /\ Load(r, d, inst[d].type, patch)

(* `changeable` binds a patch that keeps the type. *)
LoadEndpoint(r, e, t, patch) ==
    /\ inst[e] # Null
    /\ t = inst[e].type => KeepsFixedFields(inst[e].data, patch, types[t].fields)
    /\ Load(r, e, t, patch)

LoadService(r, s, patch) ==
    /\ inst[s] # Null
    /\ Load(r, s, inst[s].type, patch)

(* UPDATE ... WHERE id: all of the data, and on a retype the type. *)
Write(r, kind) ==
    LET a == arg[r]
    IN  /\ pc[r] = "write"
        /\ a.id \in kind
        /\ inst[a.id] # Null
        /\ a.type # Null => types[a.type] # Null
        /\ inst' = [inst EXCEPT ![a.id] =
                        [type |-> IF a.type # Null THEN a.type ELSE inst[a.id].type,
                         owner |-> inst[a.id].owner,
                         data |-> a.data]]
        /\ undisturbed' = {}
        /\ End(r)
        /\ UNCHANGED <<types, defaultPorts, loose>>

WriteDevice(r) == Write(r, Devices)
WriteEndpoint(r) == Write(r, Endpoints)
WriteService(r) == Write(r, Services)

(* The row, or the type it was to have, is gone. *)
MissWrite(r) ==
    /\ pc[r] = "write"
    /\ inst[arg[r].id] = Null \/ (arg[r].type # Null /\ types[arg[r].type] = Null)
    /\ Refuse(r)

Delete(i) ==
    /\ inst[i] # Null
    /\ inst' = Without({i})
    /\ undisturbed' = {}
    /\ UNCHANGED <<types, defaultPorts, pc, arg, loose>>

DeleteDevice(d) == Delete(d)
DeleteEndpoint(e) == Delete(e)
DeleteService(s) == Delete(s)

-----------------------------------------------------------------------------
CreateTypes ==
    \/ \E t \in DeviceTypes, f \in NewFields : CreateDeviceType(t, f)
    \/ \E t \in EndpointTypes, f \in NewFields, m \in Mappings : CreateEndpointType(t, f, m)
    \/ \E r \in Requests, t \in ServiceTypes, f \in NewFields, m \in Mappings :
        CreateServiceType(r, t, f, m)

DeleteTypes ==
    \/ \E t \in DeviceTypes : DeleteDeviceType(t)
    \/ \E t \in EndpointTypes, c \in BOOLEAN : DeleteEndpointType(t, c)
    \/ \E t \in ServiceTypes, c \in BOOLEAN : DeleteServiceType(t, c)

EditDefaultPorts == \E p \in ScanPorts : AddDefaultPort(p) \/ RemoveDefaultPort(p)

PatchTypes(r) ==
    \/ \E t \in DeviceTypes, f \in FieldPatches : CheckDeviceTypePatch(r, t, f)
    \/ \E t \in EndpointTypes, f \in FieldPatches \cup {Null}, m \in Mappings \cup {Null} :
        CheckEndpointTypePatch(r, t, f, m)
    \/ \E t \in ServiceTypes, f \in FieldPatches \cup {Null}, m \in Mappings \cup {Null} :
        CheckServiceTypePatch(r, t, f, m)
    \/ LoadDeviceType(r) \/ LoadEndpointType(r) \/ LoadServiceType(r)
    \/ RefusePatch(r)
    \/ SaveDeviceType(r) \/ SaveEndpointType(r) \/ SaveServiceType(r)

WriteInstances(r) ==
    \/ \E d \in Devices, t \in DeviceTypes, data \in NewData : CreateDevice(r, d, t, data)
    \/ \E e \in Endpoints, t \in EndpointTypes, d \in Devices, data \in NewData :
        CreateEndpoint(r, e, t, d, data)
    \/ \E s \in Services, t \in ServiceTypes, e \in Endpoints, data \in NewData :
        CreateService(r, s, t, e, data)
    \/ Insert(r) \/ RefuseInsert(r)
    \/ \E d \in Devices, p \in SentData : LoadDevice(r, d, p)
    \/ \E e \in Endpoints, t \in EndpointTypes, p \in SentData : LoadEndpoint(r, e, t, p)
    \/ \E s \in Services, p \in SentData : LoadService(r, s, p)
    \/ WriteDevice(r) \/ WriteEndpoint(r) \/ WriteService(r)
    \/ MissWrite(r)

DeleteInstances ==
    \/ \E d \in Devices : DeleteDevice(d)
    \/ \E e \in Endpoints : DeleteEndpoint(e)
    \/ \E s \in Services : DeleteService(s)

Next ==
    \/ CreateTypes
    \/ DeleteTypes
    \/ DeleteInstances
    \/ EditDefaultPorts
    \/ \E r \in Requests : PatchTypes(r) \/ WriteInstances(r) \/ SeedPort(r)

Spec == Init /\ [][Next]_vars

-----------------------------------------------------------------------------
(* Every row has the shape of its table, requests carry what their         *)
(* handlers hold, and a port that is scanned by default is an integer      *)
(* whatever type it was seeded from.                                       *)
Rows == [fields : Schemas, mapping : AllMappings]
Stages == {"idle", "seed", "load", "save", "insert", "write"}
InstanceRows == [type : Types, owner : Instances \cup {Null}, data : Data]

TypeOK ==
    /\ types \in [Types -> Rows \cup {Null}]
    /\ inst \in [Instances -> InstanceRows \cup {Null}]
    /\ defaultPorts \subseteq Admits["integer"]
    /\ pc \in [Requests -> Stages]
    /\ arg \in [Requests -> Args]
    /\ undisturbed \subseteq Requests
    /\ loose \subseteq Types

(* No deletion, cascade or late insert leaves an instance whose type or    *)
(* whose owner is gone, or of the wrong kind; the default type never goes. *)
RefersTo(i, kind, owners) ==
    /\ inst[i].type \in kind
    /\ types[inst[i].type] # Null
    /\ inst[i].owner \in owners
    /\ inst[i].owner # Null => inst[inst[i].owner] # Null

NothingDangles ==
    /\ types[DefaultType] # Null
    /\ \A d \in Devices : inst[d] # Null => RefersTo(d, DeviceTypes, {Null})
    /\ \A e \in Endpoints : inst[e] # Null => RefersTo(e, EndpointTypes, Devices)
    /\ \A s \in Services : inst[s] # Null => RefersTo(s, ServiceTypes, Endpoints)

(* However patches of a type overlap, every role points at a field of a    *)
(* fitting data type and at one only, unless roles were patched alone      *)
(* while another patch changed the fields; the next patch of the fields,   *)
(* overlapped or not, mends that.                                          *)
RolesOnFields ==
    \A t \in Types \ loose :
        types[t] # Null => RolesFit(types[t].fields, types[t].mapping, RoleTypes(t))

SameAt(f, g, k) ==
    /\ k \in DOMAIN f <=> k \in DOMAIN g
    /\ k \in DOMAIN f => f[k] = g[k]

(* A patch stores a definition that the response model accepts for every   *)
(* field it names, if the repository merges it into the definition that    *)
(* the route merged it into: what the route validated is what is stored.   *)
PatchedDefinitionsAreValid ==
    [][\A r \in Requests :
        LET t == arg[r].id
            a == arg[r]
        IN  pc[r] = "save" /\ pc'[r] = "idle" /\ a.patch # Null /\ types'[t] # Null =>
            \A k \in DOMAIN a.patch \cap DOMAIN types'[t].fields :
                SameAt(a.seen, a.base, k) => ValidDefinition(types'[t].fields[k])]_vars

(* A request that no other write overlaps leaves an instance whose data is *)
(* valid for its type as it is now, changes no value but those it names,   *)
(* and changes no value of an endpoint that its type fixes.                *)
FixedFields(i) ==
    IF i \in Endpoints
    THEN {k \in DOMAIN inst[i].data \cap DOMAIN types[inst[i].type].fields :
            types[inst[i].type].fields[k].changeable = FALSE}
    ELSE {}

UndisturbedWritesFit ==
    [][\A r \in undisturbed :
        LET i == arg[r].id
            mayChange == arg[r].named \ (IF arg[r].type = Null THEN FixedFields(i) ELSE {})
        IN  pc[r] \in {"insert", "write"} /\ pc'[r] = "idle" /\ inst'[i] # inst[i] =>
            /\ ValidInstance(inst'[i].data, EffectiveFields(inst'[i].type))
            /\ pc[r] = "write" => \A k \in FieldKeys \ mayChange :
                                    SameAt(inst[i].data, inst'[i].data, k)]_vars
=============================================================================
