-------------------------- MODULE InventoryProofs --------------------------
(***************************************************************************)
(* Proofs about Inventory: types and their instances have the shape of     *)
(* their tables, nothing dangles, roles stay on fields, patched            *)
(* definitions are valid, and writes that nobody overlaps fit.             *)
(***************************************************************************)
EXTENDS Inventory, TLAPS

-----------------------------------------------------------------------------
(* Partial functions, and what the operators of TypedFields return *)

LEMMA Partial ==
    ASSUME NEW S, NEW T, NEW D \in SUBSET S, NEW f \in [D -> T]
    PROVE  f \in PartialFunctions(S, T)
BY DEF PartialFunctions

LEMMA OfPartial ==
    ASSUME NEW S, NEW T, NEW f \in PartialFunctions(S, T)
    PROVE  /\ DOMAIN f \subseteq S
           /\ f \in [DOMAIN f -> T]
           /\ \A x \in DOMAIN f : f[x] \in T
BY DEF PartialFunctions

LEMMA NothingIsPartial ==
    ASSUME NEW S, NEW T
    PROVE  Nothing \in PartialFunctions(S, T)
<1>1. Nothing \in [{} -> T]
    BY DEF Nothing
<1>2. QED
    BY <1>1, Partial

LEMMA MergedTypeFields ==
    ASSUME NEW base \in Schemas, NEW own \in Schemas
    PROVE  MergeTypeFields(base, own) \in Schemas
<1> DEFINE D == DOMAIN base \cup DOMAIN own
<1>1. D \in SUBSET FieldKeys
    BY OfPartial DEF Schemas
<1>2. \A k \in D : (IF k \in DOMAIN own THEN own[k] ELSE base[k]) \in Definitions
    BY OfPartial DEF Schemas
<1>3. MergeTypeFields(base, own) \in [D -> Definitions]
    BY <1>2 DEF MergeTypeFields
<1>4. QED
    BY <1>1, <1>3, Partial DEF Schemas

LEMMA PatchedDefinition ==
    ASSUME NEW old \in Definitions, NEW new \in Definitions
    PROVE  PatchDefinition(old, new) \in Definitions
BY DEF PatchDefinition, Definitions, Limits, Updated

LEMMA UndefinedIsDefinition == Undefined \in Definitions
BY DEF Undefined, Definitions, Limits

LEMMA PatchedSchema ==
    ASSUME NEW fields \in Schemas, NEW patch \in AllFieldPatches
    PROVE  PatchFields(fields, patch) \in Schemas
<1> DEFINE D == (DOMAIN fields \cup DOMAIN patch) \ {x \in DOMAIN patch : patch[x] = Null}
<1>1. D \in SUBSET FieldKeys
    BY OfPartial DEF Schemas, AllFieldPatches
<1>2. ASSUME NEW k \in D
      PROVE  (IF k \notin DOMAIN patch THEN fields[k]
              ELSE PatchDefinition(IF k \in DOMAIN fields THEN fields[k] ELSE Undefined, patch[k]))
                \in Definitions
    <2>1. CASE k \notin DOMAIN patch
        BY <2>1, OfPartial DEF Schemas
    <2>2. CASE k \in DOMAIN patch
        <3>1. patch[k] \in Definitions
            <4>1. patch[k] \in Definitions \cup {Null}
                BY <2>2, OfPartial DEF AllFieldPatches
            <4>2. patch[k] # Null
                BY <1>2, <2>2
            <4>3. QED
                BY <4>1, <4>2
        <3>2. k \in DOMAIN fields => fields[k] \in Definitions
            BY OfPartial DEF Schemas
        <3>3. QED
            BY <2>2, <3>1, <3>2, PatchedDefinition, UndefinedIsDefinition
    <2>3. QED
        BY <2>1, <2>2
<1>3. PatchFields(fields, patch) \in [D -> Definitions]
    BY <1>2 DEF PatchFields
<1>4. QED
    BY <1>1, <1>3, Partial DEF Schemas

LEMMA MergedData ==
    ASSUME NEW data \in Data, NEW patch \in DataPatches
    PROVE  MergeData(data, patch) \in Data
<1> DEFINE D == (DOMAIN data \cup DOMAIN patch) \ {x \in DOMAIN patch : patch[x] = Null}
<1>1. D \in SUBSET FieldKeys
    BY OfPartial DEF Data, DataPatches
<1>2. \A k \in D : (IF k \in DOMAIN patch THEN patch[k] ELSE data[k]) \in DataValues
    BY OfPartial DEF Data, DataPatches
<1>3. MergeData(data, patch) \in [D -> DataValues]
    BY <1>2 DEF MergeData
<1>4. QED
    BY <1>1, <1>3, Partial DEF Data

LEMMA KeptRoles ==
    ASSUME NEW mapping \in AllMappings, NEW fields
    PROVE  RolesOfFields(mapping, fields) \in AllMappings
<1>1. DOMAIN mapping \cap DOMAIN fields \in SUBSET FieldKeys
    BY OfPartial DEF AllMappings
<1>2. RolesOfFields(mapping, fields) \in [DOMAIN mapping \cap DOMAIN fields -> Roles]
    BY OfPartial DEF AllMappings, RolesOfFields
<1>3. QED
    BY <1>1, <1>2, Partial DEF AllMappings

-----------------------------------------------------------------------------
(* Steps by what they do, whatever kind of row they do it to *)

(* The kinds of rows that refer to one another. *)
InKind(i, type, owner) ==
    \/ i \in Devices /\ type \in DeviceTypes /\ owner = Null
    \/ i \in Endpoints /\ type \in EndpointTypes /\ owner \in Devices
    \/ i \in Services /\ type \in ServiceTypes /\ owner \in Endpoints

Seeds(r, f, m) ==
    LET ports == PortDefaults(f, m)
    IN  /\ ports \subseteq Admits["integer"]
        /\ pc[r] = "idle"
        /\ pc' = [pc EXCEPT ![r] = IF ports = {} THEN "idle" ELSE "seed"]
        /\ arg' = [arg EXCEPT ![r] = [Blank EXCEPT !.ports = ports]]

AddsType ==
    \E t \in Types, f \in NewFields, m \in AllMappings :
        /\ RolesFit(f, m, RoleTypes(t))
        /\ AddType(t, f, m)
        /\ UNCHANGED <<pc, arg>> \/ \E r \in Requests : Seeds(r, f, m)

DropsType ==
    \E t \in Types \ {DefaultType}, S \in SUBSET Instances : OfType(t) \subseteq S /\ DropType(t, S)

Deletes == \E i \in Instances : Delete(i)

ChecksPatch(r) ==
    \E t \in Types, patch \in FieldPatches \cup {Null}, m \in Mappings \cup {Null} :
        CheckTypePatch(r, t, patch, m)

LoadsType(r) == LoadType(r, Types, RoleTypes(arg[r].id))

SavesType(r) == SaveType(r, Types)

ChecksNew(r) ==
    \E i \in Instances, t \in Types, owner \in Instances \cup {Null}, data \in NewData :
        InKind(i, t, owner) /\ CheckNew(r, i, t, owner, data)

(* A patch that keeps the type of an endpoint keeps what the type fixes. *)
Loads(r) ==
    \E i \in Instances, t \in Types, patch \in SentData :
        /\ inst[i] # Null
        /\ t = inst[i].type \/ (i \in Endpoints /\ t \in EndpointTypes)
        /\ i \in Endpoints /\ t = inst[i].type => KeepsFixedFields(inst[i].data, patch, types[t].fields)
        /\ Load(r, i, t, patch)

Writes(r) == Write(r, Instances)

StepOf(r) ==
    \/ ChecksPatch(r) \/ LoadsType(r) \/ RefusePatch(r) \/ SavesType(r)
    \/ ChecksNew(r) \/ Insert(r) \/ RefuseInsert(r)
    \/ Loads(r) \/ Writes(r) \/ MissWrite(r)

LEMMA RoleTypesOfKinds ==
    /\ \A t \in DeviceTypes : RoleTypes(t) = Nothing
    /\ \A t \in EndpointTypes : RoleTypes(t) = EndpointRoles
    /\ \A t \in ServiceTypes : RoleTypes(t) = ServiceRoles
BY InventoryValues DEF RoleTypes

LEMMA NoRoles ==
    ASSUME NEW fields
    PROVE  RolesFit(fields, Nothing, Nothing)
BY DEF RolesFit, Nothing

LEMMA PortsAreIntegers ==
    ASSUME NEW f \in Schemas, NEW m \in AllMappings, ValidSchema(f), RolesFit(f, m, ServiceRoles)
    PROVE  PortDefaults(f, m) \subseteq Admits["integer"]
<1> SUFFICES ASSUME NEW k \in DOMAIN m, m[k] = "port", f[k].default # Null
             PROVE  f[k].default \in Admits["integer"]
    BY DEF PortDefaults
<1>1. k \in DOMAIN f /\ f[k].type = "integer"
    BY DEF RolesFit, ServiceRoles
<1>2. ValidDefinition(f[k])
    BY <1>1 DEF ValidSchema
<1>3. "integer" # Null
    BY FieldValues
<1>4. QED
    BY <1>1, <1>2, <1>3 DEF ValidDefinition, ValidValue

LEMMA CreateSteps ==
    ASSUME CreateTypes
    PROVE  AddsType
<1>1. ASSUME NEW t \in DeviceTypes, NEW f \in NewFields, CreateDeviceType(t, f)
      PROVE  AddsType
    <2>1. Nothing \in AllMappings
        BY NothingIsPartial DEF AllMappings
    <2>2. RolesFit(f, Nothing, RoleTypes(t))
        BY RoleTypesOfKinds, NoRoles
    <2>3. QED
        BY <1>1, <2>1, <2>2 DEF CreateDeviceType, AddsType, Types
<1>2. ASSUME NEW t \in EndpointTypes, NEW f \in NewFields, NEW m \in Mappings,
             CreateEndpointType(t, f, m)
      PROVE  AddsType
    BY <1>2, RoleTypesOfKinds, InventoryValues DEF CreateEndpointType, AddsType, Types
<1>3. ASSUME NEW r \in Requests, NEW t \in ServiceTypes, NEW f \in NewFields,
             NEW m \in Mappings, CreateServiceType(r, t, f, m)
      PROVE  AddsType
    <2>1. f \in Schemas /\ m \in AllMappings /\ t \in Types
        BY InventoryValues DEF Types
    <2>2. PortDefaults(f, m) \subseteq Admits["integer"]
        BY <1>3, <2>1, PortsAreIntegers DEF CreateServiceType
    <2>3. Seeds(r, f, m)
        BY <1>3, <2>2 DEF CreateServiceType, Seeds
    <2>4. QED
        BY <1>3, <2>1, <2>3, RoleTypesOfKinds DEF CreateServiceType, AddsType
<1>4. QED
    BY <1>1, <1>2, <1>3 DEF CreateTypes

LEMMA DeleteTypeSteps ==
    ASSUME DeleteTypes
    PROVE  DropsType
<1>1. \A t : OfType(t) \subseteq Instances
    BY DEF OfType
<1>2. ASSUME NEW t \in DeviceTypes, DeleteDeviceType(t)
      PROVE  DropsType
    <2>1. t \in Types \ {DefaultType} /\ {} \in SUBSET Instances /\ OfType(t) \subseteq {}
        BY <1>2 DEF DeleteDeviceType, Types
    <2>2. QED
        BY <1>2, <2>1 DEF DeleteDeviceType, DropsType
<1>3. ASSUME NEW t \in EndpointTypes, NEW c \in BOOLEAN, DeleteEndpointType(t, c)
      PROVE  DropsType
    BY <1>1, <1>3, InventoryValues DEF DeleteEndpointType, DropsType, Types
<1>4. ASSUME NEW t \in ServiceTypes, NEW c \in BOOLEAN, DeleteServiceType(t, c)
      PROVE  DropsType
    BY <1>1, <1>4, InventoryValues DEF DeleteServiceType, DropsType, Types
<1>5. QED
    BY <1>2, <1>3, <1>4 DEF DeleteTypes

LEMMA PatchTypeSteps ==
    ASSUME NEW r \in Requests, PatchTypes(r)
    PROVE  StepOf(r)
<1>1. ASSUME \/ \E t \in DeviceTypes, f \in FieldPatches : CheckDeviceTypePatch(r, t, f)
             \/ \E t \in EndpointTypes, f \in FieldPatches \cup {Null}, m \in Mappings \cup {Null} :
                    CheckEndpointTypePatch(r, t, f, m)
             \/ \E t \in ServiceTypes, f \in FieldPatches \cup {Null}, m \in Mappings \cup {Null} :
                    CheckServiceTypePatch(r, t, f, m)
      PROVE  ChecksPatch(r)
    BY <1>1 DEF CheckDeviceTypePatch, CheckEndpointTypePatch, CheckServiceTypePatch,
                ChecksPatch, Types
<1>2. ASSUME LoadDeviceType(r) \/ LoadEndpointType(r) \/ LoadServiceType(r)
      PROVE  LoadsType(r)
    <2>1. CASE LoadDeviceType(r)
        <3>1. arg[r].id \in DeviceTypes
            BY <2>1 DEF LoadDeviceType, LoadType
        <3>2. RoleTypes(arg[r].id) = Nothing
            BY <3>1, RoleTypesOfKinds
        <3>3. QED
            BY <2>1, <3>1, <3>2 DEF LoadDeviceType, LoadType, LoadsType, Types
    <2>2. CASE LoadEndpointType(r)
        <3>1. arg[r].id \in EndpointTypes
            BY <2>2 DEF LoadEndpointType, LoadType
        <3>2. RoleTypes(arg[r].id) = EndpointRoles
            BY <3>1, RoleTypesOfKinds
        <3>3. QED
            BY <2>2, <3>1, <3>2 DEF LoadEndpointType, LoadType, LoadsType, Types
    <2>3. CASE LoadServiceType(r)
        <3>1. arg[r].id \in ServiceTypes
            BY <2>3 DEF LoadServiceType, LoadType
        <3>2. RoleTypes(arg[r].id) = ServiceRoles
            BY <3>1, RoleTypesOfKinds
        <3>3. QED
            BY <2>3, <3>1, <3>2 DEF LoadServiceType, LoadType, LoadsType, Types
    <2>4. QED
        BY <1>2, <2>1, <2>2, <2>3
<1>3. ASSUME SaveDeviceType(r) \/ SaveEndpointType(r) \/ SaveServiceType(r)
      PROVE  SavesType(r)
    BY <1>3 DEF SaveDeviceType, SaveEndpointType, SaveServiceType, SaveType, SavesType, Types
<1>4. QED
    BY <1>1, <1>2, <1>3 DEF PatchTypes, StepOf

LEMMA InstanceSteps ==
    ASSUME TypeOK, NEW r \in Requests, WriteInstances(r)
    PROVE  StepOf(r)
<1>1. ASSUME NEW d \in Devices, NEW t \in DeviceTypes, NEW data \in NewData,
             CreateDevice(r, d, t, data)
      PROVE  ChecksNew(r)
    BY <1>1 DEF CreateDevice, ChecksNew, InKind, Instances, Types
<1>2. ASSUME NEW e \in Endpoints, NEW t \in EndpointTypes, NEW d \in Devices, NEW data \in NewData,
             CreateEndpoint(r, e, t, d, data)
      PROVE  ChecksNew(r)
    BY <1>2 DEF CreateEndpoint, ChecksNew, InKind, Instances, Types
<1>3. ASSUME NEW s \in Services, NEW t \in ServiceTypes, NEW e \in Endpoints, NEW data \in NewData,
             CreateService(r, s, t, e, data)
      PROVE  ChecksNew(r)
    BY <1>3 DEF CreateService, ChecksNew, InKind, Instances, Types
<1>4. \A i \in Instances : inst[i] # Null => inst[i].type \in Types
    BY DEF TypeOK, InstanceRows
<1>5. ASSUME NEW d \in Devices, NEW patch \in SentData, LoadDevice(r, d, patch)
      PROVE  Loads(r)
    <2>1. d \in Instances /\ d \notin Endpoints /\ inst[d] # Null
        BY <1>5, InventoryValues DEF LoadDevice, Instances
    <2>2. QED
        BY <1>4, <1>5, <2>1 DEF LoadDevice, Loads
<1>6. ASSUME NEW e \in Endpoints, NEW t \in EndpointTypes, NEW patch \in SentData,
             LoadEndpoint(r, e, t, patch)
      PROVE  Loads(r)
    <2>1. e \in Instances /\ t \in Types
        BY DEF Instances, Types
    <2>2. QED
        BY <1>6, <2>1 DEF LoadEndpoint, Loads
<1>7. ASSUME NEW s \in Services, NEW patch \in SentData, LoadService(r, s, patch)
      PROVE  Loads(r)
    <2>1. s \in Instances /\ s \notin Endpoints /\ inst[s] # Null
        BY <1>7, InventoryValues DEF LoadService, Instances
    <2>2. QED
        BY <1>4, <1>7, <2>1 DEF LoadService, Loads
<1>8. ASSUME WriteDevice(r) \/ WriteEndpoint(r) \/ WriteService(r)
      PROVE  Writes(r)
    BY <1>8 DEF WriteDevice, WriteEndpoint, WriteService, Write, Writes, Instances
<1>9. QED
    BY <1>1, <1>2, <1>3, <1>5, <1>6, <1>7, <1>8 DEF WriteInstances, StepOf

LEMMA Steps ==
    ASSUME TypeOK, Next
    PROVE  AddsType \/ DropsType \/ Deletes \/ EditDefaultPorts
              \/ \E r \in Requests : StepOf(r) \/ SeedPort(r)
<1>1. DeleteInstances => Deletes
    BY DEF DeleteInstances, DeleteDevice, DeleteEndpoint, DeleteService, Deletes, Instances
<1>2. QED
    BY <1>1, CreateSteps, DeleteTypeSteps, PatchTypeSteps, InstanceSteps DEF Next

-----------------------------------------------------------------------------
(* The inductive invariant *)

(* The database's keys: rows refer to rows of the right kinds.             *)
Rooted ==
    /\ types[DefaultType] # Null
    /\ \A i \in Instances : inst[i] # Null =>
        /\ InKind(i, inst[i].type, inst[i].owner)
        /\ types[inst[i].type] # Null
        /\ inst[i].owner # Null => inst[inst[i].owner] # Null

(* What a suspended request names, and what it has validated.              *)
Held(r) ==
    /\ pc[r] \in {"load", "save"} =>
        /\ arg[r].id \in Types
        /\ arg[r].patch # Null => ValidSchema(PatchFields(arg[r].seen, arg[r].patch))
    /\ pc[r] = "save" =>
        /\ arg[r].mapping \in AllMappings
        /\ RolesFit(PatchedFields(arg[r].base, arg[r].patch), arg[r].mapping,
                    RoleTypes(arg[r].id))
    /\ pc[r] = "insert" => InKind(arg[r].id, arg[r].type, arg[r].owner)
    /\ pc[r] = "write" =>
        /\ arg[r].id \in Instances
        /\ arg[r].type # Null => arg[r].id \in Endpoints /\ arg[r].type \in EndpointTypes

HeldInv == \A r \in Requests : Held(r)

IInv == TypeOK /\ Rooted /\ HeldInv /\ RolesOnFields

-----------------------------------------------------------------------------
(* Types *)

LEMMA Steps0 ==
    /\ Blank \in Args
    /\ Nothing \in Schemas /\ Nothing \in Data /\ Nothing \in AllMappings
<1>1. Nothing \in Schemas /\ Nothing \in Data /\ Nothing \in AllMappings
    BY NothingIsPartial DEF Schemas, Data, AllMappings
<1>2. QED
    BY <1>1 DEF Blank, Args

LEMMA EffectiveSchema ==
    ASSUME TypeOK, types[DefaultType] # Null, NEW t \in Types, types[t] # Null
    PROVE  EffectiveFields(t) \in Schemas
<1>1. DefaultType \in Types
    BY InventoryValues DEF Types
<1>2. types[t] \in Rows /\ types[DefaultType] \in Rows
    BY <1>1 DEF TypeOK
<1>3. types[t].fields \in Schemas /\ types[DefaultType].fields \in Schemas
    BY <1>2 DEF Rows
<1>4. QED
    BY <1>3, MergedTypeFields DEF EffectiveFields

LEMMA BeginType ==
    ASSUME TypeOK, NEW r \in Requests, NEW a \in Args,
           NEW step \in {"load", "insert", "write"}, Begin(r, step, a)
    PROVE  TypeOK'
BY DEF TypeOK, Begin, Stages

LEMMA EndType ==
    ASSUME TypeOK, NEW r \in Requests, End(r)
    PROVE  /\ pc' \in [Requests -> Stages]
           /\ arg' \in [Requests -> Args]
BY Steps0 DEF TypeOK, End, Stages

LEMMA RefuseType ==
    ASSUME TypeOK, NEW r \in Requests, Refuse(r)
    PROVE  TypeOK'
BY EndType DEF TypeOK, Refuse

LEMMA AddsTypeType ==
    ASSUME TypeOK, AddsType
    PROVE  TypeOK'
<1>1. PICK t \in Types, f \in NewFields, m \in AllMappings :
            /\ AddType(t, f, m)
            /\ UNCHANGED <<pc, arg>> \/ \E r \in Requests : Seeds(r, f, m)
    BY DEF AddsType
<1>2. [fields |-> f, mapping |-> m] \in Rows
    BY InventoryValues DEF Rows
<1>3. types' \in [Types -> Rows \cup {Null}]
    BY <1>1, <1>2 DEF AddType, TypeOK
<1>4. pc' \in [Requests -> Stages] /\ arg' \in [Requests -> Args]
    <2>1. CASE UNCHANGED <<pc, arg>>
        BY <2>1 DEF TypeOK
    <2>2. ASSUME NEW r \in Requests, Seeds(r, f, m)
          PROVE  pc' \in [Requests -> Stages] /\ arg' \in [Requests -> Args]
        <3>1. [Blank EXCEPT !.ports = PortDefaults(f, m)] \in Args
            BY <2>2, Steps0 DEF Seeds, Blank, Args
        <3>2. QED
            BY <2>2, <3>1 DEF Seeds, TypeOK, Stages
    <2>3. QED
        BY <1>1, <2>1, <2>2
<1>5. QED
    BY <1>1, <1>3, <1>4 DEF AddType, TypeOK

LEMMA WithoutType ==
    ASSUME inst \in [Instances -> InstanceRows \cup {Null}], NEW S
    PROVE  Without(S) \in [Instances -> InstanceRows \cup {Null}]
BY DEF Without

LEMMA DropsTypeType ==
    ASSUME TypeOK, DropsType
    PROVE  TypeOK'
<1>1. PICK t \in Types, S \in SUBSET Instances : DropType(t, S)
    BY DEF DropsType
<1>2. QED
    BY <1>1, WithoutType DEF DropType, TypeOK

LEMMA DeletesType ==
    ASSUME TypeOK, Deletes
    PROVE  TypeOK'
BY WithoutType DEF Deletes, Delete, TypeOK

LEMMA ChecksPatchType ==
    ASSUME TypeOK, Rooted, NEW r \in Requests, ChecksPatch(r)
    PROVE  TypeOK'
<1>1. PICK t \in Types, patch \in FieldPatches \cup {Null}, m \in Mappings \cup {Null} :
            CheckTypePatch(r, t, patch, m)
    BY DEF ChecksPatch
<1>2. (IF patch # Null THEN EffectiveFields(t) ELSE Nothing) \in Schemas
    BY <1>1, EffectiveSchema, Steps0 DEF CheckTypePatch, Rooted
<1>3. patch \in AllFieldPatches \cup {Null} /\ m \in AllMappings \cup {Null}
    BY InventoryValues
<1>4. [Blank EXCEPT !.id = t, !.patch = patch, !.mapping = m,
                    !.seen = IF patch # Null THEN EffectiveFields(t) ELSE Nothing] \in Args
    BY <1>2, <1>3, Steps0 DEF Blank, Args
<1>5. QED
    BY <1>1, <1>4, BeginType DEF CheckTypePatch

LEMMA RolesToStore ==
    ASSUME NEW row \in Rows, NEW patch, NEW mapping \in AllMappings \cup {Null}
    PROVE  PatchedRoles(row, patch, mapping) \in AllMappings
BY KeptRoles DEF PatchedRoles, Rows

LEMMA LoadsTypeType ==
    ASSUME TypeOK, NEW r \in Requests, LoadsType(r)
    PROVE  /\ TypeOK'
           /\ arg'[r].mapping \in AllMappings
<1> DEFINE t == arg[r].id
           m == PatchedRoles(types[t], arg[r].patch, arg[r].mapping)
<1>1. t \in Types /\ types[t] # Null /\ arg[r] \in Args
    BY DEF LoadsType, LoadType, PatchFits, TypeOK
<1>2. types[t] \in Rows
    BY <1>1 DEF TypeOK
<1>3. types[t].fields \in Schemas /\ m \in AllMappings
    <2>1. arg[r].mapping \in AllMappings \cup {Null}
        BY <1>1 DEF Args
    <2>2. QED
        BY <1>2, <2>1, RolesToStore DEF Rows
<1>4. arg' = [arg EXCEPT ![r].base = types[t].fields, ![r].mapping = m]
    BY DEF LoadsType, LoadType
<1>5. [arg[r] EXCEPT !.base = types[t].fields, !.mapping = m] \in Args
    BY <1>1, <1>3 DEF Args
<1>6. arg' \in [Requests -> Args] /\ arg'[r].mapping \in AllMappings
    BY <1>3, <1>4, <1>5, <1>1 DEF TypeOK, Args
<1>7. QED
    BY <1>6 DEF LoadsType, LoadType, TypeOK, Stages

(* What an UPDATE writes to the row of a type, if there is one. *)
SavedRow(a) ==
    [fields |-> IF a.patch # Null THEN PatchFields(a.base, a.patch) ELSE types[a.id].fields,
     mapping |-> a.mapping]

LEMMA SavesRow ==
    ASSUME TypeOK, HeldInv, NEW r \in Requests, SavesType(r)
    PROVE  /\ arg[r].id \in Types
           /\ types[arg[r].id] = Null => types' = types
           /\ types[arg[r].id] # Null =>
                SavedRow(arg[r]) \in Rows /\ types' = [types EXCEPT ![arg[r].id] = SavedRow(arg[r])]
<1> DEFINE t == arg[r].id
<1>1. t \in Types /\ arg[r] \in Args /\ arg[r].mapping \in AllMappings
    BY DEF SavesType, SaveType, TypeOK, HeldInv, Held
<1>2. arg[r].patch \in AllFieldPatches \cup {Null} /\ arg[r].base \in Schemas
    BY <1>1 DEF Args
<1>3. types[t] # Null => types[t].fields \in Schemas
    BY <1>1 DEF TypeOK, Rows
<1>4. types[t] # Null => SavedRow(arg[r]) \in Rows
    BY <1>1, <1>2, <1>3, PatchedSchema DEF Rows, SavedRow
<1>5. QED
    BY <1>1, <1>4 DEF SavesType, SaveType, SavedRow

LEMMA SavesTypeType ==
    ASSUME TypeOK, HeldInv, NEW r \in Requests, SavesType(r)
    PROVE  TypeOK'
<1>1. types' \in [Types -> Rows \cup {Null}]
    BY SavesRow DEF TypeOK
<1>2. loose' \subseteq Types /\ undisturbed' \subseteq Requests
    BY SavesRow DEF SavesType, SaveType, TypeOK
<1>3. QED
    BY <1>1, <1>2, EndType DEF SavesType, SaveType, TypeOK

LEMMA ChecksNewType ==
    ASSUME TypeOK, NEW r \in Requests, ChecksNew(r)
    PROVE  TypeOK'
<1>1. PICK i \in Instances, t \in Types, owner \in Instances \cup {Null}, data \in NewData :
            CheckNew(r, i, t, owner, data)
    BY DEF ChecksNew
<1>2. data \in Data
    BY InventoryValues
<1>3. [Blank EXCEPT !.id = i, !.type = t, !.owner = owner, !.data = data] \in Args
    BY <1>2, Steps0 DEF Blank, Args
<1>4. QED
    BY <1>1, <1>3, BeginType DEF CheckNew

LEMMA InsertType ==
    ASSUME TypeOK, HeldInv, NEW r \in Requests, Insert(r)
    PROVE  TypeOK'
<1> DEFINE a == arg[r]
<1>1. a \in Args /\ InKind(a.id, a.type, a.owner)
    BY DEF Insert, TypeOK, HeldInv, Held
<1>2. a.id \in Instances /\ a.type \in Types /\ a.owner \in Instances \cup {Null}
    BY <1>1 DEF InKind, Instances, Types
<1>3. [type |-> a.type, owner |-> a.owner, data |-> a.data] \in InstanceRows
    BY <1>1, <1>2 DEF Args, InstanceRows
<1>4. inst' \in [Instances -> InstanceRows \cup {Null}]
    BY <1>2, <1>3 DEF Insert, TypeOK
<1>5. QED
    BY <1>4, EndType DEF Insert, TypeOK

LEMMA LoadsInstanceType ==
    ASSUME TypeOK, NEW r \in Requests, Loads(r)
    PROVE  TypeOK'
<1>1. PICK i \in Instances, t \in Types, patch \in SentData :
            inst[i] # Null /\ Load(r, i, t, patch)
    BY DEF Loads
<1>2. inst[i].data \in Data /\ patch \in DataPatches
    BY <1>1, InventoryValues DEF TypeOK, InstanceRows
<1>3. MergeData(inst[i].data, patch) \in Data /\ DOMAIN patch \in SUBSET FieldKeys
    BY <1>2, MergedData, OfPartial DEF DataPatches
<1>4. [Blank EXCEPT !.id = i, !.type = IF t = inst[i].type THEN Null ELSE t,
                    !.data = MergeData(inst[i].data, patch), !.named = DOMAIN patch] \in Args
    BY <1>3, Steps0 DEF Blank, Args
<1>5. QED
    BY <1>1, <1>4, BeginType DEF Load

LEMMA WritesType ==
    ASSUME TypeOK, NEW r \in Requests, Writes(r)
    PROVE  TypeOK'
<1> DEFINE a == arg[r]
           row == [type |-> IF a.type # Null THEN a.type ELSE inst[a.id].type,
                   owner |-> inst[a.id].owner, data |-> a.data]
<1>1. a \in Args /\ a.id \in Instances /\ inst[a.id] # Null
    BY DEF Writes, Write, TypeOK
<1>2. inst[a.id] \in InstanceRows
    BY <1>1 DEF TypeOK
<1>3. row \in InstanceRows
    BY <1>1, <1>2 DEF Args, InstanceRows
<1>4. inst' \in [Instances -> InstanceRows \cup {Null}]
    BY <1>1, <1>3 DEF Writes, Write, TypeOK
<1>5. QED
    BY <1>4, EndType DEF Writes, Write, TypeOK

LEMMA PortsType ==
    ASSUME TypeOK, EditDefaultPorts \/ \E r \in Requests : SeedPort(r)
    PROVE  TypeOK'
<1>1. CASE EditDefaultPorts
    BY <1>1, InventoryValues
       DEF EditDefaultPorts, AddDefaultPort, RemoveDefaultPort, SetDefaultPorts, TypeOK
<1>2. ASSUME NEW r \in Requests, SeedPort(r)
      PROVE  TypeOK'
    <2>1. arg[r].ports \subseteq Admits["integer"]
        BY DEF TypeOK, Args
    <2>2. QED
        BY <1>2, <2>1, EndType DEF SeedPort, TypeOK
<1>3. QED
    BY <1>1, <1>2

LEMMA StepType ==
    ASSUME TypeOK, Rooted, HeldInv, Next
    PROVE  TypeOK'
<1>1. ASSUME NEW r \in Requests, StepOf(r)
      PROVE  TypeOK'
    <2>1. RefusePatch(r) \/ RefuseInsert(r) \/ MissWrite(r) => TypeOK'
        BY RefuseType DEF RefusePatch, RefuseInsert, MissWrite
    <2>2. QED
        BY <1>1, <2>1, ChecksPatchType, LoadsTypeType, SavesTypeType, ChecksNewType, InsertType,
           LoadsInstanceType, WritesType DEF StepOf
<1>2. QED
    BY <1>1, Steps, AddsTypeType, DropsTypeType, DeletesType, PortsType

-----------------------------------------------------------------------------
(* Rows refer to rows *)

LEMMA NotNull ==
    /\ \A row \in Rows : row # Null
    /\ \A row \in InstanceRows : row # Null
    /\ Null \notin Types /\ Null \notin Instances /\ DefaultType \in Types
BY RowsAreNotNull, InventoryValues DEF Rows, InstanceRows, Types

(* What a step that writes no instance and loses no type leaves rooted.    *)
LEMMA TypesKept ==
    ASSUME TypeOK, Rooted, inst' = inst, \A t \in Types : types[t] # Null => types'[t] # Null
    PROVE  Rooted'
<1>1. \A i \in Instances : inst[i] # Null => inst[i].type \in Types
    BY DEF TypeOK, InstanceRows
<1>2. types'[DefaultType] # Null
    BY NotNull DEF Rooted
<1>3. QED
    BY <1>1, <1>2 DEF Rooted

(* Two cascades remove all that refers to a row that is removed, because   *)
(* what refers to rows is a service, or an endpoint that refers to a       *)
(* device, and a device refers to none.                                    *)
LEMMA CascadeIsComplete ==
    ASSUME TypeOK, Rooted, NEW S \in SUBSET Instances, NEW i \in Instances, Without(S)[i] # Null
    PROVE  /\ Without(S)[i] = inst[i]
           /\ i \notin S
           /\ inst[i].owner # Null => Without(S)[inst[i].owner] # Null
<1> DEFINE first == OwnedBy(S)
           second == OwnedBy(first)
           gone == S \cup first \cup second
           o == inst[i].owner
<1>1. \A x \in Instances : Without(S)[x] = IF x \in gone THEN Null ELSE inst[x]
    BY DEF Without
<1>2. i \notin gone /\ Without(S)[i] = inst[i]
    BY <1>1
<1>3. ASSUME o # Null
      PROVE  Without(S)[o] # Null
    <2>1. inst[i] \in InstanceRows /\ inst[i] # Null
        BY <1>2 DEF TypeOK
    <2>2. o \in Instances /\ inst[o] # Null
        BY <1>3, <2>1 DEF Rooted, InstanceRows
    <2>3. o \notin S
        BY <1>2, <2>1 DEF OwnedBy
    <2>4. o \notin first
        BY <1>2, <2>1 DEF OwnedBy
    <2>5. o \notin second
        <3>1. SUFFICES ASSUME o \in second
                       PROVE  FALSE
            OBVIOUS
        <3>2. inst[o].owner \in first /\ inst[o].owner \in Instances
            BY <3>1 DEF OwnedBy
        <3>3. inst[inst[o].owner] # Null /\ inst[inst[o].owner].owner \in S
            BY <3>2 DEF OwnedBy
        <3>4. InKind(i, inst[i].type, o)
            BY <2>1 DEF Rooted
        <3>5. InKind(o, inst[o].type, inst[o].owner)
            BY <2>2 DEF Rooted
        <3>6. inst[o].owner \in Devices
            BY <3>2, <3>4, <3>5, <1>3, NotNull, InventoryValues DEF InKind
        <3>7. InKind(inst[o].owner, inst[inst[o].owner].type, inst[inst[o].owner].owner)
            BY <3>2, <3>3 DEF Rooted
        <3>8. inst[inst[o].owner].owner = Null
            BY <3>6, <3>7, InventoryValues DEF InKind
        <3>9. QED
            BY <3>3, <3>8, NotNull
    <2>6. QED
        BY <1>1, <2>2, <2>3, <2>4, <2>5
<1>4. QED
    BY <1>2, <1>3

LEMMA AddsTypeRooted ==
    ASSUME TypeOK, Rooted, AddsType
    PROVE  Rooted'
<1>1. PICK t \in Types, f \in NewFields, m \in AllMappings : AddType(t, f, m)
    BY DEF AddsType
<1>2. [fields |-> f, mapping |-> m] # Null
    BY NotNull, InventoryValues DEF Rows
<1>3. \A x \in Types : types[x] # Null => types'[x] # Null
    BY <1>1, <1>2 DEF AddType, TypeOK
<1>4. QED
    BY <1>1, <1>3, TypesKept DEF AddType

LEMMA SavesTypeRooted ==
    ASSUME TypeOK, Rooted, HeldInv, NEW r \in Requests, SavesType(r)
    PROVE  Rooted'
<1>1. \A x \in Types : types[x] # Null => types'[x] # Null
    BY SavesRow, NotNull DEF TypeOK
<1>2. QED
    BY <1>1, TypesKept DEF SavesType, SaveType

LEMMA DropsTypeRooted ==
    ASSUME TypeOK, Rooted, DropsType
    PROVE  Rooted'
<1>1. PICK t \in Types \ {DefaultType}, S \in SUBSET Instances :
            OfType(t) \subseteq S /\ DropType(t, S)
    BY DEF DropsType
<1>2. inst' = Without(S) /\ types' = [types EXCEPT ![t] = Null]
    BY <1>1 DEF DropType
<1>3. types'[DefaultType] # Null
    BY <1>1, <1>2, NotNull DEF TypeOK, Rooted
<1>4. ASSUME NEW i \in Instances, inst'[i] # Null
      PROVE  /\ InKind(i, inst'[i].type, inst'[i].owner)
             /\ types'[inst'[i].type] # Null
             /\ inst'[i].owner # Null => inst'[inst'[i].owner] # Null
    <2>1. inst'[i] = inst[i] /\ i \notin S
          /\ (inst[i].owner # Null => inst'[inst[i].owner] # Null)
        BY <1>2, <1>4, CascadeIsComplete
    <2>2. inst[i] # Null /\ inst[i].type # t
        BY <1>1, <1>4, <2>1 DEF OfType
    <2>3. inst[i].type \in Types
        BY <2>2 DEF TypeOK, InstanceRows
    <2>4. QED
        BY <1>2, <2>1, <2>2, <2>3 DEF Rooted, TypeOK
<1>5. QED
    BY <1>3, <1>4 DEF Rooted

LEMMA DeletesRooted ==
    ASSUME TypeOK, Rooted, Deletes
    PROVE  Rooted'
<1>1. PICK i \in Instances : Delete(i)
    BY DEF Deletes
<1>2. inst' = Without({i}) /\ types' = types
    BY <1>1 DEF Delete
<1>3. ASSUME NEW j \in Instances, inst'[j] # Null
      PROVE  inst'[j] = inst[j] /\ (inst[j].owner # Null => inst'[inst[j].owner] # Null)
    BY <1>2, <1>3, CascadeIsComplete
<1>4. QED
    BY <1>2, <1>3 DEF Rooted

LEMMA InsertRooted ==
    ASSUME TypeOK, Rooted, HeldInv, NEW r \in Requests, Insert(r)
    PROVE  Rooted'
<1> DEFINE a == arg[r]
           row == [type |-> a.type, owner |-> a.owner, data |-> a.data]
<1>1. InKind(a.id, a.type, a.owner) /\ types[a.type] # Null
      /\ (a.owner # Null => inst[a.owner] # Null) /\ inst[a.id] = Null
    BY DEF Insert, HeldInv, Held, RefersToRows
<1>2. a.id \in Instances
    BY <1>1 DEF InKind, Instances
<1>3. inst' = [inst EXCEPT ![a.id] = row] /\ types' = types
    BY DEF Insert
<1>4. row # Null
    <2>1. row \in InstanceRows
        BY <1>1 DEF InstanceRows, InKind, Instances, Types, TypeOK, Args
    <2>2. QED
        BY <2>1, NotNull
<1>5. inst'[a.id] = row /\ \A i \in Instances \ {a.id} : inst'[i] = inst[i]
    BY <1>2, <1>3 DEF TypeOK
<1>6. \A i \in Instances : inst[i] # Null => inst'[i] # Null
    BY <1>4, <1>5
<1>7. \A i \in Instances : inst[i] # Null => inst[i].owner \in Instances \cup {Null}
    BY DEF TypeOK, InstanceRows
<1>8. a.owner \in Instances \cup {Null}
    BY <1>1 DEF InKind, Instances
<1>9. ASSUME NEW i \in Instances, inst'[i] # Null
      PROVE  /\ InKind(i, inst'[i].type, inst'[i].owner)
             /\ types'[inst'[i].type] # Null
             /\ inst'[i].owner # Null => inst'[inst'[i].owner] # Null
    <2>1. CASE i = a.id
        BY <1>1, <1>3, <1>5, <1>6, <1>8, <2>1
    <2>2. CASE i # a.id
        BY <1>3, <1>5, <1>6, <1>7, <1>9, <2>2 DEF Rooted
    <2>3. QED
        BY <2>1, <2>2
<1>10. QED
    BY <1>3, <1>9 DEF Rooted

LEMMA WritesRooted ==
    ASSUME TypeOK, TypeOK', Rooted, HeldInv, NEW r \in Requests, Writes(r)
    PROVE  Rooted'
<1> DEFINE a == arg[r]
           type == IF a.type # Null THEN a.type ELSE inst[a.id].type
           row == [type |-> type, owner |-> inst[a.id].owner, data |-> a.data]
<1>1. a.id \in Instances /\ inst[a.id] # Null
    BY DEF Writes, Write
<1>2. inst' = [inst EXCEPT ![a.id] = row] /\ types' = types
    BY DEF Writes, Write
<1>3. inst'[a.id] = row /\ \A i \in Instances \ {a.id} : inst'[i] = inst[i]
    BY <1>1, <1>2 DEF TypeOK
<1>4. InKind(a.id, inst[a.id].type, inst[a.id].owner) /\ types[inst[a.id].type] # Null
    BY <1>1 DEF Rooted
<1>5. InKind(a.id, type, inst[a.id].owner) /\ types[type] # Null
    <2>1. CASE a.type = Null
        BY <1>4, <2>1
    <2>2. CASE a.type # Null
        <3>1. a.id \in Endpoints /\ a.type \in EndpointTypes /\ types[a.type] # Null
            BY <2>2 DEF HeldInv, Held, Writes, Write
        <3>2. inst[a.id].owner \in Devices
            BY <1>4, <3>1, InventoryValues DEF InKind
        <3>3. QED
            BY <2>2, <3>1, <3>2 DEF InKind
    <2>3. QED
        BY <2>1, <2>2
<1>6. row # Null
    <2>1. inst'[a.id] \in InstanceRows \cup {Null}
        BY <1>1 DEF TypeOK
    <2>2. inst[a.id] \in InstanceRows /\ a \in Args
        BY <1>1 DEF TypeOK
    <2>3. row \in InstanceRows
        BY <2>2 DEF InstanceRows, Args
    <2>4. QED
        BY <2>3, NotNull
<1>7. \A i \in Instances : inst[i] # Null => inst'[i] # Null
    BY <1>3, <1>6
<1>8. \A i \in Instances : inst[i] # Null => inst[i].owner \in Instances \cup {Null}
    BY DEF TypeOK, InstanceRows
<1>9. ASSUME NEW i \in Instances, inst'[i] # Null
      PROVE  /\ InKind(i, inst'[i].type, inst'[i].owner)
             /\ types'[inst'[i].type] # Null
             /\ inst'[i].owner # Null => inst'[inst'[i].owner] # Null
    <2>1. CASE i = a.id
        BY <1>1, <1>2, <1>3, <1>5, <1>7, <1>8, <2>1 DEF Rooted
    <2>2. CASE i # a.id
        BY <1>2, <1>3, <1>7, <1>8, <1>9, <2>2 DEF Rooted
    <2>3. QED
        BY <2>1, <2>2
<1>10. QED
    BY <1>2, <1>9 DEF Rooted

LEMMA StepRooted ==
    ASSUME TypeOK, TypeOK', Rooted, HeldInv, Next
    PROVE  Rooted'
<1>1. ASSUME NEW r \in Requests, StepOf(r) \/ SeedPort(r)
      PROVE  Rooted'
    <2>1. CASE SavesType(r) \/ Insert(r) \/ Writes(r)
        BY <2>1, SavesTypeRooted, InsertRooted, WritesRooted
    <2>2. CASE ~(SavesType(r) \/ Insert(r) \/ Writes(r))
        <3>1. UNCHANGED <<types, inst>>
            BY <1>1, <2>2 DEF StepOf, ChecksPatch, CheckTypePatch, LoadsType, LoadType, RefusePatch,
                ChecksNew, CheckNew, RefuseInsert, Loads, Load, MissWrite, Begin, Refuse, SeedPort
        <3>2. QED
            BY <3>1, TypesKept
    <2>3. QED
        BY <2>1, <2>2
<1>2. ASSUME EditDefaultPorts
      PROVE  Rooted'
    BY <1>2, TypesKept DEF EditDefaultPorts, AddDefaultPort, RemoveDefaultPort, SetDefaultPorts
<1>3. QED
    BY <1>1, <1>2, Steps, AddsTypeRooted, DropsTypeRooted, DeletesRooted

-----------------------------------------------------------------------------
(* What suspended requests hold *)

(* A request is idle, or seeds, or another request has stepped.            *)
LEMMA HeldByOthers ==
    ASSUME NEW r, Held(r), (pc'[r] = pc[r] /\ arg'[r] = arg[r]) \/ pc'[r] \in {"idle", "seed"}
    PROVE  Held(r)'
BY DEF Held

LEMMA BeginHeld ==
    ASSUME TypeOK, HeldInv, NEW r \in Requests, NEW step, NEW a, Begin(r, step, a), Held(r)'
    PROVE  HeldInv'
<1>1. \A q \in Requests \ {r} : pc'[q] = pc[q] /\ arg'[q] = arg[q]
    BY DEF Begin, TypeOK
<1>2. QED
    BY <1>1, HeldByOthers DEF HeldInv

LEMMA EndHeld ==
    ASSUME TypeOK, HeldInv, NEW r \in Requests, End(r)
    PROVE  HeldInv'
<1>1. \A q \in Requests \ {r} : pc'[q] = pc[q] /\ arg'[q] = arg[q]
    BY DEF End, TypeOK
<1>2. pc'[r] = "idle"
    BY DEF End, TypeOK
<1>3. QED
    BY <1>1, <1>2, HeldByOthers DEF HeldInv

LEMMA KeptHeld ==
    ASSUME HeldInv, UNCHANGED <<pc, arg>>
    PROVE  HeldInv'
BY HeldByOthers DEF HeldInv

LEMMA AddsTypeHeld ==
    ASSUME TypeOK, HeldInv, AddsType
    PROVE  HeldInv'
<1>1. ASSUME NEW f, NEW m, NEW r \in Requests, Seeds(r, f, m)
      PROVE  HeldInv'
    <2>1. \A q \in Requests \ {r} : pc'[q] = pc[q] /\ arg'[q] = arg[q]
        BY <1>1 DEF Seeds, TypeOK
    <2>2. pc'[r] \in {"idle", "seed"}
        BY <1>1 DEF Seeds, TypeOK
    <2>3. QED
        BY <2>1, <2>2, HeldByOthers DEF HeldInv
<1>2. QED
    BY <1>1, KeptHeld DEF AddsType

LEMMA ChecksPatchHeld ==
    ASSUME TypeOK, HeldInv, NEW r \in Requests, ChecksPatch(r)
    PROVE  HeldInv'
<1>1. PICK t \in Types, patch \in FieldPatches \cup {Null}, m \in Mappings \cup {Null} :
            CheckTypePatch(r, t, patch, m)
    BY DEF ChecksPatch
<1> DEFINE seen == IF patch # Null THEN EffectiveFields(t) ELSE Nothing
           a == [Blank EXCEPT !.id = t, !.patch = patch, !.mapping = m, !.seen = seen]
<1>2. Begin(r, "load", a)
    BY <1>1 DEF CheckTypePatch
<1>3. pc'[r] = "load" /\ arg'[r] = a
    BY <1>2 DEF Begin, TypeOK
<1>4. a.id = t /\ a.patch = patch /\ a.seen = seen
    BY DEF Blank
<1>5. patch # Null => ValidSchema(PatchFields(seen, patch))
    BY <1>1 DEF CheckTypePatch
<1>6. Held(r)'
    BY <1>3, <1>4, <1>5 DEF Held
<1>7. QED
    BY <1>2, <1>6, BeginHeld

LEMMA LoadsTypeHeld ==
    ASSUME TypeOK, HeldInv, NEW r \in Requests, LoadsType(r)
    PROVE  HeldInv'
<1> DEFINE a == arg[r]
           m == PatchedRoles(types[a.id], a.patch, a.mapping)
<1>1. pc[r] = "load" /\ PatchFits(r, RoleTypes(a.id))
      /\ pc' = [pc EXCEPT ![r] = "save"]
      /\ arg' = [arg EXCEPT ![r].base = types[a.id].fields, ![r].mapping = m]
    BY DEF LoadsType, LoadType
<1>2. \A q \in Requests \ {r} : pc'[q] = pc[q] /\ arg'[q] = arg[q]
    BY <1>1 DEF TypeOK
<1>3. a \in Args
    BY DEF TypeOK
<1>4. arg'[r].base = types[a.id].fields /\ arg'[r].mapping = m
      /\ arg'[r].id = a.id /\ arg'[r].patch = a.patch /\ arg'[r].seen = a.seen /\ pc'[r] = "save"
    BY <1>1, <1>3 DEF TypeOK, Args
<1>5. RolesFit(PatchedFields(types[a.id].fields, a.patch), m, RoleTypes(a.id))
    BY <1>1 DEF PatchFits
<1>6. arg'[r].mapping \in AllMappings
    BY LoadsTypeType
<1>7. a.id \in Types /\ (a.patch # Null => ValidSchema(PatchFields(a.seen, a.patch)))
    BY <1>1 DEF HeldInv, Held
<1>8. Held(r)'
    BY <1>4, <1>5, <1>6, <1>7 DEF Held, RoleTypes
<1>9. QED
    BY <1>2, <1>8, HeldByOthers DEF HeldInv

LEMMA ChecksNewHeld ==
    ASSUME TypeOK, HeldInv, NEW r \in Requests, ChecksNew(r)
    PROVE  HeldInv'
<1>1. PICK i \in Instances, t \in Types, owner \in Instances \cup {Null}, data \in NewData :
            InKind(i, t, owner) /\ CheckNew(r, i, t, owner, data)
    BY DEF ChecksNew
<1> DEFINE a == [Blank EXCEPT !.id = i, !.type = t, !.owner = owner, !.data = data]
<1>2. Begin(r, "insert", a)
    BY <1>1 DEF CheckNew
<1>3. pc'[r] = "insert" /\ arg'[r] = a
    BY <1>2 DEF Begin, TypeOK
<1>4. a.id = i /\ a.type = t /\ a.owner = owner
    BY DEF Blank
<1>5. Held(r)'
    BY <1>1, <1>3, <1>4 DEF Held, InKind
<1>6. QED
    BY <1>2, <1>5, BeginHeld

LEMMA LoadsHeld ==
    ASSUME TypeOK, HeldInv, NEW r \in Requests, Loads(r)
    PROVE  HeldInv'
<1>1. PICK i \in Instances, t \in Types, patch \in SentData :
        /\ t = inst[i].type \/ (i \in Endpoints /\ t \in EndpointTypes)
        /\ Load(r, i, t, patch)
    BY DEF Loads
<1> DEFINE a == [Blank EXCEPT !.id = i, !.type = IF t = inst[i].type THEN Null ELSE t,
                              !.data = MergeData(inst[i].data, patch), !.named = DOMAIN patch]
<1>2. Begin(r, "write", a)
    BY <1>1 DEF Load
<1>3. pc'[r] = "write" /\ arg'[r] = a
    BY <1>2 DEF Begin, TypeOK
<1>4. a.id = i /\ a.type = IF t = inst[i].type THEN Null ELSE t
    BY DEF Blank
<1>5. Held(r)'
    BY <1>1, <1>3, <1>4 DEF Held
<1>6. QED
    BY <1>2, <1>5, BeginHeld

LEMMA StepHeld ==
    ASSUME TypeOK, HeldInv, Next
    PROVE  HeldInv'
<1>1. ASSUME NEW r \in Requests, StepOf(r) \/ SeedPort(r)
      PROVE  HeldInv'
    <2>1. CASE ChecksPatch(r) \/ LoadsType(r) \/ ChecksNew(r) \/ Loads(r)
        BY <2>1, ChecksPatchHeld, LoadsTypeHeld, ChecksNewHeld, LoadsHeld
    <2>2. CASE ~(ChecksPatch(r) \/ LoadsType(r) \/ ChecksNew(r) \/ Loads(r))
        <3>1. End(r)
            BY <1>1, <2>2 DEF StepOf, RefusePatch, SavesType, SaveType, Insert, RefuseInsert,
                              Writes, Write, MissWrite, Refuse, SeedPort
        <3>2. QED
            BY <3>1, EndHeld
    <2>3. QED
        BY <2>1, <2>2
<1>2. ASSUME DropsType \/ Deletes \/ EditDefaultPorts
      PROVE  HeldInv'
    BY <1>2, KeptHeld DEF DropsType, DropType, Deletes, Delete, EditDefaultPorts, AddDefaultPort,
                          RemoveDefaultPort, SetDefaultPorts
<1>3. QED
    BY <1>1, <1>2, Steps, AddsTypeHeld

-----------------------------------------------------------------------------
(* Roles stay on fields *)

LEMMA KeptRolesFit ==
    ASSUME RolesOnFields, UNCHANGED <<types, loose>>
    PROVE  RolesOnFields'
BY DEF RolesOnFields, RoleTypes

LEMMA AddsTypeRoles ==
    ASSUME TypeOK, RolesOnFields, AddsType
    PROVE  RolesOnFields'
<1>1. PICK t \in Types, f \in NewFields, m \in AllMappings :
            RolesFit(f, m, RoleTypes(t)) /\ AddType(t, f, m)
    BY DEF AddsType
<1>2. types' = [types EXCEPT ![t] = [fields |-> f, mapping |-> m]] /\ loose' = loose \ {t}
    BY <1>1 DEF AddType
<1>3. ASSUME NEW x \in Types \ loose', types'[x] # Null
      PROVE  RolesFit(types'[x].fields, types'[x].mapping, RoleTypes(x))
    <2>1. CASE x = t
        BY <1>1, <1>2, <2>1 DEF TypeOK
    <2>2. CASE x # t
        BY <1>2, <1>3, <2>2 DEF TypeOK, RolesOnFields
    <2>3. QED
        BY <2>1, <2>2
<1>4. QED
    BY <1>3 DEF RolesOnFields, RoleTypes

LEMMA DropsTypeRoles ==
    ASSUME TypeOK, RolesOnFields, DropsType
    PROVE  RolesOnFields'
<1>1. PICK t \in Types : types' = [types EXCEPT ![t] = Null] /\ loose' = loose \ {t}
    BY DEF DropsType, DropType
<1>2. ASSUME NEW x \in Types \ loose', types'[x] # Null
      PROVE  RolesFit(types'[x].fields, types'[x].mapping, RoleTypes(x))
    <2>1. x # t /\ types'[x] = types[x]
        BY <1>1, <1>2 DEF TypeOK
    <2>2. QED
        BY <1>1, <1>2, <2>1 DEF RolesOnFields
<1>3. QED
    BY <1>2 DEF RolesOnFields, RoleTypes

(* Fields that were sent are stored with the roles that fit them; roles    *)
(* alone fit the fields they were validated against, and the type is       *)
(* loose when these are no longer the stored ones.                         *)
LEMMA SavesTypeRoles ==
    ASSUME TypeOK, HeldInv, RolesOnFields, NEW r \in Requests, SavesType(r)
    PROVE  RolesOnFields'
<1> DEFINE a == arg[r]
           t == arg[r].id
<1>1. t \in Types /\ (types[t] = Null => types' = types)
      /\ (types[t] # Null => types' = [types EXCEPT ![t] = SavedRow(a)])
    BY SavesRow
<1>2. RolesFit(PatchedFields(a.base, a.patch), a.mapping, RoleTypes(t))
    BY DEF HeldInv, Held, SavesType, SaveType
<1>3. loose' = IF types[t] # Null /\ a.patch = Null /\ types[t].fields # a.base
               THEN loose \cup {t} ELSE loose \ {t}
    BY DEF SavesType, SaveType
<1>4. ASSUME NEW x \in Types \ loose', types'[x] # Null
      PROVE  RolesFit(types'[x].fields, types'[x].mapping, RoleTypes(x))
    <2>1. CASE x = t
        <3>1. types[t] # Null /\ types'[t] = SavedRow(a)
            BY <1>1, <1>4, <2>1 DEF TypeOK
        <3>2. SavedRow(a).mapping = a.mapping
              /\ SavedRow(a).fields = PatchedFields(a.base, a.patch)
            BY <1>3, <1>4, <2>1, <3>1 DEF SavedRow, PatchedFields
        <3>3. QED
            BY <1>2, <2>1, <3>1, <3>2
    <2>2. CASE x # t
        BY <1>1, <1>3, <1>4, <2>2 DEF TypeOK, RolesOnFields
    <2>3. QED
        BY <2>1, <2>2
<1>5. QED
    BY <1>4 DEF RolesOnFields, RoleTypes

LEMMA StepRoles ==
    ASSUME TypeOK, HeldInv, RolesOnFields, Next
    PROVE  RolesOnFields'
<1>1. ASSUME NEW r \in Requests, StepOf(r) \/ SeedPort(r)
      PROVE  RolesOnFields'
    <2>1. CASE SavesType(r)
        BY <2>1, SavesTypeRoles
    <2>2. CASE ~SavesType(r)
        <3>1. UNCHANGED <<types, loose>>
            BY <1>1, <2>2 DEF StepOf, ChecksPatch, CheckTypePatch, LoadsType, LoadType, RefusePatch,
                ChecksNew, CheckNew, Insert, RefuseInsert, Loads, Load, Writes, Write, MissWrite,
                Begin, Refuse, SeedPort
        <3>2. QED
            BY <3>1, KeptRolesFit
    <2>3. QED
        BY <2>1, <2>2
<1>2. ASSUME Deletes \/ EditDefaultPorts
      PROVE  RolesOnFields'
    BY <1>2, KeptRolesFit DEF Deletes, Delete, EditDefaultPorts, AddDefaultPort, RemoveDefaultPort,
                              SetDefaultPorts
<1>3. QED
    BY <1>1, <1>2, Steps, AddsTypeRoles, DropsTypeRoles

-----------------------------------------------------------------------------
(* Requests that nobody else's write overlaps *)

(* What an undisturbed request has read and validated still holds.         *)
FreshAt(a, step) ==
    LET t == IF a.type = Null THEN inst[a.id].type ELSE a.type
        mayChange == a.named \ (IF a.type = Null THEN FixedFields(a.id) ELSE {})
    IN  /\ step = "insert" => ValidInstance(a.data, EffectiveFields(a.type))
        /\ step = "write" =>
            /\ ValidInstance(a.data, EffectiveFields(t))
            /\ \A k \in FieldKeys \ mayChange : SameAt(inst[a.id].data, a.data, k)

Fresh(r) == FreshAt(arg[r], pc[r])

FreshInv == \A r \in undisturbed : Fresh(r)

LEMMA FreshIsKept ==
    ASSUME UNCHANGED <<types, inst>>, NEW a, NEW step, FreshAt(a, step),
           NEW r, arg'[r] = a, pc'[r] = step
    PROVE  Fresh(r)'
BY DEF Fresh, FreshAt, EffectiveFields, FixedFields

LEMMA FreshByOthers ==
    ASSUME UNCHANGED <<types, inst>>, NEW r, Fresh(r),
           (pc'[r] = pc[r] /\ arg'[r] = arg[r]) \/ pc'[r] \notin {"insert", "write"}
    PROVE  Fresh(r)'
<1>1. CASE pc'[r] = pc[r] /\ arg'[r] = arg[r]
    BY <1>1, FreshIsKept DEF Fresh
<1>2. CASE pc'[r] \notin {"insert", "write"}
    BY <1>2 DEF Fresh, FreshAt
<1>3. QED
    BY <1>1, <1>2

LEMMA BeginFresh ==
    ASSUME TypeOK, FreshInv, NEW r \in Requests, NEW step, NEW a, Begin(r, step, a), Fresh(r)'
    PROVE  FreshInv'
<1>1. \A q \in Requests \ {r} : pc'[q] = pc[q] /\ arg'[q] = arg[q]
    BY DEF Begin, TypeOK
<1>2. UNCHANGED <<types, inst>> /\ undisturbed' \subseteq Requests
      /\ undisturbed' = undisturbed \cup {r}
    BY DEF Begin, TypeOK
<1>3. ASSUME NEW q \in undisturbed', q # r
      PROVE  Fresh(q)'
    BY <1>1, <1>2, <1>3, FreshByOthers DEF FreshInv
<1>4. QED
    BY <1>3 DEF FreshInv

LEMMA KeptFresh ==
    ASSUME TypeOK, FreshInv, UNCHANGED <<types, inst>>, undisturbed' \subseteq undisturbed,
           \A q \in Requests : (pc'[q] = pc[q] /\ arg'[q] = arg[q]) \/ pc'[q] \notin {"insert", "write"}
    PROVE  FreshInv'
<1>1. ASSUME NEW q \in undisturbed'
      PROVE  Fresh(q)'
    <2>1. q \in undisturbed /\ q \in Requests
        BY DEF TypeOK
    <2>2. QED
        BY <2>1, FreshByOthers DEF FreshInv
<1>2. QED
    BY <1>1 DEF FreshInv

LEMMA EndFresh ==
    ASSUME TypeOK, FreshInv, NEW r \in Requests, End(r), UNCHANGED <<types, inst>>,
           undisturbed' \subseteq undisturbed
    PROVE  FreshInv'
<1>1. \A q \in Requests : (pc'[q] = pc[q] /\ arg'[q] = arg[q]) \/ pc'[q] \notin {"insert", "write"}
    BY DEF End, TypeOK
<1>2. QED
    BY <1>1, KeptFresh

LEMMA ChecksPatchFresh ==
    ASSUME TypeOK, FreshInv, NEW r \in Requests, ChecksPatch(r)
    PROVE  FreshInv'
<1>1. PICK a : Begin(r, "load", a)
    BY DEF ChecksPatch, CheckTypePatch
<1>2. Fresh(r)'
    <2>1. pc'[r] = "load"
        BY <1>1 DEF Begin, TypeOK
    <2>2. QED
        BY <2>1 DEF Fresh, FreshAt
<1>3. QED
    BY <1>1, <1>2, BeginFresh

LEMMA ChecksNewFresh ==
    ASSUME TypeOK, FreshInv, NEW r \in Requests, ChecksNew(r)
    PROVE  FreshInv'
<1>1. PICK i \in Instances, t \in Types, owner \in Instances \cup {Null}, data \in NewData :
            CheckNew(r, i, t, owner, data)
    BY DEF ChecksNew
<1> DEFINE a == [Blank EXCEPT !.id = i, !.type = t, !.owner = owner, !.data = data]
<1>2. Begin(r, "insert", a) /\ ValidInstance(data, EffectiveFields(t))
    BY <1>1 DEF CheckNew
<1>3. pc'[r] = "insert" /\ arg'[r] = a /\ types' = types
    BY <1>2 DEF Begin, TypeOK
<1>4. a.type = t /\ a.data = data
    BY DEF Blank
<1>5. FreshAt(a, "insert") /\ UNCHANGED <<types, inst>>
    BY <1>2, <1>4 DEF FreshAt, Begin
<1>6. Fresh(r)'
    BY <1>3, <1>5, FreshIsKept
<1>7. QED
    BY <1>2, <1>6, BeginFresh

(* A patch changes no field but those it names, and none that is fixed.    *)
LEMMA MergedElsewhere ==
    ASSUME NEW data \in Data, NEW patch \in DataPatches, NEW k \in FieldKeys,
           k \in DOMAIN patch => k \in DOMAIN data /\ patch[k] = data[k]
    PROVE  SameAt(data, MergeData(data, patch), k)
<1>1. k \in DOMAIN data => data[k] \in DataValues /\ data[k] # Null
    BY OfPartial, FieldValues DEF Data
<1>2. k \in DOMAIN data <=> k \in DOMAIN MergeData(data, patch)
    BY <1>1 DEF MergeData
<1>3. k \in DOMAIN data => MergeData(data, patch)[k] = data[k]
    BY <1>1 DEF MergeData
<1>4. QED
    BY <1>2, <1>3 DEF SameAt

LEMMA LoadsFresh ==
    ASSUME TypeOK, FreshInv, NEW r \in Requests, Loads(r)
    PROVE  FreshInv'
<1>1. PICK i \in Instances, t \in Types, patch \in SentData :
        /\ inst[i] # Null
        /\ i \in Endpoints /\ t = inst[i].type => KeepsFixedFields(inst[i].data, patch, types[t].fields)
        /\ Load(r, i, t, patch)
    BY DEF Loads
<1> DEFINE data == MergeData(inst[i].data, patch)
           type == IF t = inst[i].type THEN Null ELSE t
           a == [Blank EXCEPT !.id = i, !.type = type, !.data = data, !.named = DOMAIN patch]
           mayChange == DOMAIN patch \ (IF type = Null THEN FixedFields(i) ELSE {})
<1>2. Begin(r, "write", a) /\ ValidInstance(data, EffectiveFields(t))
    BY <1>1 DEF Load
<1>3. pc'[r] = "write" /\ arg'[r] = a /\ types' = types /\ inst' = inst
    BY <1>2 DEF Begin, TypeOK
<1>4. a.id = i /\ a.type = type /\ a.data = data /\ a.named = DOMAIN patch
    BY DEF Blank
<1>5. t # Null
    BY NotNull
<1>6. t = IF type = Null THEN inst[i].type ELSE type
    BY <1>5
<1>7. inst[i].data \in Data /\ patch \in DataPatches
    BY <1>1, InventoryValues DEF TypeOK, InstanceRows
<1>8. ASSUME NEW k \in FieldKeys \ mayChange
      PROVE  SameAt(inst[i].data, data, k)
    <2>1. ASSUME k \in DOMAIN patch
          PROVE  k \in DOMAIN inst[i].data /\ patch[k] = inst[i].data[k]
        <3>1. type = Null /\ k \in FixedFields(i)
            BY <1>8, <2>1
        <3>2. t = inst[i].type
            BY <1>5, <3>1
        <3>3. /\ i \in Endpoints /\ k \in DOMAIN inst[i].data /\ k \in DOMAIN types[t].fields
              /\ types[t].fields[k].changeable = FALSE
            BY <3>1, <3>2 DEF FixedFields
        <3>4. QED
            BY <1>1, <2>1, <3>2, <3>3 DEF KeepsFixedFields
    <2>2. QED
        BY <1>7, <2>1, MergedElsewhere
<1>9. FreshAt(a, "write")
    BY <1>2, <1>4, <1>6, <1>8 DEF FreshAt
<1>10. Fresh(r)'
    BY <1>3, <1>9, FreshIsKept
<1>11. QED
    BY <1>2, <1>10, BeginFresh

LEMMA StepFresh ==
    ASSUME TypeOK, FreshInv, Next
    PROVE  FreshInv'
<1>1. ASSUME undisturbed' = {}
      PROVE  FreshInv'
    BY <1>1 DEF FreshInv
<1>2. ASSUME NEW r \in Requests, StepOf(r) \/ SeedPort(r)
      PROVE  FreshInv'
    <2>1. CASE ChecksPatch(r) \/ ChecksNew(r) \/ Loads(r)
        BY <2>1, ChecksPatchFresh, ChecksNewFresh, LoadsFresh
    <2>2. CASE LoadsType(r)
        <3>1. UNCHANGED <<types, inst, undisturbed>>
              /\ \A q \in Requests : (pc'[q] = pc[q] /\ arg'[q] = arg[q]) \/ pc'[q] \notin {"insert", "write"}
            BY <2>2 DEF LoadsType, LoadType, TypeOK
        <3>2. QED
            BY <3>1, KeptFresh
    <2>3. CASE RefusePatch(r) \/ RefuseInsert(r) \/ MissWrite(r) \/ SeedPort(r)
        <3>1. End(r) /\ UNCHANGED <<types, inst>> /\ undisturbed' \subseteq undisturbed
            BY <2>3 DEF RefusePatch, RefuseInsert, MissWrite, Refuse, SeedPort
        <3>2. QED
            BY <3>1, EndFresh
    <2>4. CASE SavesType(r) \/ Insert(r) \/ Writes(r)
        BY <1>1, <2>4 DEF SavesType, SaveType, Insert, Writes, Write
    <2>5. QED
        BY <1>2, <2>1, <2>2, <2>3, <2>4 DEF StepOf
<1>3. ASSUME AddsType \/ DropsType \/ Deletes
      PROVE  FreshInv'
    BY <1>1, <1>3 DEF AddsType, AddType, DropsType, DropType, Deletes, Delete
<1>4. ASSUME EditDefaultPorts
      PROVE  FreshInv'
    BY <1>4, KeptFresh
       DEF EditDefaultPorts, AddDefaultPort, RemoveDefaultPort, SetDefaultPorts
<1>5. QED
    BY <1>2, <1>3, <1>4, Steps

-----------------------------------------------------------------------------
(* The theorems *)

AllInv == IInv /\ FreshInv

LEMMA InitInv == Init => AllInv
<1> SUFFICES ASSUME Init
             PROVE  AllInv
    OBVIOUS
<1>1. DefaultFields \in Schemas /\ DefaultType \in Types /\ DefaultType \notin EndpointTypes \cup ServiceTypes
    BY InventoryValues, NotNull
<1> DEFINE row == [fields |-> DefaultFields, mapping |-> Nothing]
<1>2. row \in Rows
    BY <1>1, Steps0 DEF Rows
<1>3. types = [t \in Types |-> IF t = DefaultType THEN row ELSE Null] /\ loose = {}
    BY DEF Init
<1>4. TypeOK
    BY <1>2, Steps0 DEF Init, TypeOK, Stages
<1>5. Rooted
    BY <1>1, <1>2, <1>3, NotNull DEF Init, Rooted
<1>6. HeldInv
    BY DEF Init, HeldInv, Held
<1>7. RolesOnFields
    <2>1. RoleTypes(DefaultType) = Nothing
        BY RoleTypesOfKinds, InventoryValues
    <2>2. RolesFit(DefaultFields, Nothing, Nothing)
        BY NoRoles
    <2>3. QED
        BY <1>3, <2>1, <2>2 DEF RolesOnFields
<1>8. FreshInv
    BY DEF Init, FreshInv
<1>9. QED
    BY <1>4, <1>5, <1>6, <1>7, <1>8 DEF AllInv, IInv

LEMMA StepInv ==
    ASSUME AllInv, [Next]_vars
    PROVE  AllInv'
<1>1. CASE Next
    BY <1>1, StepType, StepRooted, StepHeld, StepRoles, StepFresh DEF AllInv, IInv
<1>2. CASE UNCHANGED vars
    <2>1. TypeOK'
        BY <1>2 DEF AllInv, IInv, TypeOK, vars
    <2>2. Rooted'
        BY <1>2 DEF AllInv, IInv, Rooted, vars
    <2>3. HeldInv'
        BY <1>2, KeptHeld DEF AllInv, IInv, vars
    <2>4. RolesOnFields'
        BY <1>2, KeptRolesFit DEF AllInv, IInv, vars
    <2>5. FreshInv'
        BY <1>2, KeptFresh DEF AllInv, IInv, vars
    <2>6. QED
        BY <2>1, <2>2, <2>3, <2>4, <2>5 DEF AllInv, IInv
<1>3. QED
    BY <1>1, <1>2

LEMMA Invariance == Spec => []AllInv
<1>1. AllInv /\ [Next]_vars => AllInv'
    BY StepInv
<1>2. QED
    BY InitInv, <1>1, PTL DEF Spec

(* Whatever clients send and however requests overlap, the tables and what *)
(* the handlers hold have their shapes, and what is seeded is an integer.  *)
THEOREM TypeCorrect == Spec => []TypeOK
<1>1. AllInv => TypeOK
    BY DEF AllInv, IInv
<1>2. QED
    BY Invariance, <1>1, PTL

(* No creation, retype, deletion or cascade leaves a row without its type  *)
(* or its owner, however late the request that writes it.                  *)
THEOREM RowsReferToRows == Spec => []NothingDangles
<1>1. ASSUME AllInv
      PROVE  NothingDangles
    <2>1. TypeOK /\ Rooted
        BY <1>1 DEF AllInv, IInv
    <2>2. ASSUME NEW i \in Instances, inst[i] # Null
          PROVE  /\ InKind(i, inst[i].type, inst[i].owner)
                 /\ types[inst[i].type] # Null
                 /\ inst[i].owner # Null => inst[inst[i].owner] # Null
        BY <2>1, <2>2 DEF Rooted
    <2>3. \A d \in Devices : inst[d] # Null => RefersTo(d, DeviceTypes, {Null})
        BY <2>2, InventoryValues DEF InKind, RefersTo, Instances
    <2>4. \A e \in Endpoints : inst[e] # Null => RefersTo(e, EndpointTypes, Devices)
        BY <2>2, InventoryValues DEF InKind, RefersTo, Instances
    <2>5. \A s \in Services : inst[s] # Null => RefersTo(s, ServiceTypes, Endpoints)
        BY <2>2, InventoryValues DEF InKind, RefersTo, Instances
    <2>6. QED
        BY <2>1, <2>3, <2>4, <2>5 DEF NothingDangles, Rooted
<1>2. QED
    BY Invariance, <1>1, PTL

(* Roles stay on fields of their data types, whatever overlaps, but for    *)
(* types that are loose.                                                   *)
THEOREM RolesStayOnFields == Spec => []RolesOnFields
<1>1. AllInv => RolesOnFields
    BY DEF AllInv, IInv
<1>2. QED
    BY Invariance, <1>1, PTL

(* Which steps end a request that was about to write. *)
LEMMA OwnStep ==
    ASSUME TypeOK, Next, NEW r \in Requests, pc[r] \in {"save", "insert", "write"}, pc'[r] = "idle"
    PROVE  SavesType(r) \/ Insert(r) \/ Writes(r) \/ (pc[r] # "save" /\ Refuse(r))
<1>1. pc[r] # "idle" /\ pc[r] # "seed" /\ pc[r] # "load"
    OBVIOUS
<1>2. ~(DropsType \/ Deletes \/ EditDefaultPorts)
    BY <1>1 DEF DropsType, DropType, Deletes, Delete, EditDefaultPorts, AddDefaultPort,
                RemoveDefaultPort, SetDefaultPorts
<1>3. ~AddsType
    <2>1. ASSUME NEW q \in Requests, NEW f, NEW m, Seeds(q, f, m)
          PROVE  FALSE
        <3>1. q # r
            BY <1>1, <2>1 DEF Seeds
        <3>2. pc'[r] = pc[r]
            BY <2>1, <3>1 DEF Seeds, TypeOK
        <3>3. QED
            BY <1>1, <3>2
    <2>2. QED
        BY <1>1, <2>1 DEF AddsType
<1>4. PICK q \in Requests : StepOf(q) \/ SeedPort(q)
    BY <1>2, <1>3, Steps
<1>5. q = r
    <2>1. \E step : pc' = [pc EXCEPT ![q] = step]
        BY <1>4 DEF StepOf, ChecksPatch, CheckTypePatch, LoadsType, LoadType, RefusePatch, SavesType,
            SaveType, ChecksNew, CheckNew, Insert, RefuseInsert, Loads, Load, Writes, Write,
            MissWrite, Begin, Refuse, End, SeedPort
    <2>2. QED
        BY <1>1, <2>1 DEF TypeOK
<1>6. QED
    BY <1>1, <1>4, <1>5 DEF StepOf, ChecksPatch, CheckTypePatch, LoadsType, LoadType, RefusePatch,
        ChecksNew, CheckNew, RefuseInsert, Loads, Load, MissWrite, Begin, SeedPort

LEMMA PatchedDefinitionIsSeen ==
    ASSUME NEW seen, NEW base, NEW patch, NEW k \in DOMAIN patch, patch[k] # Null,
           SameAt(seen, base, k), ValidSchema(PatchFields(seen, patch))
    PROVE  ValidDefinition(PatchFields(base, patch)[k])
<1>1. k \in DOMAIN PatchFields(seen, patch) /\ k \in DOMAIN PatchFields(base, patch)
    BY DEF PatchFields
<1>2. PatchFields(base, patch)[k] = PatchFields(seen, patch)[k]
    BY <1>1 DEF PatchFields, SameAt
<1>3. QED
    BY <1>1, <1>2 DEF ValidSchema

(* What the route has validated is what is stored of the fields a patch    *)
(* names, if the repository merges it into what the route merged it into.  *)
THEOREM DefinitionsStayValid == Spec => PatchedDefinitionsAreValid
<1> DEFINE A == \A r \in Requests :
                    LET t == arg[r].id
                        a == arg[r]
                    IN  pc[r] = "save" /\ pc'[r] = "idle" /\ a.patch # Null /\ types'[t] # Null =>
                        \A k \in DOMAIN a.patch \cap DOMAIN types'[t].fields :
                            SameAt(a.seen, a.base, k) => ValidDefinition(types'[t].fields[k])
<1>1. ASSUME AllInv, Next
      PROVE  A
    <2> SUFFICES ASSUME NEW r \in Requests, pc[r] = "save", pc'[r] = "idle",
                        arg[r].patch # Null, types'[arg[r].id] # Null,
                        NEW k \in DOMAIN arg[r].patch \cap DOMAIN types'[arg[r].id].fields,
                        SameAt(arg[r].seen, arg[r].base, k)
                 PROVE  ValidDefinition(types'[arg[r].id].fields[k])
        OBVIOUS
    <2> DEFINE a == arg[r]
    <2>1. TypeOK /\ HeldInv
        BY <1>1 DEF AllInv, IInv
    <2>2. SavesType(r)
        BY <1>1, <2>1, OwnStep DEF Insert, Writes, Write
    <2>3. a.id \in Types /\ types'[a.id].fields = PatchFields(a.base, a.patch)
        <3>1. /\ a.id \in Types
              /\ types[a.id] = Null => types' = types
              /\ types[a.id] # Null => types' = [types EXCEPT ![a.id] = SavedRow(a)]
            BY <2>1, <2>2, SavesRow
        <3>2. types[a.id] # Null
            BY <3>1
        <3>3. types'[a.id] = SavedRow(a)
            BY <2>1, <3>1, <3>2 DEF TypeOK
        <3>4. QED
            BY <3>1, <3>3 DEF SavedRow
    <2>4. a.patch[k] # Null
        BY <2>3 DEF PatchFields
    <2>5. ValidSchema(PatchFields(a.seen, a.patch))
        BY <2>1 DEF HeldInv, Held
    <2>6. QED
        BY <2>3, <2>4, <2>5, PatchedDefinitionIsSeen
<1>2. ASSUME AllInv, [Next]_vars
      PROVE  [A]_vars
    BY <1>1, <1>2
<1>3. QED
    BY Invariance, <1>2, PTL DEF Spec, PatchedDefinitionsAreValid

(* A request that nobody's write overlaps stores what it has validated,    *)
(* and changes no more than it was asked to and may change.                *)
THEOREM WritesFit == Spec => UndisturbedWritesFit
<1> DEFINE A == \A r \in undisturbed :
                    LET i == arg[r].id
                        mayChange == arg[r].named \ (IF arg[r].type = Null THEN FixedFields(i) ELSE {})
                    IN  pc[r] \in {"insert", "write"} /\ pc'[r] = "idle" /\ inst'[i] # inst[i] =>
                        /\ ValidInstance(inst'[i].data, EffectiveFields(inst'[i].type))
                        /\ pc[r] = "write" => \A k \in FieldKeys \ mayChange :
                                                SameAt(inst[i].data, inst'[i].data, k)
<1>1. ASSUME AllInv, Next, NEW r \in undisturbed, pc[r] \in {"insert", "write"}, pc'[r] = "idle",
             inst'[arg[r].id] # inst[arg[r].id]
      PROVE  LET i == arg[r].id
                 mayChange == arg[r].named \ (IF arg[r].type = Null THEN FixedFields(i) ELSE {})
             IN  /\ ValidInstance(inst'[i].data, EffectiveFields(inst'[i].type))
                 /\ pc[r] = "write" => \A k \in FieldKeys \ mayChange :
                                         SameAt(inst[i].data, inst'[i].data, k)
    <2> DEFINE a == arg[r]
    <2>1. TypeOK /\ HeldInv /\ FreshAt(a, pc[r]) /\ r \in Requests
        BY <1>1 DEF AllInv, IInv, FreshInv, Fresh, TypeOK
    <2>2. Insert(r) \/ Writes(r)
        BY <1>1, <2>1, OwnStep DEF SavesType, SaveType, Refuse
    <2>3. CASE Insert(r)
        <3>1. a.id \in Instances
            BY <2>1, <2>3 DEF HeldInv, Held, Insert, InKind, Instances
        <3>2. pc[r] = "insert" /\ inst'[a.id].type = a.type /\ inst'[a.id].data = a.data
            BY <2>1, <2>3, <3>1 DEF Insert, TypeOK
        <3>3. QED
            BY <2>1, <3>2 DEF FreshAt
    <2>4. CASE Writes(r)
        <3>1. pc[r] = "write" /\ inst'[a.id].data = a.data
              /\ inst'[a.id].type = IF a.type = Null THEN inst[a.id].type ELSE a.type
            BY <2>1, <2>4 DEF Writes, Write, TypeOK
        <3>2. QED
            BY <2>1, <3>1 DEF FreshAt
    <2>5. QED
        BY <2>2, <2>3, <2>4
<1>2. ASSUME AllInv, Next
      PROVE  A
    BY <1>1, <1>2
<1>3. ASSUME AllInv, [Next]_vars
      PROVE  [A]_vars
    BY <1>2, <1>3
<1>4. QED
    BY Invariance, <1>3, PTL DEF Spec, UndisturbedWritesFit
=============================================================================
