---------------------------- MODULE TypedFields ----------------------------
(***************************************************************************)
(* Device, endpoint and service types define fields; their instances hold  *)
(* values for them.  This module has the functions of db/merge.py,         *)
(* db/type_roles.py, field_validation.py and routers/schemas.py as         *)
(* operators.                                                              *)
(*                                                                         *)
(* A field definition is a record of the attributes the rules tell apart;  *)
(* an attribute that was not given is Null.  `limit` stands for everything *)
(* that narrows the values of the data type: pattern, lengths, bounds,     *)
(* multiple_of and options.                                                *)
(***************************************************************************)
EXTENDS Requests

CONSTANTS
    FieldKeys,   \* names of fields
    DataValues,  \* values of instance data
    DataTypes,   \* "string", "integer", ...
    Admits       \* [DataTypes -> the values of the type]

ASSUME FieldValues ==
    /\ Admits \in [DataTypes -> SUBSET DataValues]
    /\ {"string", "integer"} \subseteq DataTypes
    /\ Null \notin DataValues
    /\ Null \notin DataTypes
    /\ Null \notin BOOLEAN
    /\ \A S \in SUBSET DataValues : S # Null

(* FieldValidation and options, by what they leave *)
Limits == {Null} \cup SUBSET DataValues

Definitions ==
    [type : DataTypes \cup {Null},
     required : BOOLEAN \cup {Null},
     changeable : BOOLEAN \cup {Null},
     default : DataValues \cup {Null},
     limit : Limits]

Schemas == PartialFunctions(FieldKeys, Definitions)
Data == PartialFunctions(FieldKeys, DataValues)
DataPatches == PartialFunctions(FieldKeys, DataValues \cup {Null})

ASSUME DefinitionsAreNotNull == Null \notin Definitions

-----------------------------------------------------------------------------
(* field_validation.py, routers/schemas.py *)

(* validate_value *)
ValidValue(v, def) ==
    /\ def.type # Null => v \in Admits[def.type]
    /\ def.limit # Null => v \in def.limit

(* What narrows a type is about its values. *)
LimitFits(def) == def.limit # Null => def.limit \subseteq Admits[def.type]

(* FieldDefinition.model_validate *)
ValidDefinition(def) ==
    /\ def.type # Null
    /\ LimitFits(def)
    /\ def.default # Null => ValidValue(def.default, def)

ValidSchema(fields) == \A k \in DOMAIN fields : ValidDefinition(fields[k])

-----------------------------------------------------------------------------
(* db/merge.py *)

(* merge_type_fields *)
MergeTypeFields(base, own) ==
    [k \in DOMAIN base \cup DOMAIN own |-> IF k \in DOMAIN own THEN own[k] ELSE base[k]]

(* validate_instance_data *)
ValidInstance(data, fields) ==
    \A k \in DOMAIN fields :
        IF k \in DOMAIN data THEN ValidValue(data[k], fields[k])
        ELSE fields[k].required # TRUE

(* reject_non_changeable_updates *)
KeepsFixedFields(data, patch, fields) ==
    \A k \in DOMAIN patch \cap DOMAIN fields \cap DOMAIN data :
        fields[k].changeable = FALSE => patch[k] = data[k]

Undefined == [type |-> Null, required |-> Null, changeable |-> Null,
              default |-> Null, limit |-> Null]

Updated(old, new) == IF new # Null THEN new ELSE old

PatchDefinition(old, new) ==
    [type |-> Updated(old.type, new.type),
     required |-> Updated(old.required, new.required),
     changeable |-> Updated(old.changeable, new.changeable),
     default |-> Updated(old.default, new.default),
     limit |-> Updated(old.limit, new.limit)]

(* patch_fields: a null removes the field, attributes are merged *)
PatchFields(fields, patch) ==
    [k \in (DOMAIN fields \cup DOMAIN patch) \ {x \in DOMAIN patch : patch[x] = Null} |->
        IF k \notin DOMAIN patch THEN fields[k]
        ELSE PatchDefinition(IF k \in DOMAIN fields THEN fields[k] ELSE Undefined, patch[k])]

(* patch_data *)
MergeData(data, patch) ==
    [k \in (DOMAIN data \cup DOMAIN patch) \ {x \in DOMAIN patch : patch[x] = Null} |->
        IF k \in DOMAIN patch THEN patch[k] ELSE data[k]]

-----------------------------------------------------------------------------
(* db/type_roles.py *)

EndpointRoles == [role \in {"ip", "name"} |-> "string"]
ServiceRoles == [role \in {"port"} |-> "integer"]

(* validate_type_mapping *)
RolesFit(fields, mapping, roleTypes) ==
    \A k \in DOMAIN mapping :
        /\ mapping[k] \in DOMAIN roleTypes
        /\ k \in DOMAIN fields
        /\ fields[k].type = roleTypes[mapping[k]]
        /\ \A j \in DOMAIN mapping \ {k} : mapping[j] # mapping[k]

(* drop_roles_of_missing_fields *)
RolesOfFields(mapping, fields) ==
    [k \in DOMAIN mapping \cap DOMAIN fields |-> mapping[k]]
=============================================================================
