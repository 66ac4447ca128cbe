--------------------------- MODULE DeviceMetadata ---------------------------
(***************************************************************************)
(* The metadata document of one device and the requests that read and      *)
(* write it.  A permission check reads the caller's teams and the          *)
(* document; the handler reads the document again, merges the patch,       *)
(* validates the result against the device type and writes all of it.      *)
(* Between these steps other requests run, and an administrator changes    *)
(* teams, roles and scopes.  Devices share none of this state.             *)
(***************************************************************************)
EXTENDS AccessDecision

CONSTANTS
    Requests,   \* slots for concurrent HTTP requests
    Callers,    \* users
    Profiles,   \* the team data an administrator may give a user
    Sent,       \* the patches a client may send
    Required,   \* keys the device type requires
    Accepted,   \* [Keys -> the values the type's definition of the key admits]
    Defaults,   \* the defaults the type's definitions give
    Read, Write, Create, Delete,  \* device.read, device.metadata.write, ...
    NoCaller

ASSUME MetadataValues ==
    /\ Profiles \subseteq UserData
    /\ Sent \subseteq Patches
    /\ Required \subseteq Keys
    /\ Accepted \in [Keys -> SUBSET Values]
    /\ Defaults \in Metas
    /\ {Read, Write, Create, Delete} \subseteq Permissions \ GlobalPermissions
    /\ NoCaller \notin Callers

VARIABLES
    meta,        \* the device's document, or Missing
    user,        \* [Callers -> UserData]: what the administration tables say
    pc,          \* where each request is suspended
    arg,         \* what each request has been sent and has read
    undisturbed  \* ghost: requests since whose check nobody else wrote anything

vars == <<meta, user, pc, arg, undisturbed>>

-----------------------------------------------------------------------------
Empty == [k \in {} |-> Null]

Blank == [caller |-> NoCaller, patch |-> Empty, doc |-> Empty]

Args == [caller : Callers \cup {NoCaller}, patch : Patches, doc : Metas]

(* validate_instance_data *)
ValidData(doc) ==
    /\ Required \subseteq DOMAIN doc
    /\ \A k \in DOMAIN doc : doc[k] \in Accepted[k]

Init ==
    /\ meta \in {Missing} \cup {m \in Metas : ValidData(m)}
    /\ user \in [Callers -> Profiles]
    /\ pc = [r \in Requests |-> "idle"]
    /\ arg = [r \in Requests |-> Blank]
    /\ undisturbed = {}

Begin(r, c, step, patch, doc) ==
    /\ pc[r] = "idle"
    /\ pc' = [pc EXCEPT ![r] = step]
    /\ arg' = [arg EXCEPT ![r] = [caller |-> c, patch |-> patch, doc |-> doc]]
    /\ undisturbed' = undisturbed \cup {r}
    /\ UNCHANGED <<meta, user>>

End(r) ==
    /\ pc' = [pc EXCEPT ![r] = "idle"]
    /\ arg' = [arg EXCEPT ![r] = Blank]

(* r's write disturbs every other request. *)
Store(r, doc) ==
    /\ meta' = doc
    /\ undisturbed' = {}

Answer(r) ==
    /\ End(r)
    /\ undisturbed' = undisturbed \ {r}
    /\ UNCHANGED <<meta, user>>

-----------------------------------------------------------------------------
(* PATCH /{device}/metadata *)

CheckPatch(r, c, patch) ==
    /\ PatchCheck(Write, user[c], meta, patch)
    /\ Begin(r, c, "read", patch, Empty)

(* Mutant of ReadDevice: the patch is validated, not the merged document. *)
ReadAndTrust(r) ==
    LET doc == PatchData(meta, arg[r].patch)
    IN  /\ pc[r] = "read"
        /\ meta # Missing
        /\ pc' = [pc EXCEPT ![r] = "write"]
        /\ arg' = [arg EXCEPT ![r].doc = doc]
        /\ UNCHANGED <<meta, user, undisturbed>>

ReadDevice(r) ==
    LET doc == PatchData(meta, arg[r].patch)
    IN  /\ pc[r] = "read"
        /\ meta # Missing
        /\ ValidData(doc)
        /\ pc' = [pc EXCEPT ![r] = "write"]
        /\ arg' = [arg EXCEPT ![r].doc = doc]
        /\ UNCHANGED <<meta, user, undisturbed>>

(* 404 for a device that is gone, 422 for a document the type refuses. *)
RefusePatch(r) ==
    /\ pc[r] = "read"
    /\ meta # Missing => ~ValidData(PatchData(meta, arg[r].patch))
    /\ Answer(r)

(* Mutant of WriteDevice: the patch in place of the merged document. *)
WritePatchOnly(r) ==
    LET patch == arg[r].patch
        doc == [k \in {k \in DOMAIN patch : patch[k] # Null} |-> patch[k]]
    IN  /\ pc[r] = "write"
        /\ meta # Missing
        /\ Store(r, doc)
        /\ End(r)
        /\ UNCHANGED user

(* The UPDATE writes the whole document, if the row is still there. *)
WriteDevice(r) ==
    /\ pc[r] = "write"
    /\ meta # Missing
    /\ Store(r, arg[r].doc)
    /\ End(r)
    /\ UNCHANGED user

WriteNothing(r) ==
    /\ pc[r] = "write"
    /\ meta = Missing
    /\ Answer(r)

-----------------------------------------------------------------------------
(* PUT and DELETE /devices/{device_id}, as far as they concern the row *)

CheckCreate(r, c, doc) ==
    /\ CreateCheck(Create, user[c], doc)
    /\ meta = Missing
    /\ ValidData(doc)
    /\ Begin(r, c, "insert", Empty, doc)

InsertDevice(r) ==
    /\ pc[r] = "insert"
    /\ meta = Missing
    /\ Store(r, arg[r].doc)
    /\ pc' = [pc EXCEPT ![r] = "register"]
    /\ UNCHANGED <<user, arg>>

(* IoT Hub and SmartEMS accept the device (module DeviceProvisioning), or  *)
(* the row is deleted again.                                               *)
Registered(r) == pc[r] = "register" /\ Answer(r)

UndoInsert(r) ==
    /\ pc[r] = "register"
    /\ Store(r, Missing)
    /\ End(r)
    /\ UNCHANGED user

CheckDelete(r, c) ==
    /\ PathCheck(Delete, user[c], meta)
    /\ meta # Missing
    /\ Begin(r, c, "delete", Empty, Empty)

DeleteDevice(r) ==
    /\ pc[r] = "delete"
    /\ Store(r, Missing)
    /\ End(r)
    /\ UNCHANGED user

(* The database fails, or refuses a second row. *)
Fail(r) ==
    /\ pc[r] # "idle"
    /\ Answer(r)

(* Teams, roles and scopes change (module Administration). *)
Administer(c, data) ==
    /\ user' = [user EXCEPT ![c] = data]
    /\ undisturbed' = {}
    /\ UNCHANGED <<meta, pc, arg>>

Patch(r) ==
    \/ \E c \in Callers, patch \in Sent : CheckPatch(r, c, patch)
    \/ ReadDevice(r) \/ RefusePatch(r) \/ WriteDevice(r) \/ WriteNothing(r)

Register(r) ==
    \/ \E c \in Callers, doc \in Metas : CheckCreate(r, c, doc)
    \/ InsertDevice(r) \/ Registered(r) \/ UndoInsert(r)
    \/ \E c \in Callers : CheckDelete(r, c)
    \/ DeleteDevice(r)

Next ==
    \/ \E r \in Requests : Patch(r) \/ Register(r) \/ Fail(r)
    \/ \E c \in Callers, data \in Profiles : Administer(c, data)

Spec == Init /\ [][Next]_vars

-----------------------------------------------------------------------------
(* Properties *)

(* All variables keep their types, and what a suspended request is about   *)
(* to write has been validated.                                            *)
TypeOK ==
    /\ meta \in Metas \cup {Missing}
    /\ user \in [Callers -> UserData]
    /\ pc \in [Requests -> {"idle", "read", "write", "insert", "register", "delete"}]
    /\ arg \in [Requests -> Args]
    /\ \A r \in Requests :
        /\ pc[r] \in {"write", "insert"} => ValidData(arg[r].doc)
        /\ pc[r] \in {"read", "write"} => arg[r].caller \in Callers
    /\ undisturbed \subseteq Requests

(* The stored document always satisfies the device type's definitions,     *)
(* however patches, creations and deletions overlap: a patch is validated  *)
(* merged, and what was validated is what is written.                      *)
StoredIsValid == meta # Missing => ValidData(meta)

(* resolve_fields, and get_devices, which filters what it returns *)
Resolved(doc) ==
    [k \in DOMAIN doc \cup DOMAIN Defaults |->
        IF k \in DOMAIN doc THEN doc[k] ELSE Defaults[k]]

DeviceListed(c) ==
    /\ meta # Missing
    /\ MayList(Read, user[c])
    /\ FilterDevice(Read, user[c], Resolved(meta))

(* The checks of one device agree with each other and with the filter of   *)
(* the lists and the permissions shown, as device_access.py ("keep in      *)
(* sync") asks, for every caller and the document as it is stored; and the *)
(* device list agrees with them unless a default stands in for a value.    *)
ChecksAgree ==
    /\ meta # Missing /\ DOMAIN Defaults \subseteq DOMAIN meta =>
        \A c \in Callers : DeviceListed(c) <=> PathCheck(Read, user[c], meta)
    /\ \A c \in Callers, p \in GlobalPermissions :
        LET allowed == PathCheck(p, user[c], Unnamed)
        IN  /\ allowed <=> (p \in PlatformPermissions(user[c]))
            /\ allowed <=> AnyPermissionCheck({p}, user[c])
    /\ \A c \in Callers, p \in Permissions \ GlobalPermissions :
        LET allowed == PathCheck(p, user[c], meta)
        IN  /\ allowed <=> RequireDevicePermission(p, user[c], meta)
            /\ allowed <=> ResolvedCheck(p, user[c], meta)
            /\ meta # Missing =>
                /\ allowed <=> (MayList(p, user[c]) /\ FilterDevice(p, user[c], meta))
                /\ allowed <=> (p \in DevicePermissions(user[c], meta))
                /\ allowed <=> CreateCheck(p, user[c], meta)
            /\ meta = Missing => allowed <=> Unrestricted(p, user[c])

(* A patch nobody disturbed changes the keys it names and no others, and   *)
(* leaves its caller the permission it was checked for: a write does not   *)
(* move a device out of the caller's scope (_authorize).                   *)
PatchIsExact ==
    [][\A r \in Requests :
        pc[r] = "write" /\ pc'[r] = "idle" /\ r \in undisturbed /\ meta' # meta =>
            /\ \A k \in Keys \ DOMAIN arg[r].patch :
                /\ k \in DOMAIN meta' <=> k \in DOMAIN meta
                /\ k \in DOMAIN meta => meta'[k] = meta[k]
            /\ PathCheck(Write, user[arg[r].caller], meta')]_vars
=============================================================================
