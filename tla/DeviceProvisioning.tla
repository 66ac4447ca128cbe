------------------------- MODULE DeviceProvisioning -------------------------
(***************************************************************************)
(* Creation and deletion of one device.  A device has a row in the         *)
(* database, an identity with a key in IoT Hub and an entry in SmartEMS    *)
(* whose variable device_connection_string holds that key.  PUT devices/id *)
(* writes to the three one after the other and undoes the first two when a *)
(* later step fails; DELETE devices/id clears SmartEMS, then IoT Hub, then *)
(* the row.  Every call is a suspension point, may fail, and may take      *)
(* effect and fail all the same; nothing serialises requests of a device.  *)
(*                                                                         *)
(* Devices do not share any of this state, so one device is modelled.      *)
(***************************************************************************)
EXTENDS Integers, FiniteSets

CONSTANTS
    Requests,   \* slots for concurrent HTTP requests
    MaxMade,    \* bound: no creation starts that could make more keys and entries
    MaxFaults,  \* bound: calls that fail, and restarts
    Known       \* may the device be in IoT Hub or SmartEMS from before?

ASSUME Parameters == /\ MaxMade \in Nat
                     /\ MaxFaults \in Nat
                     /\ Known \in BOOLEAN

VARIABLES
    row,     \* the device has a row in `devices`
    tasks,   \* rows of password_renewal_tasks refer to it
    hub,     \* its IoT Hub identity: key (0: none) and the tag `deployment`
    sems,    \* its SmartEMS entry: id (0: none) and connection string (0: none)
    pc,      \* where each request is suspended
    seen,    \* what each request has read: the hub's key, the SmartEMS entry
    made,    \* keys and entry ids handed out
    faults,  \* failed calls and restarts so far
    alone,   \* ghost: the requests that no other has overlapped
    outcome, \* ghost: what the last request did, if it ran alone
    excuse   \* ghost: the row may outlive its registrations

db == <<row, tasks>>
external == <<hub, sems, made>>
ghosts == <<alone, outcome, excuse>>
vars == <<row, tasks, hub, sems, pc, seen, made, faults, alone, outcome, excuse>>

-----------------------------------------------------------------------------
Serials == Nat  \* hub keys and SmartEMS ids; 0 for none

Hubs == [key : Serials, base : BOOLEAN]
NoHub == [key |-> 0, base |-> FALSE]

Entries == [id : Serials, string : Serials]
NoEntry == [id |-> 0, string |-> 0]

Creating == {"insert", "put", "get", "lookup", "store", "tag", "cache", "undoHub", "undoRow"}
Deleting == {"find", "semsDelete", "hubGet", "hubDelete", "rowDelete"}

Nothing == [key |-> 0, entry |-> NoEntry]

Quiet == \A r \in Requests : pc[r] = "idle"

Init ==
    /\ row = FALSE
    /\ tasks = FALSE
    /\ \/ hub = NoHub /\ sems = NoEntry
       \/ /\ Known
          /\ hub \in {NoHub, [key |-> 1, base |-> FALSE]}
          /\ sems \in {NoEntry, [id |-> 1, string |-> 0], [id |-> 1, string |-> 1]}
    /\ pc = [r \in Requests |-> "idle"]
    /\ seen = [r \in Requests |-> Nothing]
    /\ made = 1
    /\ faults = 0
    /\ alone = {}
    /\ outcome = "none"
    /\ excuse = FALSE

-----------------------------------------------------------------------------
(* Steps of a request *)

Goto(r, step) ==
    /\ pc' = [pc EXCEPT ![r] = step]
    /\ UNCHANGED <<alone, outcome>>

InFlight(steps) == \E r \in Requests : pc[r] \in steps

(* A request that starts overlaps every request in flight                  *)
Start(r, step) ==
    /\ pc[r] = "idle"
    /\ pc' = [pc EXCEPT ![r] = step]
    /\ seen' = [seen EXCEPT ![r] = Nothing]
    /\ alone' = IF Quiet THEN {r} ELSE {}
    /\ outcome' = "none"
    /\ excuse' = (excuse \/ InFlight(IF step = "find" THEN Creating ELSE Deleting))
    /\ UNCHANGED <<db, external, faults>>

(* The answer is sent *)
End(r, answer) ==
    /\ pc' = [pc EXCEPT ![r] = "idle"]
    /\ seen' = [seen EXCEPT ![r] = Nothing]
    /\ alone' = alone \ {r}
    /\ outcome' = IF r \in alone THEN answer ELSE "none"

Fault == faults < MaxFaults /\ faults' = faults + 1

-----------------------------------------------------------------------------
(* PUT devices/id *)

(* 409 when the device has a row *)
StartCreate(r) ==
    /\ ~row
    /\ made + 2 * Cardinality({q \in Requests : pc[q] \in Creating}) + 2 <= MaxMade
    /\ Start(r, "insert")

(* A device that has a row, or has none to delete: 409 and 404             *)
Refuse(r) ==
    /\ pc[r] = "idle"
    /\ UNCHANGED vars

(* The primary key refuses a second row; then, or when the metadata are    *)
(* invalid, the request fails with nothing to undo                         *)
InsertRow(r) ==
    /\ pc[r] = "insert"
    /\ \/ /\ ~row
          /\ row' = TRUE
          /\ Goto(r, "put")
          /\ UNCHANGED seen
       \/ /\ End(r, "failed")
          /\ UNCHANGED row
    /\ UNCHANGED <<tasks, external, faults, excuse>>

(* Reading the committed row back raises: created_in_db is still false     *)
InsertRowFails(r) ==
    /\ pc[r] = "insert"
    /\ ~row
    /\ Fault
    /\ row' = TRUE
    /\ excuse' = TRUE
    /\ End(r, "failed")
    /\ UNCHANGED <<tasks, external>>

(* 200, 201 and 409 are all a registration                                 *)
Registered ==
    IF hub.key = 0
    THEN hub' = [key |-> made + 1, base |-> FALSE] /\ made' = made + 1
    ELSE UNCHANGED <<hub, made>>

PutHub(r) ==
    /\ pc[r] = "put"
    /\ Registered
    /\ Goto(r, "get")
    /\ UNCHANGED <<db, sems, seen, faults, excuse>>

PutHubFailsOutside(r) ==  \* defect: the call is made outside the try block
    /\ pc[r] = "put"
    /\ Fault
    /\ End(r, "failed")
    /\ UNCHANGED <<db, external, excuse>>

(* created_in_iothub is still false *)
PutHubFails(r) ==
    /\ pc[r] = "put"
    /\ Fault
    /\ \/ Registered
       \/ UNCHANGED <<hub, made>>
    /\ Goto(r, "undoRow")
    /\ UNCHANGED <<db, sems, seen, excuse>>

GetKey(r) ==
    /\ pc[r] = "get"
    /\ IF hub.key = 0
       THEN Goto(r, "undoHub") /\ UNCHANGED seen
       ELSE Goto(r, "lookup") /\ seen' = [seen EXCEPT ![r].key = hub.key]
    /\ UNCHANGED <<db, external, faults, excuse>>

Lookup(r) ==
    /\ pc[r] = "lookup"
    /\ seen' = [seen EXCEPT ![r].entry = sems]
    /\ Goto(r, "store")
    /\ UNCHANGED <<db, external, faults, excuse>>

MismatchMissed(r) == FALSE  \* defect: the existing string is not compared

Mismatch(r) ==
    /\ seen[r].entry.string # 0
    /\ seen[r].entry.string # seen[r].key

WrittenIfNew(r) ==  \* defect: an existing entry keeps its variables
    IF seen[r].entry.id # 0
    THEN sems.id = seen[r].entry.id /\ UNCHANGED <<sems, made>>
    ELSE /\ sems.id = 0
         /\ made' = made + 1
         /\ sems' = [id |-> made + 1, string |-> seen[r].key]

(* The edit or creation the request sends takes place                      *)
Written(r) ==
    IF seen[r].entry.id # 0
    THEN /\ sems.id = seen[r].entry.id
         /\ sems' = [sems EXCEPT !.string = seen[r].key]
         /\ UNCHANGED made
    ELSE /\ sems.id = 0
         /\ made' = made + 1
         /\ sems' = [id |-> made + 1, string |-> seen[r].key]

Gone(r) == sems.id # seen[r].entry.id

StoreString(r) ==
    /\ pc[r] = "store"
    /\ ~Mismatch(r)
    /\ Written(r)
    /\ Goto(r, "tag")
    /\ UNCHANGED <<db, hub, seen, faults, excuse>>

(* Another connection string, an entry that came or went: no fault needed  *)
StoreRefused(r) ==
    /\ pc[r] = "store"
    /\ Mismatch(r) \/ Gone(r)
    /\ Goto(r, "undoHub")
    /\ UNCHANGED <<db, external, seen, faults, excuse>>

StoreFails(r) ==
    /\ pc[r] = "store"
    /\ ~Mismatch(r)
    /\ Fault
    /\ Written(r) \/ UNCHANGED <<sems, made>>
    /\ Goto(r, "undoHub")
    /\ UNCHANGED <<db, hub, seen, excuse>>

(* Errors are only logged *)
Tag(r) ==
    /\ pc[r] = "tag"
    /\ \/ hub.key # 0 /\ hub' = [hub EXCEPT !.base = TRUE]
       \/ UNCHANGED hub
    /\ Goto(r, "cache")
    /\ UNCHANGED <<db, sems, made, seen, faults, excuse>>

FillCache(r) ==
    /\ pc[r] = "cache"
    /\ End(r, "created")
    /\ UNCHANGED <<db, external, faults, excuse>>

(* A read, or the refresh of the device cache, raises *)
CreateCallFails(r) ==
    /\ pc[r] \in {"get", "lookup", "cache"}
    /\ Fault
    /\ Goto(r, "undoHub")
    /\ UNCHANGED <<db, external, seen, excuse>>

(* Whether the hub deletes the identity or not, errors are passed over     *)
UndoHub(r) ==
    /\ pc[r] = "undoHub"
    /\ hub' \in {hub, NoHub}
    /\ Goto(r, "undoRow")
    /\ UNCHANGED <<db, sems, made, seen, faults, excuse>>

UndoRow(r) ==
    /\ pc[r] = "undoRow"
    /\ ~tasks
    /\ row' = FALSE
    /\ excuse' = FALSE
    /\ End(r, "undone")
    /\ UNCHANGED <<tasks, external, faults>>

UndoRowFails(r) ==
    /\ pc[r] = "undoRow"
    /\ \/ tasks /\ UNCHANGED faults
       \/ Fault
    /\ End(r, "failed")
    /\ excuse' = TRUE
    /\ UNCHANGED <<db, external>>

-----------------------------------------------------------------------------
(* DELETE devices/id *)

StartDelete(r) ==
    /\ row
    /\ Start(r, "find")

Find(r) ==
    /\ pc[r] = "find"
    /\ seen' = [seen EXCEPT ![r].entry = sems]
    /\ Goto(r, IF sems.id = 0 THEN "hubGet" ELSE "semsDelete")
    /\ UNCHANGED <<db, external, faults, excuse>>

SemsDelete(r) ==
    /\ pc[r] = "semsDelete"
    /\ ~Gone(r)
    /\ sems' = NoEntry
    /\ Goto(r, "hubGet")
    /\ UNCHANGED <<db, hub, made, seen, faults, excuse>>

(* The identity's etag is read *)
HubGet(r) ==
    /\ pc[r] = "hubGet"
    /\ IF hub.key = 0
       THEN Goto(r, "rowDelete") /\ UNCHANGED seen
       ELSE Goto(r, "hubDelete") /\ seen' = [seen EXCEPT ![r].key = hub.key]
    /\ UNCHANGED <<db, external, faults, excuse>>

(* If-Match, and 404 is a success *)
HubDelete(r) ==
    /\ pc[r] = "hubDelete"
    /\ hub.key \in {0, seen[r].key}
    /\ hub' = NoHub
    /\ Goto(r, "rowDelete")
    /\ UNCHANGED <<db, sems, made, seen, faults, excuse>>

RowDeleteTasksStay(r) ==  \* defect: no foreign key
    /\ pc[r] = "rowDelete"
    /\ row' = FALSE
    /\ excuse' = FALSE
    /\ End(r, "deleted")
    /\ UNCHANGED <<tasks, external, faults>>

RowDelete(r) ==
    /\ pc[r] = "rowDelete"
    /\ ~tasks
    /\ row' = FALSE
    /\ excuse' = FALSE
    /\ End(r, "deleted")
    /\ UNCHANGED <<tasks, external, faults>>

(* Another request's entry or identity is in the way, or the row is        *)
(* referred to: the request fails where it is, and nothing is put back     *)
DeleteRefused(r) ==
    /\ \/ pc[r] = "semsDelete" /\ Gone(r)
       \/ pc[r] = "hubDelete" /\ hub.key \notin {0, seen[r].key}
       \/ pc[r] = "rowDelete" /\ tasks
    /\ End(r, "failed")
    /\ excuse' = row
    /\ UNCHANGED <<db, external, faults>>

DeleteCallFails(r) ==
    /\ pc[r] \in Deleting
    /\ Fault
    /\ \/ UNCHANGED <<hub, sems>>
       \/ pc[r] = "semsDelete" /\ ~Gone(r) /\ sems' = NoEntry /\ UNCHANGED hub
       \/ pc[r] = "hubDelete" /\ hub.key = seen[r].key /\ hub' = NoHub /\ UNCHANGED sems
    /\ End(r, "failed")
    /\ excuse' = row
    /\ UNCHANGED <<db, made>>

-----------------------------------------------------------------------------
(* Around the requests *)

(* Request r has found and deleted the SmartEMS entry *)
EntryDeleted(r) == pc[r] \in {"hubGet", "hubDelete", "rowDelete"} /\ seen[r].entry.id # 0

(* POST secret/request schedules a renewal of a device that it has found   *)
(* in SmartEMS; a deletion may have removed it from there meanwhile.       *)
AddTask ==
    /\ row /\ ~tasks
    /\ sems.id # 0 \/ \E r \in Requests : EntryDeleted(r)
    /\ tasks' = TRUE
    /\ UNCHANGED <<row, external, pc, seen, faults, ghosts>>

(* The last task is purged *)
PurgeTasks ==
    /\ tasks
    /\ tasks' = FALSE
    /\ UNCHANGED <<row, external, pc, seen, faults, ghosts>>

Restart ==
    /\ ~Quiet
    /\ Fault
    /\ pc' = [r \in Requests |-> "idle"]
    /\ seen' = [r \in Requests |-> Nothing]
    /\ alone' = {}
    /\ outcome' = "none"
    /\ excuse' = row
    /\ UNCHANGED <<db, external>>

Create(r) ==
    \/ StartCreate(r) \/ InsertRow(r) \/ InsertRowFails(r) \/ PutHub(r) \/ PutHubFails(r)
    \/ GetKey(r) \/ Lookup(r)
    \/ StoreString(r) \/ StoreRefused(r) \/ StoreFails(r) \/ Tag(r) \/ FillCache(r)
    \/ CreateCallFails(r) \/ UndoHub(r) \/ UndoRow(r) \/ UndoRowFails(r)

Delete(r) ==
    \/ StartDelete(r) \/ Find(r) \/ SemsDelete(r) \/ HubGet(r) \/ HubDelete(r) \/ RowDelete(r)
    \/ DeleteRefused(r) \/ DeleteCallFails(r)

Next ==
    \/ \E r \in Requests : Create(r) \/ Delete(r) \/ Refuse(r)
    \/ AddTask \/ PurgeTasks \/ Restart

Spec == Init /\ [][Next]_vars

-----------------------------------------------------------------------------
(* Properties *)

(* All variables keep their types, and no renewal task outlives the row it *)
(* refers to (the foreign key of password_renewal_tasks).                  *)
TypeOK ==
    /\ row \in BOOLEAN
    /\ tasks \in BOOLEAN
    /\ tasks => row
    /\ hub \in Hubs
    /\ sems \in Entries
    /\ pc \in [Requests -> {"idle"} \cup Creating \cup Deleting]
    /\ seen \in [Requests -> [key : Serials, entry : Entries]]
    /\ made \in Serials
    /\ faults \in Nat
    /\ alone \in SUBSET Requests
    /\ outcome \in {"none", "created", "failed", "undone", "deleted"}
    /\ excuse \in BOOLEAN

Complete == row /\ hub.key # 0 /\ sems.id # 0 /\ sems.string = hub.key

Absent == ~row /\ hub.key = 0 /\ sems.id = 0

(* A request that no other overlapped tells the truth: after a successful  *)
(* PUT the device is in all three systems with one key, after a successful *)
(* DELETE in none, whatever earlier requests, failures and restarts left   *)
(* (steps 2 to 6 of create_device, 1 to 3 of delete_device).               *)
AnswersAreTrue ==
    /\ outcome = "created" => Complete
    /\ outcome = "deleted" => Absent

(* A row with no request in flight stands for a complete device, though    *)
(* creations overlap each other and any of their calls fails: every error  *)
(* path of create_device undoes the row.  Excused is a row that a deletion *)
(* overlapped or failed on, that a restart found, that could not be read   *)
(* back once inserted, or whose undo failed.                               *)
RowMeansRegistered ==
    Quiet /\ row /\ ~excuse => Complete

(* The connection string of a SmartEMS entry is never replaced by another  *)
(* key, however requests overlap: create_device checks the entry it looked *)
(* up, and what it sends later concerns that entry or a new one.           *)
NeverRekeyed ==
    [][sems.string # 0 /\ sems'.string # sems.string => sems' = NoEntry]_vars

(* While no call fails, requests one after the other leave a device whole  *)
(* or absent: the row goes last, "source of truth only after external      *)
(* systems succeeded" (delete_device.py), and its tasks go with it         *)
(* (ondelete="CASCADE" in the migration that creates their table).         *)
WholeOrAbsent ==
    Quiet /\ faults = 0 => Complete \/ Absent
=============================================================================
