---------------------------- MODULE AtomicRenewal ----------------------------
(***************************************************************************)
(* What the renewal of disclosed secrets promises, with every task worked  *)
(* off in one step: a task is scheduled for a secret that was shown, is    *)
(* due by tomorrow and keeps its device, day and secret; nothing is tried  *)
(* before that day is over; it is completed only once its secret is        *)
(* replaced or SmartEMS has been told to replace it; what is completed or  *)
(* given up stays so, and only what is completed is forgotten.             *)
(*                                                                         *)
(* A task may be worked off after it was cancelled, once.  Nothing here    *)
(* knows of requests, of the periodic task, what it has loaded and where   *)
(* it was interrupted.                                                     *)
(***************************************************************************)
EXTENDS Integers

CONSTANTS Devices, Tasks, ErrorLimit, NoDevice

VARIABLES
    version,  \* [Devices -> Nat]: which secret the device has now
    forced,   \* the devices that SmartEMS was told to renew
    task,     \* [Tasks -> a row, or NoRow]
    day

vars == <<version, forced, task, day>>

NoRow == [status |-> "unused", device |-> NoDevice, due |-> 0, covers |-> 0, errors |-> 0]

Init ==
    /\ version = [d \in Devices |-> 0]
    /\ forced = {}
    /\ task = [t \in Tasks |-> NoRow]
    /\ day = 0

Schedule(t, d, due, covers) ==
    /\ task[t].status = "unused"
    /\ due <= day + 1
    /\ covers <= version[d]
    /\ task' = [task EXCEPT ![t] = [status |-> "Pending", device |-> d, due |-> due,
                                    covers |-> covers, errors |-> 0]]
    /\ UNCHANGED <<version, forced, day>>

Cancel(d) ==
    /\ task' = [t \in Tasks |->
                    IF task[t].device = d /\ task[t].status = "Pending"
                    THEN [task[t] EXCEPT !.status = "Canceled"] ELSE task[t]]
    /\ UNCHANGED <<version, forced, day>>

Force(d) ==
    /\ forced' = forced \cup {d}
    /\ UNCHANGED <<version, task, day>>

(* A renewal that its device carries out *)
Rotate(d) ==
    /\ d \in forced
    /\ version' = [version EXCEPT ![d] = @ + 1]
    /\ forced' = forced \ {d}
    /\ UNCHANGED <<task, day>>

MayTry(t) ==
    /\ task[t].status \in {"Pending", "Canceled"}
    /\ task[t].due < day

Renewed(t) == version[task[t].device] > task[t].covers \/ task[t].device \in forced

Complete(t) ==
    /\ MayTry(t)
    /\ Renewed(t)
    /\ task' = [task EXCEPT ![t].status = "Completed"]
    /\ UNCHANGED <<version, forced, day>>

(* The renewal may have been forced all the same. *)
Fail(t) ==
    LET count == task[t].errors + 1
    IN  /\ MayTry(t)
        /\ count <= ErrorLimit
        /\ task' = [task EXCEPT ![t].errors = count,
                                ![t].status = IF count = ErrorLimit THEN "Error" ELSE @]
        /\ forced' \in {forced, forced \cup {task[t].device}}
        /\ UNCHANGED <<version, day>>

Forget(old) ==
    /\ \A t \in old : task[t].status = "Completed"
    /\ task' = [t \in Tasks |-> IF t \in old THEN NoRow ELSE task[t]]
    /\ UNCHANGED <<version, forced, day>>

NextDay ==
    /\ day' = day + 1
    /\ UNCHANGED <<version, forced, task>>

Next ==
    \/ \E t \in Tasks, d \in Devices :
        \E due \in 0..day + 1, covers \in 0..version[d] : Schedule(t, d, due, covers)
    \/ \E d \in Devices : Cancel(d) \/ Force(d) \/ Rotate(d)
    \/ \E t \in Tasks : Complete(t) \/ Fail(t)
    \/ \E old \in SUBSET Tasks : Forget(old)
    \/ NextDay

Spec == Init /\ [][Next]_vars
=============================================================================
