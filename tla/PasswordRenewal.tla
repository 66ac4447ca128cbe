-------------------------- MODULE PasswordRenewal --------------------------
(***************************************************************************)
(* Disclosure and renewal of device secrets: POST device secret/request    *)
(* shows the secret SmartEMS holds and schedules its renewal for the end   *)
(* of the day, POST secret/renew forces it now, and a periodic task of the *)
(* process executes what is due.                                           *)
(*                                                                         *)
(* Every repository method commits by itself, so a handler that cancels    *)
(* and then schedules does so in two transactions, and the periodic task   *)
(* works through rows it loaded once.  Between SmartEMS being told to      *)
(* force a renewal and the device renewing, `forceRenewal` is set.         *)
(***************************************************************************)
EXTENDS Integers, FiniteSets

CONSTANTS
    Devices,     \* devices with a device-authentication secret
    Tasks,       \* rows of password_renewal_tasks (bounds how many exist at once)
    Requests,    \* slots for concurrent HTTP requests
    ErrorLimit,  \* failed attempts after which a task is given up (5)
    MaxDay,      \* bound: the last day of the model
    MaxVersion,  \* bound: secrets a device goes through
    MaxFaults,   \* bound: database errors in the periodic task and restarts
    NoDevice,
    NoTask

ASSUME Parameters ==
    /\ ErrorLimit \in Nat \ {0}
    /\ MaxDay \in Nat
    /\ MaxVersion \in Nat
    /\ MaxFaults \in Nat
    /\ NoDevice \notin Devices
    /\ NoTask \notin Tasks

ASSUME FiniteSlots == IsFiniteSet(Tasks) /\ IsFiniteSet(Requests)

VARIABLES
    version,    \* [Devices -> Nat]: which secret the device has now (SmartEMS)
    forced,     \* the devices whose forceRenewal flag is set (SmartEMS)
    task,       \* table password_renewal_tasks
    pc,         \* where each request is suspended
    arg,        \* what each request has read
    phase,      \* where the periodic task is suspended
    queue,      \* the rows it has loaded and not processed
    current,    \* the row whose renewal SmartEMS has accepted
    disclosed,  \* the devices whose present secret a client was answered with
    day,        \* the date
    late,       \* 23:00 or later
    faults      \* database errors and restarts so far

sems == <<version, forced>>
clock == <<day, late>>
worker == <<phase, queue, current>>
vars == <<version, forced, task, pc, arg, phase, queue, current, disclosed, day, late, faults>>

-----------------------------------------------------------------------------
(* Rows and requests *)

Days == 0..MaxDay
Versions == 0..MaxVersion

Statuses == {"unused", "Pending", "Canceled", "Completed", "Error"}

(* `covers` is not stored: the secret whose disclosure the task answers.   *)
Rows == [status : Statuses, device : Devices \cup {NoDevice}, due : Days,
         covers : Versions, errors : 0..ErrorLimit]

NoRow == [status |-> "unused", device |-> NoDevice, due |-> 0,
          covers |-> 0, errors |-> 0]

Blank == [device |-> NoDevice, force |-> FALSE, shown |-> 0, due |-> 0, late |-> FALSE]

Args == [device : Devices \cup {NoDevice}, force : BOOLEAN, shown : Versions,
         due : Days, late : BOOLEAN]

Pending(d) == {t \in Tasks : task[t].status = "Pending" /\ task[t].device = d}

Goto(r, step) == pc' = [pc EXCEPT ![r] = step]

Leave(r) ==
    /\ Goto(r, "idle")
    /\ arg' = [arg EXCEPT ![r] = Blank]

(* The client is answered with a secret; the device may have a new one. *)
Disclose(r, secret) ==
    LET d == arg[r].device
    IN  /\ Leave(r)
        /\ disclosed' = IF secret = version[d] THEN disclosed \cup {d} ELSE disclosed

(* cancel_scheduled_tasks_for_device: one UPDATE of the pending rows. *)
CancelPending(d) ==
    task' = [t \in Tasks |->
                IF t \in Pending(d) THEN [task[t] EXCEPT !.status = "Canceled"] ELSE task[t]]

-----------------------------------------------------------------------------
(* POST /smart-ems/{device}/secret/request *)

Ask(r, d) ==
    /\ pc[r] = "idle"
    /\ Goto(r, "show")
    /\ arg' = [arg EXCEPT ![r].device = d, ![r].force = (d \in forced)]
    /\ UNCHANGED <<sems, task, worker, disclosed, clock, faults>>

(* The secret is shown now; the flag is the one read before.  Without it   *)
(* the time is taken and the renewal due at the end of the day, or of the  *)
(* next one after 23:00.                                                   *)
Show(r) ==
    LET d == arg[r].device
        due == IF late THEN day + 1 ELSE day
    IN  /\ pc[r] = "show"
        /\ ~arg[r].force
        /\ due < MaxDay  \* bound: the renewal falls within the model's days
        /\ Goto(r, "count")
        /\ arg' = [arg EXCEPT ![r].shown = version[d], ![r].due = due, ![r].late = late]
        /\ UNCHANGED <<sems, task, worker, disclosed, clock, faults>>

ShowForced(r) ==
    /\ pc[r] = "show"
    /\ arg[r].force
    /\ Disclose(r, version[arg[r].device])
    /\ UNCHANGED <<sems, task, worker, clock, faults>>

(* Mutant of Count: pending tasks are not looked at. *)
CountNothing(r) ==
    /\ pc[r] = "count"
    /\ Goto(r, "insert")
    /\ UNCHANGED <<arg, disclosed, sems, task, worker, clock, faults>>

Count(r) ==
    /\ pc[r] = "count"
    /\ IF Pending(arg[r].device) = {}
         THEN Goto(r, "insert") /\ UNCHANGED <<arg, disclosed>>
         ELSE IF arg[r].late
                THEN Goto(r, "cancel") /\ UNCHANGED <<arg, disclosed>>
                ELSE Disclose(r, arg[r].shown)
    /\ UNCHANGED <<sems, task, worker, clock, faults>>

Cancel(r) ==
    /\ pc[r] = "cancel"
    /\ CancelPending(arg[r].device)
    /\ Goto(r, "insert")
    /\ UNCHANGED <<sems, arg, worker, disclosed, clock, faults>>

Insert(r, t) ==
    /\ pc[r] = "insert"
    /\ task[t].status = "unused"
    /\ task' = [task EXCEPT ![t] =
                    [status |-> "Pending", device |-> arg[r].device, due |-> arg[r].due,
                     covers |-> arg[r].shown, errors |-> 0]]
    /\ Disclose(r, arg[r].shown)
    /\ UNCHANGED <<sems, worker, clock, faults>>

-----------------------------------------------------------------------------
(* POST /smart-ems/{device}/secret/renew *)

Renew(r, d) ==
    /\ pc[r] = "idle"
    /\ forced' = forced \cup {d}
    /\ Goto(r, "renew_cancel")
    /\ arg' = [arg EXCEPT ![r].device = d]
    /\ UNCHANGED <<version, task, worker, disclosed, clock, faults>>

RenewCancel(r) ==
    /\ pc[r] = "renew_cancel"
    /\ CancelPending(arg[r].device)
    /\ Leave(r)
    /\ UNCHANGED <<sems, worker, disclosed, clock, faults>>

(* SmartEMS or the database fails, or the client gives up: what was        *)
(* committed stays.                                                        *)
Refuse(r) ==
    /\ pc[r] # "idle"
    /\ Leave(r)
    /\ UNCHANGED <<sems, task, worker, disclosed, clock, faults>>

-----------------------------------------------------------------------------
(* process_password_renewal_tasks, every 30 minutes *)

(* Mutant of Load: only the tasks due last night. *)
LoadYesterday ==
    /\ phase = "asleep"
    /\ queue' = {t \in Tasks : task[t].status = "Pending" /\ task[t].due = day - 1}
    /\ phase' = "working"
    /\ UNCHANGED <<sems, task, pc, arg, current, disclosed, clock, faults>>

(* A task is due at 23:59:59: for the days of the model, once its day is over. *)
Load ==
    /\ phase = "asleep"
    /\ queue' = {t \in Tasks : task[t].status = "Pending" /\ task[t].due < day}
    /\ phase' = "working"
    /\ UNCHANGED <<sems, task, pc, arg, current, disclosed, clock, faults>>

(* Mutant of ForceRenew: the task is completed, nothing is forced. *)
ForceNothing(t) ==
    /\ phase = "working"
    /\ t \in queue
    /\ phase' = "completing"
    /\ current' = t
    /\ UNCHANGED <<sems, task, pc, arg, queue, disclosed, clock, faults>>

ForceRenew(t) ==
    /\ phase = "working"
    /\ t \in queue
    /\ forced' = forced \cup {task[t].device}
    /\ phase' = "completing"
    /\ current' = t
    /\ UNCHANGED <<version, task, pc, arg, queue, disclosed, clock, faults>>

(* The row is written whatever its status has become since it was loaded.  *)
Complete ==
    /\ phase = "completing"
    /\ task' = [task EXCEPT ![current].status = "Completed"]
    /\ queue' = queue \ {current}
    /\ phase' = "working"
    /\ current' = NoTask
    /\ UNCHANGED <<sems, pc, arg, disclosed, clock, faults>>

CountError(t) ==
    LET count == task[t].errors + 1
    IN  task' = [task EXCEPT ![t].errors = count,
                             ![t].status = IF count >= ErrorLimit THEN "Error" ELSE @]

(* A call of SmartEMS fails; one that forces a renewal may have taken      *)
(* effect before its answer was lost.                                      *)
Err(t) ==
    /\ phase = "working"
    /\ t \in queue
    /\ forced' \in {forced, forced \cup {task[t].device}}
    /\ CountError(t)
    /\ queue' = queue \ {t}
    /\ UNCHANGED <<version, phase, pc, arg, current, disclosed, clock, faults>>

(* The commit of complete_task or update_task_error fails: the exception   *)
(* leaves the loop, and the rows not reached wait for the next run.        *)
AbortRun ==
    /\ phase # "asleep"
    /\ faults < MaxFaults
    /\ faults' = faults + 1
    /\ phase' = "asleep"
    /\ queue' = {}
    /\ current' = NoTask
    /\ UNCHANGED <<sems, task, pc, arg, disclosed, clock>>

(* Mutant of Purge: whatever is old goes, done or not. *)
PurgeOld(old) ==
    /\ phase = "working"
    /\ queue = {}
    /\ phase' = "asleep"
    /\ task' = [t \in Tasks |-> IF t \in old THEN NoRow ELSE task[t]]
    /\ UNCHANGED <<sems, pc, arg, queue, current, disclosed, clock, faults>>

(* The end of the loop, and purge_completed_tasks: `old` are the rows made *)
(* over a year ago.                                                        *)
Purge(old) ==
    /\ phase = "working"
    /\ queue = {}
    /\ phase' = "asleep"
    /\ task' = [t \in Tasks |->
                    IF t \in old /\ task[t].status = "Completed" THEN NoRow ELSE task[t]]
    /\ UNCHANGED <<sems, pc, arg, queue, current, disclosed, clock, faults>>

-----------------------------------------------------------------------------
(* The environment *)

(* A device that reads the flag makes a new secret (external). *)
Rotate(d) ==
    /\ d \in forced
    /\ version[d] < MaxVersion
    /\ version' = [version EXCEPT ![d] = @ + 1]
    /\ forced' = forced \ {d}
    /\ disclosed' = disclosed \ {d}
    /\ UNCHANGED <<task, pc, arg, worker, clock, faults>>

Tick ==
    /\ ~(late /\ day = MaxDay)
    /\ late' = ~late
    /\ day' = IF late THEN day + 1 ELSE day
    /\ UNCHANGED <<sems, task, pc, arg, worker, disclosed, faults>>

Restart ==
    /\ faults < MaxFaults
    /\ faults' = faults + 1
    /\ pc' = [r \in Requests |-> "idle"]
    /\ arg' = [r \in Requests |-> Blank]
    /\ phase' = "asleep"
    /\ queue' = {}
    /\ current' = NoTask
    /\ UNCHANGED <<sems, task, disclosed, clock>>

-----------------------------------------------------------------------------
(* Specification *)

Init ==
    /\ version = [d \in Devices |-> 0]
    /\ forced = {}
    /\ task = [t \in Tasks |-> NoRow]
    /\ pc = [r \in Requests |-> "idle"]
    /\ arg = [r \in Requests |-> Blank]
    /\ phase = "asleep"
    /\ queue = {}
    /\ current = NoTask
    /\ disclosed = {}
    /\ day = 0
    /\ late = FALSE
    /\ faults = 0

Submit(r) == \E d \in Devices : Ask(r, d) \/ Renew(r, d)

Proceed(r) ==
    \/ Show(r) \/ ShowForced(r) \/ Count(r) \/ Cancel(r)
    \/ \E t \in Tasks : Insert(r, t)
    \/ RenewCancel(r)
    \/ Refuse(r)

Process ==
    \/ Load
    \/ \E t \in Tasks : ForceRenew(t) \/ Err(t)
    \/ Complete
    \/ \E old \in SUBSET Tasks : Purge(old)

Next ==
    \/ \E r \in Requests : Submit(r) \/ Proceed(r)
    \/ Process
    \/ AbortRun
    \/ \E d \in Devices : Rotate(d)
    \/ Tick
    \/ Restart

Spec == Init /\ [][Next]_vars

(* The event loop resumes suspended coroutines, the periodic task wakes    *)
(* every 30 minutes and time passes; devices need not connect.             *)
Fairness ==
    /\ \A r \in Requests : WF_vars(Proceed(r))
    /\ WF_vars(Process)
    /\ WF_vars(Tick)

FairSpec == Spec /\ Fairness

-----------------------------------------------------------------------------
(* Properties *)

Steps == {"idle", "show", "count", "cancel", "insert", "renew_cancel"}

(* Each variable holds the kind of value the rows, the suspended handlers  *)
(* and SmartEMS can hold; no attempt is counted past the limit.            *)
TypeOK ==
    /\ version \in [Devices -> Versions]
    /\ forced \subseteq Devices
    /\ task \in [Tasks -> Rows]
    /\ pc \in [Requests -> Steps]
    /\ arg \in [Requests -> Args]
    /\ phase \in {"asleep", "working", "completing"}
    /\ queue \subseteq Tasks
    /\ current \in Tasks \cup {NoTask}
    /\ disclosed \subseteq Devices
    /\ day \in Days
    /\ late \in BOOLEAN
    /\ faults \in 0..MaxFaults

Inserting(d) == {r \in Requests : pc[r] = "insert" /\ arg[r].device = d}

(* Concurrent requests may each find no pending task and schedule one, but *)
(* duplicates never pile up from one day to the next: a device's pending   *)
(* tasks and those about to be stored are no more than the requests that   *)
(* can be in flight.                                                       *)
PendingBounded ==
    \A d \in Devices :
        Cardinality(Pending(d)) + Cardinality(Inserting(d)) <= Cardinality(Requests)

(* A task is recorded as completed only if SmartEMS was told to renew      *)
(* after the secret it answers for was shown, whatever crashed, failed or  *)
(* was cancelled meanwhile: that secret is replaced or about to be.        *)
CompletedWasForced ==
    \A t \in Tasks : task[t].status = "Completed" =>
        \/ version[task[t].device] > task[t].covers
        \/ task[t].device \in forced

(* A disclosed secret is left usable until the end of its day: no attempt  *)
(* at a task, failed or not, comes before the day it is due is over; and a *)
(* task is given up exactly when its attempts are used up.                 *)
AttemptsInTime ==
    \A t \in Tasks :
        /\ task[t].status = "Completed" \/ task[t].errors > 0 => task[t].due < day
        /\ task[t].status = "Error" <=> task[t].errors = ErrorLimit

Atomic == INSTANCE AtomicRenewal

(* Requests that overlap each other and the periodic task, which works on  *)
(* rows it loaded before, is interrupted and starts again, do to the tasks *)
(* what could have been done one task at a time: no task is worked off     *)
(* twice or too early, completed without its renewal or lost.              *)
ImplementsAtomicRenewal == Atomic!Spec

(* Every pending task is completed, cancelled or given up in the end,      *)
(* although runs are aborted and nights missed.                            *)
PendingEventuallyDone ==
    \A t \in Tasks : task[t].status = "Pending" ~> task[t].status # "Pending"

-----------------------------------------------------------------------------
(* What comments of the code say and the interleavings refute *)

(* post_smart_ems_device_secret_request.py:31, "Initiate secret renewal    *)
(* process unless force renewal is set": a secret a client was given and   *)
(* the device still has is about to be renewed, or a task for it is        *)
(* pending, being rescheduled or given up.                                 *)
DisclosedIsCovered ==
    \A d \in disclosed :
        \/ d \in forced
        \/ \E t \in Tasks : task[t].device = d /\ task[t].status \in {"Pending", "Error"}
        \/ \E r \in Requests : arg[r].device = d /\ pc[r] = "insert"
=============================================================================
