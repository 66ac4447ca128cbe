----------------------- MODULE PasswordRenewalProofs -----------------------
(***************************************************************************)
(* Proofs about PasswordRenewal for every set of devices, rows and         *)
(* requests, every error limit and every horizon.                          *)
(***************************************************************************)
EXTENDS PasswordRenewal, FiniteSetTheorems, TLAPS

-----------------------------------------------------------------------------
(* The inductive invariant *)

(* A request past its first step names a device; a secret it holds is the  *)
(* device's present one or an older one, and what it schedules is due by   *)
(* tomorrow.                                                               *)
ArgInv ==
    \A r \in Requests :
        /\ pc[r] # "idle" => arg[r].device \in Devices
        /\ pc[r] \in {"count", "cancel", "insert"} =>
              arg[r].shown <= version[arg[r].device] /\ arg[r].due <= day + 1

(* The same for a stored task; a slot without a row is blank.              *)
RowInv ==
    \A t \in Tasks :
        /\ task[t].status = "unused" => task[t].errors = 0
        /\ task[t].status # "unused" =>
              /\ task[t].device \in Devices
              /\ task[t].covers <= version[task[t].device]

(* What the periodic task still has to do fell due on an earlier day and   *)
(* nobody else finishes it; the task it is completing has been forced.     *)
WorkerInv ==
    /\ phase = "asleep" => queue = {}
    /\ \A t \in queue :
        /\ task[t].status \in {"Pending", "Canceled"}
        /\ task[t].due < day
    /\ phase = "completing" =>
        /\ current \in queue
        /\ \/ version[task[current].device] > task[current].covers
           \/ task[current].device \in forced

IInv ==
    /\ TypeOK
    /\ ArgInv
    /\ RowInv
    /\ WorkerInv
    /\ PendingBounded
    /\ CompletedWasForced
    /\ AttemptsInTime

-----------------------------------------------------------------------------
(* Type correctness *)

LEMMA ArgFields ==
    ASSUME TypeOK, NEW r \in Requests
    PROVE  /\ arg[r].device \in Devices \cup {NoDevice}
           /\ arg[r].force \in BOOLEAN
           /\ arg[r].shown \in Versions
           /\ arg[r].due \in Days
           /\ arg[r].late \in BOOLEAN
           /\ pc[r] \in Steps
BY DEF TypeOK, Args

LEMMA RowFields ==
    ASSUME TypeOK, NEW t \in Tasks
    PROVE  /\ task[t].status \in Statuses
           /\ task[t].device \in Devices \cup {NoDevice}
           /\ task[t].due \in Days
           /\ task[t].covers \in Versions
           /\ task[t].errors \in 0..ErrorLimit
BY DEF TypeOK, Rows

LEMMA BlankTypes == Blank \in Args /\ NoRow \in Rows
BY Parameters DEF Blank, Args, NoRow, Rows, Days, Versions, Statuses

LEMMA LeaveType ==
    ASSUME TypeOK, NEW r \in Requests, Leave(r)
    PROVE  pc' \in [Requests -> Steps] /\ arg' \in [Requests -> Args]
BY BlankTypes DEF TypeOK, Leave, Goto, Steps

LEMMA DiscloseType ==
    ASSUME TypeOK, NEW r \in Requests, NEW secret, arg[r].device \in Devices,
           Disclose(r, secret)
    PROVE  /\ pc' \in [Requests -> Steps]
           /\ arg' \in [Requests -> Args]
           /\ disclosed' \subseteq Devices
BY LeaveType DEF TypeOK, Disclose

LEMMA CancelType ==
    ASSUME TypeOK, NEW d, CancelPending(d)
    PROVE  task' \in [Tasks -> Rows]
BY DEF TypeOK, CancelPending, Rows, Statuses

LEMMA GotoType ==
    ASSUME TypeOK, NEW r \in Requests, NEW step \in Steps, Goto(r, step)
    PROVE  pc' \in [Requests -> Steps]
BY DEF TypeOK, Goto

(* What Ask, Show and Renew record fits.                                   *)
LEMMA AskArgs ==
    ASSUME arg \in [Requests -> Args], NEW r \in Requests, NEW d \in Devices,
           NEW f \in BOOLEAN
    PROVE  [arg EXCEPT ![r].device = d, ![r].force = f] \in [Requests -> Args]
BY DEF Args

LEMMA RenewArgs ==
    ASSUME arg \in [Requests -> Args], NEW r \in Requests, NEW d \in Devices
    PROVE  [arg EXCEPT ![r].device = d] \in [Requests -> Args]
BY DEF Args

LEMMA ShowArgs ==
    ASSUME arg \in [Requests -> Args], NEW r \in Requests, NEW v \in Versions,
           NEW due \in Days, NEW l \in BOOLEAN
    PROVE  [arg EXCEPT ![r].shown = v, ![r].due = due, ![r].late = l]
                \in [Requests -> Args]
BY DEF Args

LEMMA SubmitType ==
    ASSUME IInv, NEW r \in Requests, Submit(r)
    PROVE  TypeOK'
<1>1. PICK d \in Devices : Ask(r, d) \/ Renew(r, d)
  BY DEF Submit
<1>2. CASE Ask(r, d)
  <2>1. arg' = [arg EXCEPT ![r].device = d, ![r].force = (d \in forced)]
    BY <1>2 DEF Ask
  <2>2. arg' \in [Requests -> Args]
    <3>1. arg \in [Requests -> Args] /\ (d \in forced) \in BOOLEAN
      BY DEF IInv, TypeOK
    <3>2. QED
      BY ONLY <2>1, <3>1, AskArgs, r \in Requests, d \in Devices
  <2>3. pc' \in [Requests -> Steps]
    BY <1>2, GotoType DEF Ask, Steps, IInv
  <2>4. QED
    BY <1>2, <2>2, <2>3 DEF IInv, TypeOK, Ask, sems, worker, clock
<1>3. CASE Renew(r, d)
  <2>1. arg' = [arg EXCEPT ![r].device = d]
    BY <1>3 DEF Renew
  <2>2. arg' \in [Requests -> Args]
    BY <2>1, RenewArgs DEF IInv, TypeOK
  <2>3. pc' \in [Requests -> Steps]
    BY <1>3, GotoType DEF Renew, Steps, IInv
  <2>4. QED
    BY <1>3, <2>2, <2>3 DEF IInv, TypeOK, Renew, worker, clock
<1>4. QED
  BY <1>1, <1>2, <1>3

LEMMA ProceedType ==
    ASSUME IInv, NEW r \in Requests, Proceed(r)
    PROVE  TypeOK'
<1> USE DEF sems, worker, clock
<1>1. CASE Show(r)
  <2> DEFINE due == IF late THEN day + 1 ELSE day
  <2>1. arg' = [arg EXCEPT ![r].shown = version[arg[r].device], ![r].due = due, ![r].late = late]
    BY <1>1 DEF Show
  <2>2. due \in Days
    BY <1>1, Parameters DEF Show, IInv, TypeOK, Days
  <2>3. arg[r].device \in Devices
    BY <1>1 DEF Show, IInv, ArgInv
  <2>4. version[arg[r].device] \in Versions
    BY <2>3 DEF IInv, TypeOK
  <2>5. arg' \in [Requests -> Args]
    BY <2>1, <2>2, <2>4, ShowArgs DEF IInv, TypeOK
  <2>6. pc' \in [Requests -> Steps]
    BY <1>1, GotoType DEF Show, Steps, IInv
  <2>7. QED
    BY <1>1, <2>5, <2>6 DEF IInv, TypeOK, Show
<1>2. CASE ShowForced(r)
  <2>1. arg[r].device \in Devices
    BY <1>2 DEF ShowForced, IInv, ArgInv
  <2>2. QED
    BY <1>2, <2>1, DiscloseType DEF IInv, TypeOK, ShowForced
<1>3. CASE Count(r)
  <2>1. arg[r].device \in Devices
    BY <1>3 DEF Count, IInv, ArgInv
  <2>2. /\ pc' \in [Requests -> Steps]
        /\ arg' \in [Requests -> Args]
        /\ disclosed' \subseteq Devices
    BY <1>3, <2>1, DiscloseType, GotoType DEF IInv, TypeOK, Count, Steps
  <2>3. QED
    BY <1>3, <2>2 DEF IInv, TypeOK, Count
<1>4. CASE Cancel(r)
  <2>1. pc' \in [Requests -> Steps]
    BY <1>4, GotoType DEF Cancel, Steps, IInv
  <2>2. task' \in [Tasks -> Rows]
    BY <1>4, CancelType DEF Cancel, IInv
  <2>3. QED
    BY <1>4, <2>1, <2>2 DEF IInv, TypeOK, Cancel
<1>5. CASE \E t \in Tasks : Insert(r, t)
  <2>1. PICK t \in Tasks : Insert(r, t)
    BY <1>5
  <2>2. arg[r].device \in Devices
    BY <2>1 DEF Insert, IInv, ArgInv
  <2>3. [status |-> "Pending", device |-> arg[r].device, due |-> arg[r].due,
         covers |-> arg[r].shown, errors |-> 0] \in Rows
    BY <2>2, ArgFields, Parameters DEF IInv, Rows, Statuses
  <2>4. task' \in [Tasks -> Rows]
    BY <2>1, <2>3 DEF Insert, IInv, TypeOK
  <2>5. QED
    BY <2>1, <2>2, <2>4, DiscloseType DEF IInv, TypeOK, Insert
<1>6. CASE RenewCancel(r)
  <2>1. task' \in [Tasks -> Rows]
    BY <1>6, CancelType DEF RenewCancel, IInv
  <2>2. QED
    BY <1>6, <2>1, LeaveType DEF IInv, TypeOK, RenewCancel
<1>7. CASE Refuse(r)
  BY <1>7, LeaveType DEF IInv, TypeOK, Refuse
<1>8. QED
  BY <1>1, <1>2, <1>3, <1>4, <1>5, <1>6, <1>7 DEF Proceed

(* A row the periodic task holds has attempts left.                        *)
LEMMA QueueFields ==
    ASSUME IInv, NEW t \in queue
    PROVE  /\ t \in Tasks
           /\ task[t].status \in {"Pending", "Canceled"}
           /\ task[t].device \in Devices
           /\ task[t].covers <= version[task[t].device]
           /\ task[t].due < day
           /\ task[t].errors + 1 \in 1..ErrorLimit
<1>1. t \in Tasks /\ task[t].status \in {"Pending", "Canceled"} /\ task[t].due < day
  BY DEF IInv, TypeOK, WorkerInv
<1>2. task[t].device \in Devices /\ task[t].covers <= version[task[t].device]
  BY <1>1 DEF IInv, RowInv
<1>3. task[t].errors \in 0..ErrorLimit /\ task[t].errors # ErrorLimit
  BY <1>1, RowFields DEF IInv, AttemptsInTime
<1>4. QED
  BY <1>1, <1>2, <1>3, Parameters

(* CountError changes the counter and, at the limit, the status of one row. *)
LEMMA CountErrorRows ==
    ASSUME IInv, NEW t \in queue, CountError(t)
    PROVE  /\ task' \in [Tasks -> Rows]
           /\ \A s \in Tasks \ {t} : task'[s] = task[s]
           /\ task'[t].device = task[t].device
           /\ task'[t].due = task[t].due
           /\ task'[t].covers = task[t].covers
           /\ task'[t].errors = task[t].errors + 1
           /\ task'[t].status = IF task[t].errors + 1 >= ErrorLimit THEN "Error"
                                                                  ELSE task[t].status
<1>1. t \in Tasks /\ task[t].errors + 1 \in 0..ErrorLimit
  BY QueueFields, Parameters
<1>2. task \in [Tasks -> Rows]
  BY DEF IInv, TypeOK
<1>3. QED
  BY <1>1, <1>2 DEF CountError, Rows, Statuses

LEMMA ProcessType ==
    ASSUME IInv, Process
    PROVE  TypeOK'
<1> USE DEF sems, worker, clock
<1>1. CASE Load
  BY <1>1 DEF IInv, TypeOK, Load
<1>2. CASE \E t \in Tasks : ForceRenew(t)
  <2>1. PICK t \in Tasks : ForceRenew(t)
    BY <1>2
  <2>2. task[t].device \in Devices
    BY <2>1, QueueFields DEF ForceRenew
  <2>3. QED
    BY <2>1, <2>2 DEF IInv, TypeOK, ForceRenew
<1>3. CASE \E t \in Tasks : Err(t)
  <2>1. PICK t \in Tasks : Err(t)
    BY <1>3
  <2>2. task[t].device \in Devices
    BY <2>1, QueueFields DEF Err
  <2>3. task' \in [Tasks -> Rows]
    BY <2>1, CountErrorRows DEF Err
  <2>4. QED
    BY <2>1, <2>2, <2>3 DEF IInv, TypeOK, Err
<1>4. CASE Complete
  <2>1. task' \in [Tasks -> Rows]
    BY <1>4 DEF IInv, TypeOK, Complete, Rows, Statuses
  <2>2. QED
    BY <1>4, <2>1 DEF IInv, TypeOK, Complete
<1>5. CASE \E old \in SUBSET Tasks : Purge(old)
  <2>1. PICK old \in SUBSET Tasks : Purge(old)
    BY <1>5
  <2>2. task' \in [Tasks -> Rows]
    BY <2>1, BlankTypes DEF IInv, TypeOK, Purge
  <2>3. QED
    BY <2>1, <2>2 DEF IInv, TypeOK, Purge
<1>6. QED
  BY <1>1, <1>2, <1>3, <1>4, <1>5 DEF Process

LEMMA TypeStep ==
    ASSUME IInv, [Next]_vars
    PROVE  TypeOK'
<1> USE DEF sems, worker, clock
<1>1. CASE \E r \in Requests : Submit(r) \/ Proceed(r)
  BY <1>1, SubmitType, ProceedType
<1>2. CASE Process
  BY <1>2, ProcessType
<1>3. CASE AbortRun
  BY <1>3, Parameters DEF IInv, TypeOK, AbortRun
<1>4. CASE \E d \in Devices : Rotate(d)
  BY <1>4, Parameters DEF IInv, TypeOK, Rotate, Versions
<1>5. CASE Tick
  BY <1>5, Parameters DEF IInv, TypeOK, Tick, Days
<1>6. CASE Restart
  BY <1>6, BlankTypes, Parameters DEF IInv, TypeOK, Restart, Steps
<1>7. CASE UNCHANGED vars
  BY <1>7 DEF IInv, TypeOK, vars
<1>8. QED
  BY <1>1, <1>2, <1>3, <1>4, <1>5, <1>6, <1>7 DEF Next

-----------------------------------------------------------------------------
(* What one step does to a row, to SmartEMS and to the periodic task *)

SameRowBut(t, status) ==
    task'[t] = [task[t] EXCEPT !.status = status]

InsertedFrom(t, r) ==
    /\ pc[r] = "insert"
    /\ task[t].status = "unused"
    /\ task'[t] = [status |-> "Pending", device |-> arg[r].device, due |-> arg[r].due,
                   covers |-> arg[r].shown, errors |-> 0]

CountedError(t) ==
    /\ phase = "working"
    /\ t \in queue
    /\ t \notin queue'
    /\ task'[t].device = task[t].device
    /\ task'[t].due = task[t].due
    /\ task'[t].covers = task[t].covers
    /\ task'[t].errors = task[t].errors + 1
    /\ task'[t].status = IF task[t].errors + 1 >= ErrorLimit THEN "Error" ELSE task[t].status

(* Every change of a row is one of five. *)
RowChange(t) ==
    \/ task'[t] = task[t]
    \/ task[t].status = "Pending" /\ SameRowBut(t, "Canceled")
    \/ CountedError(t)
    \/ phase = "completing" /\ t = current /\ SameRowBut(t, "Completed") /\ t \notin queue'
    \/ task[t].status = "Completed" /\ task'[t] = NoRow
    \/ \E r \in Requests : InsertedFrom(t, r)

LEMMA CancelChange ==
    ASSUME TypeOK, NEW d, CancelPending(d), NEW t \in Tasks
    PROVE  \/ task'[t] = task[t]
           \/ task[t].status = "Pending" /\ SameRowBut(t, "Canceled")
BY DEF CancelPending, Pending, SameRowBut

LEMMA RowStep ==
    ASSUME IInv, [Next]_vars, NEW t \in Tasks
    PROVE  RowChange(t)
<1> USE DEF sems, worker, clock, RowChange
<1>1. CASE \E r \in Requests : Submit(r) \/ Proceed(r)
  <2>1. PICK r \in Requests : Submit(r) \/ Proceed(r)
    BY <1>1
  <2>2. CASE Submit(r)
    BY <2>2 DEF Submit, Ask, Renew
  <2>3. CASE Show(r) \/ ShowForced(r) \/ Count(r) \/ Refuse(r)
    BY <2>3 DEF Show, ShowForced, Count, Refuse
  <2>4. CASE Cancel(r) \/ RenewCancel(r)
    BY <2>4, CancelChange DEF Cancel, RenewCancel, IInv
  <2>5. CASE \E s \in Tasks : Insert(r, s)
    <3>1. PICK s \in Tasks : Insert(r, s)
      BY <2>5
    <3>2. CASE s = t
      BY <3>1, <3>2 DEF Insert, InsertedFrom, IInv, TypeOK
    <3>3. CASE s # t
      BY <3>1, <3>3 DEF Insert, IInv, TypeOK
    <3>4. QED
      BY <3>2, <3>3
  <2>6. QED
    BY <2>1, <2>2, <2>3, <2>4, <2>5 DEF Proceed
<1>2. CASE Process
  <2>1. CASE Load \/ \E s \in Tasks : ForceRenew(s)
    BY <2>1 DEF Load, ForceRenew
  <2>2. CASE \E s \in Tasks : Err(s)
    <3>1. PICK s \in Tasks : Err(s)
      BY <2>2
    <3>2. CASE s = t
      BY <3>1, <3>2, CountErrorRows DEF Err, CountedError
    <3>3. CASE s # t
      BY <3>1, <3>3, CountErrorRows DEF Err
    <3>4. QED
      BY <3>2, <3>3
  <2>3. CASE Complete
    BY <2>3 DEF Complete, SameRowBut, IInv, TypeOK, WorkerInv
  <2>4. CASE \E old \in SUBSET Tasks : Purge(old)
    BY <2>4 DEF Purge, IInv, TypeOK
  <2>5. QED
    BY <1>2, <2>1, <2>2, <2>3, <2>4 DEF Process
<1>3. CASE AbortRun \/ Tick \/ Restart \/ \E d \in Devices : Rotate(d)
  BY <1>3 DEF AbortRun, Tick, Restart, Rotate
<1>4. CASE UNCHANGED vars
  BY <1>4 DEF vars
<1>5. QED
  BY <1>1, <1>2, <1>3, <1>4 DEF Next

(* A secret once replaced stays replaced, and the flag goes only when the  *)
(* device has a new secret.                                                *)
LEMMA SemsStep ==
    ASSUME IInv, [Next]_vars, NEW d \in Devices
    PROVE  /\ version[d] \in Nat /\ version'[d] \in Nat
           /\ version[d] <= version'[d]
           /\ d \in forced => d \in forced' \/ version[d] < version'[d]
<1> USE DEF sems, worker, clock
<1>1. version[d] \in Nat
  BY Parameters DEF IInv, TypeOK, Versions
<1>2. CASE version' = version /\ forced \subseteq forced'
  BY <1>1, <1>2
<1>3. CASE \E r \in Requests : Submit(r) \/ Proceed(r)
  BY <1>2, <1>3 DEF Submit, Proceed, Ask, Renew, Show, ShowForced, Count, Cancel, Insert,
                    RenewCancel, Refuse
<1>4. CASE Process
  BY <1>2, <1>4 DEF Process, Load, ForceRenew, Err, Complete, Purge
<1>5. CASE AbortRun \/ Tick \/ Restart \/ UNCHANGED vars
  BY <1>2, <1>5 DEF AbortRun, Tick, Restart, vars
<1>6. CASE \E k \in Devices : Rotate(k)
  <2>1. PICK k \in Devices : Rotate(k)
    BY <1>6
  <2>2. CASE k = d
    BY <1>1, <2>1, <2>2 DEF Rotate, IInv, TypeOK
  <2>3. CASE k # d
    BY <1>1, <2>1, <2>3 DEF Rotate, IInv, TypeOK
  <2>4. QED
    BY <2>2, <2>3
<1>7. QED
  BY <1>3, <1>4, <1>5, <1>6 DEF Next

LEMMA DayStep ==
    ASSUME IInv, [Next]_vars
    PROVE  day \in Nat /\ day' \in Nat /\ day <= day'
<1> USE DEF sems, worker, clock
<1>1. day \in Nat
  BY Parameters DEF IInv, TypeOK, Days
<1>2. CASE Tick
  BY <1>1, <1>2 DEF Tick
<1>3. CASE day' = day
  BY <1>1, <1>3
<1>4. QED
  BY <1>2, <1>3 DEF Next, Submit, Proceed, Process, Ask, Renew, Show, ShowForced, Count,
     Cancel, Insert, RenewCancel, Refuse, Load, ForceRenew, Err, Complete, Purge, AbortRun,
     Rotate, Restart, vars

-----------------------------------------------------------------------------
(* Requests *)

(* The step of one request leaves the others where they are, and that one  *)
(* answered, at a step that needs no secret, or with the secret it shows.  *)
LEMMA RequestStep ==
    ASSUME IInv, NEW r \in Requests, Submit(r) \/ Proceed(r)
    PROVE  /\ \A s \in Requests \ {r} : pc'[s] = pc[s] /\ arg'[s] = arg[s]
           /\ pc'[r] # "idle" => arg'[r].device \in Devices
           /\ pc'[r] \in {"count", "cancel", "insert"} =>
                 arg'[r].shown <= version[arg'[r].device] /\ arg'[r].due <= day + 1
<1> USE DEF Goto, Leave, Disclose
<1>1. pc \in [Requests -> Steps] /\ arg \in [Requests -> Args]
  BY DEF IInv, TypeOK
<1>2. pc[r] # "idle" => arg[r].device \in Devices
  BY DEF IInv, ArgInv
<1>3. CASE Submit(r)
  BY <1>1, <1>3 DEF Submit, Ask, Renew, Args
<1>4. CASE Show(r)
  <2>1. arg[r].device \in Devices
    BY <1>2, <1>4 DEF Show
  <2>2. /\ arg'[r].device = arg[r].device /\ arg'[r].shown = version[arg[r].device]
        /\ arg'[r].due = IF late THEN day + 1 ELSE day
    BY <1>1, <1>4 DEF Show, Args
  <2>3. version[arg[r].device] \in Nat /\ day \in Nat
    BY <2>1, Parameters DEF IInv, TypeOK, Versions, Days
  <2>4. QED
    BY <1>1, <1>4, <2>1, <2>2, <2>3 DEF Show
<1>5. CASE ShowForced(r) \/ RenewCancel(r) \/ Refuse(r)
  BY <1>1, <1>5 DEF ShowForced, RenewCancel, Refuse
<1>6. CASE Count(r) \/ Cancel(r) \/ \E t \in Tasks : Insert(r, t)
  BY <1>1, <1>2, <1>6 DEF Count, Cancel, Insert, IInv, ArgInv
<1>7. QED
  BY <1>3, <1>4, <1>5, <1>6 DEF Proceed

LEMMA ArgStep ==
    ASSUME IInv, [Next]_vars
    PROVE  ArgInv'
<1> USE DEF sems, worker, clock
<1>1. CASE \E r \in Requests : Submit(r) \/ Proceed(r)
  <2>1. PICK r \in Requests : Submit(r) \/ Proceed(r)
    BY <1>1
  <2>2. version' = version /\ day' = day
    BY <2>1 DEF Submit, Proceed, Ask, Renew, Show, ShowForced, Count, Cancel, Insert,
                RenewCancel, Refuse
  <2>3. QED
    BY <2>1, <2>2, RequestStep DEF ArgInv, IInv
<1>2. CASE pc' = pc /\ arg' = arg
  <2> SUFFICES ASSUME NEW r \in Requests
               PROVE  /\ pc'[r] # "idle" => arg'[r].device \in Devices
                      /\ pc'[r] \in {"count", "cancel", "insert"} =>
                            arg'[r].shown <= version'[arg'[r].device] /\ arg'[r].due <= day' + 1
    BY DEF ArgInv
  <2>1. arg[r].shown \in Nat /\ arg[r].due \in Nat
    BY ArgFields, Parameters DEF IInv, Versions, Days
  <2>2. QED
    BY <1>2, <2>1, SemsStep, DayStep DEF IInv, ArgInv
<1>3. CASE Restart
  BY <1>3 DEF Restart, ArgInv
<1>4. QED
  BY <1>1, <1>2, <1>3 DEF Next, Process, Load, ForceRenew, Err, Complete, Purge, AbortRun,
                          Rotate, Tick, vars

-----------------------------------------------------------------------------
(* Rows *)

LEMMA RowsStep ==
    ASSUME IInv, [Next]_vars
    PROVE  RowInv'
<1> SUFFICES ASSUME NEW t \in Tasks
             PROVE  /\ task'[t].status = "unused" => task'[t].errors = 0
                    /\ task'[t].status # "unused" =>
                          /\ task'[t].device \in Devices
                          /\ task'[t].covers <= version'[task'[t].device]
  BY DEF RowInv
<1> DEFINE Kept == /\ task'[t].device = task[t].device
                   /\ task'[t].covers = task[t].covers
                   /\ task[t].status # "unused"
                   /\ task'[t].status # "unused"
<1>1. task[t].covers \in Nat /\ task[t] \in Rows
  BY RowFields, Parameters DEF IInv, TypeOK, Versions
<1>2. CASE Kept
  <2>1. task[t].device \in Devices /\ task[t].covers <= version[task[t].device]
    BY <1>2 DEF IInv, RowInv
  <2>2. QED
    BY <1>1, <1>2, <2>1, SemsStep
<1>3. CASE task'[t] = task[t]
  <2>1. CASE task[t].status = "unused"
    BY <1>3, <2>1 DEF IInv, RowInv
  <2>2. CASE task[t].status # "unused"
    BY <1>2, <1>3, <2>2
  <2>3. QED
    BY <2>1, <2>2
<1>4. CASE task[t].status = "Pending" /\ SameRowBut(t, "Canceled")
  BY <1>1, <1>2, <1>4 DEF SameRowBut, Rows
<1>5. CASE CountedError(t)
  BY <1>2, <1>5, QueueFields DEF CountedError
<1>6. CASE phase = "completing" /\ t = current /\ SameRowBut(t, "Completed")
  <2>1. t \in queue
    BY <1>6 DEF IInv, WorkerInv
  <2>2. QED
    BY <1>1, <1>2, <1>6, <2>1, QueueFields DEF SameRowBut, Rows
<1>7. CASE task[t].status = "Completed" /\ task'[t] = NoRow
  BY <1>7 DEF NoRow
<1>8. CASE \E r \in Requests : InsertedFrom(t, r)
  <2>1. PICK r \in Requests : InsertedFrom(t, r)
    BY <1>8
  <2>2. arg[r].device \in Devices /\ arg[r].shown <= version[arg[r].device]
    BY <2>1 DEF IInv, ArgInv, InsertedFrom
  <2>3. arg[r].shown \in Nat
    BY ArgFields, Parameters DEF IInv, Versions
  <2>4. QED
    BY <2>1, <2>2, <2>3, SemsStep DEF InsertedFrom
<1>9. QED
  BY <1>3, <1>4, <1>5, <1>6, <1>7, <1>8, RowStep DEF RowChange

LEMMA CompletedStep ==
    ASSUME IInv, [Next]_vars
    PROVE  CompletedWasForced'
<1> SUFFICES ASSUME NEW t \in Tasks, task'[t].status = "Completed"
             PROVE  \/ version'[task'[t].device] > task'[t].covers
                    \/ task'[t].device \in forced'
  BY DEF CompletedWasForced
<1>1. task[t].covers \in Nat /\ task[t] \in Rows
  BY RowFields, Parameters DEF IInv, TypeOK, Versions
<1>2. CASE /\ task'[t].device = task[t].device
           /\ task'[t].covers = task[t].covers
           /\ task[t].device \in Devices
           /\ task[t].covers <= version[task[t].device]
           /\ \/ version[task[t].device] > task[t].covers
              \/ task[t].device \in forced
  BY <1>1, <1>2, SemsStep
<1>3. CASE task'[t] = task[t]
  BY <1>2, <1>3 DEF IInv, CompletedWasForced, RowInv
<1>4. CASE phase = "completing" /\ t = current /\ SameRowBut(t, "Completed")
  <2>1. /\ t \in queue
        /\ version[task[t].device] > task[t].covers \/ task[t].device \in forced
    BY <1>4 DEF IInv, WorkerInv
  <2>2. QED
    BY <1>1, <1>2, <1>4, <2>1, QueueFields DEF SameRowBut, Rows
<1>5. task'[t].status # "Canceled" /\ task'[t].status # "unused" /\ ~CountedError(t)
  BY QueueFields DEF CountedError
<1>6. ~SameRowBut(t, "Canceled") /\ task'[t] # NoRow
  BY <1>1, <1>5 DEF SameRowBut, NoRow, Rows
<1>7. \A r \in Requests : ~InsertedFrom(t, r)
  BY DEF InsertedFrom
<1>8. QED
  BY <1>3, <1>4, <1>5, <1>6, <1>7, RowStep DEF RowChange

LEMMA AttemptsStep ==
    ASSUME IInv, [Next]_vars
    PROVE  AttemptsInTime'
<1> SUFFICES ASSUME NEW t \in Tasks
             PROVE  /\ task'[t].status = "Completed" \/ task'[t].errors > 0
                          => task'[t].due < day'
                    /\ task'[t].status = "Error" <=> task'[t].errors = ErrorLimit
  BY DEF AttemptsInTime
<1>1. /\ task[t] \in Rows
      /\ task[t].due \in Nat
      /\ task[t].errors \in Nat
  BY RowFields, Parameters DEF IInv, TypeOK, Days
<1>2. /\ task[t].status = "Completed" \/ task[t].errors > 0 => task[t].due < day
      /\ task[t].status = "Error" <=> task[t].errors = ErrorLimit
  BY DEF IInv, AttemptsInTime
<1>3. CASE task'[t] = task[t]
  BY <1>1, <1>2, <1>3, DayStep
<1>4. CASE task[t].status = "Pending" /\ SameRowBut(t, "Canceled")
  BY <1>1, <1>2, <1>4, DayStep DEF SameRowBut, Rows
<1>5. CASE CountedError(t)
  <2>1. /\ task[t].due < day
        /\ task[t].errors + 1 \in 1..ErrorLimit
        /\ task[t].status # "Error" /\ task[t].status # "Completed"
    BY <1>5, QueueFields DEF CountedError
  <2>2. QED
    BY <1>1, <1>5, <2>1, DayStep, Parameters DEF CountedError
<1>6. CASE phase = "completing" /\ t = current /\ SameRowBut(t, "Completed")
  <2>1. t \in queue
    BY <1>6 DEF IInv, WorkerInv
  <2>2. /\ task[t].due < day
        /\ task[t].status # "Error"
    BY <2>1, QueueFields
  <2>3. /\ task'[t].due = task[t].due
        /\ task'[t].errors = task[t].errors
        /\ task'[t].status = "Completed"
    BY <1>1, <1>6 DEF SameRowBut, Rows
  <2>4. QED
    BY <1>1, <1>2, <2>2, <2>3, DayStep
<1>7. CASE task[t].status = "Completed" /\ task'[t] = NoRow
  BY <1>7, Parameters DEF NoRow
<1>8. CASE \E r \in Requests : InsertedFrom(t, r)
  BY <1>8, Parameters DEF InsertedFrom
<1>9. QED
  BY <1>3, <1>4, <1>5, <1>6, <1>7, <1>8, RowStep DEF RowChange

-----------------------------------------------------------------------------
(* The periodic task *)

LEMMA WorkerStep ==
    ASSUME IInv, [Next]_vars
    PROVE  WorkerInv'
<1> USE DEF sems, worker, clock
<1>1. (phase = "asleep" => queue = {})'
  BY DEF IInv, WorkerInv, Next, Submit, Proceed, Process, Ask, Renew, Show, ShowForced, Count,
     Cancel, Insert, RenewCancel, Refuse, Load, ForceRenew, Err, Complete, Purge, AbortRun,
     Rotate, Tick, Restart, vars
<1>2. ASSUME NEW t \in queue'
      PROVE  task'[t].status \in {"Pending", "Canceled"} /\ task'[t].due < day'
  <2>1. CASE Load
    BY <1>2, <2>1, DayStep DEF Load
  <2>2. CASE t \in queue /\ ~(\E old \in SUBSET Tasks : Purge(old))
    <3>1. /\ t \in Tasks
          /\ task[t].status \in {"Pending", "Canceled"}
          /\ task[t].due < day
      BY <2>2, QueueFields
    <3>2. task[t] \in Rows /\ task[t].due \in Nat
      BY <3>1, RowFields, Parameters DEF IInv, TypeOK, Days
    <3>3. CASE task'[t] = task[t]
      BY <3>1, <3>2, <3>3, DayStep
    <3>4. CASE SameRowBut(t, "Canceled")
      BY <3>1, <3>2, <3>4, DayStep DEF SameRowBut, Rows
    <3>5. ~CountedError(t) /\ ~(\E r \in Requests : InsertedFrom(t, r))
      BY <1>2, <3>1 DEF CountedError, InsertedFrom
    <3>6. QED
      BY <1>2, <3>1, <3>3, <3>4, <3>5, RowStep DEF RowChange
  <2>3. Load \/ queue' \subseteq queue
    BY DEF Next, Submit, Proceed, Process, Ask, Renew, Show, ShowForced, Count,
       Cancel, Insert, RenewCancel, Refuse, Load, ForceRenew, Err, Complete, Purge, AbortRun,
       Rotate, Tick, Restart, vars
  <2>4. (\E old \in SUBSET Tasks : Purge(old)) => queue' = {}
    BY DEF Purge
  <2>5. QED
    BY <1>2, <2>1, <2>2, <2>3, <2>4
<1>3. ASSUME phase' = "completing"
      PROVE  /\ current' \in queue'
             /\ \/ version'[task'[current'].device] > task'[current'].covers
                \/ task'[current'].device \in forced'
  <2>1. CASE \E t \in Tasks : ForceRenew(t)
    BY <2>1 DEF ForceRenew
  <2>2. CASE phase = "completing" /\ current' = current /\ queue' = queue
    <3>1. /\ current \in queue
          /\ \/ version[task[current].device] > task[current].covers
             \/ task[current].device \in forced
      BY <2>2 DEF IInv, WorkerInv
    <3>2. /\ current \in Tasks
          /\ task[current].status \in {"Pending", "Canceled"}
          /\ task[current].device \in Devices
          /\ task[current].covers <= version[task[current].device]
      BY <3>1, QueueFields
    <3>3. task[current] \in Rows /\ task[current].covers \in Nat
      BY <3>2, RowFields, Parameters DEF IInv, TypeOK, Versions
    <3>4. CASE /\ task'[current].device = task[current].device
               /\ task'[current].covers = task[current].covers
      BY <2>2, <3>1, <3>2, <3>3, <3>4, SemsStep
    <3>5. task'[current] = task[current] \/ SameRowBut(current, "Canceled")
      BY <2>2, <3>1, <3>2, RowStep DEF RowChange, CountedError, InsertedFrom
    <3>6. QED
      BY <3>3, <3>4, <3>5 DEF SameRowBut, Rows
  <2>3. QED
    BY <1>3, <2>1, <2>2 DEF Next, Submit, Proceed, Process, Ask, Renew, Show, ShowForced, Count,
       Cancel, Insert, RenewCancel, Refuse, Load, ForceRenew, Err, Complete, Purge, AbortRun,
       Rotate, Tick, Restart, vars
<1>4. QED
  BY <1>1, <1>2, <1>3 DEF WorkerInv

-----------------------------------------------------------------------------
(* Duplicates *)

LEMMA SlotsFinite ==
    ASSUME NEW d
    PROVE  /\ IsFiniteSet(Pending(d)) /\ IsFiniteSet(Inserting(d))
           /\ Cardinality(Pending(d)) \in Nat
           /\ Cardinality(Inserting(d)) \in Nat
           /\ Cardinality(Requests) \in Nat
           /\ Cardinality(Inserting(d)) <= Cardinality(Requests)
<1>1. Pending(d) \subseteq Tasks /\ Inserting(d) \subseteq Requests
  BY DEF Pending, Inserting
<1>2. IsFiniteSet(Pending(d)) /\ IsFiniteSet(Inserting(d))
  BY <1>1, FiniteSlots, FS_Subset
<1>3. Cardinality(Inserting(d)) <= Cardinality(Requests)
  BY <1>1, FiniteSlots, FS_Subset
<1>4. QED
  BY <1>2, <1>3, FiniteSlots, FS_CardinalityType

(* The bound survives a step that adds neither a pending task nor a        *)
(* request about to store one.                                             *)
LEMMA FewerSlots ==
    ASSUME IInv, NEW d \in Devices,
           Pending(d)' \subseteq Pending(d), Inserting(d)' \subseteq Inserting(d)
    PROVE  Cardinality(Pending(d)') + Cardinality(Inserting(d)') <= Cardinality(Requests)
<1>1. /\ Cardinality(Pending(d)') <= Cardinality(Pending(d))
      /\ Cardinality(Inserting(d)') <= Cardinality(Inserting(d))
  BY SlotsFinite, FS_Subset
<1>2. Cardinality(Pending(d)') \in Nat /\ Cardinality(Inserting(d)') \in Nat
  BY SlotsFinite, FS_Subset, FS_CardinalityType
<1>3. QED
  BY <1>1, <1>2, SlotsFinite DEF IInv, PendingBounded

(* With no pending task left, the requests alone are within the bound.     *)
LEMMA NonePending ==
    ASSUME NEW d \in Devices, Pending(d)' = {}
    PROVE  Cardinality(Pending(d)') + Cardinality(Inserting(d)') <= Cardinality(Requests)
<1>1. Inserting(d)' \subseteq Requests
  BY DEF Inserting
<1>2. /\ Cardinality(Inserting(d)') <= Cardinality(Requests)
      /\ Cardinality(Inserting(d)') \in Nat
  BY <1>1, FiniteSlots, FS_Subset, FS_CardinalityType
<1>3. Cardinality(Pending(d)') = 0
  BY FS_EmptySet
<1>4. QED
  BY <1>2, <1>3, FiniteSlots, FS_CardinalityType

(* Unless a request stores one, no step adds a pending task. *)
LEMMA NoNewPending ==
    ASSUME IInv, [Next]_vars, NEW d \in Devices,
           \A r \in Requests, t \in Tasks : ~Insert(r, t)
    PROVE  Pending(d)' \subseteq Pending(d)
<1> SUFFICES ASSUME NEW t \in Tasks, task'[t].status = "Pending", task'[t].device = d
             PROVE  task[t].status = "Pending" /\ task[t].device = d
  BY DEF Pending
<1>1. task[t] \in Rows
  BY DEF IInv, TypeOK
<1>2. ~SameRowBut(t, "Canceled") /\ ~SameRowBut(t, "Completed") /\ task'[t] # NoRow
  BY <1>1 DEF SameRowBut, NoRow, Rows
<1>3. \A r \in Requests : ~InsertedFrom(t, r)
  <2> SUFFICES ASSUME NEW r \in Requests, InsertedFrom(t, r)
               PROVE  FALSE
    OBVIOUS
  <2>1. task[t].status = "unused" /\ task'[t].status = "Pending"
    BY DEF InsertedFrom
  <2> USE DEF sems, worker, clock
  <2>2. CASE \E s \in Requests : Submit(s) \/ Proceed(s)
    BY <2>1, <2>2, CancelChange DEF Submit, Ask, Renew, Proceed, Show, ShowForced, Count,
       Cancel, RenewCancel, Refuse, CancelPending, Pending, IInv, TypeOK
  <2>3. CASE Process
    <3>1. t \notin queue
      BY <2>1, QueueFields
    <3>2. CASE \E s \in Tasks : Err(s)
      BY <2>1, <3>1, <3>2, CountErrorRows DEF Err
    <3>3. CASE Complete
      BY <2>1, <3>1, <3>3 DEF Complete, IInv, WorkerInv, TypeOK
    <3>4. QED
      BY <2>1, <2>3, <3>2, <3>3 DEF Process, Load, ForceRenew, Purge
  <2>4. CASE AbortRun \/ Tick \/ Restart \/ (\E k \in Devices : Rotate(k)) \/ UNCHANGED vars
    BY <2>1, <2>4 DEF AbortRun, Tick, Restart, Rotate, vars
  <2>5. QED
    BY <2>2, <2>3, <2>4 DEF Next
<1>4. CASE CountedError(t)
  BY <1>4, QueueFields DEF CountedError
<1>5. QED
  BY <1>2, <1>3, <1>4, RowStep DEF RowChange

(* A request comes to store a task only when it counted none or cancelled  *)
(* them all.                                                               *)
LEMMA NoNewInserting ==
    ASSUME IInv, [Next]_vars, NEW d \in Devices,
           \A r \in Requests : arg[r].device = d => ~Count(r) /\ ~Cancel(r)
    PROVE  Inserting(d)' \subseteq Inserting(d)
<1> USE DEF Goto, Leave, Disclose, sems, worker, clock
<1>1. pc \in [Requests -> Steps] /\ arg \in [Requests -> Args]
  BY DEF IInv, TypeOK
<1> SUFFICES ASSUME NEW s \in Requests, pc'[s] = "insert", arg'[s].device = d
             PROVE  pc[s] = "insert" /\ arg[s].device = d
  BY DEF Inserting
<1>2. CASE \E r \in Requests : Submit(r) \/ Proceed(r)
  <2>1. PICK r \in Requests : Submit(r) \/ Proceed(r)
    BY <1>2
  <2>2. CASE s # r
    BY <2>1, <2>2, RequestStep
  <2>3. CASE s = r
    <3>1. CASE Count(r) \/ Cancel(r)
      BY <1>1, <2>3, <3>1 DEF Count, Cancel
    <3>2. CASE ~Count(r) /\ ~Cancel(r)
      BY <1>1, <2>1, <2>3, <3>2 DEF Submit, Proceed, Ask, Renew, Show, ShowForced, Insert,
                                    RenewCancel, Refuse
    <3>3. QED
      BY <3>1, <3>2
  <2>4. QED
    BY <2>2, <2>3
<1>3. CASE Process
  BY <1>3 DEF Process, Load, ForceRenew, Err, Complete, Purge
<1>4. CASE Restart
  BY <1>4 DEF Restart
<1>5. CASE AbortRun \/ Tick \/ (\E k \in Devices : Rotate(k)) \/ UNCHANGED vars
  BY <1>5 DEF AbortRun, Tick, Rotate, vars
<1>6. QED
  BY <1>2, <1>3, <1>4, <1>5 DEF Next

LEMMA BoundStep ==
    ASSUME IInv, [Next]_vars
    PROVE  PendingBounded'
<1> USE DEF sems, worker, clock
<1> SUFFICES ASSUME NEW d \in Devices
             PROVE  Cardinality(Pending(d)') + Cardinality(Inserting(d)')
                        <= Cardinality(Requests)
  BY DEF PendingBounded
<1>1. CASE \E r \in Requests, t \in Tasks : Insert(r, t)
  <2>1. PICK r \in Requests, t \in Tasks : Insert(r, t)
    BY <1>1
  <2>2. CASE arg[r].device = d
    <3>1. /\ Pending(d)' = Pending(d) \cup {t}
          /\ t \notin Pending(d)
      BY <2>1, <2>2 DEF Insert, Pending, IInv, TypeOK
    <3>2. /\ Inserting(d)' = Inserting(d) \ {r}
          /\ r \in Inserting(d)
      BY <2>1, <2>2 DEF Insert, Disclose, Leave, Goto, Inserting, IInv, TypeOK, Blank
    <3>3. Cardinality(Pending(d)') = Cardinality(Pending(d)) + 1
      BY <3>1, SlotsFinite, FS_AddElement
    <3>4. Cardinality(Inserting(d)') = Cardinality(Inserting(d)) - 1
      BY <3>2, SlotsFinite, FS_RemoveElement
    <3>5. QED
      BY <3>3, <3>4, SlotsFinite DEF IInv, PendingBounded
  <2>3. CASE arg[r].device # d
    <3>1. Pending(d)' \subseteq Pending(d)
      BY <2>1, <2>3 DEF Insert, Pending, IInv, TypeOK
    <3>2. Inserting(d)' \subseteq Inserting(d)
      BY <2>1 DEF Insert, Disclose, Leave, Goto, Inserting, IInv, TypeOK
    <3>3. QED
      BY <3>1, <3>2, FewerSlots
  <2>4. QED
    BY <2>2, <2>3
<1>2. CASE \E r \in Requests : Count(r) /\ arg[r].device = d
  <2>1. PICK r \in Requests : Count(r) /\ arg[r].device = d
    BY <1>2
  <2>2. Pending(d)' = Pending(d)
    BY <2>1 DEF Count, Pending
  <2>3. CASE Pending(d) = {}
    BY <2>2, <2>3, NonePending
  <2>4. CASE Pending(d) # {}
    <3>1. Inserting(d)' \subseteq Inserting(d)
      BY <2>1, <2>4 DEF Count, Disclose, Leave, Goto, Inserting, IInv, TypeOK
    <3>2. QED
      BY <2>2, <3>1, FewerSlots
  <2>5. QED
    BY <2>3, <2>4
<1>3. CASE \E r \in Requests : Cancel(r) /\ arg[r].device = d
  <2>1. Pending(d)' = {}
    BY <1>3 DEF Cancel, CancelPending, Pending, IInv, TypeOK, Rows
  <2>2. QED
    BY <2>1, NonePending
<1>4. CASE /\ \A r \in Requests, t \in Tasks : ~Insert(r, t)
           /\ \A r \in Requests : arg[r].device = d => ~Count(r) /\ ~Cancel(r)
  <2>1. Pending(d)' \subseteq Pending(d)
    BY <1>4, NoNewPending
  <2>2. Inserting(d)' \subseteq Inserting(d)
    BY <1>4, NoNewInserting
  <2>3. QED
    BY <2>1, <2>2, FewerSlots
<1>5. QED
  BY <1>1, <1>2, <1>3, <1>4

-----------------------------------------------------------------------------
(* Theorems *)

LEMMA InitInv == Init => IInv
<1> SUFFICES ASSUME Init
             PROVE  IInv
  OBVIOUS
<1>1. TypeOK
  <2>1. 0 \in Versions /\ 0 \in Days /\ 0 \in 0..MaxFaults
    BY Parameters DEF Versions, Days
  <2>2. task \in [Tasks -> Rows] /\ arg \in [Requests -> Args]
    BY BlankTypes DEF Init
  <2>3. version \in [Devices -> Versions] /\ pc \in [Requests -> Steps]
    BY <2>1 DEF Init, Steps
  <2>4. QED
    BY <2>1, <2>2, <2>3 DEF Init, TypeOK
<1>2. ArgInv /\ RowInv /\ WorkerInv /\ CompletedWasForced /\ AttemptsInTime
  BY Parameters DEF Init, ArgInv, RowInv, WorkerInv, CompletedWasForced, AttemptsInTime, NoRow
<1>3. PendingBounded
  <2> SUFFICES ASSUME NEW d \in Devices
               PROVE  Cardinality(Pending(d)) + Cardinality(Inserting(d))
                          <= Cardinality(Requests)
    BY DEF PendingBounded
  <2>1. Pending(d) = {} /\ Inserting(d) = {}
    BY DEF Init, Pending, Inserting, NoRow
  <2>2. QED
    BY <2>1, SlotsFinite, FS_EmptySet
<1>4. QED
  BY <1>1, <1>2, <1>3 DEF IInv

(* The inductive invariant holds in every state the program reaches. *)
THEOREM InductiveInvariant == Spec => []IInv
<1>1. IInv /\ [Next]_vars => IInv'
  BY TypeStep, ArgStep, RowsStep, WorkerStep, BoundStep, CompletedStep, AttemptsStep DEF IInv
<1>2. QED
  BY InitInv, <1>1, PTL DEF Spec

(* The variables keep their types: in particular no task is attempted more *)
(* often than the limit allows.                                            *)
THEOREM TypeCorrect == Spec => []TypeOK
BY InductiveInvariant, PTL DEF IInv

(* Duplicate tasks of a device never outnumber the requests in flight.     *)
THEOREM DuplicatesAreBounded == Spec => []PendingBounded
BY InductiveInvariant, PTL DEF IInv

(* A completed task's secret was replaced or is about to be.               *)
THEOREM CompletedMeansForced == Spec => []CompletedWasForced
BY InductiveInvariant, PTL DEF IInv

(* No attempt comes before its day is over, and giving up comes exactly at *)
(* the limit.                                                              *)
THEOREM AttemptsComeInTime == Spec => []AttemptsInTime
BY InductiveInvariant, PTL DEF IInv

-----------------------------------------------------------------------------
(* The refinement of AtomicRenewal *)

LEMMA SubmitImplements ==
    ASSUME IInv, NEW r \in Requests, Submit(r)
    PROVE  [Atomic!Next]_(Atomic!vars)
<1>1. PICK d \in Devices : Ask(r, d) \/ Renew(r, d)
  BY DEF Submit
<1>2. CASE Ask(r, d)
  BY <1>2 DEF Ask, Atomic!vars, sems, clock
<1>3. CASE Renew(r, d)
  <2>1. Atomic!Force(d)
    BY <1>3 DEF Renew, Atomic!Force, clock
  <2>2. QED
    BY <2>1 DEF Atomic!Next
<1>4. QED
  BY <1>1, <1>2, <1>3

LEMMA CancelImplements ==
    ASSUME NEW d \in Devices, CancelPending(d), UNCHANGED <<version, forced, day>>
    PROVE  Atomic!Next
<1>1. Atomic!Cancel(d)
  BY DEF CancelPending, Pending, Atomic!Cancel
<1>2. QED
  BY <1>1 DEF Atomic!Next

LEMMA ProceedImplements ==
    ASSUME IInv, NEW r \in Requests, Proceed(r)
    PROVE  [Atomic!Next]_(Atomic!vars)
<1> USE DEF sems, clock
<1>1. pc[r] # "idle" => arg[r].device \in Devices
  BY DEF IInv, ArgInv
<1>2. CASE Show(r) \/ ShowForced(r) \/ Count(r) \/ Refuse(r)
  BY <1>2 DEF Show, ShowForced, Count, Refuse, Atomic!vars
<1>3. CASE Cancel(r)
  BY <1>1, <1>3, CancelImplements DEF Cancel
<1>4. CASE RenewCancel(r)
  BY <1>1, <1>4, CancelImplements DEF RenewCancel
<1>5. ASSUME NEW t \in Tasks, Insert(r, t)
      PROVE  Atomic!Next
  <2> DEFINE d == arg[r].device
  <2>1. d \in Devices /\ arg[r].shown <= version[d] /\ arg[r].due <= day + 1
    BY <1>5 DEF Insert, IInv, ArgInv
  <2>2. arg[r].due \in 0..day + 1 /\ arg[r].shown \in 0..version[d]
    BY <2>1, ArgFields, Parameters DEF IInv, TypeOK, Days, Versions
  <2>3. Atomic!Schedule(t, d, arg[r].due, arg[r].shown)
    BY <1>5, <2>1 DEF Insert, Atomic!Schedule
  <2>4. QED
    BY <2>1, <2>2, <2>3 DEF Atomic!Next
<1>6. QED
  BY <1>2, <1>3, <1>4, <1>5 DEF Proceed

(* The periodic task: what it took from the table may still be tried, and  *)
(* what it completes has been forced, or renewed since.                    *)
LEMMA ProcessImplements ==
    ASSUME IInv, Process
    PROVE  [Atomic!Next]_(Atomic!vars)
<1> USE DEF sems, clock
<1>1. CASE Load
  BY <1>1 DEF Load, Atomic!vars
<1>2. ASSUME NEW t \in Tasks, ForceRenew(t)
      PROVE  Atomic!Next
  <2>1. task[t].device \in Devices
    BY <1>2, QueueFields DEF ForceRenew
  <2>2. Atomic!Force(task[t].device)
    BY <1>2 DEF ForceRenew, Atomic!Force
  <2>3. QED
    BY <2>1, <2>2 DEF Atomic!Next
<1>3. ASSUME NEW t \in Tasks, Err(t)
      PROVE  Atomic!Next
  <2>1. Atomic!MayTry(t) /\ task[t].errors + 1 \in 1..ErrorLimit
    BY <1>3, QueueFields DEF Err, Atomic!MayTry
  <2> DEFINE count == task[t].errors + 1
  <2>2. count <= ErrorLimit /\ (count >= ErrorLimit <=> count = ErrorLimit)
    BY <2>1, Parameters
  <2>3. task' = [task EXCEPT ![t].errors = count,
                            ![t].status = IF count >= ErrorLimit THEN "Error" ELSE @]
    BY <1>3 DEF Err, CountError
  <2>4. task' = [task EXCEPT ![t].errors = count,
                            ![t].status = IF count = ErrorLimit THEN "Error" ELSE @]
    BY <2>2, <2>3, Zenon
  <2>5. UNCHANGED <<version, day>> /\ forced' \in {forced, forced \cup {task[t].device}}
    BY <1>3 DEF Err
  <2>6. Atomic!Fail(t)
    BY <2>1, <2>2, <2>4, <2>5, Zenon DEF Atomic!Fail
  <2>7. QED
    BY <2>6 DEF Atomic!Next
<1>4. CASE Complete
  <2>1. current \in queue /\ (\/ version[task[current].device] > task[current].covers
                              \/ task[current].device \in forced)
    BY <1>4 DEF Complete, IInv, WorkerInv
  <2>2. current \in Tasks /\ Atomic!MayTry(current) /\ Atomic!Renewed(current)
    BY <2>1, QueueFields DEF Atomic!MayTry, Atomic!Renewed
  <2>3. Atomic!Complete(current)
    BY <1>4, <2>2 DEF Complete, Atomic!Complete
  <2>4. QED
    BY <2>2, <2>3 DEF Atomic!Next
<1>5. ASSUME NEW old \in SUBSET Tasks, Purge(old)
      PROVE  Atomic!Next
  <2> DEFINE gone == {t \in old : task[t].status = "Completed"}
  <2>1. Atomic!Forget(gone)
    BY <1>5 DEF Purge, NoRow, Atomic!Forget, Atomic!NoRow
  <2>2. QED
    BY <2>1 DEF Atomic!Next
<1>6. QED
  BY <1>1, <1>2, <1>3, <1>4, <1>5 DEF Process

LEMMA SurroundingsImplement ==
    ASSUME IInv, AbortRun \/ (\E d \in Devices : Rotate(d)) \/ Tick \/ Restart
    PROVE  [Atomic!Next]_(Atomic!vars)
<1> USE DEF sems, clock
<1>1. CASE AbortRun \/ Restart
  BY <1>1 DEF AbortRun, Restart, Atomic!vars
<1>2. ASSUME NEW d \in Devices, Rotate(d)
      PROVE  Atomic!Next
  <2>1. Atomic!Rotate(d)
    BY <1>2 DEF Rotate, Atomic!Rotate
  <2>2. QED
    BY <2>1 DEF Atomic!Next
<1>3. CASE Tick
  <2>1. Atomic!NextDay \/ UNCHANGED Atomic!vars
    BY <1>3 DEF Tick, Atomic!NextDay, Atomic!vars
  <2>2. QED
    BY <2>1 DEF Atomic!Next
<1>4. QED
  BY <1>1, <1>2, <1>3

LEMMA InitImplements ==
    ASSUME Init
    PROVE  Atomic!Init
BY DEF Init, NoRow, Atomic!Init, Atomic!NoRow

(* Whatever requests and runs of the periodic task do at once, fail at or  *)
(* leave behind, the table of tasks, SmartEMS's flags and the devices go   *)
(* through the states of the specification in which a task is scheduled,   *)
(* cancelled, tried, completed and forgotten in one step each.             *)
THEOREM ImplementsAtomic == Spec => ImplementsAtomicRenewal
<1>1. ASSUME IInv, [Next]_vars
      PROVE  [Atomic!Next]_(Atomic!vars)
  <2>1. CASE UNCHANGED vars
    BY <2>1 DEF vars, Atomic!vars
  <2>2. QED
    BY <1>1, <2>1, SubmitImplements, ProceedImplements, ProcessImplements, SurroundingsImplement
       DEF Next
<1>2. Init => Atomic!Init
  BY InitImplements
<1>3. QED
  BY <1>1, <1>2, InductiveInvariant, PTL DEF Spec, ImplementsAtomicRenewal, Atomic!Spec
=============================================================================
