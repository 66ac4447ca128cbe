---------------------- MODULE DeviceProvisioningProofs ----------------------
(***************************************************************************)
(* Proofs about DeviceProvisioning, for any number of concurrent requests  *)
(* and any number of failures.  Two strengthenings: what a request that no *)
(* other overlaps knows at each of its steps, and why an entry without a   *)
(* connection string is never written to by two creations.                 *)
(***************************************************************************)
EXTENDS DeviceProvisioning, TLAPS

(* The creations that have inserted the row *)
Past == Creating \ {"insert"}

(* The deletions that have found SmartEMS empty, or emptied it              *)
Emptied == {"hubGet", "hubDelete", "rowDelete"}

(* What a request that is alone may rely on                                *)
Alone(r) ==
    /\ pc[r] # "idle"
    /\ \A q \in Requests : q # r => pc[q] = "idle"
    /\ pc[r] \in Past => row
    /\ pc[r] \in {"lookup", "store"} => hub.key = seen[r].key
    /\ pc[r] \in {"store", "semsDelete"} => seen[r].entry = sems
    /\ pc[r] \in {"tag", "cache"} => Complete
    /\ pc[r] \in Emptied => sems.id = 0
    /\ pc[r] = "rowDelete" => hub.key = 0

AloneInv ==
    /\ \A r \in alone : Alone(r)
    /\ outcome # "none" => Quiet
    /\ AnswersAreTrue

(* Ids are handed out once, and an entry keeps its id                      *)
Fresh ==
    /\ sems.id \in 0..made
    /\ sems.id = 0 => sems.string = 0
    /\ \A r \in Requests :
         /\ seen[r].entry.id \in 0..made
         /\ pc[r] \in {"lookup", "store"} => seen[r].key # 0

Blank == sems.id # 0 /\ sems.string = 0

(* While an entry has no string, only one creation is under way: a second  *)
(* needs a deletion of the row, which deletes the entry first.             *)
OneWriter ==
    Blank => /\ \A r, q \in Requests : pc[r] \in Past /\ pc[q] \in Past => r = q
             /\ ~row => \A r \in Requests : pc[r] \notin Past
             /\ \A r \in Requests : pc[r] \notin Emptied

(* What a creation looked up is still so, or the entry is another          *)
SeenHolds ==
    \A r \in Requests :
        pc[r] = "store" /\ seen[r].entry.id = sems.id /\ sems.id # 0
            => seen[r].entry.string = sems.string

RekeyInv == Fresh /\ OneWriter /\ SeenHolds

IInv == TypeOK /\ AloneInv /\ RekeyInv

-----------------------------------------------------------------------------
LEMMA InitHolds == Init => IInv
<1> SUFFICES ASSUME Init PROVE IInv
  OBVIOUS
<1> USE DEF Init
<1>1. TypeOK
  <2>1. /\ NoHub \in Hubs /\ [key |-> 1, base |-> FALSE] \in Hubs
        /\ NoEntry \in Entries /\ [id |-> 1, string |-> 0] \in Entries
        /\ [id |-> 1, string |-> 1] \in Entries
    BY DEF Hubs, NoHub, Entries, NoEntry, Serials
  <2>2. seen \in [Requests -> [key : Serials, entry : Entries]]
    BY DEF Entries, NoEntry, Serials, Nothing
  <2> QED
    BY <2>1, <2>2 DEF TypeOK, Serials
<1>2. AloneInv
  BY DEF AloneInv, AnswersAreTrue, Quiet
<1>3. RekeyInv
  BY DEF RekeyInv, Fresh, OneWriter, SeenHolds, Blank, Past, Creating, Emptied, Nothing, NoEntry
<1> QED
  BY <1>1, <1>2, <1>3 DEF IInv

LEMMA RefuseStep ==
    ASSUME IInv, NEW r \in Requests, Refuse(r)
    PROVE  IInv'
<1> USE DEF IInv, Refuse, vars
<1>1. TypeOK'
  BY DEF TypeOK, Hubs, Entries, Serials, Creating, Deleting
<1>2. AloneInv'
  BY DEF TypeOK, Hubs, Entries, Serials, Creating, Deleting, AloneInv, Alone, Past, Emptied,
         Complete, Absent, AnswersAreTrue, Quiet, Fresh, RekeyInv
<1>3. RekeyInv'
  <2>1. Fresh'
    BY DEF TypeOK, Hubs, Entries, Serials, Creating, Deleting, RekeyInv, Fresh
  <2>2. OneWriter'
    BY DEF TypeOK, Hubs, Entries, Serials, Creating, Deleting, RekeyInv, Fresh, OneWriter, Blank, Past, Emptied
  <2>3. SeenHolds'
    BY DEF TypeOK, Hubs, Entries, Serials, Creating, Deleting, RekeyInv, Fresh, OneWriter, Blank, SeenHolds, Past
  <2> QED
    BY <2>1, <2>2, <2>3 DEF RekeyInv
<1> QED
  BY <1>1, <1>2, <1>3

LEMMA StartCreateStep ==
    ASSUME IInv, NEW r \in Requests, StartCreate(r)
    PROVE  IInv'
<1> USE DEF IInv, StartCreate, Start, InFlight, Nothing, NoEntry, db, external
<1>1. TypeOK'
  BY DEF TypeOK, Hubs, Entries, Serials, Creating, Deleting
<1>2. AloneInv'
  BY DEF TypeOK, Hubs, Entries, Serials, Creating, Deleting, AloneInv, Alone, Past, Emptied,
         Complete, Absent, AnswersAreTrue, Quiet, Fresh, RekeyInv
<1>3. RekeyInv'
  <2>1. Fresh'
    BY DEF TypeOK, Hubs, Entries, Serials, Creating, Deleting, RekeyInv, Fresh
  <2>2. OneWriter'
    BY DEF TypeOK, Hubs, Entries, Serials, Creating, Deleting, RekeyInv, Fresh, OneWriter, Blank, Past, Emptied
  <2>3. SeenHolds'
    BY DEF TypeOK, Hubs, Entries, Serials, Creating, Deleting, RekeyInv, Fresh, OneWriter, Blank, SeenHolds, Past
  <2> QED
    BY <2>1, <2>2, <2>3 DEF RekeyInv
<1> QED
  BY <1>1, <1>2, <1>3

LEMMA InsertRowStep ==
    ASSUME IInv, NEW r \in Requests, InsertRow(r)
    PROVE  IInv'
<1> USE DEF IInv, InsertRow, Goto, End, Nothing, NoEntry, external
<1>1. TypeOK'
  <2>1. pc' \in [Requests -> {"idle"} \cup Creating \cup Deleting]
    BY DEF TypeOK, Creating, Deleting
  <2>2. hub' \in Hubs /\ sems' \in Entries
    <3>1. hub' = hub \/ hub' = NoHub
      OBVIOUS
    <3>2. sems' = sems \/ sems' = NoEntry
      OBVIOUS
    <3>3. NoHub \in Hubs /\ NoEntry \in Entries
      BY DEF NoHub, NoEntry, Hubs, Entries, Serials
    <3> HIDE DEF InsertRow, NoHub, NoEntry
    <3> QED
      BY <3>1, <3>2, <3>3 DEF TypeOK
  <2>3. seen' \in [Requests -> [key : Serials, entry : Entries]]
    BY DEF TypeOK, Hubs, Entries, Serials
  <2>4. row' \in BOOLEAN /\ tasks' \in BOOLEAN /\ (tasks' => row') /\ excuse' \in BOOLEAN
    BY DEF TypeOK
  <2>5. made' \in Serials /\ faults' \in Nat
    BY DEF TypeOK, Serials
  <2>6. alone' \in SUBSET Requests /\ outcome' \in {"none", "created", "failed", "undone", "deleted"}
    BY DEF TypeOK
  <2> QED
    BY <2>1, <2>2, <2>3, <2>4, <2>5, <2>6 DEF TypeOK
<1>2. AloneInv'
  BY DEF TypeOK, Hubs, Entries, Serials, Creating, Deleting, AloneInv, Alone, Past, Emptied,
         Complete, Absent, AnswersAreTrue, Quiet, Fresh, RekeyInv
<1>3. RekeyInv'
  <2>1. Fresh'
    <3>1. CASE row' = TRUE /\ pc' = [pc EXCEPT ![r] = "put"] /\ seen' = seen
      BY <3>1 DEF TypeOK, RekeyInv, Fresh
    <3>2. CASE pc' = [pc EXCEPT ![r] = "idle"] /\ seen' = [seen EXCEPT ![r] = Nothing]
      BY <3>2 DEF TypeOK, RekeyInv, Fresh, Serials
    <3> QED
      BY <3>1, <3>2
  <2>2. OneWriter'
    <3>1. sems' = sems /\ pc[r] = "insert" /\ \A q \in Requests : q # r => pc'[q] = pc[q]
      BY DEF TypeOK
    <3>2. CASE ~row /\ row' /\ pc'[r] = "put"
      BY <3>1, <3>2 DEF RekeyInv, OneWriter, Blank, Past, Emptied
    <3>3. CASE row' = row /\ pc'[r] = "idle"
      BY <3>1, <3>3 DEF RekeyInv, OneWriter, Blank, Past, Creating, Emptied
    <3> QED
      BY <3>2, <3>3 DEF TypeOK
  <2>3. SeenHolds'
    BY DEF TypeOK, Hubs, Entries, Serials, Creating, Deleting, RekeyInv, Fresh, OneWriter, Blank, SeenHolds, Past
  <2> QED
    BY <2>1, <2>2, <2>3 DEF RekeyInv
<1> QED
  BY <1>1, <1>2, <1>3

LEMMA InsertRowFailsStep ==
    ASSUME IInv, NEW r \in Requests, InsertRowFails(r)
    PROVE  IInv'
<1> USE DEF IInv, InsertRowFails, End, Fault, Nothing, NoEntry, external
<1>1. TypeOK'
  <2>1. pc' \in [Requests -> {"idle"} \cup Creating \cup Deleting]
    BY DEF TypeOK, Creating, Deleting
  <2>2. hub' \in Hubs /\ sems' \in Entries
    <3>1. hub' = hub \/ hub' = NoHub
      OBVIOUS
    <3>2. sems' = sems \/ sems' = NoEntry
      OBVIOUS
    <3>3. NoHub \in Hubs /\ NoEntry \in Entries
      BY DEF NoHub, NoEntry, Hubs, Entries, Serials
    <3> HIDE DEF InsertRowFails, NoHub, NoEntry
    <3> QED
      BY <3>1, <3>2, <3>3 DEF TypeOK
  <2>3. seen' \in [Requests -> [key : Serials, entry : Entries]]
    BY DEF TypeOK, Hubs, Entries, Serials
  <2>4. row' \in BOOLEAN /\ tasks' \in BOOLEAN /\ (tasks' => row') /\ excuse' \in BOOLEAN
    BY DEF TypeOK
  <2>5. made' \in Serials /\ faults' \in Nat
    BY DEF TypeOK, Serials
  <2>6. alone' \in SUBSET Requests /\ outcome' \in {"none", "created", "failed", "undone", "deleted"}
    BY DEF TypeOK
  <2> QED
    BY <2>1, <2>2, <2>3, <2>4, <2>5, <2>6 DEF TypeOK
<1>2. AloneInv'
  BY DEF TypeOK, Hubs, Entries, Serials, Creating, Deleting, AloneInv, Alone, Past, Emptied,
         Complete, Absent, AnswersAreTrue, Quiet, Fresh, RekeyInv
<1>3. RekeyInv'
  <2>1. Fresh'
    BY DEF TypeOK, RekeyInv, Fresh, Serials
  <2>2. OneWriter'
    <3>1. sems' = sems /\ row' /\ \A q \in Requests : pc'[q] = pc[q] \/ pc'[q] = "idle"
      BY DEF TypeOK
    <3> QED
      BY <3>1 DEF RekeyInv, OneWriter, Blank, Past, Creating, Emptied
  <2>3. SeenHolds'
    BY DEF TypeOK, Hubs, Entries, Serials, Creating, Deleting, RekeyInv, Fresh, OneWriter, Blank, SeenHolds, Past
  <2> QED
    BY <2>1, <2>2, <2>3 DEF RekeyInv
<1> QED
  BY <1>1, <1>2, <1>3

LEMMA PutHubStep ==
    ASSUME IInv, NEW r \in Requests, PutHub(r)
    PROVE  IInv'
<1> USE DEF IInv, PutHub, Goto, Registered, db
<1>1. TypeOK'
  <2>1. hub' \in Hubs /\ made' \in Serials
    <3>1. made + 1 \in Nat
      BY DEF TypeOK, Serials
    <3>2. [key |-> made + 1, base |-> FALSE] \in Hubs
      BY <3>1 DEF Hubs, Serials
    <3> QED
      BY <3>1, <3>2 DEF TypeOK, Serials
  <2> QED
    BY <2>1 DEF TypeOK, Creating, Serials
<1>2. AloneInv'
  BY DEF TypeOK, Hubs, Entries, Serials, Creating, Deleting, AloneInv, Alone, Past, Emptied,
         Complete, Absent, AnswersAreTrue, Quiet, Fresh, RekeyInv
<1>3. RekeyInv'
  <2>1. Fresh'
    BY DEF TypeOK, Hubs, Entries, Serials, Creating, Deleting, RekeyInv, Fresh
  <2>2. OneWriter'
    BY DEF TypeOK, Hubs, Entries, Serials, Creating, Deleting, RekeyInv, Fresh, OneWriter, Blank, Past, Emptied
  <2>3. SeenHolds'
    BY DEF TypeOK, Hubs, Entries, Serials, Creating, Deleting, RekeyInv, Fresh, OneWriter, Blank, SeenHolds, Past
  <2> QED
    BY <2>1, <2>2, <2>3 DEF RekeyInv
<1> QED
  BY <1>1, <1>2, <1>3

LEMMA PutHubFailsStep ==
    ASSUME IInv, NEW r \in Requests, PutHubFails(r)
    PROVE  IInv'
<1> USE DEF IInv, PutHubFails, Goto, Fault, Registered, db
<1>1. TypeOK'
  <2>1. hub' \in Hubs /\ made' \in Serials
    <3>1. made + 1 \in Nat
      BY DEF TypeOK, Serials
    <3>2. [key |-> made + 1, base |-> FALSE] \in Hubs
      BY <3>1 DEF Hubs, Serials
    <3> QED
      BY <3>1, <3>2 DEF TypeOK, Serials
  <2> QED
    BY <2>1 DEF TypeOK, Creating, Serials
<1>2. AloneInv'
  BY DEF TypeOK, Hubs, Entries, Serials, Creating, Deleting, AloneInv, Alone, Past, Emptied,
         Complete, Absent, AnswersAreTrue, Quiet, Fresh, RekeyInv
<1>3. RekeyInv'
  <2>1. Fresh'
    BY DEF TypeOK, Hubs, Entries, Serials, Creating, Deleting, RekeyInv, Fresh
  <2>2. OneWriter'
    BY DEF TypeOK, Hubs, Entries, Serials, Creating, Deleting, RekeyInv, Fresh, OneWriter, Blank, Past, Emptied
  <2>3. SeenHolds'
    BY DEF TypeOK, Hubs, Entries, Serials, Creating, Deleting, RekeyInv, Fresh, OneWriter, Blank, SeenHolds, Past
  <2> QED
    BY <2>1, <2>2, <2>3 DEF RekeyInv
<1> QED
  BY <1>1, <1>2, <1>3

LEMMA GetKeyStep ==
    ASSUME IInv, NEW r \in Requests, GetKey(r)
    PROVE  IInv'
<1> USE DEF IInv, GetKey, Goto, db, external
<1>1. TypeOK'
  <2>1. pc' \in [Requests -> {"idle"} \cup Creating \cup Deleting]
    BY DEF TypeOK, Creating, Deleting
  <2>2. hub' \in Hubs /\ sems' \in Entries
    <3>1. hub' = hub \/ hub' = NoHub
      OBVIOUS
    <3>2. sems' = sems \/ sems' = NoEntry
      OBVIOUS
    <3>3. NoHub \in Hubs /\ NoEntry \in Entries
      BY DEF NoHub, NoEntry, Hubs, Entries, Serials
    <3> HIDE DEF GetKey, NoHub, NoEntry
    <3> QED
      BY <3>1, <3>2, <3>3 DEF TypeOK
  <2>3. seen' \in [Requests -> [key : Serials, entry : Entries]]
    BY DEF TypeOK, Hubs, Entries, Serials
  <2>4. row' \in BOOLEAN /\ tasks' \in BOOLEAN /\ (tasks' => row') /\ excuse' \in BOOLEAN
    BY DEF TypeOK
  <2>5. made' \in Serials /\ faults' \in Nat
    BY DEF TypeOK, Serials
  <2>6. alone' \in SUBSET Requests /\ outcome' \in {"none", "created", "failed", "undone", "deleted"}
    BY DEF TypeOK
  <2> QED
    BY <2>1, <2>2, <2>3, <2>4, <2>5, <2>6 DEF TypeOK
<1>2. AloneInv'
  BY DEF TypeOK, Hubs, Entries, Serials, Creating, Deleting, AloneInv, Alone, Past, Emptied,
         Complete, Absent, AnswersAreTrue, Quiet, Fresh, RekeyInv
<1>3. RekeyInv'
  <2>1. Fresh'
    BY DEF TypeOK, Hubs, Entries, Serials, Creating, Deleting, RekeyInv, Fresh
  <2>2. OneWriter'
    <3>1. \A q \in Requests : /\ pc'[q] \in Past => pc[q] \in Past
                              /\ pc'[q] \in Emptied => pc[q] \in Emptied
      BY DEF TypeOK, Past, Creating, Emptied
    <3> QED
      BY <3>1 DEF RekeyInv, OneWriter, Blank
  <2>3. SeenHolds'
    BY DEF TypeOK, Hubs, Entries, Serials, Creating, Deleting, RekeyInv, Fresh, OneWriter, Blank, SeenHolds, Past
  <2> QED
    BY <2>1, <2>2, <2>3 DEF RekeyInv
<1> QED
  BY <1>1, <1>2, <1>3

LEMMA LookupStep ==
    ASSUME IInv, NEW r \in Requests, Lookup(r)
    PROVE  IInv'
<1> USE DEF IInv, Lookup, Goto, db, external
<1>1. TypeOK'
  BY DEF TypeOK, Hubs, Entries, Serials, Creating, Deleting
<1>2. AloneInv'
  BY DEF TypeOK, Hubs, Entries, Serials, Creating, Deleting, AloneInv, Alone, Past, Emptied,
         Complete, Absent, AnswersAreTrue, Quiet, Fresh, RekeyInv
<1>3. RekeyInv'
  <2>1. Fresh'
    <3>1. made \in Nat /\ sems.id \in Nat /\ made' = made /\ sems' = sems
      BY DEF TypeOK, Entries, Serials
    <3>2. \A q \in Requests : /\ seen'[q].entry \in {seen[q].entry, sems}
                              /\ seen'[q].key = seen[q].key
                              /\ pc'[q] \in {"lookup", "store"} => pc[q] \in {"lookup", "store"}
      BY DEF TypeOK
    <3> QED
      BY <3>1, <3>2 DEF RekeyInv, Fresh
  <2>2. OneWriter'
    BY DEF TypeOK, Hubs, Entries, Serials, Creating, Deleting, RekeyInv, Fresh, OneWriter, Blank, Past, Emptied
  <2>3. SeenHolds'
    BY DEF TypeOK, Hubs, Entries, Serials, Creating, Deleting, RekeyInv, Fresh, OneWriter, Blank, SeenHolds, Past
  <2> QED
    BY <2>1, <2>2, <2>3 DEF RekeyInv
<1> QED
  BY <1>1, <1>2, <1>3

LEMMA StoreStringStep ==
    ASSUME IInv, NEW r \in Requests, StoreString(r)
    PROVE  IInv'
<1> USE DEF IInv, StoreString, Goto, Written, Mismatch, db
<1>1. TypeOK'
  BY DEF TypeOK, Hubs, Entries, Serials, Creating, Deleting
<1>2. AloneInv'
  BY DEF TypeOK, Hubs, Entries, Serials, Creating, Deleting, AloneInv, Alone, Past, Emptied,
         Complete, Absent, AnswersAreTrue, Quiet, Fresh, RekeyInv
<1>3. RekeyInv'
  <2>1. Fresh'
    <3>1. /\ made \in Nat /\ sems.id \in Nat /\ made' \in {made, made + 1} /\ seen' = seen
          /\ \A q \in Requests : seen[q].entry.id \in Nat
      BY DEF TypeOK, Entries, Serials
    <3>2. \A q \in Requests : pc'[q] \in {"lookup", "store"} => pc[q] \in {"lookup", "store"}
      BY DEF TypeOK
    <3>3. sems'.id = sems.id \/ (sems'.id = made + 1 /\ made' = made + 1)
      BY DEF TypeOK, Entries
    <3>4. sems'.id = 0 => sems'.string = 0
      BY <3>1, <3>3 DEF TypeOK, Entries, RekeyInv, Fresh
    <3> HIDE DEF StoreString
    <3> QED
      BY <3>1, <3>2, <3>3, <3>4 DEF RekeyInv, Fresh
  <2>2. OneWriter'
    BY DEF TypeOK, Hubs, Entries, Serials, Creating, Deleting, RekeyInv, Fresh, OneWriter, Blank, Past, Emptied
  <2>3. SeenHolds'
    <3> SUFFICES ASSUME NEW q \in Requests, pc'[q] = "store", seen'[q].entry.id = sems'.id, sems'.id # 0
                 PROVE  seen'[q].entry.string = sems'.string
      BY DEF SeenHolds
    <3>1. q # r /\ pc[q] = "store" /\ seen' = seen /\ pc[r] = "store"
      BY DEF TypeOK
    <3>2. seen[q].entry.id \in 0..made /\ made \in Nat
      BY DEF TypeOK, Serials, RekeyInv, Fresh
    <3>3. CASE sems' = sems
      BY <3>1, <3>3 DEF RekeyInv, SeenHolds
    <3>4. CASE Written(r) /\ seen[r].entry.id = 0
      BY <3>1, <3>2, <3>4
    <3>5. CASE Written(r) /\ seen[r].entry.id # 0
      <4>1. sems.id = seen[r].entry.id /\ sems.id # 0 /\ sems' = [sems EXCEPT !.string = seen[r].key]
        BY <3>5
      <4>2. sems'.id = sems.id /\ sems'.string = seen[r].key
        BY <4>1 DEF TypeOK, Entries
      <4>3. sems.string # 0
        BY <3>1, <4>1 DEF RekeyInv, OneWriter, Blank, Past, Creating
      <4>4. seen[r].entry.string = sems.string /\ seen[q].entry.string = sems.string
        BY <3>1, <4>1, <4>2 DEF RekeyInv, SeenHolds
      <4>5. seen[r].entry.string = seen[r].key
        BY <4>3, <4>4
      <4> QED
        BY <3>1, <4>2, <4>4, <4>5
    <3> QED
      BY <3>3, <3>4, <3>5
  <2> QED
    BY <2>1, <2>2, <2>3 DEF RekeyInv
<1> QED
  BY <1>1, <1>2, <1>3

LEMMA StoreRefusedStep ==
    ASSUME IInv, NEW r \in Requests, StoreRefused(r)
    PROVE  IInv'
<1> USE DEF IInv, StoreRefused, Goto, Mismatch, Gone, db, external
<1>1. TypeOK'
  BY DEF TypeOK, Hubs, Entries, Serials, Creating, Deleting
<1>2. AloneInv'
  BY DEF TypeOK, Hubs, Entries, Serials, Creating, Deleting, AloneInv, Alone, Past, Emptied,
         Complete, Absent, AnswersAreTrue, Quiet, Fresh, RekeyInv
<1>3. RekeyInv'
  <2>1. Fresh'
    BY DEF TypeOK, Hubs, Entries, Serials, Creating, Deleting, RekeyInv, Fresh
  <2>2. OneWriter'
    BY DEF TypeOK, Hubs, Entries, Serials, Creating, Deleting, RekeyInv, Fresh, OneWriter, Blank, Past, Emptied
  <2>3. SeenHolds'
    BY DEF TypeOK, Hubs, Entries, Serials, Creating, Deleting, RekeyInv, Fresh, OneWriter, Blank, SeenHolds, Past
  <2> QED
    BY <2>1, <2>2, <2>3 DEF RekeyInv
<1> QED
  BY <1>1, <1>2, <1>3

LEMMA StoreFailsStep ==
    ASSUME IInv, NEW r \in Requests, StoreFails(r)
    PROVE  IInv'
<1> USE DEF IInv, StoreFails, Goto, Fault, Written, Mismatch, db
<1>1. TypeOK'
  BY DEF TypeOK, Hubs, Entries, Serials, Creating, Deleting
<1>2. AloneInv'
  BY DEF TypeOK, Hubs, Entries, Serials, Creating, Deleting, AloneInv, Alone, Past, Emptied,
         Complete, Absent, AnswersAreTrue, Quiet, Fresh, RekeyInv
<1>3. RekeyInv'
  <2>1. Fresh'
    <3>1. /\ made \in Nat /\ sems.id \in Nat /\ made' \in {made, made + 1} /\ seen' = seen
          /\ \A q \in Requests : seen[q].entry.id \in Nat
      BY DEF TypeOK, Entries, Serials
    <3>2. \A q \in Requests : pc'[q] \in {"lookup", "store"} => pc[q] \in {"lookup", "store"}
      BY DEF TypeOK
    <3>3. sems'.id = sems.id \/ (sems'.id = made + 1 /\ made' = made + 1)
      BY DEF TypeOK, Entries
    <3>4. sems'.id = 0 => sems'.string = 0
      BY <3>1, <3>3 DEF TypeOK, Entries, RekeyInv, Fresh
    <3> HIDE DEF StoreFails
    <3> QED
      BY <3>1, <3>2, <3>3, <3>4 DEF RekeyInv, Fresh
  <2>2. OneWriter'
    BY DEF TypeOK, Hubs, Entries, Serials, Creating, Deleting, RekeyInv, Fresh, OneWriter, Blank, Past, Emptied
  <2>3. SeenHolds'
    <3> SUFFICES ASSUME NEW q \in Requests, pc'[q] = "store", seen'[q].entry.id = sems'.id, sems'.id # 0
                 PROVE  seen'[q].entry.string = sems'.string
      BY DEF SeenHolds
    <3>1. q # r /\ pc[q] = "store" /\ seen' = seen /\ pc[r] = "store"
      BY DEF TypeOK
    <3>2. seen[q].entry.id \in 0..made /\ made \in Nat
      BY DEF TypeOK, Serials, RekeyInv, Fresh
    <3>3. CASE sems' = sems
      BY <3>1, <3>3 DEF RekeyInv, SeenHolds
    <3>4. CASE Written(r) /\ seen[r].entry.id = 0
      BY <3>1, <3>2, <3>4
    <3>5. CASE Written(r) /\ seen[r].entry.id # 0
      <4>1. sems.id = seen[r].entry.id /\ sems.id # 0 /\ sems' = [sems EXCEPT !.string = seen[r].key]
        BY <3>5
      <4>2. sems'.id = sems.id /\ sems'.string = seen[r].key
        BY <4>1 DEF TypeOK, Entries
      <4>3. sems.string # 0
        BY <3>1, <4>1 DEF RekeyInv, OneWriter, Blank, Past, Creating
      <4>4. seen[r].entry.string = sems.string /\ seen[q].entry.string = sems.string
        BY <3>1, <4>1, <4>2 DEF RekeyInv, SeenHolds
      <4>5. seen[r].entry.string = seen[r].key
        BY <4>3, <4>4
      <4> QED
        BY <3>1, <4>2, <4>4, <4>5
    <3> QED
      BY <3>3, <3>4, <3>5
  <2> QED
    BY <2>1, <2>2, <2>3 DEF RekeyInv
<1> QED
  BY <1>1, <1>2, <1>3

LEMMA TagStep ==
    ASSUME IInv, NEW r \in Requests, Tag(r)
    PROVE  IInv'
<1> USE DEF IInv, Tag, Goto, db
<1>1. TypeOK'
  BY DEF TypeOK, Hubs, Entries, Serials, Creating, Deleting
<1>2. AloneInv'
  BY DEF TypeOK, Hubs, Entries, Serials, Creating, Deleting, AloneInv, Alone, Past, Emptied,
         Complete, Absent, AnswersAreTrue, Quiet, Fresh, RekeyInv
<1>3. RekeyInv'
  <2>1. Fresh'
    BY DEF TypeOK, Hubs, Entries, Serials, Creating, Deleting, RekeyInv, Fresh
  <2>2. OneWriter'
    BY DEF TypeOK, Hubs, Entries, Serials, Creating, Deleting, RekeyInv, Fresh, OneWriter, Blank, Past, Emptied
  <2>3. SeenHolds'
    BY DEF TypeOK, Hubs, Entries, Serials, Creating, Deleting, RekeyInv, Fresh, OneWriter, Blank, SeenHolds, Past
  <2> QED
    BY <2>1, <2>2, <2>3 DEF RekeyInv
<1> QED
  BY <1>1, <1>2, <1>3

LEMMA FillCacheStep ==
    ASSUME IInv, NEW r \in Requests, FillCache(r)
    PROVE  IInv'
<1> USE DEF IInv, FillCache, End, Nothing, NoEntry, db, external
<1>1. TypeOK'
  BY DEF TypeOK, Hubs, Entries, Serials, Creating, Deleting
<1>2. AloneInv'
  BY DEF TypeOK, Hubs, Entries, Serials, Creating, Deleting, AloneInv, Alone, Past, Emptied,
         Complete, Absent, AnswersAreTrue, Quiet, Fresh, RekeyInv
<1>3. RekeyInv'
  <2>1. Fresh'
    BY DEF TypeOK, Hubs, Entries, Serials, Creating, Deleting, RekeyInv, Fresh
  <2>2. OneWriter'
    BY DEF TypeOK, Hubs, Entries, Serials, Creating, Deleting, RekeyInv, Fresh, OneWriter, Blank, Past, Emptied
  <2>3. SeenHolds'
    BY DEF TypeOK, Hubs, Entries, Serials, Creating, Deleting, RekeyInv, Fresh, OneWriter, Blank, SeenHolds, Past
  <2> QED
    BY <2>1, <2>2, <2>3 DEF RekeyInv
<1> QED
  BY <1>1, <1>2, <1>3

LEMMA CreateCallFailsStep ==
    ASSUME IInv, NEW r \in Requests, CreateCallFails(r)
    PROVE  IInv'
<1> USE DEF IInv, CreateCallFails, Goto, Fault, db, external
<1>1. TypeOK'
  BY DEF TypeOK, Hubs, Entries, Serials, Creating, Deleting
<1>2. AloneInv'
  BY DEF TypeOK, Hubs, Entries, Serials, Creating, Deleting, AloneInv, Alone, Past, Emptied,
         Complete, Absent, AnswersAreTrue, Quiet, Fresh, RekeyInv
<1>3. RekeyInv'
  <2>1. Fresh'
    BY DEF TypeOK, Hubs, Entries, Serials, Creating, Deleting, RekeyInv, Fresh
  <2>2. OneWriter'
    BY DEF TypeOK, Hubs, Entries, Serials, Creating, Deleting, RekeyInv, Fresh, OneWriter, Blank, Past, Emptied
  <2>3. SeenHolds'
    BY DEF TypeOK, Hubs, Entries, Serials, Creating, Deleting, RekeyInv, Fresh, OneWriter, Blank, SeenHolds, Past
  <2> QED
    BY <2>1, <2>2, <2>3 DEF RekeyInv
<1> QED
  BY <1>1, <1>2, <1>3

LEMMA UndoHubStep ==
    ASSUME IInv, NEW r \in Requests, UndoHub(r)
    PROVE  IInv'
<1> USE DEF IInv, UndoHub, Goto, NoHub, db
<1>1. TypeOK'
  <2>1. pc' \in [Requests -> {"idle"} \cup Creating \cup Deleting]
    BY DEF TypeOK, Creating, Deleting
  <2>2. hub' \in Hubs /\ sems' \in Entries
    <3>1. hub' = hub \/ hub' = NoHub
      OBVIOUS
    <3>2. sems' = sems \/ sems' = NoEntry
      OBVIOUS
    <3>3. NoHub \in Hubs /\ NoEntry \in Entries
      BY DEF NoHub, NoEntry, Hubs, Entries, Serials
    <3> HIDE DEF UndoHub, NoHub, NoEntry
    <3> QED
      BY <3>1, <3>2, <3>3 DEF TypeOK
  <2>3. seen' \in [Requests -> [key : Serials, entry : Entries]]
    BY DEF TypeOK, Hubs, Entries, Serials
  <2>4. row' \in BOOLEAN /\ tasks' \in BOOLEAN /\ (tasks' => row') /\ excuse' \in BOOLEAN
    BY DEF TypeOK
  <2>5. made' \in Serials /\ faults' \in Nat
    BY DEF TypeOK, Serials
  <2>6. alone' \in SUBSET Requests /\ outcome' \in {"none", "created", "failed", "undone", "deleted"}
    BY DEF TypeOK
  <2> QED
    BY <2>1, <2>2, <2>3, <2>4, <2>5, <2>6 DEF TypeOK
<1>2. AloneInv'
  BY DEF TypeOK, Hubs, Entries, Serials, Creating, Deleting, AloneInv, Alone, Past, Emptied,
         Complete, Absent, AnswersAreTrue, Quiet, Fresh, RekeyInv
<1>3. RekeyInv'
  <2>1. Fresh'
    BY DEF TypeOK, Hubs, Entries, Serials, Creating, Deleting, RekeyInv, Fresh
  <2>2. OneWriter'
    BY DEF TypeOK, Hubs, Entries, Serials, Creating, Deleting, RekeyInv, Fresh, OneWriter, Blank, Past, Emptied
  <2>3. SeenHolds'
    BY DEF TypeOK, Hubs, Entries, Serials, Creating, Deleting, RekeyInv, Fresh, OneWriter, Blank, SeenHolds, Past
  <2> QED
    BY <2>1, <2>2, <2>3 DEF RekeyInv
<1> QED
  BY <1>1, <1>2, <1>3

LEMMA UndoRowStep ==
    ASSUME IInv, NEW r \in Requests, UndoRow(r)
    PROVE  IInv'
<1> USE DEF IInv, UndoRow, End, Nothing, NoEntry, external
<1>1. TypeOK'
  BY DEF TypeOK, Hubs, Entries, Serials, Creating, Deleting
<1>2. AloneInv'
  BY DEF TypeOK, Hubs, Entries, Serials, Creating, Deleting, AloneInv, Alone, Past, Emptied,
         Complete, Absent, AnswersAreTrue, Quiet, Fresh, RekeyInv
<1>3. RekeyInv'
  <2>1. Fresh'
    BY DEF TypeOK, Hubs, Entries, Serials, Creating, Deleting, RekeyInv, Fresh
  <2>2. OneWriter'
    BY DEF TypeOK, Hubs, Entries, Serials, Creating, Deleting, RekeyInv, Fresh, OneWriter, Blank, Past, Emptied
  <2>3. SeenHolds'
    BY DEF TypeOK, Hubs, Entries, Serials, Creating, Deleting, RekeyInv, Fresh, OneWriter, Blank, SeenHolds, Past
  <2> QED
    BY <2>1, <2>2, <2>3 DEF RekeyInv
<1> QED
  BY <1>1, <1>2, <1>3

LEMMA UndoRowFailsStep ==
    ASSUME IInv, NEW r \in Requests, UndoRowFails(r)
    PROVE  IInv'
<1> USE DEF IInv, UndoRowFails, End, Fault, Nothing, NoEntry, db, external
<1>1. TypeOK'
  BY DEF TypeOK, Hubs, Entries, Serials, Creating, Deleting
<1>2. AloneInv'
  BY DEF TypeOK, Hubs, Entries, Serials, Creating, Deleting, AloneInv, Alone, Past, Emptied,
         Complete, Absent, AnswersAreTrue, Quiet, Fresh, RekeyInv
<1>3. RekeyInv'
  <2>1. Fresh'
    BY DEF TypeOK, Hubs, Entries, Serials, Creating, Deleting, RekeyInv, Fresh
  <2>2. OneWriter'
    BY DEF TypeOK, Hubs, Entries, Serials, Creating, Deleting, RekeyInv, Fresh, OneWriter, Blank, Past, Emptied
  <2>3. SeenHolds'
    BY DEF TypeOK, Hubs, Entries, Serials, Creating, Deleting, RekeyInv, Fresh, OneWriter, Blank, SeenHolds, Past
  <2> QED
    BY <2>1, <2>2, <2>3 DEF RekeyInv
<1> QED
  BY <1>1, <1>2, <1>3

LEMMA StartDeleteStep ==
    ASSUME IInv, NEW r \in Requests, StartDelete(r)
    PROVE  IInv'
<1> USE DEF IInv, StartDelete, Start, InFlight, Nothing, NoEntry, db, external
<1>1. TypeOK'
  BY DEF TypeOK, Hubs, Entries, Serials, Creating, Deleting
<1>2. AloneInv'
  BY DEF TypeOK, Hubs, Entries, Serials, Creating, Deleting, AloneInv, Alone, Past, Emptied,
         Complete, Absent, AnswersAreTrue, Quiet, Fresh, RekeyInv
<1>3. RekeyInv'
  <2>1. Fresh'
    BY DEF TypeOK, Hubs, Entries, Serials, Creating, Deleting, RekeyInv, Fresh
  <2>2. OneWriter'
    BY DEF TypeOK, Hubs, Entries, Serials, Creating, Deleting, RekeyInv, Fresh, OneWriter, Blank, Past, Emptied
  <2>3. SeenHolds'
    BY DEF TypeOK, Hubs, Entries, Serials, Creating, Deleting, RekeyInv, Fresh, OneWriter, Blank, SeenHolds, Past
  <2> QED
    BY <2>1, <2>2, <2>3 DEF RekeyInv
<1> QED
  BY <1>1, <1>2, <1>3

LEMMA FindStep ==
    ASSUME IInv, NEW r \in Requests, Find(r)
    PROVE  IInv'
<1> USE DEF IInv, Find, Goto, db, external
<1>1. TypeOK'
  BY DEF TypeOK, Hubs, Entries, Serials, Creating, Deleting
<1>2. AloneInv'
  BY DEF TypeOK, Hubs, Entries, Serials, Creating, Deleting, AloneInv, Alone, Past, Emptied,
         Complete, Absent, AnswersAreTrue, Quiet, Fresh, RekeyInv
<1>3. RekeyInv'
  <2>1. Fresh'
    BY DEF TypeOK, Hubs, Entries, Serials, Creating, Deleting, RekeyInv, Fresh
  <2>2. OneWriter'
    BY DEF TypeOK, Hubs, Entries, Serials, Creating, Deleting, RekeyInv, Fresh, OneWriter, Blank, Past, Emptied
  <2>3. SeenHolds'
    BY DEF TypeOK, Hubs, Entries, Serials, Creating, Deleting, RekeyInv, Fresh, OneWriter, Blank, SeenHolds, Past
  <2> QED
    BY <2>1, <2>2, <2>3 DEF RekeyInv
<1> QED
  BY <1>1, <1>2, <1>3

LEMMA SemsDeleteStep ==
    ASSUME IInv, NEW r \in Requests, SemsDelete(r)
    PROVE  IInv'
<1> USE DEF IInv, SemsDelete, Goto, Gone, NoEntry, db
<1>1. TypeOK'
  BY DEF TypeOK, Hubs, Entries, Serials, Creating, Deleting
<1>2. AloneInv'
  BY DEF TypeOK, Hubs, Entries, Serials, Creating, Deleting, AloneInv, Alone, Past, Emptied,
         Complete, Absent, AnswersAreTrue, Quiet, Fresh, RekeyInv
<1>3. RekeyInv'
  <2>1. Fresh'
    BY DEF TypeOK, Hubs, Entries, Serials, Creating, Deleting, RekeyInv, Fresh
  <2>2. OneWriter'
    BY DEF TypeOK, Hubs, Entries, Serials, Creating, Deleting, RekeyInv, Fresh, OneWriter, Blank, Past, Emptied
  <2>3. SeenHolds'
    BY DEF TypeOK, Hubs, Entries, Serials, Creating, Deleting, RekeyInv, Fresh, OneWriter, Blank, SeenHolds, Past
  <2> QED
    BY <2>1, <2>2, <2>3 DEF RekeyInv
<1> QED
  BY <1>1, <1>2, <1>3

LEMMA HubGetStep ==
    ASSUME IInv, NEW r \in Requests, HubGet(r)
    PROVE  IInv'
<1> USE DEF IInv, HubGet, Goto, db, external
<1>1. TypeOK'
  <2>1. pc' \in [Requests -> {"idle"} \cup Creating \cup Deleting]
    BY DEF TypeOK, Creating, Deleting
  <2>2. hub' \in Hubs /\ sems' \in Entries
    <3>1. hub' = hub \/ hub' = NoHub
      OBVIOUS
    <3>2. sems' = sems \/ sems' = NoEntry
      OBVIOUS
    <3>3. NoHub \in Hubs /\ NoEntry \in Entries
      BY DEF NoHub, NoEntry, Hubs, Entries, Serials
    <3> HIDE DEF HubGet, NoHub, NoEntry
    <3> QED
      BY <3>1, <3>2, <3>3 DEF TypeOK
  <2>3. seen' \in [Requests -> [key : Serials, entry : Entries]]
    BY DEF TypeOK, Hubs, Entries, Serials
  <2>4. row' \in BOOLEAN /\ tasks' \in BOOLEAN /\ (tasks' => row') /\ excuse' \in BOOLEAN
    BY DEF TypeOK
  <2>5. made' \in Serials /\ faults' \in Nat
    BY DEF TypeOK, Serials
  <2>6. alone' \in SUBSET Requests /\ outcome' \in {"none", "created", "failed", "undone", "deleted"}
    BY DEF TypeOK
  <2> QED
    BY <2>1, <2>2, <2>3, <2>4, <2>5, <2>6 DEF TypeOK
<1>2. AloneInv'
  BY DEF TypeOK, Hubs, Entries, Serials, Creating, Deleting, AloneInv, Alone, Past, Emptied,
         Complete, Absent, AnswersAreTrue, Quiet, Fresh, RekeyInv
<1>3. RekeyInv'
  <2>1. Fresh'
    BY DEF TypeOK, Hubs, Entries, Serials, Creating, Deleting, RekeyInv, Fresh
  <2>2. OneWriter'
    BY DEF TypeOK, Hubs, Entries, Serials, Creating, Deleting, RekeyInv, Fresh, OneWriter, Blank, Past, Emptied
  <2>3. SeenHolds'
    BY DEF TypeOK, Hubs, Entries, Serials, Creating, Deleting, RekeyInv, Fresh, OneWriter, Blank, SeenHolds, Past
  <2> QED
    BY <2>1, <2>2, <2>3 DEF RekeyInv
<1> QED
  BY <1>1, <1>2, <1>3

LEMMA HubDeleteStep ==
    ASSUME IInv, NEW r \in Requests, HubDelete(r)
    PROVE  IInv'
<1> USE DEF IInv, HubDelete, Goto, NoHub, db
<1>1. TypeOK'
  BY DEF TypeOK, Hubs, Entries, Serials, Creating, Deleting
<1>2. AloneInv'
  BY DEF TypeOK, Hubs, Entries, Serials, Creating, Deleting, AloneInv, Alone, Past, Emptied,
         Complete, Absent, AnswersAreTrue, Quiet, Fresh, RekeyInv
<1>3. RekeyInv'
  <2>1. Fresh'
    BY DEF TypeOK, Hubs, Entries, Serials, Creating, Deleting, RekeyInv, Fresh
  <2>2. OneWriter'
    BY DEF TypeOK, Hubs, Entries, Serials, Creating, Deleting, RekeyInv, Fresh, OneWriter, Blank, Past, Emptied
  <2>3. SeenHolds'
    BY DEF TypeOK, Hubs, Entries, Serials, Creating, Deleting, RekeyInv, Fresh, OneWriter, Blank, SeenHolds, Past
  <2> QED
    BY <2>1, <2>2, <2>3 DEF RekeyInv
<1> QED
  BY <1>1, <1>2, <1>3

LEMMA RowDeleteStep ==
    ASSUME IInv, NEW r \in Requests, RowDelete(r)
    PROVE  IInv'
<1> USE DEF IInv, RowDelete, End, Nothing, NoEntry, external
<1>1. TypeOK'
  BY DEF TypeOK, Hubs, Entries, Serials, Creating, Deleting
<1>2. AloneInv'
  BY DEF TypeOK, Hubs, Entries, Serials, Creating, Deleting, AloneInv, Alone, Past, Emptied,
         Complete, Absent, AnswersAreTrue, Quiet, Fresh, RekeyInv
<1>3. RekeyInv'
  <2>1. Fresh'
    BY DEF TypeOK, Hubs, Entries, Serials, Creating, Deleting, RekeyInv, Fresh
  <2>2. OneWriter'
    BY DEF TypeOK, Hubs, Entries, Serials, Creating, Deleting, RekeyInv, Fresh, OneWriter, Blank, Past, Emptied
  <2>3. SeenHolds'
    BY DEF TypeOK, Hubs, Entries, Serials, Creating, Deleting, RekeyInv, Fresh, OneWriter, Blank, SeenHolds, Past
  <2> QED
    BY <2>1, <2>2, <2>3 DEF RekeyInv
<1> QED
  BY <1>1, <1>2, <1>3

LEMMA DeleteRefusedStep ==
    ASSUME IInv, NEW r \in Requests, DeleteRefused(r)
    PROVE  IInv'
<1> USE DEF IInv, DeleteRefused, End, Gone, Nothing, NoEntry, db, external
<1>1. TypeOK'
  BY DEF TypeOK, Hubs, Entries, Serials, Creating, Deleting
<1>2. AloneInv'
  BY DEF TypeOK, Hubs, Entries, Serials, Creating, Deleting, AloneInv, Alone, Past, Emptied,
         Complete, Absent, AnswersAreTrue, Quiet, Fresh, RekeyInv
<1>3. RekeyInv'
  <2>1. Fresh'
    BY DEF TypeOK, Hubs, Entries, Serials, Creating, Deleting, RekeyInv, Fresh
  <2>2. OneWriter'
    BY DEF TypeOK, Hubs, Entries, Serials, Creating, Deleting, RekeyInv, Fresh, OneWriter, Blank, Past, Emptied
  <2>3. SeenHolds'
    BY DEF TypeOK, Hubs, Entries, Serials, Creating, Deleting, RekeyInv, Fresh, OneWriter, Blank, SeenHolds, Past
  <2> QED
    BY <2>1, <2>2, <2>3 DEF RekeyInv
<1> QED
  BY <1>1, <1>2, <1>3

LEMMA DeleteCallFailsStep ==
    ASSUME IInv, NEW r \in Requests, DeleteCallFails(r)
    PROVE  IInv'
<1> USE DEF IInv, DeleteCallFails, End, Fault, Gone, Nothing, NoEntry, NoHub, db
<1>1. TypeOK'
  <2>1. pc' \in [Requests -> {"idle"} \cup Creating \cup Deleting]
    BY DEF TypeOK, Creating, Deleting
  <2>2. hub' \in Hubs /\ sems' \in Entries
    <3>1. hub' = hub \/ hub' = NoHub
      OBVIOUS
    <3>2. sems' = sems \/ sems' = NoEntry
      OBVIOUS
    <3>3. NoHub \in Hubs /\ NoEntry \in Entries
      BY DEF NoHub, NoEntry, Hubs, Entries, Serials
    <3> HIDE DEF DeleteCallFails, NoHub, NoEntry
    <3> QED
      BY <3>1, <3>2, <3>3 DEF TypeOK
  <2>3. seen' \in [Requests -> [key : Serials, entry : Entries]]
    BY DEF TypeOK, Hubs, Entries, Serials
  <2>4. row' \in BOOLEAN /\ tasks' \in BOOLEAN /\ (tasks' => row') /\ excuse' \in BOOLEAN
    BY DEF TypeOK
  <2>5. made' \in Serials /\ faults' \in Nat
    BY DEF TypeOK, Serials
  <2>6. alone' \in SUBSET Requests /\ outcome' \in {"none", "created", "failed", "undone", "deleted"}
    BY DEF TypeOK
  <2> QED
    BY <2>1, <2>2, <2>3, <2>4, <2>5, <2>6 DEF TypeOK
<1>2. AloneInv'
  BY DEF TypeOK, Hubs, Entries, Serials, Creating, Deleting, AloneInv, Alone, Past, Emptied,
         Complete, Absent, AnswersAreTrue, Quiet, Fresh, RekeyInv
<1>3. RekeyInv'
  <2>1. Fresh'
    BY DEF TypeOK, Hubs, Entries, Serials, Creating, Deleting, RekeyInv, Fresh
  <2>2. OneWriter'
    BY DEF TypeOK, Hubs, Entries, Serials, Creating, Deleting, RekeyInv, Fresh, OneWriter, Blank, Past, Emptied
  <2>3. SeenHolds'
    BY DEF TypeOK, Hubs, Entries, Serials, Creating, Deleting, RekeyInv, Fresh, OneWriter, Blank, SeenHolds, Past
  <2> QED
    BY <2>1, <2>2, <2>3 DEF RekeyInv
<1> QED
  BY <1>1, <1>2, <1>3

(* AddTask and PurgeTasks touch no request *)
LEMMA TasksStep ==
    ASSUME IInv, AddTask \/ PurgeTasks
    PROVE  IInv'
<1>1. /\ UNCHANGED <<row, hub, sems, made, pc, seen, faults, alone, outcome, excuse>>
      /\ tasks' \in BOOLEAN /\ (tasks' => row)
  BY DEF AddTask, PurgeTasks, external, ghosts
<1> QED
  BY <1>1 DEF IInv, TypeOK, AloneInv, Alone, Complete, Absent, AnswersAreTrue, Quiet,
              RekeyInv, Fresh, OneWriter, SeenHolds, Blank

(* A restart ends every request where it is *)
LEMMA RestartStep ==
    ASSUME IInv, Restart
    PROVE  IInv'
<1> USE DEF IInv, Restart, Fault, db, external, Nothing, NoEntry
<1>1. TypeOK'
  BY DEF TypeOK, Hubs, Entries, Serials
<1>2. AloneInv'
  BY DEF AloneInv, AnswersAreTrue, Quiet
<1>3. RekeyInv'
  BY DEF TypeOK, Serials, RekeyInv, Fresh, OneWriter, SeenHolds, Blank, Past, Creating, Emptied
<1> QED
  BY <1>1, <1>2, <1>3

(* The strengthening holds in every reachable state, for any number of      *)
(* concurrent requests, failures and restarts.                              *)
THEOREM InductiveInvariant == Spec => []IInv
<1>1. IInv /\ [Next]_vars => IInv'
  <2> SUFFICES ASSUME IInv, [Next]_vars PROVE IInv'
    OBVIOUS
  <2>1. CASE \E r \in Requests : Create(r) \/ Refuse(r)
    BY <2>1, RefuseStep, StartCreateStep, InsertRowStep, InsertRowFailsStep, PutHubStep, PutHubFailsStep,
       GetKeyStep, LookupStep, StoreStringStep, StoreRefusedStep, StoreFailsStep, TagStep, FillCacheStep,
       CreateCallFailsStep, UndoHubStep, UndoRowStep, UndoRowFailsStep DEF Create
  <2>2. CASE \E r \in Requests : Delete(r)
    BY <2>2, StartDeleteStep, FindStep, SemsDeleteStep, HubGetStep, HubDeleteStep,
       RowDeleteStep, DeleteRefusedStep, DeleteCallFailsStep DEF Delete
  <2>3. CASE AddTask \/ PurgeTasks \/ Restart
    BY <2>3, TasksStep, RestartStep
  <2>4. CASE UNCHANGED vars
    BY <2>4 DEF vars, IInv, TypeOK, AloneInv, Alone, Complete, Absent, AnswersAreTrue, Quiet,
                RekeyInv, Fresh, OneWriter, SeenHolds, Blank
  <2> QED
    BY <2>1, <2>2, <2>3, <2>4 DEF Next
<1> QED
  BY <1>1, InitHolds, PTL DEF Spec

(* All variables keep their types; no renewal task is left without its row. *)
THEOREM TypeCorrect == Spec => []TypeOK
<1>1. IInv => TypeOK
  BY DEF IInv
<1> QED
  BY <1>1, InductiveInvariant, PTL

(* A request no other overlapped tells the truth: after a successful PUT    *)
(* the device is in all three systems with one key, after a successful      *)
(* DELETE in none.                                                          *)
THEOREM AloneAnswersAreTrue == Spec => []AnswersAreTrue
<1>1. IInv => AnswersAreTrue
  BY DEF IInv, AloneInv
<1> QED
  BY <1>1, InductiveInvariant, PTL

(* Writing to an entry that has a string writes the string it has           *)
LEMMA WriteKeepsString ==
    ASSUME IInv, NEW r \in Requests, pc[r] = "store", ~Mismatch(r), Written(r),
           sems.string # 0
    PROVE  sems'.string = sems.string
<1>1. sems.id # 0
  BY DEF IInv, RekeyInv, Fresh
<1>2. seen[r].entry.id = sems.id /\ sems' = [sems EXCEPT !.string = seen[r].key]
  BY <1>1 DEF Written
<1>3. seen[r].entry.string = sems.string
  BY <1>1, <1>2 DEF IInv, RekeyInv, SeenHolds
<1>4. seen[r].key = sems.string
  BY <1>3 DEF Mismatch
<1> QED
  BY <1>2, <1>4 DEF IInv, TypeOK, Entries

(* However requests overlap and fail, the connection string of a SmartEMS   *)
(* entry is never replaced by another key.                                  *)
THEOREM StringsAreNeverReplaced == Spec => NeverRekeyed
<1>1. IInv /\ [Next]_vars
        => [sems.string # 0 /\ sems'.string # sems.string => sems' = NoEntry]_vars
  <2> SUFFICES ASSUME IInv, Next, sems.string # 0, sems'.string # sems.string
               PROVE  sems' = NoEntry
    OBVIOUS
  <2>1. ASSUME NEW r \in Requests, StoreString(r) \/ StoreFails(r)
        PROVE  FALSE
    <3>1. pc[r] = "store" /\ ~Mismatch(r) /\ (Written(r) \/ sems' = sems)
      BY <2>1 DEF StoreString, StoreFails
    <3> QED
      BY <3>1, WriteKeepsString
  <2>2. ASSUME NEW r \in Requests, Delete(r) PROVE sems' = NoEntry
    BY <2>2 DEF Delete, StartDelete, Start, Find, SemsDelete, HubGet, HubDelete, RowDelete,
                DeleteRefused, DeleteCallFails, external
  <2>3. ASSUME NEW r \in Requests, Create(r), ~StoreString(r), ~StoreFails(r) PROVE sems' = sems
    BY <2>3 DEF Create, StartCreate, Start, InsertRow, InsertRowFails, PutHub, PutHubFails, GetKey, Lookup,
                StoreRefused, Tag, FillCache, CreateCallFails, UndoHub, UndoRow, UndoRowFails,
                external
  <2>4. CASE AddTask \/ PurgeTasks \/ Restart \/ \E r \in Requests : Refuse(r)
    BY <2>4 DEF AddTask, PurgeTasks, Restart, Refuse, external, vars
  <2> QED
    BY <2>1, <2>2, <2>3, <2>4 DEF Next
<1> QED
  BY <1>1, InductiveInvariant, PTL DEF Spec, NeverRekeyed

-----------------------------------------------------------------------------
(* A row stands for a complete device: why requests that overlap keep it so *)

(* A request that is under way will make good the row, or take it away.     *)
Guarantor(r) ==
    \/ pc[r] \in {"put", "get", "undoHub", "undoRow"} \cup Deleting
    \/ pc[r] \in {"lookup", "store"} /\ seen[r].key = hub.key /\ hub.key # 0

RowHeld == row /\ ~excuse => Complete \/ \E r \in Requests : Guarantor(r)

(* A request that does not get past the steps of a guarantor, and touches   *)
(* nothing of the device, leaves the others' guarantees as they are.        *)
LEMMA RowHeldStays ==
    ASSUME TypeOK, RowHeld, NEW r \in Requests,
           hub'.key = hub.key, sems' = sems, row' => row, excuse => excuse',
           \A q \in Requests \ {r} : pc'[q] = pc[q] /\ seen'[q] = seen[q],
           Guarantor(r) => Guarantor(r)'
    PROVE  RowHeld'
<1> SUFFICES ASSUME row', ~excuse' PROVE Complete' \/ \E q \in Requests : Guarantor(q)'
  BY DEF RowHeld
<1>1. CASE Complete
  BY <1>1 DEF Complete
<1>2. CASE \E q \in Requests : Guarantor(q)
  BY <1>2 DEF Guarantor
<1> QED
  BY <1>1, <1>2 DEF RowHeld

(* The steps after which a request is a guarantor, or the row is excused or *)
(* gone                                                                     *)
LEMMA CreateGuarantees ==
    ASSUME TypeOK, NEW r \in Requests,
           \/ StartCreate(r) \/ InsertRowFails(r) \/ PutHub(r) \/ PutHubFails(r) \/ GetKey(r)
           \/ StoreRefused(r) \/ StoreFails(r) \/ CreateCallFails(r) \/ UndoHub(r) \/ UndoRow(r)
           \/ UndoRowFails(r)
    PROVE  RowHeld'
<1> USE DEF TypeOK, Goto, End, Start, db
<1> SUFFICES ASSUME row', ~excuse' PROVE Guarantor(r)'
  BY DEF RowHeld
<1>1. CASE StartCreate(r) \/ InsertRowFails(r) \/ UndoRow(r) \/ UndoRowFails(r)
  BY <1>1 DEF StartCreate, InsertRowFails, UndoRow, UndoRowFails
<1>2. CASE PutHub(r) \/ PutHubFails(r) \/ StoreRefused(r) \/ StoreFails(r) \/ CreateCallFails(r)
           \/ UndoHub(r)
  BY <1>2 DEF PutHub, PutHubFails, StoreRefused, StoreFails, CreateCallFails, UndoHub, Guarantor
<1>3. CASE GetKey(r)
  BY <1>3 DEF GetKey, Guarantor, Hubs, external
<1> QED
  BY <1>1, <1>2, <1>3

(* A deletion that goes on is a guarantor; one that ends without having     *)
(* deleted the row excuses it.                                              *)
LEMMA DeleteGuarantees ==
    ASSUME TypeOK, NEW r \in Requests, Delete(r)
    PROVE  RowHeld'
<1> USE DEF TypeOK, Goto, End, Start, db
<1> SUFFICES ASSUME row', ~excuse' PROVE Guarantor(r)'
  BY DEF RowHeld
<1>1. CASE StartDelete(r) \/ Find(r) \/ SemsDelete(r) \/ HubGet(r) \/ HubDelete(r)
  BY <1>1 DEF StartDelete, Find, SemsDelete, HubGet, HubDelete, Guarantor, Deleting
<1>2. CASE RowDelete(r) \/ DeleteRefused(r) \/ DeleteCallFails(r)
  BY <1>2 DEF RowDelete, DeleteRefused, DeleteCallFails
<1> QED
  BY <1>1, <1>2 DEF Delete

LEMMA InsertHolds ==
    ASSUME TypeOK, RowHeld, NEW r \in Requests, InsertRow(r)
    PROVE  RowHeld'
<1>1. CASE Goto(r, "put")
  BY <1>1 DEF Goto, TypeOK, RowHeld, Guarantor
<1>2. CASE End(r, "failed") /\ UNCHANGED row
  <2>1. UNCHANGED <<hub, sems, excuse>> /\ pc[r] = "insert"
    BY DEF InsertRow, external
  <2>2. ~Guarantor(r)
    BY <2>1 DEF Guarantor, Deleting
  <2> QED
    BY <1>2, <2>1, <2>2, RowHeldStays DEF End, TypeOK
<1> QED
  BY <1>1, <1>2 DEF InsertRow

(* A creation whose key is not the identity's looks up the string of a      *)
(* complete device only to be refused; one whose key it is guarantees.      *)
LEMMA LookupHolds ==
    ASSUME TypeOK, RowHeld, NEW r \in Requests, Lookup(r)
    PROVE  RowHeld'
<1>1. UNCHANGED <<hub, sems, row, excuse>> /\ pc[r] = "lookup"
  BY DEF Lookup, external, db
<1>2. pc'[r] = "store" /\ seen'[r].key = seen[r].key
  BY DEF Lookup, Goto, TypeOK
<1>3. Guarantor(r) => Guarantor(r)'
  BY <1>1, <1>2 DEF Guarantor, Deleting
<1> QED
  BY <1>1, <1>3, RowHeldStays DEF Lookup, Goto, TypeOK

(* A creation that may write to a complete device has its key.              *)
LEMMA StoresItsKey ==
    ASSUME IInv, Complete, NEW r \in Requests, pc[r] = "store", ~Mismatch(r), Written(r)
    PROVE  seen[r].key = hub.key
<1>1. seen[r].entry.id = sems.id /\ sems.id # 0
  BY DEF Complete, Written
<1>2. seen[r].entry.string = sems.string
  BY <1>1 DEF IInv, RekeyInv, SeenHolds
<1> QED
  BY <1>2 DEF Complete, Mismatch

(* The string that a creation writes completes the device, if its key is    *)
(* the identity's; if it is not, the guarantor is another.                  *)
LEMMA StoreHolds ==
    ASSUME IInv, RowHeld, NEW r \in Requests, StoreString(r)
    PROVE  RowHeld'
<1> SUFFICES ASSUME row', ~excuse' PROVE Complete' \/ \E q \in Requests : Guarantor(q)'
  BY DEF RowHeld
<1>1. /\ row /\ ~excuse /\ pc[r] = "store" /\ ~Mismatch(r) /\ Written(r)
      /\ UNCHANGED <<row, hub, seen>>
  BY DEF StoreString, db
<1>2. TypeOK
  BY DEF IInv
<1>3. CASE seen[r].key = hub.key /\ hub.key # 0
  <2>1. sems'.id # 0 /\ sems'.string = hub.key
    BY <1>1, <1>2, <1>3 DEF Written, TypeOK, Entries, Serials
  <2> QED
    BY <1>1, <1>3, <2>1 DEF Complete
<1>4. CASE ~(seen[r].key = hub.key /\ hub.key # 0)
  <2>1. ~Complete
    BY <1>1, <1>4, StoresItsKey DEF Complete
  <2>2. PICK q \in Requests : Guarantor(q)
    BY <1>1, <2>1 DEF RowHeld
  <2>3. q # r
    BY <1>1, <1>4, <2>2 DEF Guarantor, Deleting
  <2>4. pc'[q] = pc[q]
    BY <1>2, <2>3 DEF StoreString, Goto, TypeOK
  <2> QED
    BY <1>1, <2>2, <2>4 DEF Guarantor
<1> QED
  BY <1>3, <1>4

LEMMA RowHeldInductive ==
    ASSUME IInv, RowHeld, [Next]_vars
    PROVE  RowHeld'
<1>1. TypeOK
  BY DEF IInv
<1>2. ASSUME NEW r \in Requests, Tag(r) \/ FillCache(r) PROVE RowHeld'
  <2>1. /\ UNCHANGED <<sems, row, excuse>> /\ hub'.key = hub.key
        /\ pc[r] \in {"tag", "cache"}
    BY <1>1, <1>2 DEF Tag, FillCache, external, db, TypeOK, Hubs
  <2>2. ~Guarantor(r)
    BY <2>1 DEF Guarantor, Deleting
  <2> QED
    BY <1>1, <1>2, <2>1, <2>2, RowHeldStays DEF Tag, FillCache, Goto, End, TypeOK
<1>3. ASSUME NEW r \in Requests, Create(r) PROVE RowHeld'
  BY <1>1, <1>2, <1>3, CreateGuarantees, InsertHolds, LookupHolds, StoreHolds DEF Create
<1>4. ASSUME NEW r \in Requests, Delete(r) PROVE RowHeld'
  BY <1>1, <1>4, DeleteGuarantees
<1>5. CASE AddTask \/ PurgeTasks \/ (\E r \in Requests : Refuse(r)) \/ UNCHANGED vars
  BY <1>5 DEF AddTask, PurgeTasks, Refuse, vars, external, ghosts, RowHeld, Complete, Guarantor
<1>6. CASE Restart
  BY <1>6 DEF Restart, RowHeld, db
<1> QED
  BY <1>3, <1>4, <1>5, <1>6 DEF Next

(* A row with no request in flight stands for a complete device, however   *)
(* many creations overlap and whichever of their calls fail, unless a      *)
(* deletion, a restart or a failed undo excuses it.                        *)
THEOREM RowsStandForDevices == Spec => []RowMeansRegistered
<1>1. Init => RowHeld
  BY DEF Init, RowHeld
<1>2. IInv /\ RowHeld /\ [Next]_vars => RowHeld'
  BY RowHeldInductive
<1>3. RowHeld => RowMeansRegistered
  BY DEF RowHeld, RowMeansRegistered, Quiet, Guarantor, Deleting
<1> QED
  BY <1>1, <1>2, <1>3, InductiveInvariant, PTL DEF Spec
=============================================================================
