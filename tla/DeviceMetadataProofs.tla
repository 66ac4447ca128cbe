------------------------ MODULE DeviceMetadataProofs ------------------------
(***************************************************************************)
(* The deciders of AccessDecision agree for every user, permission and     *)
(* document, and the document of a device keeps its promises whatever      *)
(* requests overlap.                                                       *)
(***************************************************************************)
EXTENDS DeviceMetadata, TLAPS

-----------------------------------------------------------------------------
(* The deciders *)

LEMMA DocumentsAreNotSentinels ==
    ASSUME NEW doc \in Metas
    PROVE  doc # Unnamed /\ doc # Missing
BY Sentinels

LEMMA PathIsEvaluate ==
    ASSUME NEW u, NEW p, p \notin GlobalPermissions, NEW doc, doc # Unnamed, doc # Missing
    PROVE  /\ PathCheck(p, u, doc) <=> EvaluatePermission(p, u, doc)
           /\ ResolvedCheck(p, u, doc) <=> EvaluatePermission(p, u, doc)
BY DEF PathCheck, ResolvedCheck, Authorize, ScopeRequired, Consulted, EvaluatePermission

LEMMA CopiesAreEvaluate ==
    ASSUME NEW u, NEW p, NEW doc, doc # Unnamed, doc # Missing
    PROVE  /\ RequireDevicePermission(p, u, doc) <=> EvaluatePermission(p, u, doc)
           /\ MayList(p, u) /\ FilterDevice(p, u, doc) <=> EvaluatePermission(p, u, doc)
           /\ CreateCheck(p, u, doc) <=> EvaluatePermission(p, u, doc)
BY DEF RequireDevicePermission, MayList, FilterDevice, Unrestricted, CreateCheck,
       EvaluatePermission, Unscoped

LEMMA OnMissingDevices ==
    ASSUME NEW u, NEW p, p \notin GlobalPermissions
    PROVE  /\ PathCheck(p, u, Missing) <=> Unrestricted(p, u)
           /\ ResolvedCheck(p, u, Missing) <=> Unrestricted(p, u)
           /\ RequireDevicePermission(p, u, Missing) <=> Unrestricted(p, u)
<1>1. Missing # Unnamed
    BY Sentinels
<1>2. Unscoped(TeamsWith(p, u)) => TeamsWith(p, u) # {}
    BY DEF Unscoped
<1> QED
    BY <1>1, <1>2 DEF PathCheck, ResolvedCheck, RequireDevicePermission, Authorize,
        ScopeRequired, Consulted, EvaluatePermission, Unrestricted

(* For every user, device permission and document, the check of a path,    *)
(* the check of a resolved owner, the helper of device_access.py, the list *)
(* filter, the create check and the permissions shown give one answer.     *)
THEOREM DecidersAgree ==
    ASSUME NEW u \in UserData, NEW p \in Permissions \ GlobalPermissions, NEW doc \in Metas
    PROVE  LET allowed == PathCheck(p, u, doc)
           IN  /\ allowed <=> ResolvedCheck(p, u, doc)
               /\ allowed <=> RequireDevicePermission(p, u, doc)
               /\ allowed <=> (MayList(p, u) /\ FilterDevice(p, u, doc))
               /\ allowed <=> CreateCheck(p, u, doc)
               /\ allowed <=> (p \in DevicePermissions(u, doc))
<1>1. doc # Unnamed /\ doc # Missing
    BY DocumentsAreNotSentinels
<1>2. p \in DevicePermissions(u, doc) <=> EvaluatePermission(p, u, doc)
    BY DEF DevicePermissions
<1> QED
    BY <1>1, <1>2, PathIsEvaluate, CopiesAreEvaluate

LEMMA GlobalDecidersAgree ==
    ASSUME NEW u, NEW p \in GlobalPermissions
    PROVE  /\ PathCheck(p, u, Unnamed) <=> p \in PlatformPermissions(u)
           /\ PathCheck(p, u, Unnamed) <=> AnyPermissionCheck({p}, u)
<1>1. Unnamed # Missing
    BY Sentinels
<1>2. PathCheck(p, u, Unnamed) <=> EvaluatePermission(p, u, Unnamed)
    BY <1>1 DEF PathCheck, Authorize, ScopeRequired, Consulted, EvaluatePermission
<1>3. p \in PlatformPermissions(u) <=> EvaluatePermission(p, u, Unnamed)
    BY DEF PlatformPermissions
<1>4. AnyPermissionCheck({p}, u) <=> EvaluatePermission(p, u, Unnamed)
    BY DEF AnyPermissionCheck, EvaluatePermission
<1> QED
    BY <1>2, <1>3, <1>4

(* A checked patch leads to a document its caller may still write. *)
LEMMA CheckedPatchStaysInScope ==
    ASSUME NEW u, NEW p, p \notin GlobalPermissions, NEW doc, NEW patch,
           PatchCheck(p, u, doc, patch), PatchData(doc, patch) \in Metas
    PROVE  PathCheck(p, u, PatchData(doc, patch))
<1> DEFINE new == PatchData(doc, patch)
<1>1. new # Unnamed /\ new # Missing
    BY DocumentsAreNotSentinels
<1>2. EvaluatePermission(p, u, new)
    <2>1. CASE ScopeRequired(p, u)
        BY <2>1 DEF PatchCheck
    <2>2. CASE ~ScopeRequired(p, u)
        BY <2>2 DEF PatchCheck, Authorize, ScopeRequired, EvaluatePermission
    <2> QED
        BY <2>1, <2>2
<1> QED
    BY <1>1, <1>2, PathIsEvaluate

-----------------------------------------------------------------------------
(* patch_data *)

LEMMA PatchDataIsMeta ==
    ASSUME NEW doc \in Metas, NEW patch \in Patches
    PROVE  PatchData(doc, patch) \in Metas
<1> DEFINE removed == {k \in DOMAIN patch : patch[k] = Null}
           dom == (DOMAIN doc \cup DOMAIN patch) \ removed
<1>1. PICK ks \in SUBSET Keys : doc \in [ks -> Values]
    BY DEF Metas
<1>2. PICK ps \in SUBSET Keys : patch \in [ps -> Values \cup {Null}]
    BY DEF Patches
<1>3. dom \in SUBSET Keys
    BY <1>1, <1>2
<1>4. \A k \in dom : (IF k \in DOMAIN patch THEN patch[k] ELSE doc[k]) \in Values
    BY <1>1, <1>2
<1>5. PatchData(doc, patch) \in [dom -> Values]
    BY <1>4 DEF PatchData
<1> QED
    BY <1>3, <1>5 DEF Metas

LEMMA PatchDataKeepsTheRest ==
    ASSUME NEW doc, NEW patch, NEW k, k \notin DOMAIN patch
    PROVE  /\ k \in DOMAIN PatchData(doc, patch) <=> k \in DOMAIN doc
           /\ k \in DOMAIN doc => PatchData(doc, patch)[k] = doc[k]
BY DEF PatchData

LEMMA EmptyIsBoth == Empty \in Metas /\ Empty \in Patches
<1>1. Empty \in [{} -> Values] /\ Empty \in [{} -> Values \cup {Null}]
    BY DEF Empty
<1>2. {} \in SUBSET Keys
    OBVIOUS
<1> QED
    BY <1>1, <1>2 DEF Metas, Patches

-----------------------------------------------------------------------------
(* Types *)

LEMMA BlankIsArg == Blank \in Args
BY EmptyIsBoth DEF Blank, Args

LEMMA InitType == Init => TypeOK
<1> SUFFICES ASSUME Init PROVE TypeOK
    OBVIOUS
<1>1. user \in [Callers -> UserData]
    BY MetadataValues DEF Init
<1>2. \A r \in Requests : pc[r] = "idle"
    BY DEF Init
<1> QED
    BY <1>1, <1>2, BlankIsArg DEF Init, TypeOK

(* A request that begins carries arguments of the right types. *)
LEMMA BeginType ==
    ASSUME TypeOK, NEW r \in Requests, NEW c \in Callers, NEW step,
           step \in {"read", "insert", "delete"},
           NEW patch \in Patches, NEW doc \in Metas,
           step = "insert" => ValidData(doc), Begin(r, c, step, patch, doc)
    PROVE  TypeOK'
<1> DEFINE new == [caller |-> c, patch |-> patch, doc |-> doc]
<1>1. new \in Args /\ new.caller = c /\ new.doc = doc
    BY DEF Args
<1>2. pc' \in [Requests -> {"idle", "read", "write", "insert", "register", "delete"}]
    BY DEF TypeOK, Begin
<1>3. arg' \in [Requests -> Args]
    BY <1>1 DEF TypeOK, Begin
<1>4. \A q \in Requests :
        /\ pc'[q] \in {"write", "insert"} => ValidData(arg'[q].doc)
        /\ pc'[q] \in {"read", "write"} => arg'[q].caller \in Callers
    BY <1>1 DEF TypeOK, Begin
<1> QED
    BY <1>2, <1>3, <1>4 DEF TypeOK, Begin, ValidData

(* A request that ends leaves the others as they are. *)
LEMMA EndType ==
    ASSUME TypeOK, NEW r \in Requests, End(r), meta' \in Metas \cup {Missing},
           UNCHANGED user, undisturbed' \subseteq Requests
    PROVE  TypeOK'
<1>1. /\ pc' \in [Requests -> {"idle", "read", "write", "insert", "register", "delete"}]
      /\ arg' \in [Requests -> Args]
    BY BlankIsArg DEF TypeOK, End
<1>2. \A q \in Requests :
        /\ pc'[q] \in {"write", "insert"} => ValidData(arg'[q].doc)
        /\ pc'[q] \in {"read", "write"} => arg'[q].caller \in Callers
    BY DEF TypeOK, End
<1> QED
    BY <1>1, <1>2 DEF TypeOK, ValidData

LEMMA AnswerType ==
    ASSUME TypeOK, NEW r \in Requests, Answer(r)
    PROVE  TypeOK'
BY EndType DEF Answer, TypeOK

LEMMA ArgTypes ==
    ASSUME TypeOK, NEW r \in Requests
    PROVE  arg[r].patch \in Patches /\ arg[r].doc \in Metas
BY DEF TypeOK, Args

LEMMA TypeStep == TypeOK /\ [Next]_vars => TypeOK'
<1> SUFFICES ASSUME TypeOK, [Next]_vars PROVE TypeOK'
    OBVIOUS
<1>1. CASE UNCHANGED vars
    BY <1>1 DEF TypeOK, vars, ValidData
<1>2. ASSUME NEW r \in Requests, NEW c \in Callers, NEW patch \in Sent, CheckPatch(r, c, patch)
      PROVE  TypeOK'
    BY <1>2, BeginType, EmptyIsBoth, MetadataValues DEF CheckPatch
<1>3. ASSUME NEW r \in Requests, ReadDevice(r)
      PROVE  TypeOK'
    <2> DEFINE doc == PatchData(meta, arg[r].patch)
    <2>1. doc \in Metas
        BY <1>3, ArgTypes, PatchDataIsMeta DEF ReadDevice, TypeOK
    <2>2. /\ pc' = [pc EXCEPT ![r] = "write"]
          /\ arg' = [arg EXCEPT ![r].doc = doc]
          /\ UNCHANGED <<meta, user, undisturbed>>
          /\ pc[r] = "read" /\ ValidData(doc)
        BY <1>3 DEF ReadDevice
    <2> HIDE DEF doc
    <2>3. /\ pc' \in [Requests -> {"idle", "read", "write", "insert", "register", "delete"}]
          /\ arg' \in [Requests -> Args]
        BY <2>1, <2>2 DEF TypeOK, Args
    <2>4. arg'[r].doc = doc /\ arg'[r].caller = arg[r].caller
        BY <2>2 DEF TypeOK, Args
    <2>5. \A q \in Requests \ {r} : pc'[q] = pc[q] /\ arg'[q] = arg[q]
        BY <2>2 DEF TypeOK
    <2>6. \A q \in Requests :
            /\ pc'[q] \in {"write", "insert"} => ValidData(arg'[q].doc)
            /\ pc'[q] \in {"read", "write"} => arg'[q].caller \in Callers
        BY <2>2, <2>4, <2>5 DEF TypeOK
    <2> QED
        BY <2>2, <2>3, <2>6 DEF TypeOK, ValidData
<1>4. ASSUME NEW r \in Requests, RefusePatch(r)
      PROVE  TypeOK'
    BY <1>4, AnswerType DEF RefusePatch
<1>5. ASSUME NEW r \in Requests, WriteDevice(r)
      PROVE  TypeOK'
    BY <1>5, EndType, ArgTypes DEF WriteDevice, Store
<1>6. ASSUME NEW r \in Requests, WriteNothing(r)
      PROVE  TypeOK'
    BY <1>6, AnswerType DEF WriteNothing
<1>7. ASSUME NEW r \in Requests, NEW c \in Callers, NEW doc \in Metas, CheckCreate(r, c, doc)
      PROVE  TypeOK'
    BY <1>7, BeginType, EmptyIsBoth DEF CheckCreate
<1>8. ASSUME NEW r \in Requests, InsertDevice(r)
      PROVE  TypeOK'
    <2>1. /\ meta' = arg[r].doc /\ undisturbed' = {}
          /\ pc' = [pc EXCEPT ![r] = "register"]
          /\ UNCHANGED <<user, arg>>
        BY <1>8 DEF InsertDevice, Store
    <2>2. meta' \in Metas
        BY <2>1, ArgTypes
    <2> QED
        BY <2>1, <2>2 DEF TypeOK, ValidData
<1>9. ASSUME NEW r \in Requests, Registered(r)
      PROVE  TypeOK'
    BY <1>9, AnswerType DEF Registered
<1>10. ASSUME NEW r \in Requests, UndoInsert(r) \/ DeleteDevice(r)
      PROVE  TypeOK'
    BY <1>10, EndType DEF UndoInsert, DeleteDevice, Store
<1>11. ASSUME NEW r \in Requests, NEW c \in Callers, CheckDelete(r, c)
      PROVE  TypeOK'
    BY <1>11, BeginType, EmptyIsBoth DEF CheckDelete
<1>12. ASSUME NEW r \in Requests, Fail(r)
      PROVE  TypeOK'
    BY <1>12, AnswerType DEF Fail
<1>13. ASSUME NEW c \in Callers, NEW data \in Profiles, Administer(c, data)
      PROVE  TypeOK'
    <2>1. user' \in [Callers -> UserData]
        BY <1>13, MetadataValues DEF Administer, TypeOK
    <2> QED
        BY <2>1, <1>13 DEF Administer, TypeOK, ValidData
<1> QED
    BY <1>1, <1>2, <1>3, <1>4, <1>5, <1>6, <1>7, <1>8, <1>9, <1>10, <1>11, <1>12, <1>13
    DEF Next, Patch, Register

(* All variables keep their types, and no suspended request is about to    *)
(* write a document it has not validated (update_device_metadata).         *)
THEOREM TypeCorrect == Spec => []TypeOK
<1>1. Init => TypeOK
    BY InitType
<1>2. TypeOK /\ [Next]_vars => TypeOK'
    BY TypeStep
<1> QED
    BY <1>1, <1>2, PTL DEF Spec

-----------------------------------------------------------------------------
(* The stored document *)

LEMMA ValidStep == TypeOK /\ StoredIsValid /\ [Next]_vars => StoredIsValid'
<1> SUFFICES ASSUME TypeOK, StoredIsValid, [Next]_vars PROVE StoredIsValid'
    OBVIOUS
<1>1. CASE UNCHANGED meta
    BY <1>1 DEF StoredIsValid, ValidData
<1>2. ASSUME NEW r \in Requests, WriteDevice(r) \/ InsertDevice(r)
      PROVE  StoredIsValid'
    BY <1>2 DEF WriteDevice, InsertDevice, Store, StoredIsValid, TypeOK, ValidData
<1>3. ASSUME NEW r \in Requests, UndoInsert(r) \/ DeleteDevice(r)
      PROVE  StoredIsValid'
    BY <1>3 DEF UndoInsert, DeleteDevice, Store, StoredIsValid
<1> QED
    BY <1>1, <1>2, <1>3
    DEF Next, Patch, Register, vars, CheckPatch, CheckCreate, CheckDelete, Begin, ReadDevice,
        RefusePatch, WriteNothing, Registered, Fail, Answer, Administer

(* However patches, creations and deletions overlap, the stored document   *)
(* satisfies the definitions of its type (validate_instance_data).         *)
THEOREM StoredStaysValid == Spec => []StoredIsValid
<1>1. Init => StoredIsValid
    BY DEF Init, StoredIsValid
<1>2. TypeOK /\ StoredIsValid /\ [Next]_vars => StoredIsValid'
    BY ValidStep
<1> QED
    BY <1>1, <1>2, TypeCorrect, PTL DEF Spec

(* The deciders agree on the stored document, or its absence, in every     *)
(* reachable state (device_access.py, "keep in sync").                     *)
THEOREM AgreementHolds == Spec => []ChecksAgree
<1>1. TypeOK => ChecksAgree
    <2> SUFFICES ASSUME TypeOK PROVE ChecksAgree
        OBVIOUS
    <2>1. ASSUME NEW c \in Callers, NEW p \in Permissions \ GlobalPermissions
          PROVE  LET allowed == PathCheck(p, user[c], meta)
                 IN  /\ allowed <=> RequireDevicePermission(p, user[c], meta)
                     /\ allowed <=> ResolvedCheck(p, user[c], meta)
                     /\ meta # Missing =>
                         /\ allowed <=> (MayList(p, user[c]) /\ FilterDevice(p, user[c], meta))
                         /\ allowed <=> (p \in DevicePermissions(user[c], meta))
                         /\ allowed <=> CreateCheck(p, user[c], meta)
                     /\ meta = Missing => allowed <=> Unrestricted(p, user[c])
        <3>1. CASE meta = Missing
            BY <3>1, OnMissingDevices
        <3>2. CASE meta # Missing
            <4>1. meta \in Metas /\ user[c] \in UserData
                BY <3>2 DEF TypeOK
            <4> QED
                BY <3>2, <4>1, DecidersAgree
        <3> QED
            BY <3>1, <3>2
    <2>2. \A c \in Callers, p \in GlobalPermissions :
            /\ PathCheck(p, user[c], Unnamed) <=> p \in PlatformPermissions(user[c])
            /\ PathCheck(p, user[c], Unnamed) <=> AnyPermissionCheck({p}, user[c])
        BY GlobalDecidersAgree
    <2>3. ASSUME meta # Missing, DOMAIN Defaults \subseteq DOMAIN meta, NEW c \in Callers
          PROVE  DeviceListed(c) <=> PathCheck(Read, user[c], meta)
        <3>1. meta \in Metas /\ user[c] \in UserData
            BY <2>3 DEF TypeOK
        <3>2. Resolved(meta) = meta
            BY <2>3, <3>1 DEF Resolved, Metas
        <3>3. PathCheck(Read, user[c], meta)
                <=> MayList(Read, user[c]) /\ FilterDevice(Read, user[c], meta)
            BY <3>1, MetadataValues, DecidersAgree
        <3>4. PathCheck(Read, user[c], meta) \in BOOLEAN /\ DeviceListed(c) \in BOOLEAN
            BY DEF PathCheck, Authorize, DeviceListed
        <3> QED
            BY <2>3, <3>2, <3>3, <3>4 DEF DeviceListed
    <2> QED
        BY <2>1, <2>2, <2>3 DEF ChecksAgree
<1> QED
    BY <1>1, TypeCorrect, PTL

-----------------------------------------------------------------------------
(* Undisturbed patches *)

(* What an undisturbed request may rely on between its steps. *)
Relies(r) ==
    /\ pc[r] = "read" =>
        PatchCheck(Write, user[arg[r].caller], meta, arg[r].patch)
    /\ pc[r] = "write" =>
        /\ PatchCheck(Write, user[arg[r].caller], meta, arg[r].patch)
        /\ meta # Missing
        /\ arg[r].doc = PatchData(meta, arg[r].patch)

UndisturbedInv == \A r \in undisturbed : Relies(r)

LEMMA InitUndisturbed == Init => UndisturbedInv
BY DEF Init, UndisturbedInv

(* A step that neither writes nor concerns a request keeps what it relies on. *)
LEMMA OthersRely ==
    ASSUME NEW q, Relies(q), UNCHANGED <<meta, user>>, pc'[q] = pc[q], arg'[q] = arg[q]
    PROVE  Relies(q)'
<1>1. user' = user /\ meta' = meta
    OBVIOUS
<1> QED
    BY <1>1 DEF Relies

LEMMA AnswerRely ==
    ASSUME TypeOK, UndisturbedInv, NEW r \in Requests, Answer(r)
    PROVE  UndisturbedInv'
<1> SUFFICES ASSUME NEW q \in undisturbed' PROVE Relies(q)'
    BY DEF UndisturbedInv
<1>1. q \in undisturbed /\ q # r /\ q \in Requests
    BY DEF Answer, TypeOK
<1>2. pc'[q] = pc[q] /\ arg'[q] = arg[q] /\ UNCHANGED <<meta, user>>
    BY <1>1 DEF Answer, End, TypeOK
<1> QED
    BY <1>1, <1>2, OthersRely DEF UndisturbedInv

LEMMA BeginRely ==
    ASSUME TypeOK, UndisturbedInv, NEW r \in Requests, NEW c, NEW step, NEW patch, NEW doc,
           Begin(r, c, step, patch, doc), step # "write",
           step = "read" => PatchCheck(Write, user[c], meta, patch)
    PROVE  UndisturbedInv'
<1> SUFFICES ASSUME NEW q \in undisturbed' PROVE Relies(q)'
    BY DEF UndisturbedInv
<1>1. q \in Requests
    BY DEF Begin, TypeOK
<1>2. CASE q = r
    <2>1. pc'[r] = step /\ arg'[r] = [caller |-> c, patch |-> patch, doc |-> doc]
        BY DEF Begin, TypeOK
    <2>2. UNCHANGED <<meta, user>>
        BY DEF Begin
    <2>3. arg'[r].caller = c /\ arg'[r].patch = patch
        BY <2>1
    <2>4. step = "read" =>
            PatchCheck(Write, user[arg'[r].caller], meta, arg'[r].patch)
        BY <2>3
    <2>5. step = "read" =>
            PatchCheck(Write, user'[arg'[r].caller], meta', arg'[r].patch)
        BY <2>2, <2>4
    <2> QED
        BY <1>2, <2>1, <2>5 DEF Relies
<1>3. CASE q # r
    <2>1. pc'[q] = pc[q] /\ arg'[q] = arg[q] /\ UNCHANGED <<meta, user>> /\ q \in undisturbed
        BY <1>1, <1>3 DEF Begin, TypeOK
    <2> QED
        BY <2>1, OthersRely DEF UndisturbedInv
<1> QED
    BY <1>2, <1>3

LEMMA UndisturbedStep == TypeOK /\ UndisturbedInv /\ [Next]_vars => UndisturbedInv'
<1> SUFFICES ASSUME TypeOK, UndisturbedInv, [Next]_vars PROVE UndisturbedInv'
    OBVIOUS
<1>1. CASE UNCHANGED vars
    <2> SUFFICES ASSUME NEW q \in undisturbed' PROVE Relies(q)'
        BY DEF UndisturbedInv
    <2> QED
        BY <1>1, OthersRely DEF vars, UndisturbedInv
<1>2. CASE undisturbed' = {}
    BY <1>2 DEF UndisturbedInv
<1>3. ASSUME NEW r \in Requests, Answer(r)
      PROVE  UndisturbedInv'
    BY <1>3, AnswerRely
<1>4. ASSUME NEW r \in Requests, NEW c \in Callers, NEW patch \in Sent, CheckPatch(r, c, patch)
      PROVE  UndisturbedInv'
    BY <1>4, BeginRely DEF CheckPatch
<1>5. ASSUME NEW r \in Requests, NEW c \in Callers, NEW doc \in Metas, CheckCreate(r, c, doc)
      PROVE  UndisturbedInv'
    BY <1>5, BeginRely DEF CheckCreate
<1>6. ASSUME NEW r \in Requests, NEW c \in Callers, CheckDelete(r, c)
      PROVE  UndisturbedInv'
    BY <1>6, BeginRely DEF CheckDelete
<1>7. ASSUME NEW r \in Requests, ReadDevice(r)
      PROVE  UndisturbedInv'
    <2> SUFFICES ASSUME NEW q \in undisturbed' PROVE Relies(q)'
        BY DEF UndisturbedInv
    <2>1. q \in Requests /\ q \in undisturbed /\ UNCHANGED <<meta, user>>
        BY <1>7 DEF ReadDevice, TypeOK
    <2>2. CASE q = r
        <3>1. /\ pc[r] = "read" /\ meta # Missing
              /\ pc'[r] = "write"
              /\ arg'[r] = [arg[r] EXCEPT !.doc = PatchData(meta, arg[r].patch)]
            BY <1>7 DEF ReadDevice, TypeOK
        <3>2. arg[r] \in Args
            BY DEF TypeOK
        <3>3. /\ arg'[r].caller = arg[r].caller /\ arg'[r].patch = arg[r].patch
              /\ arg'[r].doc = PatchData(meta, arg[r].patch)
            BY <3>1, <3>2 DEF Args
        <3>4. PatchCheck(Write, user[arg[r].caller], meta, arg[r].patch)
            BY <2>1, <2>2, <3>1 DEF UndisturbedInv, Relies
        <3>5. PatchCheck(Write, user'[arg'[r].caller], meta', arg'[r].patch)
            BY <2>1, <3>3, <3>4
        <3>6. arg'[r].doc = PatchData(meta', arg'[r].patch)
            BY <2>1, <3>3
        <3> QED
            BY <2>1, <2>2, <3>1, <3>5, <3>6 DEF Relies
    <2>3. CASE q # r
        <3>1. pc'[q] = pc[q] /\ arg'[q] = arg[q]
            BY <1>7, <2>1, <2>3 DEF ReadDevice, TypeOK
        <3> QED
            BY <2>1, <3>1, OthersRely DEF UndisturbedInv
    <2> QED
        BY <2>2, <2>3
<1>8. ASSUME NEW r \in Requests,
             WriteDevice(r) \/ InsertDevice(r) \/ UndoInsert(r) \/ DeleteDevice(r)
      PROVE  undisturbed' = {}
    BY <1>8 DEF WriteDevice, InsertDevice, UndoInsert, DeleteDevice, Store
<1>9. ASSUME NEW c \in Callers, NEW data \in Profiles, Administer(c, data)
      PROVE  undisturbed' = {}
    BY <1>9 DEF Administer
<1> QED
    BY <1>1, <1>2, <1>3, <1>4, <1>5, <1>6, <1>7, <1>8, <1>9
    DEF Next, Patch, Register, RefusePatch, WriteNothing, Registered, Fail

LEMMA ExactWrite ==
    ASSUME TypeOK, UndisturbedInv, NEW r \in undisturbed, WriteDevice(r)
    PROVE  /\ \A k \in Keys \ DOMAIN arg[r].patch :
                /\ k \in DOMAIN meta' <=> k \in DOMAIN meta
                /\ k \in DOMAIN meta => meta'[k] = meta[k]
           /\ PathCheck(Write, user[arg[r].caller], meta')
<1>1. /\ PatchCheck(Write, user[arg[r].caller], meta, arg[r].patch)
      /\ meta' = PatchData(meta, arg[r].patch)
      /\ meta' \in Metas
    BY ArgTypes DEF UndisturbedInv, Relies, WriteDevice, Store, TypeOK
<1>2. Write \notin GlobalPermissions
    BY MetadataValues
<1>3. PathCheck(Write, user[arg[r].caller], PatchData(meta, arg[r].patch))
    BY <1>1, <1>2, CheckedPatchStaysInScope
<1> QED
    BY <1>1, <1>3, PatchDataKeepsTheRest

LEMMA OnlyItsWriteEndsAPatch ==
    ASSUME TypeOK, [Next]_vars, NEW r \in Requests, pc[r] = "write", pc'[r] = "idle",
           meta' # meta
    PROVE  WriteDevice(r)
<1>1. ASSUME NEW q \in Requests, q # r, WriteDevice(q) \/ UndoInsert(q) \/ DeleteDevice(q)
      PROVE  pc'[r] = pc[r]
    BY <1>1 DEF WriteDevice, UndoInsert, DeleteDevice, End, TypeOK
<1>2. ASSUME NEW q \in Requests, InsertDevice(q)
      PROVE  pc'[r] # "idle"
    BY <1>2 DEF InsertDevice, TypeOK
<1>3. ~UndoInsert(r) /\ ~DeleteDevice(r)
    BY DEF UndoInsert, DeleteDevice
<1> QED
    BY <1>1, <1>2, <1>3
    DEF Next, Patch, Register, vars, CheckPatch, CheckCreate, CheckDelete, Begin, ReadDevice,
        RefusePatch, WriteNothing, Registered, Fail, Answer, Administer

(* A patch nobody disturbed changes only the keys it names, and leaves its *)
(* caller the permission it was checked for (_authorize, resulting_meta).  *)
THEOREM PatchesAreExact == Spec => PatchIsExact
<1>1. Init => UndisturbedInv
    BY InitUndisturbed
<1>2. TypeOK /\ UndisturbedInv /\ [Next]_vars => UndisturbedInv'
    BY UndisturbedStep
<1>3. ASSUME TypeOK, UndisturbedInv, [Next]_vars
      PROVE  [\A r \in Requests :
                pc[r] = "write" /\ pc'[r] = "idle" /\ r \in undisturbed /\ meta' # meta =>
                    /\ \A k \in Keys \ DOMAIN arg[r].patch :
                        /\ k \in DOMAIN meta' <=> k \in DOMAIN meta
                        /\ k \in DOMAIN meta => meta'[k] = meta[k]
                    /\ PathCheck(Write, user[arg[r].caller], meta')]_vars
    BY <1>3, OnlyItsWriteEndsAPatch, ExactWrite
<1> QED
    BY <1>1, <1>2, <1>3, TypeCorrect, PTL DEF Spec, PatchIsExact
=============================================================================
