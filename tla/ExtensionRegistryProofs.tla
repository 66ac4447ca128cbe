----------------------- MODULE ExtensionRegistryProofs -----------------------
(***************************************************************************)
(* Proofs about ExtensionRegistry for every set of names, actions, roles,  *)
(* manifests and concurrent requests.                                      *)
(***************************************************************************)
EXTENDS ExtensionRegistry, TLAPS

-----------------------------------------------------------------------------
(* Type correctness *)

LEMMA BlankIsArg == Blank \in Args
BY DEF Blank, Args

(* Answering a request and moving it to another step keep pc and arg       *)
(* well typed.                                                             *)
LEMMA AnswerType ==
    ASSUME TypeOK, NEW r \in Requests, Answer(r)
    PROVE  pc' \in [Requests -> Steps] /\ arg' \in [Requests -> Args]
BY BlankIsArg DEF TypeOK, Answer, Goto, Steps

LEMMA GotoType ==
    ASSUME TypeOK, NEW r \in Requests, NEW step \in Steps, Goto(r, step)
    PROVE  pc' \in [Requests -> Steps]
BY DEF TypeOK, Goto

LEMMA ReleaseType ==
    ASSUME TypeOK, NEW r \in Requests, Release(r)
    PROVE  lock' \in [Names -> Requests \cup {Free}]
BY DEF TypeOK, Release

LEMMA TakeType ==
    ASSUME TypeOK, NEW r \in Requests, Take(r)
    PROVE  lock' \in [Names -> Requests \cup {Free}]
BY DEF TypeOK, Take

LEMMA PublishType ==
    ASSUME TypeOK, NEW n, NEW routes \in Manifests \cup {NoManifest}, Publish(n, routes)
    PROVE  live' \in [Names -> Manifests \cup {NoManifest}] /\ unsynced' \subseteq Names
BY DEF TypeOK, Publish

LEMMA StepNames ==
    /\ "idle" \in Steps /\ "put_wait" \in Steps /\ "enable_wait" \in Steps
    /\ "disable_wait" \in Steps /\ "delete_wait" \in Steps
    /\ "post_commit" \in Steps /\ "role_commit" \in Steps
    /\ "put_validate" \in Steps /\ "put_commit" \in Steps /\ "put_mount" \in Steps
    /\ "put_undo" \in Steps /\ "enable_check" \in Steps /\ "enable_commit" \in Steps
    /\ "enable_publish" \in Steps /\ "disable_unmount" \in Steps
    /\ "delete_commit" \in Steps
    /\ Waiting \subseteq Steps
BY DEF Steps, Waiting, Holding, BeforeCommit, AfterCommit, Unlocked

LEMMA RecordFieldsType ==
    ASSUME TypeOK, NEW r \in Requests
    PROVE  /\ arg[r].name \in Names \cup {NoName}
           /\ arg[r].doc \in Manifests \cup {NoManifest}
           /\ arg[r].old \subseteq Actions
           /\ arg[r].was \in BOOLEAN
           /\ arg[r].seen \subseteq Roles \X Actions
           /\ arg[r].role \in Roles \cup {NoRole}
           /\ arg[r].want \subseteq Actions
           /\ pc[r] \in Steps
BY DEF TypeOK, Args

(* What a request reads or is given fits in its record.                    *)
LEMMA NameDocType ==
    ASSUME arg \in [Requests -> Args], NEW r \in Requests, NEW n \in Names, NEW m \in Manifests \cup {NoManifest}
    PROVE  [arg EXCEPT ![r].name = n, ![r].doc = m] \in [Requests -> Args]
<1> DEFINE w == [arg[r] EXCEPT !.name = n, !.doc = m]
<1>1. [arg EXCEPT ![r].name = n, ![r].doc = m] = [arg EXCEPT ![r] = w]
    OBVIOUS
<1>2. w \in Args
    <2>1. arg[r] \in Args
        OBVIOUS
    <2> QED
        BY <2>1 DEF Args
<1> HIDE DEF w
<1> QED
    BY <1>1, <1>2

LEMMA RoleWantType ==
    ASSUME arg \in [Requests -> Args], NEW r \in Requests, NEW role \in Roles, NEW want \in SUBSET Actions
    PROVE  [arg EXCEPT ![r].role = role, ![r].want = want] \in [Requests -> Args]
<1> DEFINE w == [arg[r] EXCEPT !.role = role, !.want = want]
<1>1. [arg EXCEPT ![r].role = role, ![r].want = want] = [arg EXCEPT ![r] = w]
    OBVIOUS
<1>2. w \in Args
    <2>1. arg[r] \in Args
        OBVIOUS
    <2> QED
        BY <2>1 DEF Args
<1> HIDE DEF w
<1> QED
    BY <1>1, <1>2

LEMMA OldWasType ==
    ASSUME arg \in [Requests -> Args], NEW r \in Requests, NEW old \in SUBSET Actions, NEW was \in BOOLEAN
    PROVE  [arg EXCEPT ![r].old = old, ![r].was = was] \in [Requests -> Args]
<1> DEFINE w == [arg[r] EXCEPT !.old = old, !.was = was]
<1>1. [arg EXCEPT ![r].old = old, ![r].was = was] = [arg EXCEPT ![r] = w]
    OBVIOUS
<1>2. w \in Args
    <2>1. arg[r] \in Args
        OBVIOUS
    <2> QED
        BY <2>1 DEF Args
<1> HIDE DEF w
<1> QED
    BY <1>1, <1>2

LEMMA OldSeenType ==
    ASSUME arg \in [Requests -> Args], NEW r \in Requests, NEW old \in SUBSET Actions,
           NEW seen \in SUBSET (Roles \X Actions)
    PROVE  [arg EXCEPT ![r].old = old, ![r].seen = seen] \in [Requests -> Args]
<1> DEFINE w == [arg[r] EXCEPT !.old = old, !.seen = seen]
<1>1. [arg EXCEPT ![r].old = old, ![r].seen = seen] = [arg EXCEPT ![r] = w]
    OBVIOUS
<1>2. w \in Args
    <2>1. arg[r] \in Args
        OBVIOUS
    <2> QED
        BY <2>1 DEF Args
<1> HIDE DEF w
<1> QED
    BY <1>1, <1>2

LEMMA OwnedType == \A n \in Names : Owned(n) \subseteq Actions
BY DEF Owned

LEMMA SubmitType ==
    ASSUME TypeOK, NEW r \in Requests, Submit(r)
    PROVE  TypeOK'
<1> USE StepNames, RecordFieldsType
<1>1. CASE \E n \in Names, m \in Manifests : PostValidate(r, n, m)
  <2>1. PICK n \in Names, m \in Manifests : PostValidate(r, n, m)
    BY <1>1
  <2>2. arg' \in [Requests -> Args]
    <3>1. arg' = [arg EXCEPT ![r].name = n, ![r].doc = m]
      BY <2>1 DEF PostValidate
    <3>2. QED
      BY <3>1, NameDocType DEF TypeOK
  <2>3. QED
    BY <2>1, <2>2 DEF TypeOK, PostValidate, Goto, db
<1>2. CASE \E n \in Names, m \in Manifests \cup {NoManifest}, step \in Waiting :
                Arrive(r, n, m, step)
  <2>1. PICK n \in Names, m \in Manifests \cup {NoManifest}, step \in Waiting :
            Arrive(r, n, m, step)
    BY <1>2
  <2>2. arg' \in [Requests -> Args]
    <3>1. arg' = [arg EXCEPT ![r].name = n, ![r].doc = m]
      BY <2>1 DEF Arrive
    <3>2. QED
      BY <3>1, NameDocType DEF TypeOK
  <2>3. QED
    BY <2>1, <2>2 DEF TypeOK, Arrive, Goto, db
<1>3. CASE \E role \in Roles, want \in SUBSET Actions : RoleCheck(r, role, want)
  <2>1. PICK role \in Roles, want \in SUBSET Actions : RoleCheck(r, role, want)
    BY <1>3
  <2>2. arg' \in [Requests -> Args]
    <3>1. arg' = [arg EXCEPT ![r].role = role, ![r].want = want]
      BY <2>1 DEF RoleCheck
    <3>2. QED
      BY <3>1, RoleWantType DEF TypeOK
  <2>3. QED
    BY <2>1, <2>2 DEF TypeOK, RoleCheck, Goto, db
<1>4. QED
  BY <1>1, <1>2, <1>3 DEF Submit

(* A request in one of the named steps works on a known extension, or, for *)
(* the role editor, on a known role.                                       *)
NamedInv ==
    \A r \in Requests :
        /\ pc[r] \notin {"idle", "role_commit"} => arg[r].name \in Names
        /\ pc[r] = "role_commit" => arg[r].role \in Roles
        /\ pc[r] \in {"post_commit", "put_wait", "put_validate", "put_commit"}
              => arg[r].doc \in Manifests

LEMMA BeginType ==
    ASSUME TypeOK, NamedInv, NEW r \in Requests, Begin(r)
    PROVE  TypeOK'
<1> USE StepNames, RecordFieldsType, OwnedType
<1>1. CASE PutRead(r)
  <2>1. CASE Answer(r) /\ UNCHANGED lock
    BY <1>1, <2>1, AnswerType DEF TypeOK, PutRead, db
  <2>2. CASE /\ Take(r)
             /\ Goto(r, "put_validate")
             /\ arg' = [arg EXCEPT ![r].old = Owned(arg[r].name),
                                   ![r].was = (arg[r].name \in enabled)]
    <3>1. Owned(arg[r].name) \in SUBSET Actions /\ (arg[r].name \in enabled) \in BOOLEAN
      BY DEF Owned
    <3>2. arg' \in [Requests -> Args]
      BY ONLY <2>2, <3>1, TypeOK, r \in Requests, OldWasType DEF TypeOK
    <3>3. QED
      BY <1>1, <2>2, <3>2, TakeType, GotoType DEF TypeOK, PutRead, db
  <2>3. QED
    BY <1>1, <2>1, <2>2 DEF PutRead
<1>2. CASE EnableBuild(r)
  BY <1>2, TakeType DEF TypeOK, EnableBuild, Goto, Args, db, NamedInv
<1>3. CASE DisableCommit(r)
  BY <1>3, AnswerType, TakeType DEF TypeOK, DisableCommit, Goto, Args
<1>4. CASE DeleteStrip(r)
  <2>1. CASE Answer(r) /\ UNCHANGED lock
    BY <1>4, <2>1, AnswerType DEF TypeOK, DeleteStrip, db
  <2>2. CASE /\ Take(r)
             /\ Goto(r, "delete_commit")
             /\ arg' = [arg EXCEPT
                         ![r].old = Owned(arg[r].name),
                         ![r].seen = grants \cap (Roles \X Owned(arg[r].name))]
    <3>1. /\ Owned(arg[r].name) \in SUBSET Actions
          /\ grants \cap (Roles \X Owned(arg[r].name)) \in SUBSET (Roles \X Actions)
      BY DEF Owned, TypeOK
    <3>2. arg' \in [Requests -> Args]
      BY ONLY <2>2, <3>1, TypeOK, r \in Requests, OldSeenType DEF TypeOK
    <3>3. QED
      BY <1>4, <2>2, <3>2, TakeType, GotoType DEF TypeOK, DeleteStrip, db
  <2>3. QED
    BY <1>4, <2>1, <2>2 DEF DeleteStrip
<1>5. QED
  BY <1>1, <1>2, <1>3, <1>4 DEF Begin

LEMMA ProceedType ==
    ASSUME TypeOK, NamedInv, NEW r \in Requests, Proceed(r)
    PROVE  TypeOK'
<1> USE StepNames, RecordFieldsType
<1>1. CASE PostCommit(r)
  BY <1>1, AnswerType, ManifestShape DEF TypeOK, PostCommit, Inserted, NamedInv
<1>2. CASE PutValidate(r)
  BY <1>2, AnswerType, ReleaseType DEF TypeOK, PutValidate, Goto, db
<1>3. CASE PutCommit(r)
  BY <1>3, AnswerType, ReleaseType, ManifestShape
  DEF TypeOK, PutCommit, Replaced, Goto, NamedInv
<1>4. CASE PutMount(r)
  BY <1>4, AnswerType, ReleaseType, PublishType DEF TypeOK, PutMount, NamedInv, db
<1>5. CASE PutMountFails(r)
  BY <1>5, PublishType DEF TypeOK, PutMountFails, Goto, db
<1>6. CASE PutUndo(r)
  BY <1>6, AnswerType, ReleaseType DEF TypeOK, PutUndo
<1>7. CASE EnableCheck(r)
  BY <1>7, AnswerType, ReleaseType DEF TypeOK, EnableCheck, Goto, db
<1>8. CASE EnableCommit(r)
  BY <1>8 DEF TypeOK, EnableCommit, Goto, NamedInv
<1>9. CASE EnablePublish(r)
  BY <1>9, AnswerType, ReleaseType, PublishType DEF TypeOK, EnablePublish, db
<1>10. CASE DisableUnmount(r)
  BY <1>10, AnswerType, ReleaseType, PublishType DEF TypeOK, DisableUnmount, db
<1>11. CASE DeleteCommit(r)
  BY <1>11, AnswerType, ReleaseType, PublishType
  DEF TypeOK, DeleteCommit, Removed, NamedInv, db
<1>12. CASE RoleCommit(r)
  BY <1>12, AnswerType DEF TypeOK, RoleCommit, NamedInv
<1>13. CASE Fail(r)
  BY <1>13, AnswerType, ReleaseType DEF TypeOK, Fail, db
<1>14. CASE Abandon(r)
  BY <1>14, AnswerType DEF TypeOK, Abandon, db
<1>15. CASE FailAfterCommit(r)
  BY <1>15, AnswerType, ReleaseType DEF TypeOK, FailAfterCommit, AfterCommit, NamedInv, db
<1>16. QED
  BY <1>1, <1>2, <1>3, <1>4, <1>5, <1>6, <1>7, <1>8, <1>9, <1>10, <1>11, <1>12,
     <1>13, <1>14, <1>15 DEF Proceed

LEMMA RestartType ==
    ASSUME TypeOK, NEW skipped \in SUBSET Names, Restart(skipped)
    PROVE  TypeOK'
BY BlankIsArg, StepNames DEF TypeOK, Restart, db

-----------------------------------------------------------------------------
(* The inductive invariant *)

(* No request that passed the ownership rules claims a platform action.    *)
ClaimInv ==
    \A r \in Requests :
        pc[r] \in {"post_commit", "put_commit"} => arg[r].doc.actions \cap Platform = {}

(* What PUT and DELETE read of their extension stays true until they       *)
(* commit: nothing else registers, replaces or removes it meanwhile.       *)
ReadInv ==
    \A r \in Requests :
        pc[r] \in {"put_validate", "put_commit", "delete_commit"} =>
            Registered(arg[r].name) /\ arg[r].old = Owned(arg[r].name)

EnabledInv ==
    /\ \A n \in enabled : Registered(n)
    /\ \A r \in Requests :
        /\ pc[r] = "enable_commit" => Registered(arg[r].name)
        /\ pc[r] = "enable_publish" => arg[r].name \in enabled
        /\ pc[r] = "disable_unmount" => arg[r].name \notin enabled

(* The routes an enable has built are of the stored manifest, or none.     *)
BuildInv ==
    \A r \in Requests :
        pc[r] \in {"enable_check", "enable_commit", "enable_publish"} =>
            arg[r].doc \in {NoManifest, manifest[arg[r].name]}

Settled(n) == lock[n] = Free \/ pc[lock[n]] \in BeforeCommit

LiveInv ==
    /\ \A n \in Names : ~Registered(n) => live[n] = NoManifest
    /\ \A n \in Names : Settled(n) /\ n \notin unsynced /\ live[n] # NoManifest =>
            n \in enabled /\ live[n] = manifest[n]
    /\ \A r \in Requests :
        LET n == arg[r].name
        IN  /\ pc[r] = "put_mount" /\ n \notin enabled \cup unsynced => live[n] = NoManifest
            /\ pc[r] = "put_undo" => live[n] = NoManifest

IInv ==
    /\ TypeOK /\ NamedInv /\ LocksHaveHolders
    /\ ClaimInv /\ ReadInv /\ ActionOwnership /\ NoDanglingAction
    /\ EnabledInv /\ BuildInv /\ LiveInv
-----------------------------------------------------------------------------
(* Every step preserves the lock discipline *)

LEMMA HoldingSteps ==
    /\ "idle" \notin Holding /\ "post_commit" \notin Holding /\ "role_commit" \notin Holding
    /\ "put_wait" \notin Holding /\ "enable_wait" \notin Holding
    /\ "disable_wait" \notin Holding /\ "delete_wait" \notin Holding
    /\ "put_validate" \in Holding /\ "put_commit" \in Holding /\ "put_mount" \in Holding
    /\ "put_undo" \in Holding /\ "enable_check" \in Holding /\ "enable_commit" \in Holding
    /\ "enable_publish" \in Holding /\ "disable_unmount" \in Holding
    /\ "delete_commit" \in Holding
    /\ BeforeCommit \subseteq Holding /\ AfterCommit \subseteq Holding
    /\ Waiting \cap Holding = {} /\ Unlocked \cap Holding = {}
BY DEF Holding, BeforeCommit, AfterCommit, Waiting, Unlocked

(* What the reads of PUT and DELETE record, and what they leave alone.     *)
LEMMA PutReadArg ==
    ASSUME TypeOK, NEW r \in Requests, PutRead(r), ~(Answer(r) /\ UNCHANGED lock)
    PROVE  /\ pc' = [pc EXCEPT ![r] = "put_validate"]
           /\ arg'[r].name = arg[r].name
           /\ arg'[r].doc = arg[r].doc
           /\ arg'[r].old = Owned(arg[r].name)
           /\ \A s \in Requests \ {r} : arg'[s] = arg[s]
           /\ Take(r)
<1>1. /\ Take(r)
      /\ Goto(r, "put_validate")
      /\ arg' = [arg EXCEPT ![r].old = Owned(arg[r].name),
                            ![r].was = (arg[r].name \in enabled)]
  BY DEF PutRead
<1>2. arg \in [Requests -> Args]
  BY DEF TypeOK
<1>3. QED
  BY ONLY <1>1, <1>2, r \in Requests DEF Goto, Args

LEMMA DeleteStripArg ==
    ASSUME TypeOK, NEW r \in Requests, DeleteStrip(r), ~(Answer(r) /\ UNCHANGED lock)
    PROVE  /\ pc' = [pc EXCEPT ![r] = "delete_commit"]
           /\ arg'[r].name = arg[r].name
           /\ arg'[r].old = Owned(arg[r].name)
           /\ \A s \in Requests \ {r} : arg'[s] = arg[s]
           /\ Take(r)
<1>1. /\ Take(r)
      /\ Goto(r, "delete_commit")
      /\ arg' = [arg EXCEPT ![r].old = Owned(arg[r].name),
                            ![r].seen = grants \cap (Roles \X Owned(arg[r].name))]
  BY DEF DeleteStrip
<1>2. arg \in [Requests -> Args]
  BY DEF TypeOK
<1>3. QED
  BY ONLY <1>1, <1>2, r \in Requests DEF Goto, Args

(* What a new request carries. *)
LEMMA PostValidateArg ==
    ASSUME TypeOK, NEW r \in Requests, NEW n, NEW m, PostValidate(r, n, m)
    PROVE  /\ pc' = [pc EXCEPT ![r] = "post_commit"]
           /\ arg'[r].name = n /\ arg'[r].doc = m
           /\ \A s \in Requests \ {r} : arg'[s] = arg[s]
<1>1. Goto(r, "post_commit") /\ arg' = [arg EXCEPT ![r].name = n, ![r].doc = m]
  BY DEF PostValidate
<1>2. arg \in [Requests -> Args]
  BY DEF TypeOK
<1>3. QED
  BY ONLY <1>1, <1>2, r \in Requests DEF Goto, Args

LEMMA ArriveArg ==
    ASSUME TypeOK, NEW r \in Requests, NEW n, NEW m, NEW step, Arrive(r, n, m, step)
    PROVE  /\ pc' = [pc EXCEPT ![r] = step]
           /\ arg'[r].name = n /\ arg'[r].doc = m
           /\ \A s \in Requests \ {r} : arg'[s] = arg[s]
<1>1. Goto(r, step) /\ arg' = [arg EXCEPT ![r].name = n, ![r].doc = m]
  BY DEF Arrive
<1>2. arg \in [Requests -> Args]
  BY DEF TypeOK
<1>3. QED
  BY ONLY <1>1, <1>2, r \in Requests DEF Goto, Args

LEMMA RoleCheckArg ==
    ASSUME TypeOK, NEW r \in Requests, NEW role, NEW want, RoleCheck(r, role, want)
    PROVE  /\ pc' = [pc EXCEPT ![r] = "role_commit"]
           /\ arg'[r].role = role
           /\ \A s \in Requests \ {r} : arg'[s] = arg[s]
<1>1. Goto(r, "role_commit") /\ arg' = [arg EXCEPT ![r].role = role, ![r].want = want]
  BY DEF RoleCheck
<1>2. arg \in [Requests -> Args]
  BY DEF TypeOK
<1>3. QED
  BY ONLY <1>1, <1>2, r \in Requests DEF Goto, Args

LEMMA EnableBuildArg ==
    ASSUME TypeOK, NEW r \in Requests, EnableBuild(r)
    PROVE  /\ pc' = [pc EXCEPT ![r] = "enable_check"]
           /\ arg'[r].name = arg[r].name /\ arg'[r].doc = manifest[arg[r].name]
           /\ \A s \in Requests \ {r} : arg'[s] = arg[s]
<1>1. Goto(r, "enable_check") /\ arg' = [arg EXCEPT ![r].doc = manifest[arg[r].name]]
  BY DEF EnableBuild
<1>2. arg \in [Requests -> Args]
  BY DEF TypeOK
<1>3. QED
  BY ONLY <1>1, <1>2, r \in Requests DEF Goto, Args

(* The ways a step moves between holding a lock and not. *)
LEMMA StaysOut ==
    ASSUME TypeOK, LocksHaveHolders, NEW r \in Requests, NEW step \in Steps \ Holding,
           pc[r] \notin Holding, Goto(r, step), UNCHANGED lock,
           \A s \in Requests \ {r} : arg'[s] = arg[s]
    PROVE  LocksHaveHolders'
BY DistinctValues DEF TypeOK, LocksHaveHolders, Goto

LEMMA Acquires ==
    ASSUME TypeOK, NamedInv, LocksHaveHolders, NEW r \in Requests, NEW step \in Holding,
           pc[r] \in Waiting, Take(r), Goto(r, step), arg'[r].name = arg[r].name,
           \A s \in Requests \ {r} : arg'[s] = arg[s]
    PROVE  LocksHaveHolders'
BY DistinctValues, HoldingSteps DEF TypeOK, LocksHaveHolders, NamedInv, Goto, Take, Waiting

LEMMA Advances ==
    ASSUME TypeOK, LocksHaveHolders, NEW r \in Requests, NEW step \in Holding,
           pc[r] \in Holding, Goto(r, step), UNCHANGED <<lock, arg>>
    PROVE  LocksHaveHolders'
BY DEF TypeOK, LocksHaveHolders, Goto

LEMMA Releases ==
    ASSUME TypeOK, NamedInv, LocksHaveHolders, NEW r \in Requests,
           pc[r] \in Holding, Answer(r), Release(r)
    PROVE  LocksHaveHolders'
BY DistinctValues, HoldingSteps DEF TypeOK, LocksHaveHolders, NamedInv, Goto, Answer, Release

LEMMA AnswersOnly ==
    ASSUME TypeOK, LocksHaveHolders, NEW r \in Requests,
           pc[r] \notin Holding, Answer(r), UNCHANGED lock
    PROVE  LocksHaveHolders'
BY DistinctValues, HoldingSteps DEF TypeOK, LocksHaveHolders, Goto, Answer

LEMMA SubmitLock ==
    ASSUME TypeOK, LocksHaveHolders, NEW r \in Requests, Submit(r)
    PROVE  LocksHaveHolders'
<1> USE StepNames, HoldingSteps
<1>1. CASE \E n \in Names, m \in Manifests : PostValidate(r, n, m)
  BY <1>1, StaysOut DEF PostValidate, TypeOK
<1>2. CASE \E n \in Names, m \in Manifests \cup {NoManifest}, step \in Waiting :
                Arrive(r, n, m, step)
  BY <1>2, StaysOut DEF Arrive, TypeOK
<1>3. CASE \E role \in Roles, want \in SUBSET Actions : RoleCheck(r, role, want)
  BY <1>3, StaysOut DEF RoleCheck, TypeOK
<1>4. QED
  BY <1>1, <1>2, <1>3 DEF Submit

LEMMA BeginLock ==
    ASSUME TypeOK, NamedInv, LocksHaveHolders, NEW r \in Requests, Begin(r)
    PROVE  LocksHaveHolders'
<1> USE StepNames, HoldingSteps DEF Waiting
<1>1. CASE PutRead(r)
  <2>1. CASE Answer(r) /\ UNCHANGED lock
    BY <1>1, <2>1, AnswersOnly DEF PutRead
  <2>2. CASE ~(Answer(r) /\ UNCHANGED lock)
    BY <1>1, <2>2, PutReadArg, Acquires DEF PutRead, Goto
  <2>3. QED
    BY <2>1, <2>2
<1>2. CASE EnableBuild(r)
  BY <1>2, Acquires DEF EnableBuild, TypeOK
<1>3. CASE DisableCommit(r)
  BY <1>3, AnswersOnly, Acquires DEF DisableCommit, TypeOK
<1>4. CASE DeleteStrip(r)
  <2>1. CASE Answer(r) /\ UNCHANGED lock
    BY <1>4, <2>1, AnswersOnly DEF DeleteStrip
  <2>2. CASE ~(Answer(r) /\ UNCHANGED lock)
    BY <1>4, <2>2, DeleteStripArg, Acquires DEF DeleteStrip, Goto
  <2>3. QED
    BY <2>1, <2>2
<1>5. QED
  BY <1>1, <1>2, <1>3, <1>4 DEF Begin

LEMMA ProceedLock ==
    ASSUME TypeOK, NamedInv, LocksHaveHolders, NEW r \in Requests, Proceed(r)
    PROVE  LocksHaveHolders'
<1> USE StepNames, HoldingSteps
<1>1. CASE PostCommit(r) \/ RoleCommit(r) \/ Abandon(r)
  BY <1>1, AnswersOnly DEF PostCommit, RoleCommit, Abandon, Unlocked
<1>2. CASE PutValidate(r) \/ PutCommit(r) \/ EnableCheck(r)
  BY <1>2, Advances, Releases DEF PutValidate, PutCommit, EnableCheck
<1>3. CASE PutMountFails(r) \/ EnableCommit(r)
  BY <1>3, Advances DEF PutMountFails, EnableCommit
<1>4. CASE \/ PutMount(r) \/ PutUndo(r) \/ EnablePublish(r) \/ DisableUnmount(r)
           \/ DeleteCommit(r) \/ Fail(r) \/ FailAfterCommit(r)
  BY <1>4, Releases
  DEF PutMount, PutUndo, EnablePublish, DisableUnmount, DeleteCommit, Fail, FailAfterCommit
<1>5. QED
  BY <1>1, <1>2, <1>3, <1>4 DEF Proceed

LEMMA RestartLock ==
    ASSUME NEW skipped, Restart(skipped)
    PROVE  LocksHaveHolders'
BY HoldingSteps DEF Restart, LocksHaveHolders
-----------------------------------------------------------------------------
(* Every step keeps requests named *)

LEMMA AnswerNamed ==
    ASSUME TypeOK, NamedInv, NEW r \in Requests, Answer(r)
    PROVE  NamedInv'
BY DEF TypeOK, NamedInv, Answer, Goto

LEMMA AdvanceNamed ==
    ASSUME TypeOK, NamedInv, NEW r \in Requests,
           NEW step \in Steps \ {"idle", "post_commit", "put_wait", "role_commit"},
           Goto(r, step), pc[r] \notin {"idle", "role_commit"}, UNCHANGED arg,
           step \in {"put_validate", "put_commit"} => pc[r] = "put_validate"
    PROVE  NamedInv'
BY DEF TypeOK, NamedInv, Goto

LEMMA SubmitNamed ==
    ASSUME TypeOK, NamedInv, NEW r \in Requests, Submit(r)
    PROVE  NamedInv'
<1> USE StepNames DEF TypeOK
<1>1. CASE \E n \in Names, m \in Manifests : PostValidate(r, n, m)
  <2>1. PICK n \in Names, m \in Manifests : PostValidate(r, n, m)
    BY <1>1
  <2>2. QED
    BY <2>1, PostValidateArg DEF NamedInv
<1>2. CASE \E n \in Names, m \in Manifests \cup {NoManifest}, step \in Waiting :
                Arrive(r, n, m, step)
  <2>1. PICK n \in Names, m \in Manifests \cup {NoManifest}, step \in Waiting :
            Arrive(r, n, m, step)
    BY <1>2
  <2>2. step = "put_wait" => m \in Manifests
    BY <2>1 DEF Arrive
  <2>3. QED
    BY <2>1, <2>2, ArriveArg DEF NamedInv, Waiting
<1>3. CASE \E role \in Roles, want \in SUBSET Actions : RoleCheck(r, role, want)
  <2>1. PICK role \in Roles, want \in SUBSET Actions : RoleCheck(r, role, want)
    BY <1>3
  <2>2. QED
    BY <2>1, RoleCheckArg DEF NamedInv
<1>4. QED
  BY <1>1, <1>2, <1>3 DEF Submit

LEMMA BeginNamed ==
    ASSUME TypeOK, NamedInv, NEW r \in Requests, Begin(r)
    PROVE  NamedInv'
<1> USE StepNames
<1>1. CASE PutRead(r)
  <2>1. CASE Answer(r) /\ UNCHANGED lock
    BY <2>1, AnswerNamed
  <2>2. CASE ~(Answer(r) /\ UNCHANGED lock)
    BY <1>1, <2>2, PutReadArg DEF PutRead, NamedInv, TypeOK
  <2>3. QED
    BY <2>1, <2>2
<1>2. CASE EnableBuild(r)
  BY <1>2, EnableBuildArg DEF EnableBuild, NamedInv, TypeOK, Goto
<1>3. CASE DisableCommit(r)
  BY <1>3, AnswerNamed, AdvanceNamed DEF DisableCommit
<1>4. CASE DeleteStrip(r)
  <2>1. CASE Answer(r) /\ UNCHANGED lock
    BY <2>1, AnswerNamed
  <2>2. CASE ~(Answer(r) /\ UNCHANGED lock)
    BY <1>4, <2>2, DeleteStripArg DEF DeleteStrip, NamedInv, TypeOK
  <2>3. QED
    BY <2>1, <2>2
<1>5. QED
  BY <1>1, <1>2, <1>3, <1>4 DEF Begin

LEMMA ProceedNamed ==
    ASSUME TypeOK, NamedInv, NEW r \in Requests, Proceed(r)
    PROVE  NamedInv'
<1> USE StepNames
<1>1. CASE Answer(r)
  BY <1>1, AnswerNamed
<1>2. CASE PutValidate(r) /\ ~Answer(r)
  BY <1>2, AdvanceNamed DEF PutValidate
<1>3. CASE PutCommit(r) /\ ~Answer(r)
  BY <1>3, AdvanceNamed DEF PutCommit
<1>4. CASE PutMountFails(r)
  BY <1>4, AdvanceNamed DEF PutMountFails
<1>5. CASE EnableCheck(r) /\ ~Answer(r)
  BY <1>5, AdvanceNamed DEF EnableCheck
<1>6. CASE EnableCommit(r)
  BY <1>6, AdvanceNamed DEF EnableCommit
<1>7. QED
  BY <1>1, <1>2, <1>3, <1>4, <1>5, <1>6
  DEF Proceed, PostCommit, PutMount, PutUndo, EnablePublish, DisableUnmount, DeleteCommit,
      RoleCommit, Fail, Abandon, FailAfterCommit

LEMMA RestartNamed ==
    ASSUME NEW skipped, Restart(skipped)
    PROVE  NamedInv'
BY DEF Restart, NamedInv

-----------------------------------------------------------------------------
(* What the lock protects: while one request holds the lock of an          *)
(* extension, no step of another request changes that extension's row,     *)
(* actions, enabled flag or routes (POST can only create a missing row).   *)

(* What writing the extension_actions of n does to the actions of n and    *)
(* of everybody else.                                                      *)
LEMMA OthersOwn ==
    ASSUME NEW n, NEW k, k # n, NEW actions,
           \/ owns' = owns \cup ({n} \X actions)
           \/ owns' = (owns \ ({n} \X Actions)) \cup ({n} \X actions)
           \/ owns' = owns \ ({n} \X Actions)
    PROVE  Owned(k)' = Owned(k)
<1>1. \A a \in Actions : <<k, a>> \in owns' <=> <<k, a>> \in owns
  <2> TAKE a \in Actions
  <2>1. <<k, a>> \notin {n} \X actions /\ <<k, a>> \notin {n} \X Actions
    OBVIOUS
  <2>2. QED
    BY <2>1
<1>2. QED
  BY <1>1 DEF Owned

LEMMA SelfOwns ==
    ASSUME NEW n, NEW actions \in SUBSET Actions,
           owns' = (owns \ ({n} \X Actions)) \cup ({n} \X actions)
    PROVE  Owned(n)' = actions
<1>1. \A a \in Actions : <<n, a>> \in owns' <=> a \in actions
  <2> TAKE a \in Actions
  <2>1. /\ <<n, a>> \in {n} \X Actions
        /\ <<n, a>> \in {n} \X actions <=> a \in actions
    OBVIOUS
  <2>2. QED
    BY <2>1
<1>2. QED
  BY <1>1 DEF Owned

LEMMA SelfInserts ==
    ASSUME NEW n, NEW actions \in SUBSET Actions, Owned(n) = {},
           owns' = owns \cup ({n} \X actions)
    PROVE  Owned(n)' = actions
<1>1. \A a \in Actions : <<n, a>> \in owns' <=> a \in actions
  <2> TAKE a \in Actions
  <2>1. /\ <<n, a>> \notin owns
        /\ <<n, a>> \in {n} \X actions <=> a \in actions
    BY DEF Owned
  <2>2. QED
    BY <2>1
<1>2. QED
  BY <1>1 DEF Owned

LEMMA SelfLoses ==
    ASSUME NEW n, owns' = owns \ ({n} \X Actions)
    PROVE  Owned(n)' = {}
<1>1. \A a \in Actions : <<n, a>> \notin owns'
  OBVIOUS
<1>2. QED
  BY <1>1 DEF Owned

LEMMA DistinctNames ==
    ASSUME LocksHaveHolders, NEW r \in Requests, NEW s \in Requests \ {r},
           pc[r] \in Holding, pc[s] \in Holding
    PROVE  arg[r].name # arg[s].name
BY DEF LocksHaveHolders

LEMMA WaiterNames ==
    ASSUME LocksHaveHolders, NEW r \in Requests, NEW s \in Requests,
           lock[arg[r].name] = Free, pc[s] \in Holding
    PROVE  arg[r].name # arg[s].name
BY DistinctValues DEF LocksHaveHolders

Untouched(s) ==
    LET k == arg[s].name
    IN  /\ pc'[s] = pc[s] /\ arg'[s] = arg[s]
        /\ Registered(k) => manifest'[k] = manifest[k] /\ Owned(k)' = Owned(k)
        /\ (k \in enabled') <=> (k \in enabled)
        /\ live'[k] = live[k]
        /\ (k \in unsynced') <=> (k \in unsynced)

LEMMA SubmitUntouched ==
    ASSUME IInv, NEW r \in Requests, NEW s \in Requests \ {r}, pc[s] \in Holding, Submit(r)
    PROVE  Untouched(s)
<1> USE DEF IInv
<1>1. CASE \E n \in Names, m \in Manifests : PostValidate(r, n, m)
  <2>1. PICK n \in Names, m \in Manifests : PostValidate(r, n, m)
    BY <1>1
  <2>2. QED
    <3>1. pc'[s] = pc[s] /\ arg'[s] = arg[s]
      BY <2>1, PostValidateArg DEF TypeOK
    <3>2. UNCHANGED <<db, live, unsynced>>
      BY <2>1 DEF PostValidate
    <3>3. QED
      BY <3>1, <3>2 DEF Untouched, db, Owned
<1>2. CASE \E n \in Names, m \in Manifests \cup {NoManifest}, step \in Waiting :
                Arrive(r, n, m, step)
  <2>1. PICK n \in Names, m \in Manifests \cup {NoManifest}, step \in Waiting :
            Arrive(r, n, m, step)
    BY <1>2
  <2>2. QED
    <3>1. pc'[s] = pc[s] /\ arg'[s] = arg[s]
      BY <2>1, ArriveArg DEF TypeOK
    <3>2. UNCHANGED <<db, live, unsynced>>
      BY <2>1 DEF Arrive
    <3>3. QED
      BY <3>1, <3>2 DEF Untouched, db, Owned
<1>3. CASE \E role \in Roles, want \in SUBSET Actions : RoleCheck(r, role, want)
  <2>1. PICK role \in Roles, want \in SUBSET Actions : RoleCheck(r, role, want)
    BY <1>3
  <2>2. QED
    <3>1. pc'[s] = pc[s] /\ arg'[s] = arg[s]
      BY <2>1, RoleCheckArg DEF TypeOK
    <3>2. UNCHANGED <<db, live, unsynced>>
      BY <2>1 DEF RoleCheck
    <3>3. QED
      BY <3>1, <3>2 DEF Untouched, db, Owned
<1>4. QED
  BY <1>1, <1>2, <1>3 DEF Submit

LEMMA BeginUntouched ==
    ASSUME IInv, NEW r \in Requests, NEW s \in Requests \ {r}, pc[s] \in Holding, Begin(r)
    PROVE  Untouched(s)
<1> USE DEF IInv
<1>1. CASE PutRead(r)
  <2>1. /\ pc'[s] = pc[s] /\ arg'[s] = arg[s]
    BY <1>1, PutReadArg DEF TypeOK, Answer, Goto
  <2>2. QED
    BY <1>1, <2>1 DEF PutRead, Untouched, db, Owned
<1>2. CASE EnableBuild(r)
  BY <1>2, EnableBuildArg DEF EnableBuild, Untouched, db, Owned, TypeOK
<1>3. CASE DisableCommit(r)
  <2>1. /\ pc'[s] = pc[s] /\ arg'[s] = arg[s]
    BY <1>3 DEF TypeOK, Answer, Goto, DisableCommit
  <2>2. QED
    BY <1>3, <2>1, WaiterNames DEF DisableCommit, Untouched, Owned
<1>4. CASE DeleteStrip(r)
  <2>1. /\ pc'[s] = pc[s] /\ arg'[s] = arg[s]
    BY <1>4, DeleteStripArg DEF TypeOK, Answer, Goto
  <2>2. QED
    BY <1>4, <2>1 DEF DeleteStrip, Untouched, db, Owned
<1>5. QED
  BY <1>1, <1>2, <1>3, <1>4 DEF Begin

LEMMA ProceedUntouched ==
    ASSUME IInv, NEW r \in Requests, NEW s \in Requests \ {r}, pc[s] \in Holding, Proceed(r)
    PROVE  Untouched(s)
<1> USE DEF IInv
<1>1. pc'[s] = pc[s] /\ arg'[s] = arg[s]
  BY DEF TypeOK, Answer, Goto, Proceed, PostCommit, PutValidate, PutCommit, PutMount,
         PutMountFails, PutUndo, EnableCheck, EnableCommit, EnablePublish, DisableUnmount,
         DeleteCommit, RoleCommit, Fail, Abandon, FailAfterCommit
<1>2. pc[r] \in Holding => arg[r].name # arg[s].name
  BY DistinctNames
<1>3. CASE PostCommit(r)
  <2>1. CASE UNCHANGED <<manifest, enabled, owns>>
    BY <1>1, <1>3, <2>1 DEF PostCommit, Untouched, Owned
  <2>2. CASE ~Registered(arg[r].name) /\ Inserted(arg[r].name, arg[r].doc)
    <3>1. arg[r].name \notin enabled
      BY <2>2 DEF EnabledInv
    <3>2. arg[s].name # arg[r].name =>
              manifest'[arg[s].name] = manifest[arg[s].name] /\ Owned(arg[s].name)' = Owned(arg[s].name)
      <4>1. PICK n, k : n = arg[r].name /\ k = arg[s].name
        OBVIOUS
      <4>2. k # n => Owned(k)' = Owned(k)
        BY <2>2, <4>1, OthersOwn DEF Inserted
      <4>3. QED
        BY <1>1, <4>1, <4>2, <2>2 DEF Inserted, Owned, TypeOK
    <3>3. (arg[s].name \in enabled') <=> (arg[s].name \in enabled)
      BY <2>2, <3>1 DEF Inserted
    <3>4. QED
      BY <1>1, <1>3, <2>2, <3>2, <3>3 DEF PostCommit, Untouched
  <2>3. QED
    BY <1>3, <2>1, <2>2 DEF PostCommit
<1>4. CASE \/ PutValidate(r) \/ EnableCheck(r) \/ RoleCommit(r) \/ Fail(r) \/ Abandon(r)
  BY <1>1, <1>4 DEF PutValidate, EnableCheck, RoleCommit, Fail, Abandon, Untouched, db, Owned
<1>5. CASE PutCommit(r)
  <2>1. CASE UNCHANGED <<manifest, owns>>
    BY <1>1, <1>5, <2>1 DEF PutCommit, Untouched, Owned
  <2>2. CASE Replaced(arg[r].name, arg[r].doc, arg[r].old)
    <3>1. arg[s].name # arg[r].name
      BY <1>2, <1>5, HoldingSteps DEF PutCommit
    <3>2. manifest'[arg[s].name] = manifest[arg[s].name]
      BY <2>2, <3>1 DEF Replaced, TypeOK
    <3>3. Owned(arg[s].name)' = Owned(arg[s].name)
      <4>1. PICK n, k : n = arg[r].name /\ k = arg[s].name
        OBVIOUS
      <4>2. Owned(k)' = Owned(k)
        BY <2>2, <3>1, <4>1, OthersOwn DEF Replaced
      <4>3. QED
        BY <1>1, <4>1, <4>2 DEF Owned
    <3>4. QED
      BY <1>1, <1>5, <3>2, <3>3 DEF PutCommit, Untouched
  <2>3. QED
    BY <1>5, <2>1, <2>2 DEF PutCommit
<1>6. CASE PutMount(r) \/ PutMountFails(r) \/ EnablePublish(r) \/ DisableUnmount(r)
  <2>1. arg[s].name # arg[r].name
    BY <1>2, <1>6, HoldingSteps DEF PutMount, PutMountFails, EnablePublish, DisableUnmount
  <2>2. /\ live'[arg[s].name] = live[arg[s].name]
        /\ (arg[s].name \in unsynced') <=> (arg[s].name \in unsynced)
    <3>1. ASSUME NEW routes, Publish(arg[r].name, routes)
          PROVE  /\ live'[arg[s].name] = live[arg[s].name]
                 /\ (arg[s].name \in unsynced') <=> (arg[s].name \in unsynced)
      BY <2>1, <3>1 DEF Publish, TypeOK
    <3>2. \/ UNCHANGED <<live, unsynced>>
          \/ \E routes : Publish(arg[r].name, routes)
      BY <1>6 DEF PutMount, PutMountFails, EnablePublish, DisableUnmount
    <3>3. QED
      BY <3>1, <3>2
  <2>3. UNCHANGED db
    BY <1>6 DEF PutMount, PutMountFails, EnablePublish, DisableUnmount
  <2>4. QED
    BY <1>1, <2>2, <2>3 DEF Untouched, db, Owned
<1>7. CASE PutUndo(r) \/ EnableCommit(r) \/ FailAfterCommit(r)
  BY <1>1, <1>2, <1>7, HoldingSteps
  DEF PutUndo, EnableCommit, FailAfterCommit, Untouched, db, Owned
<1>8. CASE DeleteCommit(r)
  <2>1. CASE UNCHANGED <<db, live, unsynced>>
    BY <1>1, <2>1 DEF Untouched, db, Owned
  <2>2. CASE /\ Removed(arg[r].name, arg[r].old, arg[r].seen)
             /\ Publish(arg[r].name, NoManifest)
    <3>1. arg[s].name # arg[r].name
      BY <1>2, <1>8, HoldingSteps DEF DeleteCommit
    <3>2. /\ manifest'[arg[s].name] = manifest[arg[s].name]
          /\ live'[arg[s].name] = live[arg[s].name]
      BY <2>2, <3>1 DEF Removed, Publish, TypeOK
    <3>3. Owned(arg[s].name)' = Owned(arg[s].name)
      <4>1. PICK n, k : n = arg[r].name /\ k = arg[s].name
        OBVIOUS
      <4>2. Owned(k)' = Owned(k)
        BY <2>2, <3>1, <4>1, OthersOwn DEF Removed
      <4>3. QED
        BY <1>1, <4>1, <4>2 DEF Owned
    <3>4. /\ (arg[s].name \in enabled') <=> (arg[s].name \in enabled)
          /\ (arg[s].name \in unsynced') <=> (arg[s].name \in unsynced)
      BY <2>2, <3>1 DEF Removed, Publish
    <3>5. QED
      BY <1>1, <3>2, <3>3, <3>4 DEF Untouched
  <2>3. QED
    BY <1>8, <2>1, <2>2 DEF DeleteCommit
<1>9. QED
  BY <1>3, <1>4, <1>5, <1>6, <1>7, <1>8 DEF Proceed

-----------------------------------------------------------------------------
(* Every step preserves ownership *)

(* Writing one extension's actions: they are its manifest's, nobody else's *)
(* and not the platform's.                                                 *)
LEMMA WriteOwnership ==
    ASSUME TypeOK, ActionOwnership, NEW n \in Names, NEW actions \in SUBSET Actions,
           Owned(n)' = actions,
           \A k \in Names \ {n} : Owned(k)' = Owned(k) /\ manifest'[k] = manifest[k],
           \A a \in actions : ~OwnedByOther(n, a),
           actions \cap Platform = {},
           actions = IF manifest'[n] # NoManifest THEN manifest'[n].actions ELSE {}
    PROVE  ActionOwnership'
<1>1. \A k \in Names, a \in Actions : (<<k, a>> \in owns <=> a \in Owned(k))
  BY DEF Owned
<1>2. \A k \in Names, a \in Actions : (<<k, a>> \in owns' <=> a \in Owned(k)')
  BY DEF Owned
<1>3. \A a \in actions, k \in Names \ {n} : a \notin Owned(k)
  BY <1>1 DEF OwnedByOther
<1>4. ASSUME NEW a \in Actions, NEW j \in Names, NEW k \in Names,
             <<j, a>> \in owns', <<k, a>> \in owns'
      PROVE  j = k
  <2>1. CASE j # n /\ k # n
    BY <1>1, <1>2, <1>4, <2>1 DEF ActionOwnership
  <2>2. CASE j = n \/ k = n
    BY <1>2, <1>3, <1>4, <2>2
  <2>3. QED
    BY <2>1, <2>2
<1>5. \A k \in Names : Owned(k)' = IF Registered(k)' THEN manifest'[k].actions ELSE {}
  BY DEF ActionOwnership, Registered
<1>6. ASSUME NEW a \in Platform, NEW k \in Names
      PROVE  <<k, a>> \notin owns'
  <2>1. a \in Actions /\ a \notin actions /\ a \notin Owned(k)
    BY <1>1, PlatformShape DEF ActionOwnership
  <2>2. QED
    BY <1>2, <2>1
<1>7. QED
  BY <1>4, <1>5, <1>6 DEF ActionOwnership

LEMMA SameOwnership ==
    ASSUME ActionOwnership, UNCHANGED <<manifest, owns>>
    PROVE  ActionOwnership'
BY DEF ActionOwnership, Owned, Registered

LEMMA PostCommitOwnership ==
    ASSUME IInv, NEW r \in Requests, PostCommit(r)
    PROVE  ActionOwnership'
<1> USE DEF IInv
<1>1. CASE UNCHANGED <<manifest, owns>>
  BY <1>1, SameOwnership
<1>2. CASE ~UNCHANGED <<manifest, owns>>
  <2>1. PICK n, m : n = arg[r].name /\ m = arg[r].doc
    OBVIOUS
  <2>2. /\ n \in Names /\ m \in Manifests /\ m.actions \in SUBSET Actions /\ m # NoManifest
        /\ m.actions \cap Platform = {}
    BY <2>1, ManifestShape DEF PostCommit, NamedInv, ClaimInv
  <2>3. ~Registered(n) /\ UniqueOwner(n, m) /\ Inserted(n, m)
    BY <1>2, <2>1 DEF PostCommit
  <2>4. Owned(n) = {}
    BY <2>2, <2>3 DEF ActionOwnership
  <2>5. Owned(n)' = m.actions
    BY <2>2, <2>3, <2>4, SelfInserts DEF Inserted
  <2>6. \A k \in Names \ {n} : Owned(k)' = Owned(k) /\ manifest'[k] = manifest[k]
    BY <2>3, OthersOwn DEF Inserted, TypeOK
  <2>7. manifest'[n] = m
    BY <2>2, <2>3 DEF Inserted, TypeOK
  <2>8. QED
    BY <2>2, <2>3, <2>5, <2>6, <2>7, WriteOwnership DEF UniqueOwner
<1>3. QED
  BY <1>1, <1>2

LEMMA PutCommitOwnership ==
    ASSUME IInv, NEW r \in Requests, PutCommit(r)
    PROVE  ActionOwnership'
<1> USE DEF IInv
<1>1. CASE UNCHANGED <<manifest, owns>>
  BY <1>1, SameOwnership
<1>2. CASE ~UNCHANGED <<manifest, owns>>
  <2>1. PICK n, m, old : n = arg[r].name /\ m = arg[r].doc /\ old = arg[r].old
    OBVIOUS
  <2>2. /\ n \in Names /\ m \in Manifests /\ m.actions \in SUBSET Actions /\ m # NoManifest
        /\ m.actions \cap Platform = {}
    BY <2>1, ManifestShape DEF PutCommit, NamedInv, ClaimInv
  <2>3. UniqueOwner(n, m) /\ Replaced(n, m, old)
    BY <1>2, <2>1 DEF PutCommit
  <2>4. Owned(n)' = m.actions
    BY <2>2, <2>3, SelfOwns DEF Replaced
  <2>5. \A k \in Names \ {n} : Owned(k)' = Owned(k) /\ manifest'[k] = manifest[k]
    BY <2>3, OthersOwn DEF Replaced, TypeOK
  <2>6. manifest'[n] = m
    BY <2>2, <2>3 DEF Replaced, TypeOK
  <2>7. QED
    BY <2>2, <2>3, <2>4, <2>5, <2>6, WriteOwnership DEF UniqueOwner
<1>3. QED
  BY <1>1, <1>2

LEMMA DeleteCommitOwnership ==
    ASSUME IInv, NEW r \in Requests, DeleteCommit(r)
    PROVE  ActionOwnership'
<1> USE DEF IInv
<1>1. CASE UNCHANGED <<manifest, owns>>
  BY <1>1, SameOwnership
<1>2. CASE ~UNCHANGED <<manifest, owns>>
  <2>1. PICK n, old, seen : n = arg[r].name /\ old = arg[r].old /\ seen = arg[r].seen
    OBVIOUS
  <2>2. n \in Names
    BY <2>1 DEF DeleteCommit, NamedInv
  <2>3. Removed(n, old, seen)
    BY <1>2, <2>1 DEF DeleteCommit, db
  <2>4. Owned(n)' = {}
    BY <2>3, SelfLoses DEF Removed
  <2>5. \A k \in Names \ {n} : Owned(k)' = Owned(k) /\ manifest'[k] = manifest[k]
    BY <2>3, OthersOwn DEF Removed, TypeOK
  <2>6. manifest'[n] = NoManifest
    BY <2>2, <2>3 DEF Removed, TypeOK
  <2>7. QED
    BY <2>2, <2>4, <2>5, <2>6, WriteOwnership
<1>3. QED
  BY <1>1, <1>2

(* Which steps write a row or its actions at all. *)
LEMMA RowWriters ==
    ASSUME NEW r \in Requests, Submit(r) \/ Begin(r) \/ Proceed(r),
           ~PostCommit(r), ~PutCommit(r), ~DeleteCommit(r)
    PROVE  UNCHANGED <<manifest, owns, catalog>>
BY DEF Submit, Begin, Proceed, PostValidate, Arrive, RoleCheck, PutRead, EnableBuild,
       DisableCommit, DeleteStrip, PutValidate, PutMount, PutMountFails, PutUndo, EnableCheck,
       EnableCommit, EnablePublish, DisableUnmount, RoleCommit, Fail, Abandon,
       FailAfterCommit, db

LEMMA StepOwnership ==
    ASSUME IInv, NEW r \in Requests, Submit(r) \/ Begin(r) \/ Proceed(r)
    PROVE  ActionOwnership'
BY RowWriters, SameOwnership, PostCommitOwnership, PutCommitOwnership, DeleteCommitOwnership
DEF IInv

-----------------------------------------------------------------------------
(* Every step preserves the claims and what was read under the lock *)

(* Platform actions exist and are owned by nobody, so the ownership rules  *)
(* refuse a manifest that introduces one.                                  *)
LEMMA PlatformUnclaimed ==
    ASSUME ActionOwnership, NoDanglingAction, NEW n \in Names, NEW m, OwnershipValid(n, m)
    PROVE  m.actions \cap Platform = {}
BY DEF ActionOwnership, NoDanglingAction, OwnershipValid, Owned

LEMMA StepClaim ==
    ASSUME IInv, NEW r \in Requests, Submit(r) \/ Begin(r) \/ Proceed(r)
    PROVE  ClaimInv'
<1> USE DEF IInv
<1> SUFFICES ASSUME NEW s \in Requests, pc'[s] \in {"post_commit", "put_commit"}
             PROVE  arg'[s].doc.actions \cap Platform = {}
  BY DEF ClaimInv
<1>1. CASE s # r
  <2>1. pc'[s] = pc[s] /\ arg'[s] = arg[s]
    <3>1. CASE Submit(r)
      BY <1>1, <3>1, PostValidateArg, ArriveArg, RoleCheckArg DEF Submit, TypeOK
    <3>2. CASE Begin(r)
      BY <1>1, <3>2, PutReadArg, EnableBuildArg, DeleteStripArg
      DEF Begin, DisableCommit, Answer, Goto, TypeOK
    <3>3. CASE Proceed(r)
      BY <1>1, <3>3
      DEF TypeOK, Answer, Goto, Proceed, PostCommit, PutValidate, PutCommit, PutMount,
          PutMountFails, PutUndo, EnableCheck, EnableCommit, EnablePublish, DisableUnmount,
          DeleteCommit, RoleCommit, Fail, Abandon, FailAfterCommit
    <3>4. QED
      BY <3>1, <3>2, <3>3
  <2>2. QED
    BY <2>1 DEF ClaimInv
<1>2. CASE s = r
  <2>1. CASE Submit(r)
    <3>1. PICK n \in Names, m \in Manifests : PostValidate(r, n, m)
      BY <1>2, <2>1, ArriveArg, RoleCheckArg DEF Submit, TypeOK, Waiting
    <3>2. arg'[r].doc = m /\ OwnershipValid(n, m)
      BY <3>1, PostValidateArg DEF PostValidate
    <3>3. QED
      BY <1>2, <3>2, PlatformUnclaimed
  <2>2. CASE Begin(r)
    BY <1>2, <2>2, PutReadArg, EnableBuildArg, DeleteStripArg
    DEF Begin, DisableCommit, Answer, Goto, TypeOK
  <2>3. CASE Proceed(r)
    <3>1. PutValidate(r) /\ ~Answer(r)
      BY <1>2, <2>3
      DEF TypeOK, Answer, Goto, Proceed, PostCommit, PutValidate, PutCommit, PutMount,
          PutMountFails, PutUndo, EnableCheck, EnableCommit, EnablePublish, DisableUnmount,
          DeleteCommit, RoleCommit, Fail, Abandon, FailAfterCommit
    <3>2. /\ arg' = arg /\ arg[r].name \in Names
          /\ OwnershipValid(arg[r].name, arg[r].doc)
      BY <3>1 DEF PutValidate, NamedInv
    <3>3. QED
      BY <1>2, <3>2, PlatformUnclaimed
  <2>4. QED
    BY <2>1, <2>2, <2>3
<1>3. QED
  BY <1>1, <1>2

LEMMA StepUntouched ==
    ASSUME IInv, NEW r \in Requests, NEW s \in Requests \ {r}, pc'[s] \in Holding,
           Submit(r) \/ Begin(r) \/ Proceed(r)
    PROVE  Untouched(s) /\ pc[s] \in Holding
<1>1. pc'[s] = pc[s]
  <2>1. CASE Submit(r)
    BY <2>1, PostValidateArg, ArriveArg, RoleCheckArg DEF Submit, TypeOK, IInv
  <2>2. CASE Begin(r)
    BY <2>2, PutReadArg, EnableBuildArg, DeleteStripArg
    DEF Begin, DisableCommit, Answer, Goto, TypeOK, IInv
  <2>3. CASE Proceed(r)
    BY <2>3
    DEF IInv, TypeOK, Answer, Goto, Proceed, PostCommit, PutValidate, PutCommit, PutMount,
        PutMountFails, PutUndo, EnableCheck, EnableCommit, EnablePublish, DisableUnmount,
        DeleteCommit, RoleCommit, Fail, Abandon, FailAfterCommit
  <2>4. QED
    BY <2>1, <2>2, <2>3
<1>2. QED
  BY <1>1, SubmitUntouched, BeginUntouched, ProceedUntouched

(* The only ways into the states the next invariants speak of. *)
LEMMA EntersRead ==
    ASSUME IInv, NEW r \in Requests, Submit(r) \/ Begin(r) \/ Proceed(r),
           pc'[r] \in {"put_validate", "put_commit", "delete_commit"}
    PROVE  \/ PutRead(r) /\ ~(Answer(r) /\ UNCHANGED lock)
           \/ DeleteStrip(r) /\ ~(Answer(r) /\ UNCHANGED lock)
           \/ PutValidate(r) /\ UNCHANGED arg
<1> USE DEF IInv, TypeOK
<1>1. CASE Submit(r)
  BY <1>1, PostValidateArg, ArriveArg, RoleCheckArg DEF Submit, Waiting
<1>2. CASE Begin(r)
  BY <1>2, EnableBuildArg DEF Begin, DisableCommit, Answer, Goto
<1>3. CASE Proceed(r)
  BY <1>3
  DEF Goto, Answer, Proceed, PostCommit, PutValidate, PutCommit, PutMount,
          PutMountFails, PutUndo, EnableCheck, EnableCommit, EnablePublish, DisableUnmount,
          DeleteCommit, RoleCommit, Fail, Abandon, FailAfterCommit
<1>4. QED
  BY <1>1, <1>2, <1>3

LEMMA EntersEnable ==
    ASSUME IInv, NEW r \in Requests, Submit(r) \/ Begin(r) \/ Proceed(r),
           pc'[r] \in {"enable_check", "enable_commit", "enable_publish"}
    PROVE  \/ EnableBuild(r)
           \/ EnableCheck(r) /\ UNCHANGED <<arg, db>> /\ Registered(arg[r].name)
           \/ EnableCommit(r)
<1> USE DEF IInv, TypeOK
<1>1. CASE Submit(r)
  BY <1>1, PostValidateArg, ArriveArg, RoleCheckArg DEF Submit, Waiting
<1>2. CASE Begin(r)
  BY <1>2, PutReadArg, DeleteStripArg DEF Begin, DisableCommit, Answer, Goto
<1>3. CASE Proceed(r)
  BY <1>3
  DEF Goto, Answer, Proceed, PostCommit, PutValidate, PutCommit, PutMount,
          PutMountFails, PutUndo, EnableCheck, EnableCommit, EnablePublish, DisableUnmount,
          DeleteCommit, RoleCommit, Fail, Abandon, FailAfterCommit
<1>4. QED
  BY <1>1, <1>2, <1>3

LEMMA StepRead ==
    ASSUME IInv, NEW r \in Requests, Submit(r) \/ Begin(r) \/ Proceed(r)
    PROVE  ReadInv'
<1> USE DEF IInv
<1> SUFFICES ASSUME NEW s \in Requests,
                    pc'[s] \in {"put_validate", "put_commit", "delete_commit"}
             PROVE  Registered(arg[s].name)' /\ arg'[s].old = Owned(arg[s].name)'
  BY DEF ReadInv
<1>1. CASE s # r
  <2>1. Untouched(s)
    BY <1>1, StepUntouched, HoldingSteps
  <2>2. Registered(arg[s].name) /\ arg[s].old = Owned(arg[s].name)
    BY <2>1 DEF ReadInv, Untouched
  <2>3. manifest'[arg[s].name] = manifest[arg[s].name] /\ arg'[s] = arg[s]
        /\ Owned(arg[s].name)' = Owned(arg[s].name)
    BY <2>1, <2>2 DEF Untouched
  <2>4. QED
    BY <2>2, <2>3 DEF Registered
<1>2. CASE s = r
  <2>1. /\ UNCHANGED <<manifest, owns>>
        /\ arg'[r].name = arg[r].name
        /\ Registered(arg[r].name) /\ arg'[r].old = Owned(arg[r].name)
    <3>1. CASE PutRead(r) /\ ~(Answer(r) /\ UNCHANGED lock)
      BY <3>1, PutReadArg DEF PutRead, db
    <3>2. CASE DeleteStrip(r) /\ ~(Answer(r) /\ UNCHANGED lock)
      BY <3>2, DeleteStripArg DEF DeleteStrip, db
    <3>3. CASE PutValidate(r) /\ UNCHANGED arg
      BY <3>3 DEF PutValidate, ReadInv, db
    <3>4. QED
      BY <1>2, <3>1, <3>2, <3>3, EntersRead
  <2>2. QED
    BY <1>2, <2>1 DEF Registered, Owned
<1>3. QED
  BY <1>1, <1>2

LEMMA StepBuild ==
    ASSUME IInv, NEW r \in Requests, Submit(r) \/ Begin(r) \/ Proceed(r)
    PROVE  BuildInv'
<1> USE DEF IInv
<1> SUFFICES ASSUME NEW s \in Requests,
                    pc'[s] \in {"enable_check", "enable_commit", "enable_publish"}
             PROVE  arg'[s].doc \in {NoManifest, manifest'[arg'[s].name]}
  BY DEF BuildInv
<1>1. CASE s # r
  <2>1. Untouched(s)
    BY <1>1, StepUntouched, HoldingSteps
  <2>2. arg[s].doc \in {NoManifest, manifest[arg[s].name]}
    BY <2>1 DEF BuildInv, Untouched
  <2>3. QED
    BY <2>1, <2>2 DEF Untouched, Registered
<1>2. CASE s = r
  <2>1. CASE EnableBuild(r)
    BY <1>2, <2>1, EnableBuildArg DEF EnableBuild, db
  <2>2. CASE EnableCheck(r) /\ UNCHANGED <<arg, db>>
    BY <1>2, <2>2 DEF EnableCheck, BuildInv, db
  <2>3. CASE EnableCommit(r)
    BY <1>2, <2>3 DEF EnableCommit, BuildInv
  <2>4. QED
    BY <1>2, <2>1, <2>2, <2>3, EntersEnable
<1>3. QED
  BY <1>1, <1>2

LEMMA StepEnabled ==
    ASSUME IInv, NEW r \in Requests, Submit(r) \/ Begin(r) \/ Proceed(r)
    PROVE  EnabledInv'
<1> USE DEF IInv
<1>1. ASSUME NEW n \in enabled'
      PROVE  Registered(n)'
  <2>1. CASE PostCommit(r)
    BY <1>1, <2>1, ManifestShape
    DEF PostCommit, Inserted, EnabledInv, Registered, TypeOK, NamedInv
  <2>2. CASE PutCommit(r)
    BY <1>1, <2>2, ManifestShape
    DEF PutCommit, Replaced, EnabledInv, Registered, TypeOK, NamedInv
  <2>3. CASE DeleteCommit(r)
    BY <1>1, <2>3 DEF DeleteCommit, Removed, EnabledInv, Registered, TypeOK, db
  <2>4. CASE EnableCommit(r)
    BY <1>1, <2>4 DEF EnableCommit, EnabledInv, Registered
  <2>5. CASE ~PostCommit(r) /\ ~PutCommit(r) /\ ~DeleteCommit(r) /\ ~EnableCommit(r)
    <3>1. UNCHANGED manifest
      BY <2>5, RowWriters
    <3>2. enabled' \subseteq enabled
      BY <2>5
      DEF Submit, PostValidate, Arrive, RoleCheck, Begin, PutRead, EnableBuild, DisableCommit,
          DeleteStrip, Proceed, PutValidate, PutMount, PutMountFails, PutUndo, EnableCheck,
          EnablePublish, DisableUnmount, RoleCommit, Fail, Abandon, FailAfterCommit, db
    <3>3. QED
      BY <1>1, <3>1, <3>2 DEF EnabledInv, Registered
  <2>6. QED
    BY <2>1, <2>2, <2>3, <2>4, <2>5
<1>2. ASSUME NEW s \in Requests
      PROVE  /\ pc'[s] = "enable_commit" => Registered(arg[s].name)'
             /\ pc'[s] = "enable_publish" => arg'[s].name \in enabled'
             /\ pc'[s] = "disable_unmount" => arg'[s].name \notin enabled'
  <2>1. CASE s # r /\ pc'[s] \in Holding
    BY <2>1, StepUntouched DEF Untouched, EnabledInv, Registered
  <2>2. CASE s = r /\ pc'[s] = "enable_commit"
    <3>1. UNCHANGED <<arg, db>> /\ Registered(arg[r].name)
      BY <2>2, EntersEnable, EnableBuildArg DEF EnableCommit, Goto, TypeOK
    <3>2. QED
      BY <2>2, <3>1 DEF Registered, db
  <2>3. CASE s = r /\ pc'[s] = "enable_publish"
    <3>1. EnableCommit(r)
      BY <2>3, EntersEnable, EnableBuildArg DEF EnableCheck, Goto, Answer, TypeOK
    <3>2. QED
      BY <2>3, <3>1 DEF EnableCommit
  <2>4. CASE s = r /\ pc'[s] = "disable_unmount"
    <3>1. DisableCommit(r)
      <4>1. CASE Submit(r)
        BY <2>4, <4>1, PostValidateArg, ArriveArg, RoleCheckArg DEF Submit, Waiting, TypeOK
      <4>2. CASE Begin(r)
        BY <2>4, <4>2, PutReadArg, EnableBuildArg, DeleteStripArg DEF Begin, Answer, Goto, TypeOK
      <4>3. CASE Proceed(r)
        BY <2>4, <4>3
        DEF TypeOK, Goto, Answer, Proceed, PostCommit, PutValidate, PutCommit, PutMount,
          PutMountFails, PutUndo, EnableCheck, EnableCommit, EnablePublish, DisableUnmount,
          DeleteCommit, RoleCommit, Fail, Abandon, FailAfterCommit
      <4>4. QED
        BY <4>1, <4>2, <4>3
    <3>2. QED
      BY <2>4, <3>1 DEF DisableCommit, Answer, Goto, TypeOK
  <2>5. QED
    BY <2>1, <2>2, <2>3, <2>4, HoldingSteps
<1>3. QED
  BY <1>1, <1>2 DEF EnabledInv

-----------------------------------------------------------------------------
(* Every step leaves no dangling action *)

(* Orphan cleanup removes what was owned by n, is owned by nobody else and *)
(* is not granted.                                                         *)
LEMMA CleanupIsSafe ==
    ASSUME TypeOK, ActionOwnership, NoDanglingAction, NEW n \in Names,
           NEW actions \in SUBSET Actions, NEW granted \in SUBSET grants,
           Owned(n)' = actions,
           \A k \in Names \ {n} : Owned(k)' = Owned(k),
           catalog' = (catalog \cup actions) \ Orphans(n, Owned(n) \ actions, granted),
           grants' = granted,
           RoutesResolve(catalog', manifest')
    PROVE  NoDanglingAction'
<1>1. Platform \subseteq catalog'
  BY PlatformShape DEF NoDanglingAction, Orphans, ActionOwnership, Owned
<1>2. ASSUME NEW k \in Names PROVE Owned(k)' \subseteq catalog'
  <2>1. CASE k = n
    BY <2>1 DEF Orphans
  <2>2. CASE k # n
    <3>1. \A a \in Owned(k) : OwnedByOther(n, a)
      BY <2>2 DEF Owned, OwnedByOther
    <3>2. QED
      BY <2>2, <3>1 DEF NoDanglingAction, Orphans
  <2>3. QED
    BY <2>1, <2>2
<1>3. ASSUME NEW grant \in grants' PROVE grant[2] \in catalog'
  <2>1. grant \in granted /\ grant \in Roles \X Actions /\ grant[2] \in catalog
    BY <1>3 DEF TypeOK, NoDanglingAction
  <2>2. grant[1] \in Roles /\ <<grant[1], grant[2]>> \in granted
    BY <2>1
  <2>3. QED
    BY <2>1, <2>2 DEF Orphans
<1>4. QED
  BY <1>1, <1>2, <1>3 DEF NoDanglingAction

LEMMA PostCommitDangling ==
    ASSUME IInv, NEW r \in Requests, PostCommit(r)
    PROVE  NoDanglingAction'
<1> USE DEF IInv
<1>1. CASE UNCHANGED <<manifest, owns, catalog>>
  BY <1>1 DEF PostCommit, NoDanglingAction, Owned, RoutesResolve
<1>2. CASE ~UNCHANGED <<manifest, owns, catalog>>
  <2>1. PICK n, m : n = arg[r].name /\ m = arg[r].doc
    OBVIOUS
  <2>2. n \in Names /\ m \in Manifests /\ m.actions \in SUBSET Actions
    BY <2>1, ManifestShape DEF PostCommit, NamedInv
  <2>3. /\ ~Registered(n) /\ Inserted(n, m) /\ UNCHANGED grants
        /\ RoutesResolve(catalog', manifest')
    BY <1>2, <2>1 DEF PostCommit, Inserted
  <2>4. Owned(n)' = m.actions
    BY <2>2, <2>3, SelfInserts DEF Inserted, ActionOwnership
  <2>5. \A k \in Names \ {n} : Owned(k)' = Owned(k)
    BY <2>3, OthersOwn DEF Inserted
  <2>6. QED
    BY <2>2, <2>3, <2>4, <2>5 DEF Inserted, NoDanglingAction
<1>3. QED
  BY <1>1, <1>2

LEMMA PutCommitDangling ==
    ASSUME IInv, NEW r \in Requests, PutCommit(r)
    PROVE  NoDanglingAction'
<1> USE DEF IInv
<1>1. CASE UNCHANGED <<manifest, owns, catalog>>
  BY <1>1 DEF PutCommit, NoDanglingAction, Owned, RoutesResolve
<1>2. CASE ~UNCHANGED <<manifest, owns, catalog>>
  <2>1. PICK n, m, old : n = arg[r].name /\ m = arg[r].doc /\ old = arg[r].old
    OBVIOUS
  <2>2. n \in Names /\ m \in Manifests /\ m.actions \in SUBSET Actions
    BY <2>1, ManifestShape DEF PutCommit, NamedInv
  <2>3. old = Owned(n)
    BY <2>1 DEF PutCommit, ReadInv
  <2>4. /\ Replaced(n, m, old) /\ UNCHANGED grants
        /\ RoutesResolve(catalog', manifest')
    BY <1>2, <2>1 DEF PutCommit, Replaced
  <2>5. Owned(n)' = m.actions
    BY <2>2, <2>4, SelfOwns DEF Replaced
  <2>6. \A k \in Names \ {n} : Owned(k)' = Owned(k)
    BY <2>4, OthersOwn DEF Replaced
  <2>7. QED
    BY <2>2, <2>3, <2>4, <2>5, <2>6, CleanupIsSafe DEF Replaced
<1>3. QED
  BY <1>1, <1>2

LEMMA DeleteCommitDangling ==
    ASSUME IInv, NEW r \in Requests, DeleteCommit(r)
    PROVE  NoDanglingAction'
<1> USE DEF IInv
<1>1. CASE UNCHANGED db
  BY <1>1 DEF NoDanglingAction, Owned, RoutesResolve, db
<1>2. CASE ~UNCHANGED db
  <2>1. PICK n, old, seen : n = arg[r].name /\ old = arg[r].old /\ seen = arg[r].seen
    OBVIOUS
  <2>2. n \in Names /\ old = Owned(n)
    BY <2>1 DEF DeleteCommit, NamedInv, ReadInv
  <2>3. Removed(n, old, seen) /\ RoutesResolve(catalog', manifest')
    BY <1>2, <2>1 DEF DeleteCommit, Removed
  <2>4. Owned(n)' = {}
    BY <2>3, SelfLoses DEF Removed
  <2>5. \A k \in Names \ {n} : Owned(k)' = Owned(k)
    BY <2>3, OthersOwn DEF Removed
  <2>6. /\ catalog' = (catalog \cup {}) \ Orphans(n, Owned(n) \ {}, grants \ seen)
        /\ grants' = grants \ seen
    BY <2>2, <2>3 DEF Removed
  <2>7. QED
    BY <2>2, <2>3, <2>4, <2>5, <2>6, CleanupIsSafe
<1>3. QED
  BY <1>1, <1>2

LEMMA StepDangling ==
    ASSUME IInv, NEW r \in Requests, Submit(r) \/ Begin(r) \/ Proceed(r)
    PROVE  NoDanglingAction'
<1> USE DEF IInv
<1>1. CASE RoleCommit(r)
  <2>1. \A grant \in grants' : grant[2] \in catalog
    BY <1>1 DEF RoleCommit, NoDanglingAction
  <2>2. QED
    BY <1>1, <2>1 DEF RoleCommit, NoDanglingAction, Owned, RoutesResolve
<1>2. CASE ~RoleCommit(r) /\ ~PostCommit(r) /\ ~PutCommit(r) /\ ~DeleteCommit(r)
  <2>1. UNCHANGED <<manifest, owns, catalog>>
    BY <1>2, RowWriters
  <2>2. UNCHANGED grants
    BY <1>2
    DEF Submit, PostValidate, Arrive, RoleCheck, Begin, PutRead, EnableBuild, DisableCommit,
        DeleteStrip, Proceed, PutValidate, PutMount, PutMountFails, PutUndo, EnableCheck,
        EnableCommit, EnablePublish, DisableUnmount, Fail, Abandon, FailAfterCommit, db
  <2>3. QED
    BY <2>1, <2>2 DEF NoDanglingAction, Owned, RoutesResolve
<1>3. QED
  BY <1>1, <1>2, PostCommitDangling, PutCommitDangling, DeleteCommitDangling

-----------------------------------------------------------------------------
(* Every step keeps the mounted routes right *)

(* A name the step is not about. *)
Quiet(k) ==
    /\ lock'[k] = lock[k]
    /\ lock[k] # Free => pc'[lock[k]] = pc[lock[k]]
    /\ live'[k] = live[k]
    /\ (k \in unsynced') <=> (k \in unsynced)
    /\ (k \in enabled') <=> (k \in enabled)
    /\ Registered(k) => manifest'[k] = manifest[k]

LiveFor(n) ==
    /\ ~Registered(n) => live[n] = NoManifest
    /\ Settled(n) /\ n \notin unsynced /\ live[n] # NoManifest =>
            n \in enabled /\ live[n] = manifest[n]

LEMMA QuietKept ==
    ASSUME IInv, NEW k \in Names, Quiet(k)
    PROVE  LiveFor(k)'
<1>1. LiveFor(k) /\ (k \in enabled => Registered(k))
  BY DEF IInv, LiveInv, LiveFor, EnabledInv
<1>2. Settled(k)' => Settled(k)
  BY DEF Settled, Quiet
<1>3. QED
  BY <1>1, <1>2 DEF LiveFor, Quiet, Registered

(* Nothing about any name changes while r only moves outside a lock. *)
LEMMA OutsideQuiet ==
    ASSUME IInv, NEW r \in Requests, pc[r] \notin Holding, NEW k \in Names,
           UNCHANGED <<manifest, enabled, live, lock, unsynced>>,
           \A s \in Requests \ {r} : pc'[s] = pc[s]
    PROVE  Quiet(k)
<1>1. lock[k] # Free => lock[k] \in Requests \ {r}
  BY DEF IInv, LocksHaveHolders, TypeOK
<1>2. QED
  BY <1>1 DEF Quiet

LEMMA SubmitLive ==
    ASSUME IInv, NEW r \in Requests, Submit(r), NEW k \in Names
    PROVE  LiveFor(k)'
<1>1. UNCHANGED <<manifest, enabled, live, lock, unsynced>> /\ pc[r] = "idle"
  BY DEF Submit, PostValidate, Arrive, RoleCheck, db
<1>2. \A s \in Requests \ {r} : pc'[s] = pc[s]
  BY PostValidateArg, ArriveArg, RoleCheckArg DEF Submit, IInv, TypeOK
<1>3. QED
  BY <1>1, <1>2, OutsideQuiet, QuietKept, HoldingSteps

(* A step of the holder of n's lock, or one that takes it, is quiet about  *)
(* every other name.                                                       *)
LEMMA OtherNamesQuiet ==
    ASSUME IInv, NEW r \in Requests, NEW k \in Names,
           pc[r] \in Waiting \cup Holding, Begin(r) \/ Proceed(r), k # arg[r].name
    PROVE  Quiet(k)
<1> USE DEF IInv
<1>1. lock[k] # r
  BY DistinctValues, HoldingSteps DEF LocksHaveHolders, TypeOK
<1>2. \A s \in Requests \ {r} : pc'[s] = pc[s]
  <2>1. CASE Begin(r)
    BY <2>1, PutReadArg, EnableBuildArg, DeleteStripArg
    DEF Begin, DisableCommit, Answer, Goto, TypeOK
  <2>2. CASE Proceed(r)
    BY <2>2
    DEF TypeOK, Goto, Answer, Proceed, PostCommit, PutValidate, PutCommit, PutMount,
          PutMountFails, PutUndo, EnableCheck, EnableCommit, EnablePublish, DisableUnmount,
          DeleteCommit, RoleCommit, Fail, Abandon, FailAfterCommit
  <2>3. QED
    BY <2>1, <2>2
<1>3. lock'[k] = lock[k]
  BY DEF TypeOK, Take, Release, Begin, PutRead, EnableBuild, DisableCommit, DeleteStrip,
         Proceed, PostCommit, PutValidate, PutCommit, PutMount, PutMountFails, PutUndo,
         EnableCheck, EnableCommit, EnablePublish, DisableUnmount, DeleteCommit, RoleCommit,
         Fail, Abandon, FailAfterCommit
<1>4. lock[k] # Free => pc'[lock[k]] = pc[lock[k]]
  BY <1>1, <1>2 DEF TypeOK
<1>5. pc[r] \notin Unlocked /\ ~PostCommit(r) /\ ~RoleCommit(r) /\ ~Abandon(r)
  BY HoldingSteps DEF Unlocked, Waiting, PostCommit, RoleCommit, Abandon
<1>6. /\ live'[k] = live[k]
      /\ (k \in unsynced') <=> (k \in unsynced)
  BY <1>5
  DEF TypeOK, Publish, Begin, PutRead, EnableBuild, DisableCommit, DeleteStrip,
      Proceed, PutValidate, PutCommit, PutMount, PutMountFails, PutUndo,
      EnableCheck, EnableCommit, EnablePublish, DisableUnmount, DeleteCommit,
      Fail, FailAfterCommit
<1>7. /\ (k \in enabled') <=> (k \in enabled)
      /\ manifest'[k] = manifest[k]
  BY <1>5
  DEF TypeOK, Replaced, Removed, db, Begin, PutRead, EnableBuild, DisableCommit, DeleteStrip,
      Proceed, PutValidate, PutCommit, PutMount, PutMountFails, PutUndo,
      EnableCheck, EnableCommit, EnablePublish, DisableUnmount, DeleteCommit,
      Fail, FailAfterCommit
<1>8. QED
  BY <1>1, <1>3, <1>4, <1>6, <1>7 DEF Quiet

LEMMA BeginLive ==
    ASSUME IInv, NEW r \in Requests, Begin(r), NEW k \in Names
    PROVE  LiveFor(k)'
<1> USE DEF IInv
<1>1. pc[r] \in Waiting
  BY DEF Begin, PutRead, EnableBuild, DisableCommit, DeleteStrip, Waiting
<1>2. CASE k # arg[r].name
  BY <1>1, <1>2, OtherNamesQuiet, QuietKept
<1>3. CASE k = arg[r].name /\ UNCHANGED <<manifest, enabled, live, unsynced>>
  <2>1. lock[k] = Free
    BY <1>3 DEF Begin, PutRead, EnableBuild, DisableCommit, DeleteStrip, Take
  <2>2. LiveFor(k) /\ Settled(k)
    BY <2>1 DEF LiveInv, LiveFor, Settled
  <2>3. QED
    BY <1>3, <2>2 DEF LiveFor, Registered
<1>4. CASE k = arg[r].name /\ ~UNCHANGED <<manifest, enabled, live, unsynced>>
  <2>1. DisableCommit(r) /\ Take(r) /\ Goto(r, "disable_unmount")
    BY <1>4 DEF Begin, PutRead, EnableBuild, DisableCommit, DeleteStrip, db
  <2>2. lock'[k] = r /\ pc'[r] = "disable_unmount"
    BY <1>4, <2>1 DEF Take, Goto, TypeOK
  <2>3. ~Settled(k)'
    BY <2>2, DistinctValues DEF Settled, BeforeCommit
  <2>4. QED
    BY <2>1, <2>3 DEF LiveFor, DisableCommit, LiveInv, Registered
<1>5. QED
  BY <1>2, <1>3, <1>4

(* The holder's own name, by what its step does to the routes.             *)
LEMMA ProceedLive ==
    ASSUME IInv, NEW r \in Requests, Proceed(r), NEW k \in Names
    PROVE  LiveFor(k)'
<1> USE DEF IInv
<1>1. CASE PostCommit(r) \/ RoleCommit(r) \/ Abandon(r)
  <2>1. /\ pc[r] \notin Holding /\ UNCHANGED <<live, lock, unsynced>>
        /\ \A s \in Requests \ {r} : pc'[s] = pc[s]
    BY <1>1, HoldingSteps
    DEF PostCommit, RoleCommit, Abandon, Answer, Goto, TypeOK, Unlocked
  <2>2. /\ (k \in enabled') <=> (k \in enabled)
        /\ Registered(k) => manifest'[k] = manifest[k]
    BY <1>1
    DEF PostCommit, RoleCommit, Abandon, Inserted, TypeOK, EnabledInv, Registered, db
  <2>3. lock[k] # Free => lock[k] \in Requests \ {r}
    BY <2>1 DEF LocksHaveHolders, TypeOK
  <2>4. QED
    BY <2>1, <2>2, <2>3, QuietKept DEF Quiet
<1>2. CASE pc[r] \in Holding /\ k # arg[r].name
  BY <1>2, OtherNamesQuiet, QuietKept
<1>3. CASE pc[r] \in Holding /\ k = arg[r].name
  <2>1. lock[k] = r
    BY <1>3 DEF LocksHaveHolders
  <2>2. CASE pc[r] \in BeforeCommit /\ UNCHANGED <<manifest, enabled, live, unsynced>>
    BY <2>1, <2>2 DEF LiveInv, LiveFor, Settled, Registered
  <2>3. CASE PutCommit(r) /\ ~UNCHANGED manifest
    <3>1. pc'[r] = "put_mount" /\ UNCHANGED <<lock, live>> /\ manifest'[k] # NoManifest
      BY <1>3, <2>3, ManifestShape
      DEF PutCommit, Replaced, Goto, TypeOK, NamedInv
    <3>2. QED
      BY <2>1, <3>1, DistinctValues DEF LiveFor, Settled, BeforeCommit, Registered
  <2>4. CASE EnableCommit(r)
    <3>1. /\ pc'[r] = "enable_publish" /\ UNCHANGED <<lock, live, manifest>>
      BY <2>4 DEF EnableCommit, Goto, TypeOK
    <3>2. QED
      BY <2>1, <3>1, DistinctValues DEF LiveFor, Settled, BeforeCommit, LiveInv, Registered
  <2>5. CASE PutMount(r)
    <3>1. CASE k \in enabled
      <4>1. live'[k] = manifest'[k] /\ k \in enabled'
        BY <1>3, <2>5, <3>1 DEF PutMount, Publish, TypeOK, db
      <4>2. QED
        BY <4>1 DEF LiveFor, Registered
    <3>2. CASE k \notin enabled
      <4>1. UNCHANGED <<live, unsynced, manifest>>
        BY <1>3, <2>5, <3>2 DEF PutMount, db
      <4>2. k \notin unsynced => live[k] = NoManifest
        BY <1>3, <2>5, <3>2 DEF PutMount, LiveInv
      <4>3. QED
        BY <4>1, <4>2 DEF LiveFor, LiveInv, Registered
    <3>3. QED
      BY <3>1, <3>2
  <2>6. CASE PutMountFails(r) \/ DisableUnmount(r)
    <3>1. live'[k] = NoManifest
      BY <1>3, <2>6 DEF PutMountFails, DisableUnmount, Publish, TypeOK
    <3>2. QED
      BY <3>1 DEF LiveFor
  <2>7. CASE PutUndo(r)
    <3>1. live'[k] = NoManifest
      BY <1>3, <2>7 DEF PutUndo, LiveInv
    <3>2. QED
      BY <3>1 DEF LiveFor
  <2>8. CASE EnablePublish(r)
    <3>1. k \in enabled /\ arg[r].doc \in {NoManifest, manifest[k]}
      BY <1>3, <2>8 DEF EnablePublish, EnabledInv, BuildInv
    <3>2. live'[k] = arg[r].doc /\ UNCHANGED <<manifest, enabled>>
      BY <1>3, <2>8 DEF EnablePublish, Publish, TypeOK, db
    <3>3. QED
      BY <3>1, <3>2 DEF LiveFor, Registered
  <2>9. CASE DeleteCommit(r) /\ ~UNCHANGED <<manifest, enabled, live, unsynced>>
    <3>1. live'[k] = NoManifest
      BY <1>3, <2>9 DEF DeleteCommit, Publish, TypeOK, db
    <3>2. QED
      BY <3>1 DEF LiveFor
  <2>10. CASE FailAfterCommit(r)
    BY <1>3, <2>10 DEF FailAfterCommit, LiveFor, LiveInv, Registered, db
  <2>11. CASE PutValidate(r) \/ EnableCheck(r) \/ Fail(r)
    BY <2>2, <2>11 DEF PutValidate, EnableCheck, Fail, BeforeCommit, db
  <2>12. CASE PutCommit(r) /\ UNCHANGED manifest
    <3>1. CASE UNCHANGED <<enabled, live, unsynced>>
      BY <2>2, <2>12, <3>1 DEF PutCommit, BeforeCommit
    <3>2. QED
      BY <2>12, <3>1 DEF PutCommit
  <2>13. CASE DeleteCommit(r) /\ UNCHANGED <<manifest, enabled, live, unsynced>>
    BY <2>2, <2>13 DEF DeleteCommit, BeforeCommit
  <2>14. ~PostCommit(r) /\ ~RoleCommit(r) /\ ~Abandon(r)
    BY <1>3, HoldingSteps DEF PostCommit, RoleCommit, Abandon, Unlocked
  <2>15. QED
    BY <2>3, <2>4, <2>5, <2>6, <2>7, <2>8, <2>9, <2>10, <2>11, <2>12, <2>13, <2>14 DEF Proceed
<1>4. QED
  BY <1>1, <1>2, <1>3, HoldingSteps
  DEF Proceed, PutValidate, PutCommit, PutMount, PutMountFails, PutUndo, EnableCheck,
      EnableCommit, EnablePublish, DisableUnmount, DeleteCommit, Fail, FailAfterCommit

LEMMA EntersMounting ==
    ASSUME IInv, NEW r \in Requests, Submit(r) \/ Begin(r) \/ Proceed(r),
           pc'[r] \in {"put_mount", "put_undo"}
    PROVE  \/ PutCommit(r) /\ UNCHANGED arg /\ pc'[r] = "put_mount"
           \/ PutMountFails(r) /\ pc'[r] = "put_undo"
<1> USE DEF IInv, TypeOK
<1>1. CASE Submit(r)
  BY <1>1, PostValidateArg, ArriveArg, RoleCheckArg DEF Submit, Waiting
<1>2. CASE Begin(r)
  BY <1>2, EnableBuildArg, PutReadArg, DeleteStripArg DEF Begin, DisableCommit, Answer, Goto
<1>3. CASE Proceed(r)
  BY <1>3
  DEF Goto, Answer, Proceed, PostCommit, PutValidate, PutCommit, PutMount,
        PutMountFails, PutUndo, EnableCheck, EnableCommit, EnablePublish, DisableUnmount,
        DeleteCommit, RoleCommit, Fail, Abandon, FailAfterCommit
<1>4. QED
  BY <1>1, <1>2, <1>3

LEMMA StepMounting ==
    ASSUME IInv, NEW r \in Requests, Submit(r) \/ Begin(r) \/ Proceed(r),
           NEW s \in Requests, pc'[s] \in {"put_mount", "put_undo"}
    PROVE  /\ pc'[s] = "put_mount" /\ arg'[s].name \notin enabled' \cup unsynced' =>
                live'[arg'[s].name] = NoManifest
           /\ pc'[s] = "put_undo" => live'[arg'[s].name] = NoManifest
<1> USE DEF IInv
<1>1. CASE s # r
  BY <1>1, StepUntouched, HoldingSteps DEF Untouched, LiveInv
<1>2. CASE s = r
  <2>1. CASE PutCommit(r) /\ UNCHANGED arg /\ pc'[r] = "put_mount"
    <3>1. /\ lock[arg[r].name] = r /\ arg[r].name \in Names /\ pc[r] \in BeforeCommit
          /\ UNCHANGED <<enabled, live, unsynced>>
      BY <2>1, HoldingSteps DEF PutCommit, LocksHaveHolders, NamedInv, BeforeCommit
    <3>2. QED
      BY <1>2, <2>1, <3>1 DEF LiveInv, Settled
  <2>2. CASE PutMountFails(r) /\ pc'[r] = "put_undo"
    BY <1>2, <2>2 DEF PutMountFails, Publish, NamedInv, TypeOK
  <2>3. QED
    BY <1>2, <2>1, <2>2, EntersMounting
<1>3. QED
  BY <1>1, <1>2

LEMMA StepLive ==
    ASSUME IInv, NEW r \in Requests, Submit(r) \/ Begin(r) \/ Proceed(r)
    PROVE  LiveInv'
<1>1. \A n \in Names : LiveFor(n)'
  BY SubmitLive, BeginLive, ProceedLive
<1>2. QED
  BY <1>1, StepMounting DEF LiveInv, LiveFor

-----------------------------------------------------------------------------
(* The invariant is inductive *)

LEMMA StepInv ==
    ASSUME IInv, NEW r \in Requests, Submit(r) \/ Begin(r) \/ Proceed(r)
    PROVE  IInv'
<1>1. TypeOK' /\ NamedInv' /\ LocksHaveHolders'
  BY SubmitType, BeginType, ProceedType, SubmitNamed, BeginNamed, ProceedNamed,
     SubmitLock, BeginLock, ProceedLock DEF IInv
<1>2. QED
  BY <1>1, StepClaim, StepRead, StepOwnership, StepDangling, StepEnabled, StepBuild, StepLive
  DEF IInv

LEMMA RestartInv ==
    ASSUME IInv, NEW skipped \in SUBSET Names, Restart(skipped)
    PROVE  IInv'
<1> USE DEF IInv
<1>1. TypeOK' /\ NamedInv' /\ LocksHaveHolders'
  BY RestartType, RestartNamed, RestartLock
<1>2. UNCHANGED db /\ \A r \in Requests : pc'[r] = "idle"
  BY DEF Restart
<1>3. ClaimInv' /\ ReadInv' /\ BuildInv'
  BY <1>2 DEF ClaimInv, ReadInv, BuildInv
<1>4. ActionOwnership' /\ NoDanglingAction' /\ EnabledInv'
  BY <1>2 DEF db, ActionOwnership, NoDanglingAction, EnabledInv, Owned, Registered, RoutesResolve
<1>5. LiveInv'
  <2>1. ASSUME NEW n \in Names
        PROVE  /\ ~Registered(n)' => live'[n] = NoManifest
               /\ live'[n] # NoManifest => n \in enabled' /\ live'[n] = manifest'[n]
    BY DEF Restart, Registered, EnabledInv, db
  <2>2. QED
    BY <1>2, <2>1 DEF LiveInv
<1>6. QED
  BY <1>1, <1>3, <1>4, <1>5

LEMMA InitInv == Init => IInv
<1> SUFFICES ASSUME Init PROVE IInv
  OBVIOUS
<1>1. TypeOK /\ NamedInv /\ LocksHaveHolders
  BY BlankIsArg, StepNames, HoldingSteps, PlatformShape DEF Init, TypeOK, NamedInv, LocksHaveHolders
<1>2. ClaimInv /\ ReadInv /\ BuildInv /\ EnabledInv /\ LiveInv
  BY DEF Init, ClaimInv, ReadInv, BuildInv, EnabledInv, LiveInv, Registered
<1>3. ActionOwnership /\ NoDanglingAction
  BY DEF Init, ActionOwnership, NoDanglingAction, Owned, Registered, RoutesResolve
<1>4. QED
  BY <1>1, <1>2, <1>3 DEF IInv

LEMMA StutterInv ==
    ASSUME IInv, UNCHANGED vars
    PROVE  IInv'
BY DEF IInv, TypeOK, NamedInv, LocksHaveHolders, ClaimInv, ReadInv, ActionOwnership,
       NoDanglingAction, EnabledInv, BuildInv, LiveInv, Settled, Registered, Owned,
       RoutesResolve, vars

LEMMA NextInv == IInv /\ [Next]_vars => IInv'
BY StepInv, RestartInv, StutterInv DEF Next

(* Every reachable state satisfies the invariant. *)
THEOREM InductiveInvariant == Spec => []IInv
BY InitInv, NextInv, PTL DEF Spec
-----------------------------------------------------------------------------
(* What the invariant gives *)

(* The tables, route tables, locks and suspended handlers hold what they   *)
(* can hold.                                                               *)
THEOREM TypeCorrect == Spec => []TypeOK
<1>1. IInv => TypeOK
  BY DEF IInv
<1>2. QED
  BY <1>1, InductiveInvariant, PTL

(* An action has one owner, a registered extension whose manifest          *)
(* introduces it, and platform actions have none, however many requests    *)
(* race: the schema decides what the reads of registry.py cannot.          *)
THEOREM OwnershipIsExclusive == Spec => []ActionOwnership
<1>1. IInv => ActionOwnership
  BY DEF IInv
<1>2. QED
  BY <1>1, InductiveInvariant, PTL

(* Orphan cleanup in replace_extension and deregister_extension removes no *)
(* action that the platform, an extension, a role or a route points at.    *)
THEOREM NothingDangles == Spec => []NoDanglingAction
<1>1. IInv => NoDanglingAction
  BY DEF IInv
<1>2. QED
  BY <1>1, InductiveInvariant, PTL

(* Between lifecycle requests the process serves nothing stale: what is    *)
(* mounted is the stored manifest of an enabled extension, unless a        *)
(* database error after a commit is on record.                             *)
THEOREM NoStaleRoutesHolds == Spec => []NoStaleRoutes
<1>1. IInv => NoStaleRoutes
  BY DEF IInv, NoStaleRoutes, LiveInv, Settled
<1>2. QED
  BY <1>1, InductiveInvariant, PTL

(* A step that makes routes live publishes the committed manifest of an    *)
(* enabled extension.                                                      *)
LEMMA StepPublishes ==
    ASSUME IInv, NEW r \in Requests, Submit(r) \/ Begin(r) \/ Proceed(r),
           NEW n \in Names, live'[n] # live[n], live'[n] # NoManifest
    PROVE  n \in enabled /\ live'[n] = manifest[n]
<1> USE DEF IInv
<1>1. \/ PutMount(r) /\ arg[r].name \in enabled /\ Publish(arg[r].name, manifest[arg[r].name])
      \/ EnablePublish(r) /\ Publish(arg[r].name, arg[r].doc)
      \/ Publish(arg[r].name, NoManifest)
  BY DEF Submit, PostValidate, Arrive, RoleCheck, Begin, PutRead, EnableBuild, DisableCommit,
         DeleteStrip, Proceed, PostCommit, PutValidate, PutCommit, PutMount, PutMountFails,
         PutUndo, EnableCheck, EnableCommit, EnablePublish, DisableUnmount, DeleteCommit,
         RoleCommit, Fail, Abandon, FailAfterCommit, db
<1>2. CASE PutMount(r) /\ arg[r].name \in enabled /\ Publish(arg[r].name, manifest[arg[r].name])
  BY <1>2 DEF Publish, TypeOK
<1>3. CASE EnablePublish(r) /\ Publish(arg[r].name, arg[r].doc)
  <2>1. arg[r].name \in enabled /\ arg[r].doc \in {NoManifest, manifest[arg[r].name]}
    BY <1>3 DEF EnablePublish, EnabledInv, BuildInv
  <2>2. QED
    BY <1>3, <2>1 DEF Publish, TypeOK
<1>4. CASE Publish(arg[r].name, NoManifest)
  BY <1>4 DEF Publish, TypeOK
<1>5. QED
  BY <1>1, <1>2, <1>3, <1>4

(* However the handlers end, no lock is left without a request that will   *)
(* release it.                                                             *)
THEOREM LocksAreReleased == Spec => []LocksHaveHolders
<1>1. IInv => LocksHaveHolders
  BY DEF IInv
<1>2. QED
  BY <1>1, InductiveInvariant, PTL

(* Routes go live only from the committed manifest of an enabled           *)
(* extension, whatever ran while the publishing handler was suspended.     *)
THEOREM PublishesCommitted == Spec => PublishesCommittedRoutes
<1>1. ASSUME IInv, [Next]_vars
      PROVE  [\A n \in Names :
                live'[n] # live[n] /\ live'[n] # NoManifest
                    => n \in enabled /\ live'[n] = manifest[n]]_vars
  <2>1. CASE \E skipped \in SUBSET Names : Restart(skipped)
    BY <2>1 DEF Restart
  <2>2. CASE \E r \in Requests : Submit(r) \/ Begin(r) \/ Proceed(r)
    BY <1>1, <2>2, StepPublishes
  <2>3. CASE UNCHANGED vars
    BY <2>3
  <2>4. QED
    BY <1>1, <2>1, <2>2, <2>3 DEF Next
<1>2. QED
  BY <1>1, InductiveInvariant, PTL DEF Spec, PublishesCommittedRoutes

-----------------------------------------------------------------------------
(* Refinement: each step of a handler is one atomic operation of the       *)
(* abstract registry, or changes nothing it speaks of.  The refinement     *)
(* mapping reads the owner of an action off the table.                     *)

LEMMA OwnerValue ==
    ASSUME ActionOwnership, NEW a \in Actions
    PROVE  /\ \A n \in Names : Owner[a] = n <=> <<n, a>> \in owns
           /\ Owner[a] = NoName <=> \A n \in Names : <<n, a>> \notin owns
<1>1. CASE \E n \in Names : <<n, a>> \in owns
  <2>1. PICK n \in Names : <<n, a>> \in owns
    BY <1>1
  <2>2. Owner[a] \in Names /\ <<Owner[a], a>> \in owns
    BY <2>1 DEF Owner
  <2>3. QED
    BY <2>1, <2>2, DistinctValues DEF ActionOwnership
<1>2. CASE \A n \in Names : <<n, a>> \notin owns
  BY <1>2, DistinctValues DEF Owner
<1>3. QED
  BY <1>1, <1>2

LEMMA OwnerOwned ==
    ASSUME ActionOwnership, NEW a \in Actions, NEW n \in Names
    PROVE  Owner[a] = n <=> a \in Owned(n)
BY OwnerValue DEF Owned

(* Writing the actions of one extension moves the owners as OwnsExactly    *)
(* says.                                                                   *)
LEMMA OwnerMoves ==
    ASSUME ActionOwnership, ActionOwnership', NEW n \in Names, NEW actions \in SUBSET Actions,
           Owned(n)' = actions,
           \A k \in Names \ {n} : Owned(k)' = Owned(k)
    PROVE  Owner' = [a \in Actions |-> IF a \in actions THEN n
                                       ELSE IF Owner[a] = n THEN NoName
                                       ELSE Owner[a]]
<1>1. ASSUME NEW a \in Actions
      PROVE  Owner'[a] = IF a \in actions THEN n
                         ELSE IF Owner[a] = n THEN NoName
                         ELSE Owner[a]
  <2>1. \A k \in Names : Owner[a] = k <=> a \in Owned(k)
    BY OwnerOwned
  <2>2. /\ \A k \in Names : Owner'[a] = k <=> <<k, a>> \in owns'
        /\ Owner'[a] = NoName <=> \A k \in Names : <<k, a>> \notin owns'
    <3>1. CASE \E k \in Names : <<k, a>> \in owns'
      <4>1. PICK k \in Names : <<k, a>> \in owns'
        BY <3>1
      <4>2. Owner'[a] \in Names /\ <<Owner'[a], a>> \in owns'
        BY <4>1 DEF Owner
      <4>3. QED
        BY <4>1, <4>2, DistinctValues DEF ActionOwnership
    <3>2. CASE \A k \in Names : <<k, a>> \notin owns'
      BY <3>2, DistinctValues DEF Owner
    <3>3. QED
      BY <3>1, <3>2
  <2>3. \A k \in Names : <<k, a>> \in owns' <=> a \in Owned(k)'
    BY DEF Owned
  <2>4. CASE a \in actions
    BY <2>2, <2>3, <2>4
  <2>5. CASE a \notin actions /\ \E k \in Names \ {n} : a \in Owned(k)
    <3>1. PICK k \in Names \ {n} : a \in Owned(k)
      BY <2>5
    <3>2. Owner[a] = k /\ Owner'[a] = k
      BY <2>1, <2>2, <2>3, <3>1
    <3>3. QED
      BY <2>5, <3>1, <3>2
  <2>6. CASE a \notin actions /\ \A k \in Names \ {n} : a \notin Owned(k)
    <3>1. Owner'[a] = NoName
      BY <2>2, <2>3, <2>6
    <3>2. Owner[a] = n \/ Owner[a] = NoName
      BY <2>1, <2>6, OwnerValue
    <3>3. QED
      BY <2>6, <3>1, <3>2
  <2>7. QED
    BY <2>4, <2>5, <2>6
<1>2. Owner' = [a \in Actions |-> Owner'[a]]
  BY DEF Owner
<1>3. QED
  BY <1>1, <1>2

LEMMA OwnerStays ==
    ASSUME UNCHANGED owns
    PROVE  UNCHANGED Owner
BY DEF Owner

LEMMA MayClaimIs ==
    ASSUME ActionOwnership, NEW n \in Names, NEW m, m.actions \in SUBSET Actions,
           m.actions \cap Platform = {}, UniqueOwner(n, m)
    PROVE  Atomic!MayClaim(n, m)
<1>1. ASSUME NEW a \in m.actions PROVE Owner[a] \in {n, NoName}
  <2>1. \A k \in Names \ {n} : <<k, a>> \notin owns
    BY DEF UniqueOwner, OwnedByOther
  <2>2. QED
    BY <2>1, OwnerValue
<1>2. QED
  BY <1>1 DEF Atomic!MayClaim

-----------------------------------------------------------------------------
(* The three transactions that write rows *)

LEMMA PostCommitImplements ==
    ASSUME IInv, IInv', NEW r \in Requests, PostCommit(r)
    PROVE  [Atomic!Next]_(Atomic!vars)
<1> USE DEF IInv
<1>1. CASE UNCHANGED <<manifest, enabled, owns>>
  BY <1>1, OwnerStays DEF PostCommit, Atomic!vars
<1>2. CASE ~UNCHANGED <<manifest, enabled, owns>>
  <2>1. PICK n, m : n = arg[r].name /\ m = arg[r].doc
    OBVIOUS
  <2>2. /\ n \in Names /\ m \in Manifests /\ m.actions \in SUBSET Actions
        /\ m.actions \cap Platform = {}
    BY <2>1, ManifestShape DEF PostCommit, NamedInv, ClaimInv
  <2>3. ~Registered(n) /\ UniqueOwner(n, m) /\ Inserted(n, m) /\ UNCHANGED live
    BY <1>2, <2>1 DEF PostCommit
  <2>4. Owned(n)' = m.actions
    BY <2>2, <2>3, SelfInserts DEF Inserted, ActionOwnership
  <2>5. \A k \in Names \ {n} : Owned(k)' = Owned(k)
    BY <2>3, OthersOwn DEF Inserted
  <2>6. Atomic!OwnsExactly(n, m.actions)
    BY <2>2, <2>4, <2>5, OwnerMoves DEF Atomic!OwnsExactly
  <2>7. enabled' = enabled
    BY <2>3 DEF Inserted, EnabledInv
  <2>8. Atomic!Register(n, m)
    BY <2>2, <2>3, <2>6, <2>7, MayClaimIs DEF Atomic!Register, Inserted, Registered
  <2>9. QED
    BY <2>2, <2>8 DEF Atomic!Next
<1>3. QED
  BY <1>1, <1>2

LEMMA PutCommitImplements ==
    ASSUME IInv, IInv', NEW r \in Requests, PutCommit(r)
    PROVE  [Atomic!Next]_(Atomic!vars)
<1> USE DEF IInv
<1>1. CASE UNCHANGED <<manifest, owns>>
  BY <1>1, OwnerStays DEF PutCommit, Atomic!vars
<1>2. CASE ~UNCHANGED <<manifest, owns>>
  <2>1. PICK n, m, old : n = arg[r].name /\ m = arg[r].doc /\ old = arg[r].old
    OBVIOUS
  <2>2. /\ n \in Names /\ m \in Manifests /\ m.actions \in SUBSET Actions
        /\ m.actions \cap Platform = {} /\ Registered(n)
    BY <2>1, ManifestShape DEF PutCommit, NamedInv, ClaimInv, ReadInv
  <2>3. UniqueOwner(n, m) /\ Replaced(n, m, old) /\ UNCHANGED <<enabled, live>>
    BY <1>2, <2>1 DEF PutCommit
  <2>4. Owned(n)' = m.actions
    BY <2>2, <2>3, SelfOwns DEF Replaced
  <2>5. \A k \in Names \ {n} : Owned(k)' = Owned(k)
    BY <2>3, OthersOwn DEF Replaced
  <2>6. Atomic!OwnsExactly(n, m.actions)
    BY <2>2, <2>4, <2>5, OwnerMoves DEF Atomic!OwnsExactly
  <2>7. Atomic!Replace(n, m)
    BY <2>2, <2>3, <2>6, MayClaimIs DEF Atomic!Replace, Replaced, Registered
  <2>8. QED
    BY <2>2, <2>7 DEF Atomic!Next
<1>3. QED
  BY <1>1, <1>2

LEMMA DeleteCommitImplements ==
    ASSUME IInv, IInv', NEW r \in Requests, DeleteCommit(r)
    PROVE  [Atomic!Next]_(Atomic!vars)
<1> USE DEF IInv
<1>1. CASE UNCHANGED <<db, live, unsynced>>
  BY <1>1, OwnerStays DEF Atomic!vars, db
<1>2. CASE ~UNCHANGED <<db, live, unsynced>>
  <2>1. PICK n, old, seen : n = arg[r].name /\ old = arg[r].old /\ seen = arg[r].seen
    OBVIOUS
  <2>2. n \in Names /\ Registered(n)
    BY <2>1 DEF DeleteCommit, NamedInv, ReadInv
  <2>3. Removed(n, old, seen) /\ Publish(n, NoManifest)
    BY <1>2, <2>1 DEF DeleteCommit
  <2>4. Owned(n)' = {}
    BY <2>3, SelfLoses DEF Removed
  <2>5. \A k \in Names \ {n} : Owned(k)' = Owned(k)
    BY <2>3, OthersOwn DEF Removed
  <2>6. Atomic!OwnsExactly(n, {})
    BY <2>2, <2>4, <2>5, OwnerMoves DEF Atomic!OwnsExactly
  <2>7. Atomic!Deregister(n)
    BY <2>2, <2>3, <2>6 DEF Atomic!Deregister, Removed, Publish, Registered
  <2>8. QED
    BY <2>2, <2>7 DEF Atomic!Next
<1>3. QED
  BY <1>1, <1>2

-----------------------------------------------------------------------------
(* The steps that flip the enabled flag or swap the routes *)

LEMMA FlagStepsImplement ==
    ASSUME IInv, NEW r \in Requests,
           EnableCommit(r) \/ PutUndo(r) \/ DisableCommit(r)
    PROVE  [Atomic!Next]_(Atomic!vars)
<1> USE DEF IInv
<1>1. arg[r].name \in Names
  BY DEF NamedInv, EnableCommit, PutUndo, DisableCommit
<1>2. UNCHANGED Owner
  BY OwnerStays DEF EnableCommit, PutUndo, DisableCommit
<1>3. CASE EnableCommit(r)
  <2>1. Atomic!Enable(arg[r].name)
    BY <1>2, <1>3 DEF EnableCommit, EnabledInv, Registered, Atomic!Enable
  <2>2. QED
    BY <1>1, <2>1 DEF Atomic!Next
<1>4. CASE (PutUndo(r) \/ DisableCommit(r)) /\ enabled' = enabled \ {arg[r].name}
  <2>1. Atomic!Disable(arg[r].name)
    BY <1>2, <1>4 DEF PutUndo, DisableCommit, Atomic!Disable
  <2>2. QED
    BY <1>1, <2>1 DEF Atomic!Next
<1>5. CASE DisableCommit(r) /\ UNCHANGED enabled
  BY <1>2, <1>5 DEF DisableCommit, Atomic!vars
<1>6. QED
  BY <1>3, <1>4, <1>5 DEF PutUndo, DisableCommit

LEMMA RouteStepsImplement ==
    ASSUME IInv, NEW r \in Requests,
           PutMount(r) \/ PutMountFails(r) \/ EnablePublish(r) \/ DisableUnmount(r)
    PROVE  [Atomic!Next]_(Atomic!vars)
<1> USE DEF IInv
<1>1. arg[r].name \in Names
  BY DEF NamedInv, PutMount, PutMountFails, EnablePublish, DisableUnmount
<1>2. UNCHANGED <<manifest, enabled, Owner>>
  BY OwnerStays DEF PutMount, PutMountFails, EnablePublish, DisableUnmount, db
<1>3. CASE UNCHANGED live
  BY <1>2, <1>3 DEF Atomic!vars
<1>4. CASE Publish(arg[r].name, NoManifest)
  <2>1. Atomic!Unmount(arg[r].name)
    BY <1>2, <1>4 DEF Publish, Atomic!Unmount
  <2>2. QED
    BY <1>1, <2>1 DEF Atomic!Next
<1>5. CASE /\ arg[r].name \in enabled
           /\ Publish(arg[r].name, manifest[arg[r].name])
  <2>1. Atomic!Mount(arg[r].name)
    BY <1>2, <1>5 DEF Publish, Atomic!Mount
  <2>2. QED
    BY <1>1, <2>1 DEF Atomic!Next
<1>6. EnablePublish(r) => arg[r].name \in enabled /\ arg[r].doc \in {NoManifest, manifest[arg[r].name]}
  BY DEF EnablePublish, EnabledInv, BuildInv
<1>7. QED
  BY <1>3, <1>4, <1>5, <1>6 DEF PutMount, PutMountFails, EnablePublish, DisableUnmount

LEMMA StepImplements ==
    ASSUME IInv, IInv', NEW r \in Requests, Submit(r) \/ Begin(r) \/ Proceed(r)
    PROVE  [Atomic!Next]_(Atomic!vars)
<1>1. CASE UNCHANGED <<manifest, enabled, owns, live>>
  BY <1>1, OwnerStays DEF Atomic!vars
<1>2. CASE ~UNCHANGED <<manifest, enabled, owns, live>>
  <2>1. \/ PostCommit(r) \/ PutCommit(r) \/ DeleteCommit(r)
        \/ EnableCommit(r) \/ PutUndo(r) \/ DisableCommit(r)
        \/ PutMount(r) \/ PutMountFails(r) \/ EnablePublish(r) \/ DisableUnmount(r)
    BY <1>2
    DEF Submit, PostValidate, Arrive, RoleCheck, Begin, PutRead, EnableBuild, DeleteStrip,
        Proceed, PutValidate, EnableCheck, RoleCommit, Fail, Abandon, FailAfterCommit, db
  <2>2. QED
    BY <2>1, PostCommitImplements, PutCommitImplements, DeleteCommitImplements,
       FlagStepsImplement, RouteStepsImplement
<1>3. QED
  BY <1>1, <1>2

LEMMA RestartImplements ==
    ASSUME IInv, NEW skipped \in SUBSET Names, Restart(skipped)
    PROVE  [Atomic!Next]_(Atomic!vars)
<1>1. UNCHANGED <<manifest, enabled, Owner>>
  BY OwnerStays DEF Restart, db
<1>2. enabled \ skipped \in SUBSET Names
  BY DEF IInv, TypeOK
<1>3. Atomic!Reboot(enabled \ skipped)
  BY <1>1 DEF Restart, Atomic!Reboot
<1>4. QED
  BY <1>2, <1>3 DEF Atomic!Next

LEMMA InitImplements ==
    ASSUME Init
    PROVE  Atomic!Init
BY DEF Init, Atomic!Init, Owner

(* The handlers of setup.py, with their suspensions, their races with each *)
(* other and with the role editor, their failures and restarts, implement  *)
(* the registry in which every request is one atomic step.                 *)
THEOREM ImplementsAtomic == Spec => ImplementsAtomicRegistry
<1>1. ASSUME IInv, IInv', [Next]_vars
      PROVE  [Atomic!Next]_(Atomic!vars)
  <2>1. CASE \E skipped \in SUBSET Names : Restart(skipped)
    BY <1>1, <2>1, RestartImplements
  <2>2. CASE \E r \in Requests : Submit(r) \/ Begin(r) \/ Proceed(r)
    BY <1>1, <2>2, StepImplements
  <2>3. CASE UNCHANGED vars
    BY <2>3, OwnerStays DEF vars, Atomic!vars
  <2>4. QED
    BY <1>1, <2>1, <2>2, <2>3 DEF Next
<1>2. Init => Atomic!Init
  BY InitImplements
<1>3. QED
  BY <1>1, <1>2, InductiveInvariant, PTL DEF Spec, ImplementsAtomicRegistry, Atomic!Spec
=============================================================================
