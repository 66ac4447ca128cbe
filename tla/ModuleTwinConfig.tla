-------------------------- MODULE ModuleTwinConfig --------------------------
(***************************************************************************)
(* Delivery of a configuration to one IoT Edge module.  The API uploads    *)
(* the configuration to blob storage and then patches the desired section  *)
(* of the module twin with the blob's URL and a new configId; the module   *)
(* synchronises its twin, downloads the blob, applies it and reports the   *)
(* configId back, and the status endpoint compares the two ids.            *)
(*                                                                         *)
(* The module's own endpoints (kind "module") all overwrite one blob, an   *)
(* extension's twin_write (kind "extension") names the blob after its      *)
(* configId.  Nothing orders the two calls of one post against those of    *)
(* another.  A post stands for its request, its payload and its configId.  *)
(***************************************************************************)
EXTENDS Integers

CONSTANTS
    Posts,    \* the posts of a behaviour
    Current,  \* the blob `<device>/<module>/current`
    NoPost    \* no configuration, no id

ASSUME Distinct == /\ Current \notin Posts
                   /\ NoPost \notin Posts
                   /\ NoPost # Current

VARIABLES
    twinPc,    \* where each post is: "new", "patch", then "accepted" or "failed"
    kind,      \* which endpoint a post came through
    blob,      \* the payload stored at each path of the container
    desired,   \* the module twin's desired id and url
    reported,  \* the id in its reported section
    edge,      \* what the module is working on
    running,   \* the payload the module runs
    uploads,   \* ghost: how many payloads were stored so far
    stamp,     \* ghost: the position of each payload among them
    ahead      \* ghost: `current` was overwritten by a post that never patched

azure == <<blob, desired, reported>>
module == <<edge, running>>
twinVars == <<twinPc, kind, blob, desired, reported, edge, running, uploads, stamp, ahead>>

-----------------------------------------------------------------------------
Ids == Posts \cup {NoPost}
Paths == Posts \cup {Current}
Kinds == {"module", "extension"}

Edges == [phase : {"idle", "synced", "fetched", "applied"}, id : Ids,
          url : Paths \cup {NoPost}, payload : Ids]

Waiting == [phase |-> "idle", id |-> NoPost, url |-> NoPost, payload |-> NoPost]

Path(p, k) == IF k = "module" THEN Current ELSE p

TwinInit ==
    /\ twinPc = [p \in Posts |-> "new"]
    /\ kind = [p \in Posts |-> "module"]
    /\ blob = [f \in Paths |-> NoPost]
    /\ desired = [id |-> NoPost, url |-> NoPost]
    /\ reported = NoPost
    /\ edge = Waiting
    /\ running = NoPost
    /\ uploads = 0
    /\ stamp = [p \in Posts |-> 0]
    /\ ahead = FALSE

-----------------------------------------------------------------------------
(* The API *)

StoreOnce(p, k) ==  \* defect: overwrite=True left out
    /\ blob' = [blob EXCEPT ![Path(p, k)] = IF @ = NoPost THEN p ELSE @]
    /\ uploads' = uploads + 1
    /\ stamp' = [stamp EXCEPT ![p] = uploads + 1]

Store(p, k) ==
    /\ blob' = [blob EXCEPT ![Path(p, k)] = p]
    /\ uploads' = uploads + 1
    /\ stamp' = [stamp EXCEPT ![p] = uploads + 1]

(* POST twin/config/<module> and twin_write: the payload replaces the blob *)
Upload(p, k) ==
    /\ twinPc[p] = "new"
    /\ twinPc' = [twinPc EXCEPT ![p] = "patch"]
    /\ kind' = [kind EXCEPT ![p] = k]
    /\ Store(p, k)
    /\ UNCHANGED <<desired, reported, module, ahead>>

UploadErrorIgnored(p, k) ==  \* defect: the patch follows all the same
    /\ twinPc[p] = "new"
    /\ twinPc' = [twinPc EXCEPT ![p] = "patch"]
    /\ kind' = [kind EXCEPT ![p] = k]
    /\ UNCHANGED <<azure, module, uploads, stamp, ahead>>

(* The upload raises: nothing was stored, or it was and the answer is lost *)
UploadFails(p, k) ==
    /\ twinPc[p] = "new"
    /\ twinPc' = [twinPc EXCEPT ![p] = "failed"]
    /\ kind' = [kind EXCEPT ![p] = k]
    /\ \/ UNCHANGED <<blob, uploads, stamp, ahead>>
       \/ /\ Store(p, k)
          /\ ahead' = (ahead \/ k = "module")
    /\ UNCHANGED <<desired, reported, module>>

PatchSameId(p) ==  \* defect: one configId for ever, so no twin change
    /\ twinPc[p] = "patch"
    /\ twinPc' = [twinPc EXCEPT ![p] = "accepted"]
    /\ desired' = [id |-> IF desired.id = NoPost THEN p ELSE desired.id,
                   url |-> Path(p, kind[p])]
    /\ ahead' = FALSE
    /\ UNCHANGED <<kind, blob, reported, module, uploads, stamp>>

(* The hub takes the patch; a lost answer makes the client see an error    *)
Patch(p) ==
    /\ twinPc[p] = "patch"
    /\ \E outcome \in {"accepted", "failed"} : twinPc' = [twinPc EXCEPT ![p] = outcome]
    /\ desired' = [id |-> p, url |-> Path(p, kind[p])]
    /\ ahead' = FALSE
    /\ UNCHANGED <<kind, blob, reported, module, uploads, stamp>>

PatchErrorIgnored(p) ==  \* defect: the caller is told 200 all the same
    /\ twinPc[p] = "patch"
    /\ twinPc' = [twinPc EXCEPT ![p] = "accepted"]
    /\ ahead' = (ahead \/ kind[p] = "module")
    /\ UNCHANGED <<kind, azure, module, uploads, stamp>>

(* The hub refuses the patch or is not reached, or the process stops first *)
PatchFails(p) ==
    /\ twinPc[p] = "patch"
    /\ twinPc' = [twinPc EXCEPT ![p] = "failed"]
    /\ ahead' = (ahead \/ kind[p] = "module")
    /\ UNCHANGED <<kind, azure, module, uploads, stamp>>

(* What POST config/status derives from the twin                           *)
ConfStatus ==
    CASE desired.id = NoPost -> "NO_CONFIG"
      [] desired.id # NoPost /\ desired.id = reported -> "OK"
      [] desired.id # reported /\ reported = NoPost -> "INITIAL_PENDING"
      [] OTHER -> "PENDING"

-----------------------------------------------------------------------------
(* The module, on the device *)

(* The twin is delivered, after a change or because the module restarted   *)
Sync ==
    /\ edge.phase = "idle"
    /\ desired.id # NoPost
    /\ edge' = [phase |-> "synced", id |-> desired.id, url |-> desired.url, payload |-> NoPost]
    /\ UNCHANGED <<twinPc, kind, azure, running, uploads, stamp, ahead>>

Download ==
    /\ edge.phase = "synced"
    /\ blob[edge.url] # NoPost
    /\ edge' = [edge EXCEPT !.phase = "fetched", !.payload = blob[edge.url]]
    /\ UNCHANGED <<twinPc, kind, azure, running, uploads, stamp, ahead>>

Apply ==
    /\ edge.phase = "fetched"
    /\ running' = edge.payload
    /\ edge' = [edge EXCEPT !.phase = "applied"]
    /\ UNCHANGED <<twinPc, kind, azure, uploads, stamp, ahead>>

Report ==
    /\ edge.phase = "applied"
    /\ reported' = edge.id
    /\ edge' = Waiting
    /\ UNCHANGED <<twinPc, kind, blob, desired, running, uploads, stamp, ahead>>

-----------------------------------------------------------------------------
Begin(p) == \E k \in Kinds : Upload(p, k) \/ UploadFails(p, k)

End(p) == Patch(p) \/ PatchFails(p)

TwinNext ==
    \/ \E p \in Posts : Begin(p) \/ End(p)
    \/ Sync \/ Download \/ Apply \/ Report

TwinSpec == TwinInit /\ [][TwinNext]_twinVars

(* A handler that uploaded goes on to its patch; the module, while online, *)
(* keeps synchronising.  No client has to post.                            *)
TwinFairness ==
    /\ \A p \in Posts : WF_twinVars(End(p))
    /\ WF_twinVars(Sync) /\ WF_twinVars(Download) /\ WF_twinVars(Apply) /\ WF_twinVars(Report)

TwinFairSpec == TwinSpec /\ TwinFairness

-----------------------------------------------------------------------------
(* Properties *)

(* All variables keep their types, and the twin names an id and a url      *)
(* together (the patch of post_module_twin_config and _twin_write).        *)
TwinTypeOK ==
    /\ twinPc \in [Posts -> {"new", "patch", "accepted", "failed"}]
    /\ kind \in [Posts -> Kinds]
    /\ blob \in [Paths -> Ids]
    /\ desired \in [id : Ids, url : Paths \cup {NoPost}]
    /\ desired.id = NoPost <=> desired.url = NoPost
    /\ reported \in Ids
    /\ edge \in Edges
    /\ running \in Ids
    /\ uploads \in Nat
    /\ stamp \in [Posts -> Nat]
    /\ ahead \in BOOLEAN

(* Whatever url the twin carries, or the module has taken from an earlier  *)
(* twin, names a stored blob: the patch is sent after the upload only, and *)
(* nothing is deleted from the container.                                  *)
UrlResolves ==
    /\ desired.url # NoPost => blob[desired.url] # NoPost
    /\ edge.phase = "synced" => blob[edge.url] # NoPost

(* A status of OK is true: the module runs what is stored under the twin's *)
(* url, unless that is `current` and a post has overwritten it whose patch *)
(* is still to come or was lost.                                           *)
Settled == /\ ~ahead
           /\ \A p \in Posts : twinPc[p] = "patch" => kind[p] # "module"

OkMeansRunning ==
    ConfStatus = "OK" /\ (desired.url = Current => Settled) => running = blob[desired.url]

(* However posts overlap, the module that reports a configId, and has not  *)
(* applied the next twin, runs that id's payload or one stored later.      *)
NeverOlder ==
    \A p \in Posts : reported = p /\ edge.phase # "applied" =>
                       running # NoPost /\ stamp[running] >= stamp[p]

(* A module that reports an extension's configId and has not applied the   *)
(* next twin runs that extension's payload: its blob is nobody else's.     *)
ExtensionAsPosted ==
    \A p \in Posts :
        reported = p /\ kind[p] = "extension" /\ edge.phase # "applied" => running = p

(* A configId the twin carries is reported in the end, or replaced: no     *)
(* interleaving of posts, lost answers and failures leaves it pending.     *)
PendingResolves ==
    \A p \in Posts : desired.id = p ~> (reported = p \/ desired.id # p)

Delivery == INSTANCE ConfigDelivery WITH
    stored <- uploads,
    order <- stamp,
    own <- {p \in Posts : kind[p] = "extension" /\ stamp[p] > 0},
    accepted <- {p \in Posts : twinPc[p] = "accepted"},
    twin <- desired.id,
    working <- edge.id

(* Two calls per post, blobs that posts overwrite for each other and a     *)
(* module that reads url, blob and twin at different times deliver what    *)
(* ConfigDelivery promises: ids named once, after their payload; accepted  *)
(* only if named; and the reported id's payload, or a later one, running.  *)
ImplementsConfigDelivery == Delivery!Spec

=============================================================================
