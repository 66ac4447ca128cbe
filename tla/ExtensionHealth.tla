--------------------------- MODULE ExtensionHealth ---------------------------
(***************************************************************************)
(* POST /extensions/{name}/health-check: the rows of an extension's        *)
(* upstreams are read, all of them probed at once, and the results written *)
(* row by row, each in a transaction of its own, while the manifest may be *)
(* replaced, which deletes the rows and inserts others.                    *)
(***************************************************************************)
EXTENDS Requests, Naturals, Functions

CONSTANTS
    HealthManifests, \* what manifests say of the upstreams, by key
    HealthKeys,      \* keys of upstreams in a manifest
    HealthAddresses, \* health addresses of services
    HealthQueries,   \* queries for a device
    Modules,         \* modules of IoT Edge devices
    Versions,        \* versions of services
    MaxManifests     \* bound: how many manifests are written

RuntimeStatuses == {"running", "failed", "unrecognized"}

(* The answer of a service: whether its code is below 400, and the version *)
(* in its body.  The answer for a query: what the agent of the first       *)
(* device that matches reports of its modules.  Null if there is none.     *)
ServiceReplies == [ok : BOOLEAN, version : Versions \cup {Null}]
CanaryReplies == PartialFunctions(Modules, RuntimeStatuses)
Targets == HealthAddresses \cup HealthQueries
RepliesOf(t) == {Null} \cup (IF t \in HealthAddresses THEN ServiceReplies ELSE CanaryReplies)

(* A target that was asked, and its answer. *)
Answers == UNION {[target : {t}, reply : RepliesOf(t)] : t \in Targets}

HealthStatuses == {"unknown", "healthy", "unhealthy"}

(* wanted: the versions that expected_version admits, or Null without one  *)
HttpUpstreams == [type : {"http"}, target : HealthAddresses, wanted : (SUBSET Versions) \cup {Null}]
IotedgeUpstreams == [type : {"iotedge"}, target : HealthQueries \cup {Null}, module : Modules]
Upstreams == HttpUpstreams \cup IotedgeUpstreams

ASSUME HealthValues ==
    /\ \A m \in HealthManifests : DOMAIN m \subseteq HealthKeys /\ Range(m) \subseteq Upstreams
    /\ HealthAddresses \cap HealthQueries = {}
    /\ Null \notin Targets \cup Modules \cup Versions \cup Answers \cup HealthStatuses
    /\ MaxManifests \in Nat

VARIABLES
    upstreamRows,  \* table extension_upstreams, by key
    manifestsMade, \* how many manifests have been written
    healthPc,      \* where each request is
    healthArg      \* the rows it has read and not written, and their results

healthVars == <<upstreamRows, manifestsMade, healthPc, healthArg>>

(* The rows, with their last results.  id: the manifest a row was inserted *)
(* by, which with its key stands for its id.  upon: the target that was    *)
(* asked, and its answer, which the table does not have.                   *)
AreRows(rows, statuses) ==
    /\ DOMAIN rows \subseteq HealthKeys
    /\ rows \in [DOMAIN rows -> [id : 1..MaxManifests, upstream : Upstreams,
                                 status : statuses, upon : Answers \cup {Null}]]

HealthInit ==
    /\ upstreamRows = Nothing
    /\ manifestsMade = 0
    /\ healthPc = [r \in Requests |-> "idle"]
    /\ healthArg = [r \in Requests |-> Nothing]

-----------------------------------------------------------------------------
(* The rows *)

(* replace_upstreams_and_routes: every id is new, even of a row that says  *)
(* what the one before it said                                             *)
ReplaceUpstreams(manifest) ==
    /\ manifestsMade < MaxManifests
    /\ manifestsMade' = manifestsMade + 1
    /\ upstreamRows' = [k \in DOMAIN manifest |->
                            [id |-> manifestsMade', upstream |-> manifest[k],
                             status |-> "unknown", upon |-> Null]]
    /\ UNCHANGED <<healthPc, healthArg>>

DropUpstreams ==
    /\ upstreamRows' = Nothing
    /\ UNCHANGED <<manifestsMade, healthPc, healthArg>>

-----------------------------------------------------------------------------
(* One probe *)

VersionSatisfies(version, wanted) == wanted # Null => version \in wanted

HttpStatus(upstream, reply) ==
    IF reply # Null /\ reply.ok /\ VersionSatisfies(reply.version, upstream.wanted)
    THEN "healthy" ELSE "unhealthy"

RuntimeStatus(upstream, reply) ==
    IF reply # Null /\ upstream.module \in DOMAIN reply
    THEN reply[upstream.module] ELSE "unrecognized"

ModuleStatus(upstream, reply) ==
    CASE RuntimeStatus(upstream, reply) = "running" -> "healthy"
      [] RuntimeStatus(upstream, reply) = "failed" -> "unhealthy"
      [] OTHER -> "unknown"

(* The client's time limit is that of the probe: a service that does not   *)
(* answer in time has failed its check, or the check has timed out.        *)
ProbeTimesOut(upstream) ==
    IF upstream.type = "http" THEN {"unknown", "unhealthy"} ELSE {"unknown"}

ProbedStatus(upstream, reply) ==
    IF upstream.type = "http" THEN HttpStatus(upstream, reply) ELSE ModuleStatus(upstream, reply)

(* What a probe can come to: whatever the target answers, or no answer.    *)
CheckUpstream(upstream) ==
    IF upstream.target = Null
    THEN {[status |-> "unknown", upon |-> Null]}
    ELSE {[status |-> ProbedStatus(upstream, reply),
           upon |-> [target |-> upstream.target, reply |-> reply]] :
                reply \in RepliesOf(upstream.target)} \cup
         {[status |-> x, upon |-> Null] : x \in ProbeTimesOut(upstream)}

-----------------------------------------------------------------------------
(* The request *)

HealthStep(r, pc, arg) ==
    /\ healthPc' = [healthPc EXCEPT ![r] = pc]
    /\ healthArg' = [healthArg EXCEPT ![r] = arg]

(* Without a row nothing is checked: the extension is not there, or has no *)
(* upstream.                                                               *)
StartHealthCheck(r) ==
    /\ healthPc[r] = "idle"
    /\ upstreamRows # Nothing
    /\ HealthStep(r, "probe", [k \in DOMAIN upstreamRows |->
                                [upstreamRows[k] EXCEPT !.status = Null, !.upon = Null]])
    /\ UNCHANGED <<upstreamRows, manifestsMade>>

(* Probes do not wait for one another.                                     *)
Unanswered(r) == {k \in DOMAIN healthArg[r] : healthArg[r][k].status = Null}

ProbeUpstream(r, k) ==
    /\ healthPc[r] = "probe"
    /\ k \in Unanswered(r)
    /\ \E check \in CheckUpstream(healthArg[r][k].upstream) :
          HealthStep(r, IF Unanswered(r) = {k} THEN "record" ELSE "probe",
                     [healthArg[r] EXCEPT ![k].status = check.status, ![k].upon = check.upon])
    /\ UNCHANGED <<upstreamRows, manifestsMade>>

(* Mutant of RowsWithId: whatever row has the key now. *)
RowsWithKey(k, id) == DOMAIN upstreamRows \cap {k}

(* The row that a result is written to: none if it has been deleted.       *)
RowsWithId(k, id) == {l \in DOMAIN upstreamRows \cap {k} : upstreamRows[l].id = id}

(* Row after row, in no particular order.                                  *)
RecordHealth(r, k) ==
    LET result == healthArg[r][k]
        written == RowsWithId(k, result.id)
    IN  /\ healthPc[r] = "record"
        /\ k \in DOMAIN healthArg[r]
        /\ upstreamRows' = [l \in DOMAIN upstreamRows |->
                IF l \in written
                THEN [upstreamRows[l] EXCEPT !.status = result.status, !.upon = result.upon]
                ELSE upstreamRows[l]]
        /\ HealthStep(r, IF DOMAIN healthArg[r] = {k} THEN "idle" ELSE "record",
                      Restrict(healthArg[r], DOMAIN healthArg[r] \ {k}))
        /\ UNCHANGED manifestsMade

(* A database error, or the end of the process: what has been recorded of  *)
(* the other upstreams stays.                                              *)
HealthCheckFails(r) ==
    /\ healthPc[r] # "idle"
    /\ HealthStep(r, "idle", Nothing)
    /\ UNCHANGED <<upstreamRows, manifestsMade>>

HealthNext ==
    \/ \E manifest \in HealthManifests : ReplaceUpstreams(manifest)
    \/ DropUpstreams
    \/ \E r \in Requests :
          \/ StartHealthCheck(r)
          \/ \E k \in HealthKeys : ProbeUpstream(r, k) \/ RecordHealth(r, k)
          \/ HealthCheckFails(r)

HealthSpec == HealthInit /\ [][HealthNext]_healthVars

-----------------------------------------------------------------------------
HealthTypeOK ==
    /\ AreRows(upstreamRows, HealthStatuses)
    /\ manifestsMade \in 0..MaxManifests
    /\ \A r \in Requests :
          /\ healthPc[r] \in {"idle", "probe", "record"}
          /\ AreRows(healthArg[r], HealthStatuses \cup {Null})
          /\ healthPc[r] = "probe" <=> Unanswered(r) # {}
          /\ healthPc[r] = "idle" <=> DOMAIN healthArg[r] = {}

(* An extension that is shown healthy has been: the target that the stored *)
(* manifest names, not one of a manifest replaced while the check was      *)
(* under way, has answered as that manifest wants, with its module running *)
(* or its version; whatever checks and replacements overlap, and however   *)
(* many of the results of a check are lost (registry.py:605-612).          *)
HealthyIsItsOwn ==
    \A k \in DOMAIN upstreamRows :
        LET row == upstreamRows[k]
            seen == row.upon.reply
        IN  row.status = "healthy" =>
               /\ row.upon # Null /\ row.upon.target = row.upstream.target /\ seen # Null
               /\ IF row.upstream.type = "http"
                  THEN seen.ok /\ (row.upstream.wanted = Null \/ seen.version \in row.upstream.wanted)
                  ELSE row.upstream.module \in DOMAIN seen /\ seen[row.upstream.module] = "running"
=============================================================================
