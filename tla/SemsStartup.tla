---------------------------- MODULE SemsStartup ----------------------------
(***************************************************************************)
(* How replicas of the API provision a fresh SmartEMS when they start, and *)
(* keep a session with it from then on.                                    *)
(*                                                                         *)
(* The bootstrap makes sure there is a service account, disables the       *)
(* fixture administrator that a fresh SmartEMS has, and brings the current *)
(* device configuration into production.  Each call to SmartEMS is a step  *)
(* and may fail, which ends the bootstrap until the replica is restarted;  *)
(* a replica may crash at any call.  SmartEMS may all the same carry out a *)
(* call that failed for its caller, then or later.  Then the replica makes *)
(* sure that IoT Hub has the base deployment, and the token loop logs in   *)
(* to SmartEMS, or refreshes its token, again and again.                   *)
(***************************************************************************)
EXTENDS NullValue, Naturals

CONSTANTS
    Replicas,
    Shipped,   \* the content of the configuration that the replicas ship
    Contents,  \* Shipped and what older releases shipped
    MaxFaults  \* bound: crashes and outages

ASSUME StartupValues ==
    /\ Shipped \in Contents
    /\ Null \notin Contents \cup {"usable", "other", "done"}
    /\ MaxFaults \in Nat

VARIABLES
    fixture,     \* the account admin: "default" password, "rotated" or "disabled"
    service,     \* the service account: "usable", with an "other" password, or Null
    configs,     \* the configs, named for the hash of their content
    production,  \* the content of the template's production version, or Null
    deployed,    \* whether IoT Hub has the base deployment
    unanswered,  \* the calls that nobody waits for and SmartEMS may still carry out
    semsUp,
    faults,
    stage,       \* where each replica is
    outcome,     \* how its bootstrap ended, or Null
    fixtureRan,  \* whether it has logged in as the fixture administrator
    seenContent, \* the production content it has read
    based,       \* whether it has found or created the base deployment
    token,       \* its access token: "good", or "bad"
    refresh,     \* whether its refresh token is good
    initDone

sems == <<fixture, service, configs, production>>
session == <<token, refresh, initDone>>
hub == <<deployed, based>>
startupVars == <<sems, hub, unanswered, semsUp, faults, stage, outcome, fixtureRan, seenContent, session>>

StartupInit ==
    /\ \/ fixture = "default" /\ service \in {Null, "usable", "other"}
       \/ fixture = "rotated" /\ service \in {"usable", "other"}
       \/ fixture = "disabled" /\ service = "usable"
    /\ production \in Contents \cup {Null}
    /\ configs = {production} \ {Null}
    /\ deployed \in BOOLEAN
    /\ based = [p \in Replicas |-> FALSE]
    /\ unanswered = {}
    /\ semsUp = TRUE
    /\ faults = 0
    /\ stage = [p \in Replicas |-> "health"]
    /\ outcome = [p \in Replicas |-> Null]
    /\ fixtureRan = [p \in Replicas |-> FALSE]
    /\ seenContent = [p \in Replicas |-> Null]
    /\ token = [p \in Replicas |-> "bad"]
    /\ refresh = [p \in Replicas |-> FALSE]
    /\ initDone = [p \in Replicas |-> FALSE]

(* What the calls that change SmartEMS do there; StageVersion's makes a    *)
(* version that counts for nothing until it is promoted.                   *)
AccountMade == service' = "usable" /\ UNCHANGED <<fixture, configs, production>>
FixtureShut == fixture' = "disabled" /\ UNCHANGED <<service, configs, production>>
ConfigMade == configs' = configs \cup {Shipped} /\ UNCHANGED <<fixture, service, production>>
Promoted == production' = Shipped /\ UNCHANGED <<fixture, service, configs>>

Changing == {"createUser", "disable", "createConfig", "promote"}

(* The caller times out or crashes: its call has not reached SmartEMS, or  *)
(* takes effect without it.                                                *)
Abandoned(p) == unanswered' \in {unanswered, unanswered \cup ({stage[p]} \cap Changing)}

(* A call of the bootstrap that SmartEMS answers; the steps after it *)
Call(p, at, next) ==
    /\ stage[p] = at
    /\ semsUp
    /\ stage' = [stage EXCEPT ![p] = next]
    /\ UNCHANGED <<hub, unanswered, semsUp, faults, session>>

Kept == UNCHANGED <<outcome, fixtureRan, seenContent>>

(* What it remembered ends with it. *)
EndsWith(p, result) ==
    /\ outcome' = [outcome EXCEPT ![p] = result]
    /\ fixtureRan' = [fixtureRan EXCEPT ![p] = FALSE]
    /\ seenContent' = [seenContent EXCEPT ![p] = Null]

-----------------------------------------------------------------------------
(* bootstrap_sems *)

HealthCheck(p) == Call(p, "health", "fixture") /\ UNCHANGED sems /\ Kept

HealthTimeout(p) ==
    /\ stage[p] = "health"
    /\ ~semsUp
    /\ stage' = [stage EXCEPT ![p] = "hub"]
    /\ EndsWith(p, "skipped")
    /\ UNCHANGED <<sems, hub, unanswered, semsUp, faults, session>>

(* Mutant of FixtureLogin: that it succeeded is not remembered. *)
FixtureForgotten(p) ==
    /\ Call(p, "fixture", IF fixture = "default" THEN "findUser" ELSE "login")
    /\ Kept
    /\ UNCHANGED sems

(* _fixture_setup: log in as the fixture administrator *)
FixtureLogin(p) ==
    /\ Call(p, "fixture", IF fixture = "default" THEN "findUser" ELSE "login")
    /\ fixtureRan' = [fixtureRan EXCEPT ![p] = fixture = "default"]
    /\ UNCHANGED <<sems, outcome, seenContent>>

FindUser(p) ==
    /\ Call(p, "findUser", IF service # Null THEN "login" ELSE "createUser")
    /\ UNCHANGED sems
    /\ Kept

CreateUser(p) ==
    /\ service = Null
    /\ Call(p, "createUser", "login")
    /\ AccountMade
    /\ Kept

(* Mutant of ServiceLogin: the login's failure is not noticed. *)
ServiceLoginAnyway(p) ==
    /\ Call(p, "login", IF fixtureRan[p] THEN "disable" ELSE "template")
    /\ Kept
    /\ UNCHANGED sems

(* Without the service account the bootstrap ends, and admin stays. *)
ServiceLogin(p) ==
    /\ IF service = "usable"
       THEN Call(p, "login", IF fixtureRan[p] THEN "disable" ELSE "template") /\ Kept
       ELSE Call(p, "login", "hub") /\ EndsWith(p, "partial")
    /\ UNCHANGED sems

(* _disable_fixture_admin *)
DisableFixtureAdmin(p) ==
    /\ Call(p, "disable", "template")
    /\ FixtureShut
    /\ Kept

(* _ensure_template: an existing template tells its production version *)
EnsureTemplate(p) ==
    /\ Call(p, "template", "compare")
    /\ seenContent' = [seenContent EXCEPT ![p] = production]
    /\ UNCHANGED <<sems, outcome, fixtureRan>>

(* _production_config_content of the version the template had when it was  *)
(* read                                                                    *)
CompareContent(p) ==
    /\ IF seenContent[p] = Shipped
       THEN Call(p, "compare", "hub") /\ EndsWith(p, "done")
       ELSE Call(p, "compare", "findConfig") /\ Kept
    /\ UNCHANGED sems

(* Mutant of FindConfig: a config that exists is taken for rolled out. *)
FindRolledOut(p) ==
    /\ IF Shipped \in configs
       THEN Call(p, "findConfig", "hub") /\ EndsWith(p, "done")
       ELSE Call(p, "findConfig", "createConfig") /\ Kept
    /\ UNCHANGED sems

(* _ensure_config *)
FindConfig(p) ==
    /\ Call(p, "findConfig", IF Shipped \in configs THEN "stageVersion" ELSE "createConfig")
    /\ UNCHANGED sems
    /\ Kept

CreateConfig(p) ==
    /\ Shipped \notin configs
    /\ Call(p, "createConfig", "stageVersion")
    /\ ConfigMade
    /\ Kept

(* _push_to_production: a staging version that is never promoted stays. *)
StageVersion(p) == Call(p, "stageVersion", "promote") /\ UNCHANGED sems /\ Kept

PromoteVersion(p) ==
    /\ Call(p, "promote", "hub")
    /\ Promoted
    /\ EndsWith(p, "done")

(* SmartEMS fails a call, refuses what another replica has created since,  *)
(* or does not answer in time, whether or not it carries the call out: the *)
(* bootstrap ends with errors, and starting up continues.                  *)
BootstrapFails(p) ==
    /\ stage[p] \notin {"health", "hub", "createBase", "session"}
    /\ stage' = [stage EXCEPT ![p] = "hub"]
    /\ EndsWith(p, "errors")
    /\ Abandoned(p)
    /\ UNCHANGED <<sems, hub, semsUp, faults, session>>

-----------------------------------------------------------------------------
(* bootstrap_iothub_base_deployment, after which starting up goes on, even *)
(* if IoT Hub answers neither 200 nor 404, refuses or fails                *)

ToHubStage(p, next, isDone) ==
    /\ stage' = [stage EXCEPT ![p] = next]
    /\ based' = [based EXCEPT ![p] = isDone]
    /\ Kept
    /\ UNCHANGED <<sems, unanswered, semsUp, faults, session>>

FindBaseDeployment(p) ==
    /\ stage[p] = "hub"
    /\ \/ deployed /\ ToHubStage(p, "session", TRUE)
       \/ ~deployed /\ ToHubStage(p, "createBase", FALSE)
       \/ ToHubStage(p, "session", FALSE)
    /\ UNCHANGED deployed

CreateBaseDeployment(p) ==
    /\ stage[p] = "createBase"
    /\ \/ deployed' = TRUE /\ ToHubStage(p, "session", TRUE)
       \/ deployed' \in {deployed, TRUE} /\ ToHubStage(p, "session", FALSE)

Bootstrap(p) ==
    \/ HealthCheck(p) \/ HealthTimeout(p)
    \/ FixtureLogin(p) \/ FindUser(p) \/ CreateUser(p)
    \/ ServiceLogin(p) \/ DisableFixtureAdmin(p)
    \/ EnsureTemplate(p) \/ CompareContent(p)
    \/ FindConfig(p) \/ CreateConfig(p) \/ StageVersion(p) \/ PromoteVersion(p)
    \/ BootstrapFails(p)
    \/ FindBaseDeployment(p) \/ CreateBaseDeployment(p)

-----------------------------------------------------------------------------
(* init_smart_ems, the token loop *)

TokensOf(p, isGood) ==
    /\ token' = [token EXCEPT ![p] = IF isGood THEN "good" ELSE @]
    /\ refresh' = [refresh EXCEPT ![p] = @ \/ isGood]
    /\ initDone' = [initDone EXCEPT ![p] = isGood]
    /\ UNCHANGED <<sems, hub, unanswered, semsUp, faults, stage, outcome, fixtureRan, seenContent>>

(* SmartEMS.init *)
LogIn(p) ==
    /\ stage[p] = "session"
    /\ ~initDone[p]
    /\ TokensOf(p, semsUp /\ service = "usable")

(* Mutant of RefreshToken: a refused refresh is tried again. *)
RefreshAgain(p) ==
    /\ stage[p] = "session"
    /\ initDone[p]
    /\ semsUp
    /\ IF refresh[p] THEN TokensOf(p, TRUE) ELSE UNCHANGED startupVars

(* SmartEMS.refresh_token: a refused refresh falls back to the login,      *)
(* which may fail like LogIn; if SmartEMS does not answer, the loop goes   *)
(* on as it was.                                                           *)
RefreshToken(p) ==
    /\ stage[p] = "session"
    /\ initDone[p]
    /\ semsUp
    /\ \/ TokensOf(p, refresh[p] \/ service = "usable")
       \/ ~refresh[p] /\ TokensOf(p, FALSE)

-----------------------------------------------------------------------------
(* The surroundings *)

TokenExpires(p) ==
    /\ token[p] = "good"
    /\ token' = [token EXCEPT ![p] = "bad"]
    /\ UNCHANGED <<sems, hub, unanswered, semsUp, faults, stage, outcome, fixtureRan, seenContent, refresh, initDone>>

RefreshExpires(p) ==
    /\ refresh[p]
    /\ refresh' = [refresh EXCEPT ![p] = FALSE]
    /\ UNCHANGED <<sems, hub, unanswered, semsUp, faults, stage, outcome, fixtureRan, seenContent, token, initDone>>

Restart(p) ==
    /\ faults < MaxFaults
    /\ faults' = faults + 1
    /\ Abandoned(p)
    /\ stage' = [stage EXCEPT ![p] = "health"]
    /\ outcome' = [outcome EXCEPT ![p] = Null]
    /\ fixtureRan' = [fixtureRan EXCEPT ![p] = FALSE]
    /\ seenContent' = [seenContent EXCEPT ![p] = Null]
    /\ token' = [token EXCEPT ![p] = "bad"]
    /\ refresh' = [refresh EXCEPT ![p] = FALSE]
    /\ initDone' = [initDone EXCEPT ![p] = FALSE]
    /\ based' = [based EXCEPT ![p] = FALSE]
    /\ UNCHANGED <<sems, deployed, semsUp>>

(* What a second such call would do again, once is enough for; SmartEMS    *)
(* refuses a user or a config it has.                                      *)
CarriedOut(call) ==
    /\ call \in unanswered
    /\ semsUp
    /\ unanswered' = unanswered \ {call}
    /\ \/ call = "createUser" /\ service = Null /\ AccountMade
       \/ call = "disable" /\ FixtureShut
       \/ call = "createConfig" /\ Shipped \notin configs /\ ConfigMade
       \/ call = "promote" /\ Promoted
       \/ UNCHANGED sems
    /\ UNCHANGED <<hub, semsUp, faults, stage, outcome, fixtureRan, seenContent, session>>

SemsStops ==
    /\ semsUp
    /\ faults < MaxFaults
    /\ faults' = faults + 1
    /\ semsUp' = FALSE
    /\ UNCHANGED <<sems, hub, unanswered, stage, outcome, fixtureRan, seenContent, session>>

SemsStarts ==
    /\ ~semsUp
    /\ semsUp' = TRUE
    /\ UNCHANGED <<sems, hub, unanswered, faults, stage, outcome, fixtureRan, seenContent, session>>

StartupNext ==
    \/ \E p \in Replicas :
        \/ Bootstrap(p)
        \/ LogIn(p) \/ RefreshToken(p)
        \/ TokenExpires(p) \/ RefreshExpires(p)
        \/ Restart(p)
    \/ \E call \in Changing : CarriedOut(call)
    \/ SemsStops \/ SemsStarts

(* The loop never stops trying, and an outage ends. *)
StartupFairness ==
    /\ \A p \in Replicas : WF_startupVars(LogIn(p)) /\ WF_startupVars(RefreshToken(p))
    /\ WF_startupVars(SemsStarts)

StartupSpec == StartupInit /\ [][StartupNext]_startupVars /\ StartupFairness

-----------------------------------------------------------------------------
(* Wherever a bootstrap fails or crashes, and however two of them overlap, *)
(* somebody can still administer SmartEMS: the fixture administrator is    *)
(* disabled only when the API itself can log in.                           *)
NeverLockedOut == fixture = "disabled" => service = "usable"

(* A bootstrap that ends well leaves nothing undone that an earlier one,   *)
(* or that of another replica, broke off: the shipped configuration is in  *)
(* production and nobody can log in as admin with the default password;    *)
(* and one that has seen to the base deployment leaves it in IoT Hub.      *)
DoneMeansProvisioned ==
    \A p \in Replicas :
        /\ outcome[p] = "done" => production = Shipped /\ fixture # "default"
        /\ based[p] => deployed

Single == INSTANCE OneBootstrap WITH
    reports <- {p \in Replicas : outcome[p] = "done"},
    based <- {p \in Replicas : based[p]},
    sessions <- {p \in Replicas : token[p] = "good"}

(* Replicas that bootstrap at once, fail at any call, crash and start      *)
(* again do to the accounts, production and IoT Hub what one bootstrap     *)
(* does, in its order: none goes on from what another has not finished,    *)
(* and a call that SmartEMS carries out after its caller gave up comes too *)
(* late to undo or overtake a step.                                        *)
ImplementsOneBootstrap == Single!Spec

(* A replica without a valid token gets one, whatever has expired, refused *)
(* or not answered, as long as the service account can log in.             *)
SessionRecovers ==
    \A p \in Replicas :
        stage[p] = "session" /\ service = "usable" /\ token[p] = "bad"
            ~> token[p] = "good" \/ stage[p] # "session"
=============================================================================
