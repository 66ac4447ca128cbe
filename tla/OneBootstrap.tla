----------------------------- MODULE OneBootstrap -----------------------------
(***************************************************************************)
(* What provisioning promises SmartEMS and IoT Hub: however many replicas  *)
(* start, overlap, fail and crash, the accounts and the production version *)
(* change as in one bootstrap that runs once.  The service account is made *)
(* while the fixture administrator can still log in, and that one is shut  *)
(* out only after; only then the shipped configuration goes into           *)
(* production, and only then a replica reports success, if it lives and    *)
(* hears of it.  A step that was taken is never taken back, and a replica  *)
(* has a valid token only when the service account can log in.             *)
(***************************************************************************)
CONSTANTS Null, Replicas, Shipped, Contents

VARIABLES
    fixture, service, production,  \* SmartEMS
    deployed,                      \* IoT Hub has the base deployment
    reports,                       \* the replicas that report success,
    based,                         \* those that have found it there or put it there,
    sessions                       \* and those with a token

accounts == <<fixture, service>>
vars == <<accounts, production, deployed, reports, based, sessions>>

Init ==
    /\ \/ fixture = "default" /\ service \in {Null, "usable", "other"}
       \/ fixture = "rotated" /\ service \in {"usable", "other"}
       \/ fixture = "disabled" /\ service = "usable"
    /\ production \in Contents \cup {Null}
    /\ deployed \in BOOLEAN
    /\ reports = {} /\ based = {} /\ sessions = {}

CreateAccount ==
    /\ fixture = "default"
    /\ service = Null
    /\ service' = "usable"
    /\ UNCHANGED <<fixture, production, deployed, reports, based, sessions>>

ShutFixture ==
    /\ fixture = "default"
    /\ service = "usable"
    /\ fixture' = "disabled"
    /\ UNCHANGED <<service, production, deployed, reports, based, sessions>>

Secured == service = "usable" /\ fixture # "default"

(* The shipped configuration is in production, or gets there now; nobody   *)
(* may report it, if the answer is lost or the replica is.                 *)
Release(p) ==
    /\ Secured
    /\ production' = Shipped
    /\ reports' \in {reports, reports \cup {p}}
    /\ UNCHANGED <<accounts, deployed, based, sessions>>

(* Found or created; a creation whose answer is lost is not known of. *)
Deploy(p) ==
    /\ deployed'
    /\ based' \in {based, based \cup {p}}
    /\ UNCHANGED <<accounts, production, reports, sessions>>

LogIn(p) ==
    /\ service = "usable"
    /\ sessions' = sessions \cup {p}
    /\ UNCHANGED <<accounts, production, deployed, reports, based>>

Expire(p) ==
    /\ sessions' = sessions \ {p}
    /\ UNCHANGED <<accounts, production, deployed, reports, based>>

Restart(p) ==
    /\ reports' = reports \ {p}
    /\ based' = based \ {p}
    /\ sessions' = sessions \ {p}
    /\ UNCHANGED <<accounts, production, deployed>>

Next ==
    \/ CreateAccount \/ ShutFixture
    \/ \E p \in Replicas : Release(p) \/ Deploy(p) \/ LogIn(p) \/ Expire(p) \/ Restart(p)

Spec == Init /\ [][Next]_vars
=============================================================================
