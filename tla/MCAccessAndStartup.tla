-------------------------- MODULE MCAccessAndStartup --------------------------
(***************************************************************************)
(* Instances for TLC of device metadata under their permission checks, and *)
(* of the start-up of replicas.  They share no state, so a behaviour is    *)
(* one of one part, while the other stays at one of its beginnings.        *)
(***************************************************************************)
EXTENDS DeviceMetadata, SemsStartup, TLC

CONSTANTS site, line, a, b, read, write, create, delete, export

Doc(s, l) == [k \in {site, line} |-> IF k = site THEN s ELSE l]
Only(k, v) == [x \in {k} |-> v]

AllowsAll == {read, write, create, delete}
Team(scope, allows) == [scope |-> scope, allows |-> allows]

SiteA == [attr |-> Only(site, {a}), rule |-> "ALL"]
Either == [attr |-> [k \in {site, line} |-> {a}], rule |-> "ANY"]

MCProfiles ==
    {[admin |-> TRUE, teams |-> {}],
     [admin |-> FALSE, teams |-> {Team(NoScope, {read}), Team(SiteA, AllowsAll)}],
     [admin |-> FALSE, teams |-> {Team(Either, AllowsAll)}]}

MCSent == {Only(site, a), Only(site, b), Only(site, Null), Only(line, Null), Only(line, b)}
MCAccepted == [k \in Keys |-> Values]
MCDefaults == Only(line, a)

-----------------------------------------------------------------------------
VARIABLE part

NoDevice == meta = Missing /\ \A c \in Callers : user[c].admin

NeverStarted ==
    fixture = "default" /\ service = Null /\ production = Null /\ ~deployed

MCInit ==
    /\ part \in {"access", "startup"}
    /\ Init /\ (part = "startup" => NoDevice)
    /\ StartupInit /\ (part = "access" => NeverStarted)

Accesses == part = "access" /\ Next /\ UNCHANGED startupVars
StartsUp == part = "startup" /\ StartupNext /\ UNCHANGED vars

MCNext == (Accesses \/ StartsUp) /\ UNCHANGED part

(* A replica that never started has nothing that fairness could ask for. *)
MCSpec ==
    MCInit /\ [][MCNext]_<<vars, startupVars, part>> /\ StartupFairness
===============================================================================
