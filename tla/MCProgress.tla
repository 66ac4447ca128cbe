----------------------------- MODULE MCProgress -----------------------------
(***************************************************************************)
(* Instances for TLC of what has to come about over calls that fail or     *)
(* whose answers are lost: the renewals that the periodic task executes,   *)
(* and the delivery of a configuration to an IoT Edge module.  The two     *)
(* share no state, so a behaviour is one of one part.                      *)
(*                                                                         *)
(* Three posts through either endpoint are enough for an overwritten blob  *)
(* whose post fails, two posts that cross, and a module that lags behind.  *)
(***************************************************************************)
EXTENDS PasswordRenewal, ModuleTwinConfig

VARIABLE part

MCInit == part \in {"renewal", "delivery"} /\ Init /\ TwinInit

Renews == part = "renewal" /\ Next /\ UNCHANGED twinVars
Delivers == part = "delivery" /\ TwinNext /\ UNCHANGED vars

MCNext == (Renews \/ Delivers) /\ UNCHANGED part

(* Only of the renewal could fairness ask something while the other part   *)
(* runs: nights pass, and a module without posts has nothing to do.        *)
MCFairness ==
    /\ \A r \in Requests : WF_vars(part = "renewal" /\ Proceed(r))
    /\ WF_vars(part = "renewal" /\ Process)
    /\ WF_vars(part = "renewal" /\ Tick)
    /\ TwinFairness

MCSpec == MCInit /\ [][MCNext]_<<vars, twinVars, part>> /\ MCFairness
=============================================================================
