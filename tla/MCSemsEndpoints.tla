-------------------------- MODULE MCSemsEndpoints --------------------------
(***************************************************************************)
(* A gateway that has an endpoint device with another access tag, and the  *)
(* edit of its cellular interface.                                         *)
(***************************************************************************)
EXTENDS SemsDeviceConfig, TLC

MCText == (Null :> "null") @@ ("null" :> "null") @@ ("v" :> "v")

MCSemsDocs ==
    {[enabled |-> TRUE, template |-> "t1", lan2 |-> Null, lan3 |-> Null,
      natOn |-> FALSE, nat |-> Nothing, forwards |-> Nothing, cellular |-> Null,
      other |-> Nothing, tags |-> tags, firmware |-> 1,
      installFirmware |-> FALSE, installConfig |-> FALSE, requestConfig |-> FALSE,
      staging |-> FALSE, name |-> "given", description |-> Null,
      endpoints |-> "e" :> [id |-> "i", tags |-> {"g2"}], masquerades |-> TRUE] :
        tags \in SUBSET Tags}
=============================================================================
