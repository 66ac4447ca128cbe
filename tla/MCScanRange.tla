---------------------------- MODULE MCScanRange ----------------------------
(***************************************************************************)
(* The scan range of a device with two endpoints: one has an address, the  *)
(* other takes the default of its type, once the type is given one.        *)
(***************************************************************************)
EXTENDS NetworkOverview

MCEndpointOf == [s \in NetServices |-> 1]

MCConfigurations ==
    {[ip |-> <<9, Null>>, default |-> default, port |-> [s \in NetServices |-> Null]] :
        default \in {Null, 1}}
=============================================================================
