------------------------- MODULE MCPasswordRenewal -------------------------
(***************************************************************************)
(* Instances of PasswordRenewal for TLC.                                   *)
(***************************************************************************)
EXTENDS PasswordRenewal, TLC

(* Request slots are interchangeable; so are rows. *)
Slots == Permutations(Requests) \cup Permutations(Tasks)
=============================================================================
