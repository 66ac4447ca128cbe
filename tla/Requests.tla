------------------------------ MODULE Requests ------------------------------
(***************************************************************************)
(* What the modules of the platform's own data share: null, and the slots  *)
(* in which HTTP requests are handled concurrently.                        *)
(***************************************************************************)
EXTENDS NullValue

CONSTANT Requests  \* slots for concurrent HTTP requests

PartialFunctions(S, T) == UNION {[D -> T] : D \in SUBSET S}

Nothing == [k \in {} |-> Null]
=============================================================================
