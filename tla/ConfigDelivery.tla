---------------------------- MODULE ConfigDelivery ----------------------------
(***************************************************************************)
(* What the delivery of configurations promises a caller, with the blobs,  *)
(* their urls and the two calls of a post left out.  A payload is stored   *)
(* before its id is named to the module; an id is named once, and a post   *)
(* is accepted only by that; the module takes one named id at a time, runs *)
(* the payload of that id or one stored later, never another's where the   *)
(* id's payload is its own, and reports exactly the id it has taken, while *)
(* it runs such a payload.                                                 *)
(***************************************************************************)
EXTENDS Integers

CONSTANTS Posts, NoPost

VARIABLES
    stored,    \* how many payloads were stored
    order,     \* [Posts -> Nat]: the position of each among them, 0 for none
    own,       \* the posts whose payload is stored under a name of its own
    accepted,  \* the posts that were answered 200
    twin,      \* the id last named to the module
    working,   \* the id the module has taken
    running,   \* the payload it runs
    reported   \* the id it reports

vars == <<stored, order, own, accepted, twin, working, running, reported>>

Init ==
    /\ stored = 0
    /\ order = [p \in Posts |-> 0]
    /\ own = {} /\ accepted = {}
    /\ twin = NoPost /\ working = NoPost /\ running = NoPost /\ reported = NoPost

Store(p) ==
    /\ order[p] = 0
    /\ stored' = stored + 1
    /\ order' = [order EXCEPT ![p] = stored + 1]
    /\ own' \in {own, own \cup {p}}
    /\ UNCHANGED <<accepted, twin, working, running, reported>>

(* The answer to the post may be lost. *)
Name(p) ==
    /\ order[p] > 0
    /\ p \notin accepted \cup {twin, working, reported}
    /\ twin' = p
    /\ accepted' \in {accepted, accepted \cup {p}}
    /\ UNCHANGED <<stored, order, own, working, running, reported>>

Take ==
    /\ working = NoPost
    /\ twin # NoPost
    /\ working' = twin
    /\ UNCHANGED <<stored, order, own, accepted, twin, running, reported>>

Serves(q, p) == order[q] >= order[p] /\ (p \in own => q = p)

Run(q) ==
    /\ working # NoPost
    /\ Serves(q, working)
    /\ running' = q
    /\ UNCHANGED <<stored, order, own, accepted, twin, working, reported>>

Report ==
    /\ working # NoPost
    /\ running \in Posts
    /\ Serves(running, working)
    /\ reported' = working
    /\ working' = NoPost
    /\ UNCHANGED <<stored, order, own, accepted, twin, running>>

Next ==
    \/ \E p \in Posts : Store(p) \/ Name(p) \/ Run(p)
    \/ Take \/ Report

Spec == Init /\ [][Next]_vars
=============================================================================
