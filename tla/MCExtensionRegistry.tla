------------------------- MODULE MCExtensionRegistry -------------------------
(***************************************************************************)
(* Instances of ExtensionRegistry for TLC: two extension names that can    *)
(* both send any of a few manifests, one role, two concurrent requests.    *)
(***************************************************************************)
EXTENDS ExtensionRegistry, TLC

CONSTANTS export, platformRead, crm

(* Introduces `export`, gates a route with it and replaces the outlet for  *)
(* every context.                                                          *)
Wide ==
    [actions |-> {export}, requires |-> {export, platformRead}, uiRequires |-> {export},
     remote |-> crm,
     replaces |-> {[place |-> "device.tab", when |-> Anywhere]}]

(* Introduces nothing: what is left of Wide once its action is dropped. *)
Bare ==
    [actions |-> {}, requires |-> {platformRead}, uiRequires |-> {},
     remote |-> NoRemote, replaces |-> {}]

(* Tries to introduce a platform action as its own: never accepted. *)
Greedy ==
    [actions |-> {platformRead}, requires |-> {}, uiRequires |-> {},
     remote |-> NoRemote, replaces |-> {}]

MCManifests == {Wide, Bare, Greedy}

(* Request slots are interchangeable. *)
RequestSymmetry == Permutations(Requests)
=============================================================================
