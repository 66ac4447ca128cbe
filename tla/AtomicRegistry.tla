--------------------------- MODULE AtomicRegistry ---------------------------
(***************************************************************************)
(* What the extension registry promises its clients, with every request    *)
(* taken as one atomic step: an extension is absent, disabled or enabled;  *)
(* an action has one owner, which only its registration, replacement or    *)
(* removal changes; platform actions have none; and the routes that go     *)
(* live for an extension are those of its stored manifest, while it is     *)
(* enabled.  Nothing here knows of locks, transactions or suspended        *)
(* handlers.                                                               *)
(***************************************************************************)

CONSTANTS Names, Actions, Platform, Manifests, NoManifest, Nobody

VARIABLES
    manifest,  \* [Names -> Manifests, or NoManifest when absent]
    enabled,   \* SUBSET Names
    owner,     \* [Actions -> Names, or Nobody]
    live       \* [Names -> the manifest whose routes are mounted, or NoManifest]

vars == <<manifest, enabled, owner, live>>

Init ==
    /\ manifest = [n \in Names |-> NoManifest]
    /\ enabled = {}
    /\ owner = [a \in Actions |-> Nobody]
    /\ live = [n \in Names |-> NoManifest]

MayClaim(n, m) ==
    /\ m.actions \cap Platform = {}
    /\ \A a \in m.actions : owner[a] \in {n, Nobody}

(* n owns exactly `actions`; everybody else keeps what they own. *)
OwnsExactly(n, actions) ==
    owner' = [a \in Actions |-> IF a \in actions THEN n
                                ELSE IF owner[a] = n THEN Nobody
                                ELSE owner[a]]

Register(n, m) ==
    /\ manifest[n] = NoManifest
    /\ MayClaim(n, m)
    /\ manifest' = [manifest EXCEPT ![n] = m]
    /\ OwnsExactly(n, m.actions)
    /\ UNCHANGED <<enabled, live>>

Replace(n, m) ==
    /\ manifest[n] # NoManifest
    /\ MayClaim(n, m)
    /\ manifest' = [manifest EXCEPT ![n] = m]
    /\ OwnsExactly(n, m.actions)
    /\ UNCHANGED <<enabled, live>>

Deregister(n) ==
    /\ manifest[n] # NoManifest
    /\ manifest' = [manifest EXCEPT ![n] = NoManifest]
    /\ enabled' = enabled \ {n}
    /\ OwnsExactly(n, {})
    /\ live' = [live EXCEPT ![n] = NoManifest]

Enable(n) ==
    /\ manifest[n] # NoManifest
    /\ enabled' = enabled \cup {n}
    /\ UNCHANGED <<manifest, owner, live>>

Disable(n) ==
    /\ enabled' = enabled \ {n}
    /\ UNCHANGED <<manifest, owner, live>>

Mount(n) ==
    /\ n \in enabled
    /\ live' = [live EXCEPT ![n] = manifest[n]]
    /\ UNCHANGED <<manifest, enabled, owner>>

Unmount(n) ==
    /\ live' = [live EXCEPT ![n] = NoManifest]
    /\ UNCHANGED <<manifest, enabled, owner>>

Reboot(mounted) ==
    /\ mounted \subseteq enabled
    /\ live' = [n \in Names |-> IF n \in mounted THEN manifest[n] ELSE NoManifest]
    /\ UNCHANGED <<manifest, enabled, owner>>

Next ==
    \/ \E n \in Names, m \in Manifests : Register(n, m) \/ Replace(n, m)
    \/ \E n \in Names :
        Deregister(n) \/ Enable(n) \/ Disable(n) \/ Mount(n) \/ Unmount(n)
    \/ \E mounted \in SUBSET Names : Reboot(mounted)

Spec == Init /\ [][Next]_vars
=============================================================================
