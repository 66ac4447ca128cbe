\* Two names, two requests, one grantable action: safety, action property and refinement.
CONSTANTS
    export = export
    platformRead = platformRead
    crm = crm
    Names = {e1, e2}
    Requests = {r1, r2}
    Roles = {admin}
    Actions = {export, platformRead}
    Platform = {platformRead}
    Manifests <- MCManifests
    NoManifest = NoManifest
    NoName = NoName
    NoRole = NoRole
    NoRemote = NoRemote
    Anywhere = Anywhere
    Free = Free
SYMMETRY RequestSymmetry
SPECIFICATION Spec
INVARIANTS
    TypeOK
    ActionOwnership
    NoDanglingAction
    NoStaleRoutes
    LocksHaveHolders
PROPERTIES
    ImplementsAtomicRegistry
