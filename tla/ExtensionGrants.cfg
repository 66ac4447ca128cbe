\* A grant that commits while its extension is being removed or replaced.
CONSTANTS
    export = export
    platformRead = platformRead
    crm = crm
    Names = {e1}
    Requests = {r1, r2}
    Roles = {admin}
    Actions = {export, platformRead}
    Platform = {platformRead}
    Manifests <- MCManifests
    NoManifest = NoManifest
    NoName = NoName
    NoRole = NoRole
    NoRemote = NoRemote
    Anywhere = Anywhere
    Free = Free
SPECIFICATION Spec
INVARIANTS
    NoGrantLeftBehind
