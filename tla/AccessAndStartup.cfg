\* Two requests on one device; two replicas of one release, two crashes or outages.
CONSTANTS
    site = site
    line = line
    a = a
    b = b
    read = read
    write = write
    create = create
    delete = delete
    export = export
    Keys = {site, line}
    Values = {a, b}
    Permissions = {read, write, create, delete, export}
    GlobalPermissions = {export}
    NoScope = NoScope
    Unnamed = Unnamed
    Missing = Missing
    Null = Null
    Requests = {r1, r2}
    Callers = {c1}
    Profiles <- MCProfiles
    Sent <- MCSent
    Required = {site}
    Accepted <- MCAccepted
    Defaults <- MCDefaults
    Read = read
    Write = write
    Create = create
    Delete = delete
    NoCaller = NoCaller
    Replicas = {p1, p2}
    Shipped = new
    Contents = {old, new}
    MaxFaults = 2
SPECIFICATION MCSpec
INVARIANTS
    StoredIsValid
    ChecksAgree
    NeverLockedOut
    DoneMeansProvisioned
PROPERTIES
    PatchIsExact
    ImplementsOneBootstrap
    SessionRecovers
