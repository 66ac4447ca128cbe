CONSTANTS
    site = site
    a = a
    b = b
    read = read
    Keys = {site}
    Values = {a, b}
    Permissions = {read}
    GlobalPermissions = {}
    NoScope = NoScope
    Unnamed = Unnamed
    Missing = Missing
    Null = Null
    Users = {u1}
    Teams = {t1}
    ScopeIds = {s1}
    Roles = {x1}
    Rules <- MCRules
    Requests = {r1, r2}
    Unused = Unused
    Deleted = Deleted
    None = None
SPECIFICATION Spec
CHECK_DEADLOCK FALSE
INVARIANTS
    NothingDangles
PROPERTIES
    WithdrawingNeverPermits
    UpdatesAreExact
