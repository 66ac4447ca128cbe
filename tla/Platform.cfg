\* Two requests; one part of the platform at a time.
CONSTANTS
    Null = Null
    Requests = {r1, r2}
    FieldKeys = {"x", "y"}
    DataValues = {"a", "b", "n"}
    DataTypes = {"string", "integer"}
    Admits <- MCAdmits
    dflt = dflt
    dt = dt
    et1 = et1
    et2 = et2
    st = st
    d = d
    e = e
    s = s
    DeviceTypes = {dflt, dt}
    EndpointTypes = {et1, et2}
    ServiceTypes = {st}
    DefaultType = dflt
    DefaultFields <- MCDefaultFields
    Devices = {d}
    Endpoints = {e}
    Services = {s}
    NewFields <- MCNewFields
    FieldPatches <- MCFieldPatches
    Mappings <- MCMappings
    NewData <- MCNewData
    SentData <- MCSentData
    ScanPorts = {"n"}
    NotAnAddress = NotAnAddress
    Addresses = {1, 4, 6}
    SixAddresses = {14}
    Space = 8
    Scale = 2
    Ports = {22, 80}
    NetEndpoints = {1, 2}
    NetServices = {"s1", "s2"}
    EndpointOf <- MCEndpointOf
    Configurations <- MCConfigurations
    Scans <- MCScans
    Sizes = {2, 4}
    MaxTime = 1
    NoCompose = NoCompose
    Deployments = {"a", "b", "c"}
    ComposeRequests <- MCComposeRequests
    EdgeDevices = {"d1", "d2", "d3"}
    RowsPerPage = 2
    LanAddresses = {1, 2, 8, 9}
    RuleNames = {"n1", "n2"}
    MaxRules = 2
    MaxIndex = 3
    LanPorts = {80}
    LanInterfaces = {"lan2"}
    CellValues = {"on"}
    Tags = {"g1", "g2"}
    EndpointNames = {"e"}
    EndpointIds = {"i"}
    Templates = {"t1", "t2"}
    SupportedTemplates = {"t1", "t2"}
    VariableNames = {"eas_update_at", "compose_deployment"}
    VariableValues = {"v", "null"}
    OutsideEdits <- MCOutsideEdits
    Text <- MCText
    Firmwares = {1, 2}
    TypeConfigs <- MCTypeConfigs
    SemsDocs <- MCSemsDocs
    NatRequests <- MCNatRequests
    ForwardRequests <- MCForwardRequests
    LanRequests <- MCLanRequests
    CellRequests <- MCCellRequests
    RouteSpecs <- MCRouteSpecs
    KeyedDevices = {"d1", "d2"}
    MaxKeys = 3
    HealthManifests <- MCHealthManifests
    HealthKeys = {"k1", "k2"}
    HealthAddresses = {"url"}
    HealthQueries = {"query"}
    Modules = {"m"}
    Versions = {"v1", "v2"}
    MaxManifests = 2
SYMMETRY Slots
SPECIFICATION MCSpec
INVARIANTS
    NothingDangles
    RolesOnFields
    EveryConfiguredIsListed
    DispatchIsGuarded
    HealthyIsItsOwn
PROPERTIES
    UndisturbedWritesFit
    OnlyProbesAreRecorded
    RangeWidens
    PortsStayApart
    DevicesMatchActive
    ReadsBack
    EditsKeepTheRest
