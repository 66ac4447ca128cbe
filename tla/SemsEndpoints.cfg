\* One request, so that nothing overlaps the edit.
CONSTANTS
    Null = Null
    Requests = {r1}
    LanAddresses = {1}
    RuleNames = {"n1"}
    MaxRules = 1
    MaxIndex = 1
    LanPorts = {80}
    LanInterfaces = {"lan2"}
    CellValues = {"on"}
    Tags = {"g1", "g2"}
    EndpointNames = {"e"}
    EndpointIds = {"i"}
    Templates = {"t1"}
    SupportedTemplates = {"t1"}
    VariableNames = {"x"}
    VariableValues = {"v", "null"}
    OutsideEdits = {}
    Text <- MCText
    Firmwares = {1}
    TypeConfigs = {}
    SemsDocs <- MCSemsDocs
    NatRequests = {}
    ForwardRequests = {}
    LanRequests = {}
    CellRequests = {"on"}
SPECIFICATION SemsSpec
PROPERTIES
    EndpointsKeepTheirTags
