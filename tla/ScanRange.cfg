\* One request, so that nothing races the range.
CONSTANTS
    Null = Null
    NotAnAddress = NotAnAddress
    Requests = {r1}
    Addresses = {1, 9}
    SixAddresses = {}
    Space = 16
    Scale = 2
    Ports = {}
    NetEndpoints = {1, 2}
    NetServices = {}
    EndpointOf <- MCEndpointOf
    Configurations <- MCConfigurations
    Scans = {}
    Sizes = {2, 4}
    MaxTime = 0
SPECIFICATION NetSpec
PROPERTIES
    RangeFollowsEvidence
