\* One request at a time, no failed call.
CONSTANTS
    Requests = {r1}
    MaxMade = 3
    MaxFaults = 0
    Known = FALSE
SPECIFICATION Spec
INVARIANT
    WholeOrAbsent
