\* Two rows, two nights, one fault, one request at a time; three posts to a module.
CONSTANTS
    Devices = {d1}
    Tasks = {t1, t2}
    Requests = {r1}
    ErrorLimit = 2
    MaxDay = 2
    MaxVersion = 1
    MaxFaults = 1
    NoDevice = NoDevice
    NoTask = NoTask
    Posts = {p1, p2, p3}
    Current = current
    NoPost = none
SPECIFICATION MCSpec
INVARIANTS
    OkMeansRunning
    NeverOlder
PROPERTIES
    PendingEventuallyDone
    ImplementsConfigDelivery
    PendingResolves
CHECK_DEADLOCK FALSE
