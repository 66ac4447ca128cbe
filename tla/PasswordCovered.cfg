\* A disclosed secret whose renewal nobody has scheduled.
CONSTANTS
    Devices = {d1}
    Tasks = {t1, t2}
    Requests = {r1, r2}
    ErrorLimit = 2
    MaxDay = 2
    MaxVersion = 1
    MaxFaults = 1
    NoDevice = NoDevice
    NoTask = NoTask
SPECIFICATION Spec
INVARIANTS
    DisclosedIsCovered
