\* One device, two requests, two rows, two nights, one fault: safety.
CONSTANTS
    Devices = {d1}
    Tasks = {t1, t2}
    Requests = {r1, r2}
    ErrorLimit = 2
    MaxDay = 2
    MaxVersion = 1
    MaxFaults = 1
    NoDevice = NoDevice
    NoTask = NoTask
SYMMETRY Slots
SPECIFICATION Spec
INVARIANTS
    PendingBounded
    CompletedWasForced
PROPERTIES
    ImplementsAtomicRenewal
