\* Three requests of a device that may be known to the other systems already.
CONSTANTS
    Requests = {r1, r2, r3}
    MaxMade = 6
    MaxFaults = 1
    Known = TRUE
SYMMETRY Slots
SPECIFICATION Spec
INVARIANTS
    TypeOK
    AnswersAreTrue
    RowMeansRegistered
PROPERTY
    NeverRekeyed
