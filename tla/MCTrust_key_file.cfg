\* A local ceremony between the request and the end of a pairing.
SPECIFICATION Spec
CONSTANTS
    None = None
    Machines = {a, b}
    MaxMade = 3
    MaxTickets = 1
INVARIANTS
    KeyHasFile
CHECK_DEADLOCK FALSE
