CONSTANTS
    Modes = {"automatic"}
    Lease = 4
    CycleInterval = 2
    Durations = {3, 4}
    Failures = {"error"}
SPECIFICATION Spec
INVARIANTS ShowerOutranksAutomatic
