CONSTANTS
    Modes = {"manual_timed"}
    Lease = 4
    CycleInterval = 2
    Durations = {3, 4}
    Failures = {"error", "raise"}
SPECIFICATION Spec
INVARIANTS PersistenceFailureIsFault
