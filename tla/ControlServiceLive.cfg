CONSTANTS
    Modes = {"safe_drain", "manual_timed"}
    Lease = 2
    CycleInterval = 1
    Durations = {1, 2}
    Failures = {"error", "raise"}
SPECIFICATION FairSpec
PROPERTIES NoShowerLastsForever
