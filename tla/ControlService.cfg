CONSTANTS
    Modes = {"safe_drain", "manual_timed", "automatic"}
    Lease = 4
    CycleInterval = 2
    Durations = {1, 4}
    Failures = {"error", "raise"}
SPECIFICATION Spec
INVARIANTS TypeOK SupplyIsAccountedFor
PROPERTIES FaultNeverSupplies LeaseKeptAlive DeadlineIsKept
