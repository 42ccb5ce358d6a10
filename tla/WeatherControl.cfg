CONSTANTS
    Lease = 2
    CycleInterval = 1
    Durations = {1, 2}
SPECIFICATION Spec
INVARIANTS TypeOK SupplyIsRecorded StateMatchesRecord
PROPERTIES NeverUnbidden RenewNeverBegins
    ShowerEndsInDrain
