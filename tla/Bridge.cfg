CONSTANTS
    Ids = {r1, r2, r3}
    None = None
    Lease = 5
    Overrun = 1
    HubTimeout = 4
    Ttl = 2
    ClientTimeout = 2
    MaxStall = 2
SPECIFICATION Spec
SYMMETRY Symmetry
INVARIANTS TypeOK ConfirmedDrainLasts
PROPERTIES ConfirmedLeaseIsFresh
