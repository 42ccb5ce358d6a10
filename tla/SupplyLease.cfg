CONSTANTS
    Lease = 4
    MaxTtl = 2
    AcceptTimeout = 1
    SocketTimeout = 2
    ExecuteDelay = 1
SPECIFICATION FairSpec
INVARIANTS TypeOK LowIsAccountedFor LeaseMatchesPins OverrunBounded
PROPERTIES DrainedInTheEnd RepliesAreTrue ImplementsLeasedValve
