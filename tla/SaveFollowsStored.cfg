CONSTANTS
    Threads = {t1, t2}
    Sources = {max31865, replacement}
    LegacySource = ds18b20
    Simulated = simulated
    None = None
    MaxVersion = 6
SPECIFICATION Spec
PROPERTIES SaveFollowsStored
CHECK_DEADLOCK FALSE
