CONSTANTS
    Commanders = {c1, c2}
    Watchdog = watchdog
    Sensor = sensor
SPECIFICATION FairSpec
INVARIANTS
    StoppedMeansStill
    NoOrphanMotion
PROPERTY
    DeadMan
