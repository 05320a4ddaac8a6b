SPECIFICATION Spec
CONSTANTS
    QUIET = 1
    BACKOFF_MAX = 2
    MAX_STORED_SESSIONS = 2
    MAX_UPLOADS_PER_RUN = 1
    MaxGrinds = 2
    MaxQueued = 2
INVARIANTS
    SyncedMeansStored
    YieldsToGrind
PROPERTIES
    QuietBeforeCloud
    Settles
CHECK_DEADLOCK FALSE
