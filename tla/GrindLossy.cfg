CONSTANTS
    MaxPulses = 2
    TimeoutUnits = 1
    UiQueueSize = 4
    FlashQueueSize = 1
    MaxSessions = 1
    Preemptive = FALSE
    Prompt = {}
SPECIFICATION Spec
INVARIANTS
    TypeOK
    MotorSafe
    StopAvailable
    Inv
PROPERTIES
    ImplementsSession
