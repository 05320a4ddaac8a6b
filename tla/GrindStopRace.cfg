CONSTANTS
    MaxPulses = 1
    TimeoutUnits = 1
    UiQueueSize = 4
    FlashQueueSize = 1
    MaxSessions = 1
    Preemptive = TRUE
    Prompt = {"ui", "control", "auto", "fileio"}
SPECIFICATION Spec
INVARIANTS
    IdleMotorOff
