CONSTANTS
    MaxPulses = 1
    TimeoutUnits = 1
    UiQueueSize = 4
    FlashQueueSize = 1
    MaxSessions = 2
    Preemptive = FALSE
    Prompt = {"ui", "control", "fileio"}
SPECIFICATION Spec
INVARIANTS
    CompletedGrindRecorded
