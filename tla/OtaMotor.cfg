SPECIFICATION Spec
CONSTANTS
    PatchSize = 2
    MaxStarts = 2
    Preemptive = FALSE
INVARIANT MotorGuarded
