SPECIFICATION Spec
CONSTANTS
    Threshold = 3
    MaxStreak = 5
INVARIANTS
    ThreeInARow CrashLoopEscapes RollbackReported GuardInv
