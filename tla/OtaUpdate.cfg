SPECIFICATION FairSpec
CONSTANTS
    PatchSize = 2
    MaxStarts = 2
    Preemptive = FALSE
INVARIANTS
    FrozenDuringApply FallbackKept OtaInv
PROPERTIES
    WholePatchSwitches TasksComeBack ProgressScreenLeft
