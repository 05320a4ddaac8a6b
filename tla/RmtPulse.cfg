SPECIFICATION Spec
CONSTANTS
    MAX_PHASE_DURATION_US = 3
    MaxSupportedUs = 40
    MaxRequestUs = 45
INVARIANTS
    ExactPulse
    EndsAtMarker
