CONSTANTS
    LATENCY_MIN = 960
    LATENCY_MAX = 9600
    TARGET_ACCURACY = 160
    PRIMING_PULSE = 32000
    MAX_ITERATIONS = 50
    VERIFICATION_PULSES = 5
    VERIFICATION_ROUNDS = 5
    Unit = 32
    Lags = {1, 30, 31, 47, 131, 217, 299, 300, 301}
    MaxNoise = 1
    Latencies = {1600}
SPECIFICATION FairSpec
INVARIANTS NoStrayPulse SearchFindsLag SteadyGrinderIsTuned
PROPERTIES SavedIsProven TuneEnds
