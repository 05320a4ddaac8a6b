------------------------------ MODULE RmtPulse ------------------------------
(***************************************************************************)
(* The payload of a motor pulse, src/hardware/rmt_pulse_timing.h, and the  *)
(* transmitter that plays it, as src/hardware/grinder.cpp sets it up: the  *)
(* motor is on for every half of every symbol, a half of no duration ends  *)
(* the transmission, and so does the marker after the last symbol.         *)
(***************************************************************************)
EXTENDS Integers

CONSTANTS
    MAX_PHASE_DURATION_US,  \* what the 15-bit duration field of a half holds
    MaxSupportedUs,         \* longest pulse the payload has room for
    MaxRequestUs            \* bound on the pulses asked for

ASSUME RmtAssumption ==
    /\ MAX_PHASE_DURATION_US \in Nat \ {0, 1}
    /\ MaxSupportedUs \in Nat
    /\ MaxRequestUs \in Nat

MAX_SYMBOL_DURATION_US == MAX_PHASE_DURATION_US * 2

(* A plausible bug: the last, incomplete symbol forgotten.                 *)
required_symbol_count_floor(duration_us) == duration_us \div MAX_SYMBOL_DURATION_US

required_symbol_count(duration_us) ==
    (duration_us + MAX_SYMBOL_DURATION_US - 1) \div MAX_SYMBOL_DURATION_US

RMT_PULSE_SYMBOL_CAPACITY == required_symbol_count(MaxSupportedUs)

(* The length of one symbol: the pulse spread evenly, the first symbols     *)
(* one microsecond longer where it does not divide.                         *)
symbol_us(duration_us, index) ==
    LET count == required_symbol_count(duration_us)
    IN  duration_us \div count + (IF index < duration_us % count THEN 1 ELSE 0)

(* A plausible bug: each symbol filled, the rest left to the last one.     *)
symbol_durations_packed(duration_us, index) ==
    LET count == required_symbol_count(duration_us)
        rest == duration_us - index * MAX_SYMBOL_DURATION_US
        us == IF rest < MAX_SYMBOL_DURATION_US THEN rest ELSE MAX_SYMBOL_DURATION_US
    IN  <<(us + 1) \div 2, us \div 2>>

(* The two halves of a symbol, as the duration fields hold them.           *)
symbol_durations(duration_us, index) ==
    LET us == symbol_us(duration_us, index)
    IN  <<((us + 1) \div 2) % (MAX_PHASE_DURATION_US + 1),
          (us \div 2) % (MAX_PHASE_DURATION_US + 1)>>

-----------------------------------------------------------------------------
VARIABLES
    duration_us,  \* the pulse asked for
    index,        \* symbol the transmitter is at
    half,         \* 1 or 2
    high_us,      \* how long the motor has been on in this pulse
    state         \* "idle", "sending", "done"

vars == <<duration_us, index, half, high_us, state>>

Init ==
    /\ duration_us = 0 /\ index = 0 /\ half = 1 /\ high_us = 0
    /\ state = "idle"

(* start_pulse_rmt(): refuses a pulse of no length or past the capacity.   *)
StartPulse ==
    /\ state # "sending"
    /\ \E us \in 0..MaxRequestUs :
         /\ required_symbol_count(us) \in 1..RMT_PULSE_SYMBOL_CAPACITY
         /\ duration_us' = us
    /\ index' = 0 /\ half' = 1 /\ high_us' = 0
    /\ state' = "sending"

Current == symbol_durations(duration_us, index)[half]

(* The transmitter plays one half: a zero is its own end marker.           *)
EndMarker == index = required_symbol_count(duration_us) \/ Current = 0

PlayHalf ==
    /\ state = "sending" /\ ~EndMarker
    /\ high_us' = high_us + Current
    /\ half' = 3 - half
    /\ index' = IF half = 2 THEN index + 1 ELSE index
    /\ UNCHANGED <<duration_us, state>>

(* The transmit-done interrupt.                                            *)
PulseDone ==
    /\ state = "sending" /\ EndMarker
    /\ state' = "done"
    /\ UNCHANGED <<duration_us, index, half, high_us>>

Next == StartPulse \/ PlayHalf \/ PulseDone

Spec == Init /\ [][Next]_vars

-----------------------------------------------------------------------------
(* A pulse keeps the motor on for exactly the time asked for, and never     *)
(* longer on the way there (rmt_pulse_timing.h: the halves "sum exactly").  *)
ExactPulse ==
    /\ high_us <= duration_us
    /\ state = "done" => high_us = duration_us

(* A pulse of at least 2 us ends at the marker after its last symbol, not   *)
(* at a half of no duration inside the payload.                             *)
EndsAtMarker ==
    state # "idle" /\ duration_us >= 2 /\ index < required_symbol_count(duration_us) =>
        symbol_durations(duration_us, index)[1] # 0 /\ symbol_durations(duration_us, index)[2] # 0

(* Time on before a symbol: what the spread of the remainder adds up to.    *)
OnBefore(us, i) ==
    LET count == required_symbol_count(us)
        extra == us % count
    IN  i * (us \div count) + (IF i < extra THEN i ELSE extra)

(* The inductive invariant: at every half the motor has been on for what    *)
(* the symbols before it add up to (rmt_pulse_timing.h, symbol_durations).  *)
PulseInv ==
    /\ duration_us \in Nat /\ index \in Nat /\ half \in {1, 2} /\ high_us \in Nat
    /\ state \in {"idle", "sending", "done"}
    /\ state = "idle" => duration_us = 0 /\ high_us = 0
    /\ state # "idle" => duration_us > 0 /\ index <= required_symbol_count(duration_us)
    /\ state = "sending" /\ half = 1 => high_us = OnBefore(duration_us, index)
    /\ state = "sending" /\ half = 2 =>
          /\ index < required_symbol_count(duration_us)
          /\ high_us = OnBefore(duration_us, index) + symbol_durations(duration_us, index)[1]
    /\ state = "done" => high_us = duration_us
=============================================================================
