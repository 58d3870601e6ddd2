--------------------------- MODULE SamplingClock ---------------------------
(***************************************************************************)
(* When a sensor is read: the accumulators of TIMER2_IRQHandler            *)
(* (senstick_sensor_controller.c) and the phases of a sensor that has to   *)
(* be triggered and waited for (brightness_sensor_base.c,                  *)
(* humidity_sensor_base.c).  Times are in milliseconds; the accumulators   *)
(* are 16-bit signed integers, as in the code.                             *)
(***************************************************************************)
EXTENDS Integers, Sequences

CONSTANTS
    NumSensors,    \* sensors that are available and not stopped
    TimerPeriod,   \* TIMER_PERIOD_MS (10)
    Periods,       \* per sensor, the sampling periods that are written (bound)
    Shortest,      \* per sensor, the shortest period WriteSetting takes
    Waits,         \* per sensor, what its phases compare the duration with:
                   \* <<>>, <<150>> (brightness) or <<20, 32>> (humidity)
    Conversions,   \* per sensor, how long each of its conversions takes
    MaxLate        \* bound: no start once a sensor is more than that late

Sensors  == 1 .. NumSensors
MaxInt16 == 32767
Int16s   == -(MaxInt16 + 1) .. MaxInt16

ASSUME ClockAssumption ==
    /\ NumSensors \in Nat /\ TimerPeriod \in Nat \ {0} /\ MaxLate \in 0 .. MaxInt16
    /\ Waits \in [Sensors -> Seq(Nat)] /\ Conversions \in [Sensors -> Seq(Nat)]
    /\ \A s \in Sensors : /\ DOMAIN Waits[s] = DOMAIN Conversions[s]
                          /\ Periods[s] \subseteq Int16s
                          /\ Shortest[s] \in 1 .. MaxInt16

LastState(s)  == 2 * Len(Waits[s])
MaxConversion == 150   \* the longest one, brightness

\* The times of the sensors go together: WriteSetting takes no period that the
\* phases outlast, whichever of them is waited for, and a conversion takes no
\* longer than what its wait comes to at least: two ticks, and for the first
\* what the duration is compared with.
ASSUME TimesAssumption ==
    \A s \in Sensors :
        /\ Shortest[s] <= 200
        /\ (LastState(s) + 1) * TimerPeriod <= Shortest[s]
        /\ \A k \in DOMAIN Waits[s] :
              /\ Waits[s][k] + (LastState(s) + 2 - 2 * k) * TimerPeriod < Shortest[s]
              /\ Conversions[s][k] <= MaxConversion
              /\ \/ Conversions[s][k] <= 2 * TimerPeriod
                 \/ k = 1 /\ Conversions[s][k] <= Waits[s][k] + 2

VARIABLES
    working,     \* TIMER2 is running
    period,      \* sensorSetting[].samplingDuration
    sampling,    \* sensorSampling[]
    state,       \* _state: 2k triggers conversion k + 1, 2k + 1 waits for it;
                 \* the last one returns the data
    early,       \* history: the sensors just read before they had converted
    waited,      \* history: time since the last trigger, up to MaxConversion
    carried      \* history: sensorSampling at the start or the last sample

clockVars == <<working, period, sampling, state, early, waited, carried>>

Int16(n) == ((n + 32768) % 65536) - 32768

TypeOK ==
    /\ working \in BOOLEAN
    /\ period \in [Sensors -> 1 .. MaxInt16]
    /\ sampling \in [Sensors -> Int16s]
    /\ \A s \in Sensors : state[s] \in 0 .. LastState(s)
    /\ early \subseteq Sensors
    /\ waited \in [Sensors -> 0 .. MaxConversion]
    /\ carried \in [Sensors -> Int16s]

\* The periods of senstickSensorController_init.
Init ==
    /\ working = FALSE
    /\ period = [s \in Sensors |-> 200]
    /\ sampling = [s \in Sensors |-> 0]
    /\ state = [s \in Sensors |-> 0]
    /\ early = {}
    /\ waited = [s \in Sensors |-> 0]
    /\ carried = [s \in Sensors |-> 0]

-----------------------------------------------------------------------------
(* One sensor's part of the interrupt.                                     *)

Accumulated(s) == Int16(sampling[s] + TimerPeriod)
IsDue(s)       == Accumulated(s) >= period[s]
Duration(s)    == Int16(Accumulated(s) - period[s])

\* getSensorDataHandler
IsWaiting(s) == state[s] % 2 = 1
\* A plausible error: the duration not taken from when the sample was due.
HasWaitedAtAll(s) == Accumulated(s) > Waits[s][(state[s] + 1) \div 2]
HasWaited(s) == Duration(s) > Waits[s][(state[s] + 1) \div 2]
HasData(s)   == IsDue(s) /\ state[s] = LastState(s)

NextState(s) ==
    CASE ~IsDue(s)                      -> state[s]
      [] HasData(s)                     -> 0
      [] IsWaiting(s) /\ ~HasWaited(s)  -> state[s]
      [] OTHER                          -> state[s] + 1

NextSampling(s) ==
    IF HasData(s) THEN Int16(Accumulated(s) - period[s]) ELSE Accumulated(s)

\* A conversion is read in the even states after the first.
ReadsConversion(s) == IsDue(s) /\ state[s] > 0 /\ ~IsWaiting(s)
NowWaited(s) ==
    IF waited[s] + TimerPeriod > MaxConversion THEN MaxConversion
    ELSE waited[s] + TimerPeriod
IsEarly(s) ==
    ReadsConversion(s) /\ NowWaited(s) < Conversions[s][state[s] \div 2]

Triggers(s) == IsDue(s) /\ ~IsWaiting(s) /\ state[s] < LastState(s)

\* TIMER2_IRQHandler, up to the mailbox.
tick ==
    /\ working
    /\ sampling' = [s \in Sensors |-> NextSampling(s)]
    /\ state' = [s \in Sensors |-> NextState(s)]
    /\ early' = {s \in Sensors : IsEarly(s)}
    /\ waited' = [s \in Sensors |-> IF Triggers(s) THEN 0 ELSE NowWaited(s)]
    /\ carried' = [s \in Sensors |->
                      IF HasData(s) THEN NextSampling(s) ELSE carried[s]]
    /\ UNCHANGED <<working, period>>

-----------------------------------------------------------------------------
(* Starting and stopping.                                                  *)

\* setSensorPower(true) puts the sensors into their first phase; nothing
\* puts sensorSampling back.
start ==
    /\ ~working
    /\ \A s \in Sensors : sampling[s] <= MaxLate
    /\ working' = TRUE
    /\ state' = [s \in Sensors |-> 0]
    /\ waited' = [s \in Sensors |-> 0]
    /\ carried' = sampling
    /\ early' = {}
    /\ UNCHANGED <<period, sampling>>

stop ==
    /\ working
    /\ working' = FALSE
    /\ early' = {}
    /\ UNCHANGED <<period, sampling, state, waited, carried>>

\* senstickSensorControllerWriteSetting; what it refuses changes nothing.  A
\* plausible error: any period is taken.
writeSettingOfAnyPeriod(s, d) ==
    /\ ~working
    /\ period' = [period EXCEPT ![s] = d]
    /\ UNCHANGED <<working, sampling, state, early, waited, carried>>

writeSetting(s, d) ==
    /\ ~working
    /\ d >= Shortest[s]
    /\ period' = [period EXCEPT ![s] = d]
    /\ UNCHANGED <<working, sampling, state, early, waited, carried>>

Next ==
    \/ tick \/ start \/ stop
    \/ \E s \in Sensors : \E d \in Periods[s] : writeSetting(s, d)

Spec == Init /\ [][Next]_clockVars

-----------------------------------------------------------------------------
(* Properties. *)

\* A recording does not drift, however long its conversions take and however
\* long it goes on: when a sample has been taken the next one is not due yet,
\* or the sample has taken no more than one tick for each phase of the sensor,
\* so that a sensor that was late is less late by the rest of the period
\* (TIMER2_IRQHandler keeps the remainder, WriteSetting keeps the period above
\* the time that the conversions take).
NoDrift ==
    [][\A s \in Sensors :
          tick /\ HasData(s) =>
             \/ sampling'[s] < period[s]
             \/ sampling'[s] + period[s] <=
                   carried[s] + (LastState(s) + 1) * TimerPeriod]_clockVars

\* A conversion is read before it is there only if the sample was already due
\* at the start or when the last sample was taken: a sensor that is not late
\* is always waited for (getSensorDataHandler).
EarlyOnlyWhenLate ==
    [][\A s \in early' : carried[s] >= period[s]]_clockVars

-----------------------------------------------------------------------------
(* What a comment says, and the code does not do.                          *)

\* "Wait for 150 ms" (brightness_sensor_base.c:38).
ConversionWaited == early = {}
=============================================================================
