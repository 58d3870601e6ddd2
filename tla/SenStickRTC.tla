----------------------------- MODULE SenStickRTC -----------------------------
(***************************************************************************)
(* The clock of senstick_rtc.c: seconds, advanced by what the 24-bit       *)
(* counter RTC1 has counted since it was last read.  It is read when a     *)
(* client or a new recording asks for the time, and by a timer every 256 s *)
(* so that no turn of the counter (512 s) is missed; the timer's handler   *)
(* waits in the scheduler for whatever the main loop does.                 *)
(*                                                                         *)
(* Time is counted in ticks of the counter.  Dates have a time of day in   *)
(* seconds; of the calendar the leap days are left out.                    *)
(***************************************************************************)
EXTENDS Integers, FiniteSets

CONSTANTS
    Freq,         \* APP_TIMER_CLOCK_FREQ (32768): ticks in a second
    Wrap,         \* turn of the counter (2^24)
    Period,       \* ticks between two runs of the timer (256 s)
    Latency,      \* what the main loop delays its handler by, at most
    Steps,        \* bound: ticks that pass between two steps
    Dates,        \* the dates that clients set
    MaxReadings,  \* bound: readings that are asked for
    MaxTicks      \* bound: ticks since the boot

\* tm_mon counts from 0; mktime takes any number of months and days.
DaySeconds == 86400
MonthStart == <<0, 31, 59, 90, 120, 151, 181, 212, 243, 273, 304, 334>>
DayNumber(year, tm_mon, day) ==
    (year + tm_mon \div 12 - 1970) * 365 + MonthStart[(tm_mon % 12) + 1] + day - 1

\* convertBLEDateTimeToCTime and mktime: the month, which BLE counts from 1,
\* is taken over.
mktime(d) == DayNumber(d.year, d.month, d.day) * DaySeconds + d.time

\* localtime and convertCTimeToBLEDateTime.
localtime(t) ==
    LET n   == t \div DaySeconds
        day == n % 365
        mon == CHOOSE m \in 1 .. 12 :
                  /\ MonthStart[m] <= day
                  /\ \A k \in 1 .. 12 : MonthStart[k] <= day => k <= m
    IN  [year |-> 1970 + n \div 365, month |-> mon - 1,
         day |-> day - MonthStart[mon] + 1, time |-> t % DaySeconds]

ASSUME RTCAssumption ==
    /\ {Freq, Wrap} \subseteq Nat \ {0}
    /\ {Period, Latency} \subseteq Nat
    /\ Period + Latency < Wrap
    /\ Steps \subseteq Nat
    /\ \A d \in Dates : mktime(d) \in Nat \ {0}

VARIABLES
    now,                  \* ticks since the boot
    current_time,         \* seconds since 1970, or 0: not set
    previous_rtc_value,   \* the counter when it was last read
    due,                  \* when the timer runs next
    readAt,               \* when the counter was last read
    setAt, date,          \* when the clock was set, and to which date
    readings              \* and the readings of the clock since then

clock == <<current_time, previous_rtc_value, readAt, readings>>
vars  == <<now, clock, due, setAt, date>>

NoDate == [year |-> 0, month |-> 0, day |-> 0, time |-> 0]

\* app_timer_cnt_get.
rtc == now % Wrap

\* What has been counted since the last reading, in ticks and in seconds;
\* and what it would be without the turn of the counter, and rounded up.
DurationUnturned == rtc - previous_rtc_value
Duration == (rtc - previous_rtc_value + Wrap) % Wrap
SecondsUp(ticks) == (ticks + Freq - 1) \div Freq
Seconds(ticks) == ticks \div Freq

updateCurrentTime ==
    IF current_time = 0 THEN UNCHANGED clock
    ELSE /\ current_time' = current_time + Seconds(Duration)
         /\ previous_rtc_value' = rtc
         /\ readAt' = now
         /\ readings' = readings + 1

Init ==
    /\ now = 0 /\ due = Period
    /\ current_time = 0 /\ previous_rtc_value = 0 /\ readAt = 0
    /\ readings = 0 /\ setAt = 0 /\ date = NoDate

\* Time passes, but the main loop does not keep the timer's handler waiting
\* for more than Latency.
Advance(d) ==
    /\ now + d <= due + Latency /\ now + d <= MaxTicks
    /\ now' = now + d
    /\ UNCHANGED <<clock, due, setAt, date>>

rtc_timer_handler ==
    /\ now >= due
    /\ updateCurrentTime
    /\ due' = due + Period
    /\ UNCHANGED <<now, setAt, date>>

\* getSenstickRTCDateTime, for a client or for the record of a new log.
getSenstickRTCDateTime ==
    /\ readings < MaxReadings
    /\ updateCurrentTime
    /\ UNCHANGED <<now, due, setAt, date>>

setSenstickRTCDateTime(d) ==
    /\ current_time' = mktime(d)
    /\ previous_rtc_value' = rtc
    /\ readAt' = now /\ setAt' = now /\ date' = d /\ readings' = 0
    /\ UNCHANGED <<now, due>>

Next ==
    \/ \E d \in Steps : Advance(d)
    \/ rtc_timer_handler
    \/ getSenstickRTCDateTime
    \/ \E d \in Dates : setSenstickRTCDateTime(d)

Spec == Init /\ [][Next]_vars

-----------------------------------------------------------------------------
TypeOK ==
    /\ {now, due, current_time, readAt, setAt, readings} \subseteq Nat
    /\ previous_rtc_value \in 0 .. Wrap - 1
    /\ date \in Dates \cup {NoDate}

\* The seconds that the clock has counted since it was set.
Counted == current_time - mktime(date)

\* The clock is never ahead of the time since it was set, however its
\* readings, the turns of the counter and the delays of the timer fall
\* (senstick_rtc.c:36-58).
NeverAhead == current_time # 0 => Counted * Freq <= readAt - setAt

\* Each reading drops the fraction of a second that has passed since the one
\* before (senstick_rtc.c:54), and nothing else is ever lost: no turn of the
\* counter, which the timer of senstick_rtc.c:93-109 is there for.
LosesFractionsOnly ==
    current_time # 0 =>
        (readAt - setAt) - Counted * Freq <= readings * (Freq - 1)

\* The counter is read before it comes to the value of the reading before:
\* else a turn would be lost in updateCurrentTime (senstick_rtc.c:51).
EveryTurnSeen == current_time # 0 => now - readAt < Wrap

-----------------------------------------------------------------------------
\* The date that was set is read back (senstick_rtc.h:13-16).  Not so where
\* the month after it is shorter, or in December: mktime and localtime count
\* the months from 0 (senstick_rtc.c:65-88).
DateIsRead ==
    current_time # 0 /\ Counted = 0 => localtime(current_time) = date
=============================================================================
