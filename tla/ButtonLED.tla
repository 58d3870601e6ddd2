------------------------------ MODULE ButtonLED ------------------------------
(***************************************************************************)
(* The button and the LED: gpio_button_monitoring.c, gpio_led_driver.c,    *)
(* and under them app_button and app_timer of the SDK.                     *)
(*                                                                         *)
(* A timer that expires puts its handler into the queue of the scheduler,  *)
(* from which stopping the timer does not take it.  The main loop comes to *)
(* it when it has done what it is at, which may be several erasures of the *)
(* flash memory.  Pins change in the meantime, and the interrupt that      *)
(* tells app_button also comes between the steps of app_button's own       *)
(* handler.  Time is counted in ticks.                                     *)
(***************************************************************************)
EXTENDS Integers, SequencesExt

CONSTANTS
    DetectionDelay,  \* BUTTON_DETECTION_DELAY_MS (50 ms)
    LongPush,        \* LONG_PUSH_DURATION_MS (2 s)
    VeryLongPush,    \* LONG_VERY_PUSH_DURATION_MS (3 s more)
    LedPeriod,       \* of the LED's timer (100 ms)
    Blank,           \* m_blank_period, of which the code has 30 to 1000
    Latency          \* ticks after which the main loop has emptied its queue

ASSUME ButtonAssumption ==
    /\ {DetectionDelay, LongPush, VeryLongPush} \subseteq Nat \ {0}
    /\ {LedPeriod, Blank} \subseteq Nat \ {0} /\ Latency \in Nat

Timers   == {"detect", "push", "led"}
Off      == -1
Statuses == {"released", "push", "long", "veryLong"}

VARIABLES
    down,         \* the button is down
    transition,   \* m_pin_transition of app_button,
    pinDown,      \*   and m_pin_state: was it a press
    handler,      \* detection_delay_timeout_handler: "idle", "cleared" the
                  \* transition, or has read that the button is "down" or "up"
    left,         \* per timer: the ticks until it expires, or Off
    queue,        \* the scheduler: timers that have expired, oldest first,
    late,         \*   and the ticks since it was empty
    status,       \* m_status
    command,      \* sensorShouldSleep, sensorShouldWork, shouldDeviceSleep
    led,          \* the LED: lit, m_blink_count (blinks), m_blank_period
                  \* (blank) and whether m_pattern_index is even
    held,         \* history: ticks since the last edge, or Off if app_timer
                  \* failed at that edge,
    steady,       \*   and whether the level before it was Settled, too
    since,        \* history: ticks since status was released
    overtaken     \* history: a nested command overtook the one to sleep

pin     == <<down, transition, pinDown>>
history == <<held, steady>>
vars    == <<pin, handler, left, queue, late, status, command, led, history,
             since, overtaken>>

\* Ticks after which the main loop has handled an edge.
Settled == DetectionDelay + Latency + 1
Longest == LongPush + VeryLongPush

TypeOK ==
    /\ {down, transition, pinDown, steady, overtaken} \subseteq BOOLEAN
    /\ handler \in {"idle", "cleared", "down", "up"}
    /\ left.detect \in Off .. DetectionDelay
    /\ left.push \in (Off .. LongPush) \cup (Off .. VeryLongPush)
    /\ left.led \in Off .. LedPeriod
    /\ queue \in Seq(Timers) /\ late \in 0 .. Latency
    /\ status \in Statuses
    /\ command \in {"sensorShouldSleep", "sensorShouldWork", "shouldDeviceSleep"}
    /\ led \in [lit : BOOLEAN, blinks : 0 .. 3, blank : 0 .. Blank,
                even : BOOLEAN]
    /\ held \in Off .. Settled /\ since \in 0 .. Longest

\* The device may be started with the button down.
Init ==
    /\ down \in BOOLEAN /\ transition = FALSE /\ pinDown = TRUE
    /\ handler = "idle"
    /\ left = [t \in Timers |-> IF t = "led" THEN LedPeriod ELSE Off]
    /\ queue = <<>> /\ late = 0 /\ status = "released"
    /\ command \in {"sensorShouldSleep", "sensorShouldWork"}
    /\ led = [lit |-> FALSE, blinks |-> 1, blank |-> Blank, even |-> TRUE]
    /\ held = Settled /\ steady = FALSE /\ since = 0 /\ overtaken = FALSE

-----------------------------------------------------------------------------
(* Timers.                                                                 *)

\* Starting a timer that runs changes nothing.
Start(l, t, ticks) == IF l[t] = Off THEN [l EXCEPT ![t] = ticks] ELSE l
Stop(l, t) == [l EXCEPT ![t] = Off]

Counted(n, limit) == IF n \in 0 .. limit - 1 THEN n + 1 ELSE n

\* A tick passes, once the timers that have expired are in the queue, and not
\* within the few instructions of app_button's handler.
Tick ==
    /\ handler = "idle" /\ \A t \in Timers : left[t] # 0
    /\ queue # <<>> => late < Latency
    /\ late' = IF queue = <<>> THEN 0 ELSE late + 1
    /\ left' = [t \in Timers |-> IF left[t] = Off THEN Off ELSE left[t] - 1]
    /\ held' = Counted(held, Settled) /\ since' = Counted(since, Longest)
    /\ UNCHANGED <<pin, handler, queue, status, command, led, steady, overtaken>>

\* The LED's timer is a repeated one.
Expire(t) ==
    /\ left[t] = 0
    /\ left' = [left EXCEPT ![t] = IF t = "led" THEN LedPeriod ELSE Off]
    /\ queue' = Append(queue, t)
    /\ UNCHANGED <<pin, handler, late, status, command, led, history, since,
                   overtaken>>

-----------------------------------------------------------------------------
(* The LED.                                                                *)

startBlinking(d, count) ==
    [d EXCEPT !.even = TRUE, !.blinks = count, !.blank = Blank]

\* While the button is down the pattern is its own.
NextBlinkNever(d) ==    \* a mutant: m_blank_period = 1000 left out
    IF status = "released"
    THEN startBlinking(d, IF command = "sensorShouldWork" THEN 2 ELSE 1)
    ELSE d
updateNextBlink(d) ==
    IF status = "released"
    THEN startBlinking(d, IF command = "sensorShouldWork" THEN 2 ELSE 1)
    ELSE [d EXCEPT !.blank = Blank]

led_timer_handler ==
    /\ led' = IF led.blinks = 0
              THEN IF led.blank > 1 THEN [led EXCEPT !.blank = @ - 1]
                   ELSE updateNextBlink([led EXCEPT !.blank = @ - 1])
              ELSE [led EXCEPT !.lit = led.even, !.even = ~@,
                               !.blinks = IF led.even THEN @ ELSE @ - 1]
    /\ UNCHANGED <<handler, left, status, command, since, overtaken>>

\* ledDriver_observeControlCommand: its timer runs unless the device sleeps,
\* and the light is put out as it stops.
TimerUnwoken(l, c) ==    \* a mutant: the timer is not started again
    IF c = "shouldDeviceSleep" THEN Stop(l, "led") ELSE l
LedTimer(l, c) ==
    IF c = "shouldDeviceSleep" THEN Stop(l, "led")
    ELSE Start(l, "led", LedPeriod)
LedFor(d, l, c) ==
    IF c = "shouldDeviceSleep" /\ l["led"] # Off THEN [d EXCEPT !.lit = FALSE]
    ELSE d

-----------------------------------------------------------------------------
(* The button.                                                             *)

\* The commands that the end of a press leads to (senstick_setButtonStatus):
\* record anew, which an area that is full or settings may prevent; sleep;
\* or format.
CommandsOf(s) ==
    CASE s = "push"     -> {"sensorShouldSleep", "sensorShouldWork"}
      [] s = "long"     -> {"shouldDeviceSleep"}
      [] s = "veryLong" -> {"formattingStorage"}
      [] s = "released" -> {command}

\* A format ends in sensorShouldSleep.  full: the recording that is stopped to
\* sleep finds its area full as it is flushed, and the sensor controller
\* commands sensorShouldSleep before the LED hears of shouldDeviceSleep.
setControlCommand(c, l, d) ==
    \/ c = command /\ left' = l /\ led' = d /\ UNCHANGED <<command, overtaken>>
    \/ /\ c # command
       /\ \E full \in BOOLEAN :
             LET nested == IF full THEN LedTimer(l, "sensorShouldSleep") ELSE l
             IN  /\ full => command = "sensorShouldWork" /\ c = "shouldDeviceSleep"
                 /\ command' = IF full \/ c = "formattingStorage"
                               THEN "sensorShouldSleep" ELSE c
                 /\ left' = LedTimer(nested, c)
                 /\ led' = LedFor(d, nested, c)
                 /\ overtaken' = full

\* _button_event_handler.
buttonIsReleased ==
    /\ \E c \in CommandsOf(status) : setControlCommand(c, Stop(left, "push"), led)
    /\ status' = "released"
    /\ UNCHANGED since

buttonIsPushed ==
    /\ status' = "push"
    /\ left' = Start(left, "push", LongPush)
    /\ led' = startBlinking(led, 1)
    /\ since' = IF status = "released" THEN 0 ELSE since
    /\ UNCHANGED <<command, overtaken>>

\* timer_handler.  In any other state it comes too late.
TimerFallsThrough ==    \* a mutant: the break after BUTTON_PUSH left out
    /\ \/ /\ status \in {"push", "long"}
          /\ status' = "veryLong"
          /\ left' = IF status = "push" THEN Start(left, "push", VeryLongPush) ELSE left
          /\ led' = startBlinking(led, 3)
       \/ status \in {"released", "veryLong"} /\ UNCHANGED <<status, left, led>>
    /\ UNCHANGED <<handler, command, since, overtaken>>
timer_handler ==
    /\ \/ /\ status = "push"
          /\ status' = "long"
          /\ left' = Start(left, "push", VeryLongPush)
          /\ led' = startBlinking(led, 2)
       \/ /\ status = "long"
          /\ status' = "veryLong"
          /\ led' = startBlinking(led, 3)
          /\ UNCHANGED left
       \/ status \in {"released", "veryLong"} /\ UNCHANGED <<status, left, led>>
    /\ UNCHANGED <<handler, command, since, overtaken>>

\* detection_delay_timeout_handler of app_button: an edge that has not been
\* followed by another is reported.  Here it clears the transition.
DetectKeepsTransition ==    \* a mutant: it does not
    /\ handler' = IF transition THEN "cleared" ELSE handler
    /\ UNCHANGED <<transition, left, status, led, command, since, overtaken>>
detection_delay_timeout_handler ==
    /\ transition' = FALSE
    /\ handler' = IF transition THEN "cleared" ELSE handler
    /\ UNCHANGED <<left, status, led, command, since, overtaken>>

\* Then it reads the pin,
readPin ==
    /\ handler = "cleared"
    /\ handler' = IF down THEN "down" ELSE "up"
    /\ UNCHANGED <<pin, left, queue, late, status, command, led, history, since,
                   overtaken>>

\* and reports the level unless it is not that of the edge.
report ==
    /\ handler \in {"down", "up"}
    /\ handler' = "idle"
    /\ IF pinDown # (handler = "down")
       THEN UNCHANGED <<left, status, command, led, since, overtaken>>
       ELSE IF handler = "down" THEN buttonIsPushed ELSE buttonIsReleased
    /\ UNCHANGED <<pin, queue, late, history>>

\* gpiote_event_handler of app_button, in the interrupt: a second edge before
\* the first was reported takes it back.
Edge ==
    /\ down' = ~down /\ transition' = ~transition
    /\ IF transition
       THEN left' = Stop(left, "detect") /\ UNCHANGED pinDown
       ELSE left' = [left EXCEPT !.detect = DetectionDelay] /\ pinDown' = ~down
    /\ held' = 0 /\ steady' = (held = Settled)
    /\ UNCHANGED <<handler, queue, late, status, command, led, since, overtaken>>

\* The queue of app_timer is full: as the timer is to be stopped, or started.
EdgeUnstopped ==
    /\ down' = ~down
    /\ held' = Off /\ steady' = FALSE
    /\ UNCHANGED <<transition, pinDown, handler, left, queue, late, status,
                   command, led, since, overtaken>>
EdgeUnstarted ==
    /\ ~transition
    /\ down' = ~down /\ transition' = TRUE /\ pinDown' = ~down
    /\ left' = Stop(left, "detect")
    /\ held' = Off /\ steady' = FALSE
    /\ UNCHANGED <<handler, queue, late, status, command, led, since, overtaken>>

-----------------------------------------------------------------------------
\* The main loop runs the handler of the timer that expired first.
mainLoop ==
    /\ handler = "idle" /\ queue # <<>>
    /\ queue' = Tail(queue)
    /\ late' = IF queue' = <<>> THEN 0 ELSE late
    /\ CASE Head(queue) = "led"    -> led_timer_handler /\ UNCHANGED transition
         [] Head(queue) = "push"   -> timer_handler /\ UNCHANGED transition
         [] Head(queue) = "detect" -> detection_delay_timeout_handler
    /\ UNCHANGED <<down, pinDown, history>>

Handle == mainLoop \/ readPin \/ report

\* A client, the battery or a full storage gives a command.
otherCommand ==
    /\ handler = "idle"
    /\ \E c \in {"sensorShouldSleep", "sensorShouldWork", "shouldDeviceSleep",
                 "formattingStorage"} :
          c # command /\ setControlCommand(c, left, led)
    /\ UNCHANGED <<pin, handler, queue, late, status, history, since>>

Next ==
    \/ Tick \/ \E t \in Timers : Expire(t)
    \/ Edge \/ EdgeUnstopped \/ EdgeUnstarted
    \/ Handle \/ otherCommand

\* Time passes, and the main loop goes on.  Nobody has to press the button.
Spec ==
    /\ Init /\ [][Next]_vars
    /\ WF_vars(Tick) /\ WF_vars(Handle)
    /\ \A t \in Timers : WF_vars(Expire(t))

-----------------------------------------------------------------------------
\* A press or release is reported once the button has been held in the new
\* position for as long as debouncing and the main loop take, if it had been
\* as long in the old one and app_timer did not fail: whatever handlers wait,
\* and also of a device that is started with the button down.  No weaker
\* condition on the old position will do: an edge that falls between the
\* clearing of the transition and the reading of the pin is reported at once,
\* and then takes the next one back (app_button.c:53-55, gpiote_event_handler).
HeldIsReported == steady /\ held = Settled => (status # "released") = down

\* Nothing is formatted by a press that is short: also when a release races
\* the expiry of the timer, whose handler then finds the state of a press that
\* is over, or of the next one (gpio_button_monitoring.c:76-95).  It is not
\* the time that a format is to take, see HeldLongEnough.
FormatIsHeld == status = "veryLong" => since >= LongPush

\* The device shows that it is awake: the LED goes on and off again and
\* again, also after the pattern of a press and after a sleep
\* (gpio_led_driver.c:44-80, 116-134); unless its command to sleep was
\* overtaken by the nested one of a full storage, whose LED the outer half
\* then puts out (senstick_data_model.c:212).
Resting    == status = "released" /\ command # "shouldDeviceSleep" /\ ~overtaken
SignOfLife == []<>(led.lit \/ ~Resting) /\ []<>(~led.lit \/ ~Resting)

-----------------------------------------------------------------------------
(* What the source says, and the code does not do.                         *)

\* A press is a long one after 2 s, and one that formats after 5 s
\* (gpio_button_monitoring.c:18-21, senstick_data_model.c:332, 337).  Not so
\* when erasures hold up the main loop for longer than the debouncing takes:
\* the handlers of an edge that was taken back and of the timer of the press
\* before then wait together.
HeldLongEnough ==
    /\ status = "long" => since >= LongPush
    /\ status = "veryLong" => since >= Longest

\* A device that sleeps has its LED off ("stop the timer, LED off",
\* gpio_led_driver.c:120).  Not so when the handler of the timer waits in the
\* scheduler as the timer is stopped.
AsleepIsDark == command = "shouldDeviceSleep" => ~led.lit
=============================================================================
