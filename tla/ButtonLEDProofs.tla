--------------------------- MODULE ButtonLEDProofs ---------------------------
(***************************************************************************)
(* Proofs about ButtonLED: its types, that what the button settles in is   *)
(* reported, for any delays, periods and latency of the main loop, and     *)
(* that no short press formats the storage as long as the latency is below *)
(* the durations of a press.                                               *)
(***************************************************************************)
EXTENDS ButtonLED, SequenceTheorems, TLAPS

Commands == {"sensorShouldSleep", "sensorShouldWork", "shouldDeviceSleep"}
Handlers == {"idle", "cleared", "down", "up"}
Leds == [lit : BOOLEAN, blinks : 0 .. 3, blank : 0 .. Blank, even : BOOLEAN]

\* While the pause is counted down, before it is set again.
Counting == [lit : BOOLEAN, blinks : 0 .. 3, blank : Int, even : BOOLEAN]

\* Timers that run have at most their durations left.
LeftOK(l) ==
    /\ l \in [Timers -> Int]
    /\ l["detect"] \in Off .. DetectionDelay
    /\ l["push"] \in (Off .. LongPush) \cup (Off .. VeryLongPush)
    /\ l["led"] \in Off .. LedPeriod

\* The types, with left as a function.
TypesOK ==
    /\ down \in BOOLEAN /\ transition \in BOOLEAN /\ pinDown \in BOOLEAN
    /\ handler \in Handlers
    /\ LeftOK(left)
    /\ queue \in Seq(Timers) /\ late \in 0 .. Latency
    /\ status \in Statuses /\ command \in Commands /\ led \in Leds
    /\ held \in Off .. Settled /\ steady \in BOOLEAN
    /\ since \in 0 .. Longest /\ overtaken \in BOOLEAN

Waits(q, t) == \E i \in 1 .. Len(q) : q[i] = t
Once(q, t)  == \A i, j \in 1 .. Len(q) : q[i] = t /\ q[j] = t => i = j

\* An edge that is to be reported has its timer running or waiting.
EdgesAreTimed ==
    held # Off /\ transition =>
       \/ left["detect"] # Off /\ left["detect"] + held = DetectionDelay
       \/ Waits(queue, "detect") /\ held <= DetectionDelay + late

\* app_button reports an edge before the button has settled.
HandlerIsTimely == handler # "idle" => held <= DetectionDelay + Latency

\* What was a settled button until its last edge is reported as it is now.
EdgeIsReported ==
    steady =>
       /\ held # Off
       /\ handler = "idle" => IF transition THEN pinDown = down
                              ELSE (status # "released") = down
       /\ handler # "idle" => ~transition /\ pinDown = down
       /\ handler \in {"down", "up"} => (handler = "down") = down

IInv == TypesOK /\ EdgesAreTimed /\ HandlerIsTimely /\ EdgeIsReported

-----------------------------------------------------------------------------
LEMMA StartTypes ==
    ASSUME NEW l, LeftOK(l)
    PROVE  /\ LeftOK(Start(l, "push", LongPush))
           /\ LeftOK(Start(l, "push", VeryLongPush))
           /\ LeftOK(Start(l, "led", LedPeriod))
           /\ LeftOK([l EXCEPT !["detect"] = DetectionDelay])
  BY ButtonAssumption DEF LeftOK, Start, Timers, Off

LEMMA StopTypes ==
    ASSUME NEW l, LeftOK(l), NEW t \in Timers
    PROVE  LeftOK(Stop(l, t))
  BY ButtonAssumption DEF LeftOK, Stop, Timers, Off

LEMMA BlankTypes == Blank \in Nat /\ Blank \in 0 .. Blank
  <1>1. Blank \in Nat \ {0}
    BY ButtonAssumption
  <1>. QED
    BY <1>1

LEMMA NumberTypes ==
    /\ DetectionDelay \in Nat /\ LongPush \in Nat /\ VeryLongPush \in Nat
    /\ DetectionDelay > 0 /\ LongPush > 0 /\ VeryLongPush > 0
    /\ LedPeriod \in Nat /\ LedPeriod > 0 /\ Latency \in Nat
    /\ Longest = LongPush + VeryLongPush /\ Longest \in Nat
    /\ Settled = DetectionDelay + Latency + 1 /\ Settled \in Nat
  <1>1. /\ {DetectionDelay, LongPush, VeryLongPush, LedPeriod} \subseteq Nat \ {0}
        /\ Latency \in Nat
    BY ButtonAssumption
  <1>. QED
    BY <1>1 DEF Longest, Settled

LEMMA FieldTypes ==
    ASSUME NEW d \in Counting
    PROVE  /\ \A b \in BOOLEAN : /\ [d EXCEPT !.lit = b] \in Counting
                                 /\ [d EXCEPT !.even = b] \in Counting
           /\ \A n \in 0 .. 3 : [d EXCEPT !.blinks = n] \in Counting
           /\ \A n \in Int : [d EXCEPT !.blank = n] \in Counting
           /\ \A n \in 0 .. Blank : [d EXCEPT !.blank = n] \in Leds
  <1>1. ASSUME NEW b \in BOOLEAN PROVE [d EXCEPT !.lit = b] \in Counting
    BY DEF Counting
  <1>2. ASSUME NEW b \in BOOLEAN PROVE [d EXCEPT !.even = b] \in Counting
    BY DEF Counting
  <1>3. ASSUME NEW n \in 0 .. 3 PROVE [d EXCEPT !.blinks = n] \in Counting
    BY DEF Counting
  <1>4. ASSUME NEW n \in Int PROVE [d EXCEPT !.blank = n] \in Counting
    BY DEF Counting
  <1>5. ASSUME NEW n \in 0 .. Blank PROVE [d EXCEPT !.blank = n] \in Leds
    BY DEF Leds, Counting
  <1>. QED
    BY <1>1, <1>2, <1>3, <1>4, <1>5

LEMMA LedsAreCounting == /\ \A d \in Leds : d \in Counting
                         /\ \A d \in Counting : d.blank \in 0 .. Blank => d \in Leds
  BY ButtonAssumption DEF Leds, Counting

LEMMA BlinkTypes ==
    ASSUME NEW d \in Counting, NEW n \in 0 .. 3
    PROVE  startBlinking(d, n) \in Leds
  <1>1. [d EXCEPT !.even = TRUE] \in Counting
    BY FieldTypes
  <1>2. [d EXCEPT !.even = TRUE, !.blinks = n] \in Counting
    BY <1>1, FieldTypes
  <1>3. [d EXCEPT !.even = TRUE, !.blinks = n, !.blank = Blank] \in Leds
    BY <1>2, FieldTypes, BlankTypes
  <1>. QED
    BY <1>3 DEF startBlinking

LEMMA CommandTypes ==
    ASSUME NEW c \in Commands \cup {"formattingStorage"}, NEW l, LeftOK(l),
           led \in Leds, command \in Commands, overtaken \in BOOLEAN,
           setControlCommand(c, l, led)
    PROVE  /\ command' \in Commands /\ LeftOK(left') /\ led' \in Leds
           /\ overtaken' \in BOOLEAN
           /\ left'["push"] = l["push"] /\ left'["detect"] = l["detect"]
  <1>1. ASSUME NEW m, LeftOK(m), NEW e
        PROVE  /\ LeftOK(LedTimer(m, e))
               /\ LedTimer(m, e)["push"] = m["push"]
               /\ LedTimer(m, e)["detect"] = m["detect"]
    <2>1. "led" \in Timers
      BY DEF Timers
    <2>2. LeftOK(LedTimer(m, e))
      BY <1>1, <2>1, StartTypes, StopTypes DEF LedTimer
    <2>. QED
      BY <1>1, <2>2 DEF LedTimer, Start, Stop, LeftOK, Timers
  <1>2. ASSUME NEW m, NEW e PROVE LedFor(led, m, e) \in Leds
    BY DEF LedFor, Leds
  <1>3. CASE c = command /\ left' = l /\ led' = led /\ UNCHANGED <<command, overtaken>>
    BY <1>3
  <1>4. CASE c # command
    <2>1. PICK full \in BOOLEAN :
             LET nested == IF full THEN LedTimer(l, "sensorShouldSleep") ELSE l
             IN  /\ command' = IF full \/ c = "formattingStorage"
                               THEN "sensorShouldSleep" ELSE c
                 /\ left' = LedTimer(nested, c)
                 /\ led' = LedFor(led, nested, c)
                 /\ overtaken' = full
      BY <1>4, Zenon DEF setControlCommand
    <2>. DEFINE nested == IF full THEN LedTimer(l, "sensorShouldSleep") ELSE l
    <2>2. /\ LeftOK(nested) /\ nested["push"] = l["push"]
          /\ nested["detect"] = l["detect"]
      BY <1>1
    <2>3. left' = LedTimer(nested, c) /\ led' = LedFor(led, nested, c)
      BY <2>1
    <2>4. command' \in Commands /\ overtaken' \in BOOLEAN
      BY <2>1 DEF Commands
    <2>. HIDE DEF nested
    <2>. QED
      BY <1>1, <1>2, <2>2, <2>3, <2>4
  <1>. QED
    BY <1>3, <1>4 DEF setControlCommand

LEMMA ReleasedTypes ==
    ASSUME TypesOK, buttonIsReleased
    PROVE  /\ command' \in Commands /\ LeftOK(left') /\ led' \in Leds
           /\ status' = "released" /\ since' = since /\ overtaken' \in BOOLEAN
           /\ left'["push"] = Off /\ left'["detect"] = left["detect"]
  <1>1. CommandsOf(status) \subseteq Commands \cup {"formattingStorage"}
    BY DEF TypesOK, CommandsOf, Commands, Statuses
  <1>2. /\ LeftOK(Stop(left, "push")) /\ Stop(left, "push")["push"] = Off
        /\ Stop(left, "push")["detect"] = left["detect"]
    BY StopTypes DEF TypesOK, Timers, Stop, LeftOK
  <1>3. PICK c \in CommandsOf(status) :
            setControlCommand(c, Stop(left, "push"), led)
    BY DEF buttonIsReleased
  <1>4. /\ command' \in Commands /\ LeftOK(left') /\ led' \in Leds
        /\ overtaken' \in BOOLEAN
        /\ left'["push"] = Off /\ left'["detect"] = left["detect"]
    BY <1>1, <1>2, <1>3, CommandTypes DEF TypesOK
  <1>. QED
    BY <1>4 DEF buttonIsReleased

LEMMA PushedTypes ==
    ASSUME TypesOK, buttonIsPushed
    PROVE  /\ command' \in Commands /\ LeftOK(left') /\ led' \in Leds
           /\ status' = "push" /\ overtaken' \in BOOLEAN
           /\ since' = IF status = "released" THEN 0 ELSE since
           /\ since' \in 0 .. Longest
           /\ left'["push"] = IF left["push"] = Off THEN LongPush ELSE left["push"]
           /\ left'["detect"] = left["detect"]
  <1>1. LeftOK(Start(left, "push", LongPush))
    BY StartTypes DEF TypesOK
  <1>2. startBlinking(led, 1) \in Leds
    BY BlinkTypes, LedsAreCounting DEF TypesOK
  <1>3. /\ status' = "push" /\ left' = Start(left, "push", LongPush)
        /\ led' = startBlinking(led, 1) /\ command' = command
        /\ overtaken' = overtaken
        /\ since' = IF status = "released" THEN 0 ELSE since
    BY Zenon DEF buttonIsPushed
  <1>4. since' \in 0 .. Longest
    BY <1>3, NumberTypes DEF TypesOK
  <1>5. /\ left'["push"] = IF left["push"] = Off THEN LongPush ELSE left["push"]
        /\ left'["detect"] = left["detect"]
    BY <1>3 DEF TypesOK, Start, LeftOK, Timers
  <1>. QED
    BY <1>1, <1>2, <1>3, <1>4, <1>5 DEF TypesOK

LEMMA NextBlinkTypes ==
    ASSUME NEW d \in Counting
    PROVE  updateNextBlink(d) \in Leds
  <1>1. /\ startBlinking(d, 2) \in Leds /\ startBlinking(d, 1) \in Leds
    BY BlinkTypes
  <1>2. [d EXCEPT !.blank = Blank] \in Leds
    BY FieldTypes, BlankTypes
  <1>. QED
    BY <1>1, <1>2, Zenon DEF updateNextBlink

LEMMA LedHandlerTypes ==
    ASSUME TypesOK, led_timer_handler
    PROVE  led' \in Leds
  <1>. DEFINE counted == [led EXCEPT !.blank = @ - 1]
              shown   == [led EXCEPT !.lit = led.even]
              turned  == [shown EXCEPT !.even = ~@]
              blinked == [turned EXCEPT !.blinks = IF led.even THEN @ ELSE @ - 1]
  <1>1. /\ led \in Leds /\ led \in Counting /\ led.even \in BOOLEAN
        /\ led.blinks \in 0 .. 3 /\ led.blank \in 0 .. Blank
        /\ led.blank - 1 \in Int /\ (led.blank > 1 => led.blank - 1 \in 0 .. Blank)
    <2>1. /\ led \in Leds /\ led.even \in BOOLEAN
          /\ led.blinks \in 0 .. 3 /\ led.blank \in 0 .. Blank
      BY DEF TypesOK, Leds
    <2>. QED
      BY <2>1, BlankTypes, LedsAreCounting
  <1>2. CASE led.blinks = 0
    <2>1. led' = IF led.blank > 1 THEN counted ELSE updateNextBlink(counted)
      BY <1>2, Zenon DEF led_timer_handler
    <2>2. counted \in Counting
      BY <1>1, FieldTypes
    <2>3. updateNextBlink(counted) \in Leds
      BY <2>2, NextBlinkTypes
    <2>4. led.blank > 1 => counted \in Leds
      BY <1>1, FieldTypes
    <2>. HIDE DEF counted
    <2>. QED
      BY <2>1, <2>3, <2>4
  <1>3. CASE led.blinks # 0
    <2>1. led' = [lit |-> led.even, blank |-> led.blank, even |-> ~led.even,
                  blinks |-> IF led.even THEN led.blinks ELSE led.blinks - 1]
      <3>1. led' = blinked
        BY <1>3 DEF led_timer_handler
      <3>. QED
        BY <1>1, <3>1 DEF Leds
    <2>2. (IF led.even THEN led.blinks ELSE led.blinks - 1) \in 0 .. 3
      BY <1>1, <1>3
    <2>. QED
      BY <1>1, <2>1, <2>2 DEF Leds
  <1>. QED
    BY <1>2, <1>3

LEMMA PressHandlerTypes ==
    ASSUME TypesOK, timer_handler
    PROVE  /\ LeftOK(left') /\ led' \in Leds /\ status' \in Statuses
           /\ (status' # "released") = (status # "released")
           /\ left'["detect"] = left["detect"]
  <1>1. LeftOK(left) /\ led \in Leds
    BY DEF TypesOK
  <1>2. CASE status = "push"
    <2>1. /\ status' = "long"
          /\ left' = Start(left, "push", VeryLongPush)
          /\ led' = startBlinking(led, 2)
      BY <1>2 DEF timer_handler
    <2>2. startBlinking(led, 2) \in Leds
      BY <1>1, BlinkTypes, LedsAreCounting
    <2>3. LeftOK(left') /\ left'["detect"] = left["detect"]
      BY <1>1, <2>1, StartTypes DEF Start, LeftOK, Timers
    <2>. QED
      BY <1>2, <2>1, <2>2, <2>3 DEF Statuses
  <1>3. CASE status = "long"
    <2>1. /\ status' = "veryLong" /\ left' = left
          /\ led' = startBlinking(led, 3)
      BY <1>3 DEF timer_handler
    <2>2. startBlinking(led, 3) \in Leds
      BY <1>1, BlinkTypes, LedsAreCounting
    <2>. QED
      BY <1>1, <1>3, <2>1, <2>2 DEF Statuses
  <1>4. CASE status \in {"released", "veryLong"}
    BY <1>1, <1>4 DEF timer_handler, Statuses
  <1>. QED
    BY <1>2, <1>3, <1>4 DEF TypesOK, Statuses

-----------------------------------------------------------------------------
LEMMA AppendWaits ==
    ASSUME NEW q \in Seq(Timers), NEW s \in Timers, NEW t \in Timers
    PROVE  /\ Waits(Append(q, s), t) <=> (Waits(q, t) \/ s = t)
           /\ Once(q, t) /\ ~(Waits(q, t) /\ s = t) => Once(Append(q, s), t)
  <1>. DEFINE r == Append(q, s)
  <1>1. /\ Len(q) \in Nat /\ Len(r) = Len(q) + 1
        /\ \A i \in 1 .. Len(q) : r[i] = q[i]
        /\ r[Len(q) + 1] = s
    BY AppendProperties
  <1>. HIDE DEF r
  <1>2. /\ \A i \in 1 .. Len(q) : i \in 1 .. Len(r) /\ i < Len(r)
        /\ \A i \in 1 .. Len(r) : i \in 1 .. Len(q) \/ i = Len(q) + 1
        /\ Len(q) + 1 \in 1 .. Len(r)
    BY <1>1
  <1>3. /\ Waits(r, t) <=> (Waits(q, t) \/ s = t)
        /\ Once(q, t) /\ ~(Waits(q, t) /\ s = t) => Once(r, t)
    BY <1>1, <1>2 DEF Waits, Once
  <1>. QED
    BY <1>3 DEF r

LEMMA TailWaits ==
    ASSUME NEW q \in Seq(Timers), q # <<>>, NEW t \in Timers
    PROVE  /\ Waits(Tail(q), t) => Waits(q, t)
           /\ Waits(q, t) /\ Head(q) # t => Waits(Tail(q), t)
           /\ Once(q, t) => Once(Tail(q), t)
           /\ Once(q, t) /\ Head(q) = t => ~Waits(Tail(q), t)
           /\ Head(q) = t => Waits(q, t)
  <1>. DEFINE r == Tail(q)
  <1>1. /\ Len(q) \in Nat /\ Len(q) # 0 /\ Len(r) = Len(q) - 1
        /\ \A i \in 1 .. Len(r) : r[i] = q[i + 1]
        /\ Head(q) = q[1]
    BY EmptySeq, HeadTailProperties
  <1>. HIDE DEF r
  <1>2. /\ 1 \in 1 .. Len(q)
        /\ \A i \in 1 .. Len(r) : i + 1 \in 1 .. Len(q) /\ i + 1 # 1
        /\ \A i \in 1 .. Len(q) : i = 1 \/ (i - 1 \in 1 .. Len(r) /\ r[i - 1] = q[i])
    BY <1>1
  <1>3. /\ Waits(r, t) => Waits(q, t)
        /\ Waits(q, t) /\ Head(q) # t => Waits(r, t)
        /\ Once(q, t) => Once(r, t)
        /\ Once(q, t) /\ Head(q) = t => ~Waits(r, t)
        /\ Head(q) = t => Waits(q, t)
    BY <1>1, <1>2 DEF Waits, Once
  <1>. QED
    BY <1>3 DEF r

-----------------------------------------------------------------------------
LEMMA InitIInv == Init => IInv
  <1>. SUFFICES ASSUME Init PROVE IInv
    OBVIOUS
  <1>1. LeftOK(left)
    BY NumberTypes DEF Init, LeftOK, Timers, Off
  <1>2. led \in Leds
    BY ButtonAssumption DEF Init, Leds
  <1>3. queue \in Seq(Timers)
    BY EmptySeq DEF Init
  <1>4. /\ late \in 0 .. Latency /\ since \in 0 .. Longest
        /\ held \in Off .. Settled
    BY NumberTypes DEF Init, Off
  <1>5. command \in Commands /\ status \in Statuses /\ handler \in Handlers
    BY DEF Init, Commands, Statuses, Handlers
  <1>6. TypesOK
    BY <1>1, <1>2, <1>3, <1>4, <1>5 DEF TypesOK, Init
  <1>. QED
    BY <1>6 DEF IInv, EdgesAreTimed, HandlerIsTimely, EdgeIsReported, Init

LEMMA EdgeIInv ==
    ASSUME IInv, Edge
    PROVE  IInv'
  <1>1. TypesOK /\ LeftOK(left) /\ "detect" \in Timers
    BY DEF IInv, TypesOK, Timers
  <1>2. TypesOK'
    <2>1. LeftOK(left')
      BY <1>1, StartTypes, StopTypes DEF Edge
    <2>2. held' \in Off .. Settled /\ steady' \in BOOLEAN
      BY NumberTypes DEF Edge, Off
    <2>. QED
      BY <1>1, <2>1, <2>2 DEF TypesOK, Edge
  <1>3. EdgesAreTimed'
    <2>1. transition' => left'["detect"] = DetectionDelay /\ held' = 0
      BY <1>1 DEF Edge, LeftOK, TypesOK
    <2>. QED
      BY <2>1, NumberTypes DEF EdgesAreTimed, Off
  <1>4. HandlerIsTimely'
    BY NumberTypes DEF Edge, HandlerIsTimely
  <1>5. EdgeIsReported'
    <2>. SUFFICES ASSUME steady' PROVE EdgeIsReported'
      BY DEF EdgeIsReported
    <2>1. held = Settled
      BY DEF Edge
    <2>2. handler = "idle"
      BY <2>1, NumberTypes DEF IInv, HandlerIsTimely
    <2>3. ~transition
      <3>1. held # Off /\ left["detect"] \in Int /\ left["detect"] >= Off /\ late <= Latency
        BY <1>1, <2>1, NumberTypes DEF TypesOK, LeftOK, Off
      <3>2. late \in Int
        BY <1>1, NumberTypes DEF TypesOK
      <3>. QED
        BY <2>1, <3>1, <3>2, NumberTypes DEF IInv, EdgesAreTimed, Off
    <2>. QED
      BY <1>1, <2>2, <2>3 DEF Edge, EdgeIsReported, TypesOK, Off
  <1>. QED
    BY <1>2, <1>3, <1>4, <1>5 DEF IInv

\* As app_timer fails, nothing is said of what the edge leads to.
LEMMA FailedEdgeIInv ==
    ASSUME IInv, EdgeUnstopped \/ EdgeUnstarted
    PROVE  IInv'
  <1>1. /\ TypesOK /\ LeftOK(left) /\ "detect" \in Timers
        /\ held' = Off /\ steady' = FALSE
    BY DEF IInv, TypesOK, Timers, EdgeUnstopped, EdgeUnstarted
  <1>2. LeftOK(left')
    BY <1>1, StopTypes DEF EdgeUnstopped, EdgeUnstarted
  <1>3. TypesOK'
    <2>1. /\ UNCHANGED <<handler, queue, late, status, command, led, since, overtaken>>
          /\ {down', transition', pinDown'} \subseteq BOOLEAN
      BY <1>1 DEF TypesOK, EdgeUnstopped, EdgeUnstarted
    <2>2. held' \in Off .. Settled
      BY <1>1, NumberTypes DEF Off
    <2>. QED
      BY <1>1, <1>2, <2>1, <2>2 DEF TypesOK
  <1>4. EdgesAreTimed' /\ EdgeIsReported'
    BY <1>1, Zenon DEF EdgesAreTimed, EdgeIsReported
  <1>5. HandlerIsTimely'
    BY <1>1, NumberTypes DEF HandlerIsTimely, Off
  <1>. QED
    BY <1>3, <1>4, <1>5 DEF IInv

LEMMA CountdownTypes ==
    ASSUME NEW n \in Nat, NEW x \in Off .. n, x # 0
    PROVE  (IF x = Off THEN Off ELSE x - 1) \in Off .. n
  BY DEF Off


LEMMA TickIInv ==
    ASSUME IInv, Tick
    PROVE  IInv'
  <1>. DEFINE next(t) == IF left[t] = Off THEN Off ELSE left[t] - 1
  <1>1. /\ TypesOK /\ LeftOK(left) /\ left' = [t \in Timers |-> next(t)]
        /\ \A t \in Timers : left[t] # 0
        /\ {"detect", "push", "led"} = Timers
    BY DEF IInv, TypesOK, Tick, Timers
  <1>2. LeftOK(left')
    <2>1. next("detect") \in Off .. DetectionDelay
      BY <1>1, NumberTypes, CountdownTypes DEF LeftOK
    <2>2. next("led") \in Off .. LedPeriod
      BY <1>1, NumberTypes, CountdownTypes DEF LeftOK
    <2>3. next("push") \in (Off .. LongPush) \cup (Off .. VeryLongPush)
      <3>1. CASE left["push"] \in Off .. LongPush
        BY <3>1, <1>1, NumberTypes, CountdownTypes
      <3>2. CASE left["push"] \in Off .. VeryLongPush
        BY <3>2, <1>1, NumberTypes, CountdownTypes
      <3>. QED
        BY <1>1, <3>1, <3>2 DEF LeftOK
    <2>4. \A t \in Timers : next(t) \in Int
      BY <1>1 DEF LeftOK, Off
    <2>. HIDE DEF next
    <2>. QED
      BY <1>1, <2>1, <2>2, <2>3, <2>4 DEF LeftOK
  <1>3. /\ since' \in 0 .. Longest
        /\ held' \in Off .. Settled /\ held' <= held + 1
        /\ (held = Off) = (held' = Off)
        /\ held # Off /\ held < Settled => held' = held + 1
    <2>1. /\ held \in Off .. Settled /\ since \in 0 .. Longest
          /\ held' = Counted(held, Settled) /\ since' = Counted(since, Longest)
      BY <1>1 DEF TypesOK, Tick
    <2>2. since' \in 0 .. Longest
      BY <2>1, NumberTypes DEF Counted
    <2>3. /\ held' \in Off .. Settled /\ held' <= held + 1
          /\ (held = Off) = (held' = Off)
          /\ held # Off /\ held < Settled => held' = held + 1
      BY <2>1, NumberTypes DEF Counted, Off
    <2>. QED
      BY <2>2, <2>3
  <1>4. late' \in 0 .. Latency
    BY <1>1, NumberTypes DEF TypesOK, Tick
  <1>5. TypesOK'
    BY <1>1, <1>2, <1>3, <1>4 DEF TypesOK, Tick, pin
  <1>6. EdgesAreTimed'
    <2>. SUFFICES ASSUME held' # Off, transition' PROVE EdgesAreTimed'
      BY DEF EdgesAreTimed
    <2>1. /\ held # Off /\ transition /\ held \in Int /\ late \in Int
          /\ left["detect"] \in Int /\ left["detect"] >= Off /\ left["detect"] # 0
          /\ UNCHANGED queue
      BY <1>1, <1>3, NumberTypes DEF Tick, pin, TypesOK, LeftOK, Off
    <2>2. CASE left["detect"] # Off /\ left["detect"] + held = DetectionDelay
      <3>1. held < Settled
        BY <2>1, <2>2, NumberTypes DEF Off
      <3>2. left'["detect"] = left["detect"] - 1
        BY <1>1, <2>2
      <3>. QED
        BY <1>3, <2>1, <2>2, <3>1, <3>2 DEF EdgesAreTimed, Off
    <2>3. CASE Waits(queue, "detect") /\ held <= DetectionDelay + late
      <3>1. late' = late + 1
        BY <2>3, EmptySeq DEF Waits, Tick
      <3>. QED
        BY <1>3, <2>1, <2>3, <3>1, <1>5, NumberTypes DEF EdgesAreTimed, TypesOK, Off
    <2>. QED
      BY <2>1, <2>2, <2>3 DEF IInv, EdgesAreTimed
  <1>7. HandlerIsTimely' /\ EdgeIsReported'
    BY <1>3 DEF IInv, Tick, pin, HandlerIsTimely, EdgeIsReported
  <1>. QED
    BY <1>5, <1>6, <1>7 DEF IInv

LEMMA ExpireIInv ==
    ASSUME IInv, NEW t \in Timers, Expire(t)
    PROVE  IInv'
  <1>1. /\ TypesOK /\ LeftOK(left) /\ queue \in Seq(Timers)
        /\ queue' = Append(queue, t) /\ "detect" \in Timers
    BY DEF IInv, TypesOK, Expire, Timers
  <1>2. LeftOK(left')
    BY <1>1, NumberTypes, SMTT(30) DEF Expire, LeftOK, Timers, Off
  <1>3. TypesOK'
    BY <1>1, <1>2, AppendProperties DEF TypesOK, Expire, pin, history
  <1>4. EdgesAreTimed'
    <2>1. Waits(queue', "detect") <=> (Waits(queue, "detect") \/ t = "detect")
      BY <1>1, AppendWaits
    <2>2. /\ t # "detect" => left'["detect"] = left["detect"]
          /\ t = "detect" => left["detect"] = 0
          /\ UNCHANGED <<transition, held, late>>
          /\ held \in Int /\ late \in Int /\ late >= 0
      BY <1>1, NumberTypes DEF Expire, LeftOK, pin, history, TypesOK, Off
    <2>3. t = "detect" /\ held # Off /\ transition =>
             Waits(queue', "detect") /\ held <= DetectionDelay + late
      BY <2>1, <2>2, NumberTypes DEF IInv, EdgesAreTimed, Off
    <2>. QED
      BY <2>1, <2>2, <2>3 DEF IInv, EdgesAreTimed
  <1>5. HandlerIsTimely' /\ EdgeIsReported'
    BY DEF IInv, Expire, pin, history, HandlerIsTimely, EdgeIsReported
  <1>. QED
    BY <1>3, <1>4, <1>5 DEF IInv

LEMMA MainLoopIInv ==
    ASSUME IInv, mainLoop
    PROVE  IInv'
  <1>1. /\ TypesOK /\ LeftOK(left) /\ queue \in Seq(Timers) /\ queue # <<>>
        /\ queue' = Tail(queue) /\ "detect" \in Timers
        /\ handler = "idle" /\ UNCHANGED <<down, pinDown, held, steady>>
        /\ UNCHANGED <<command, since, overtaken>>
    <2>1. TypesOK /\ queue \in Seq(Timers) /\ queue # <<>>
      BY DEF IInv, TypesOK, mainLoop
    <2>2. /\ queue' = Tail(queue) /\ handler = "idle"
          /\ UNCHANGED <<down, pinDown, held, steady>>
      BY DEF mainLoop, history
    <2>3. Head(queue) \in {"led", "push", "detect"}
      BY <2>1, HeadTailProperties DEF Timers
    <2>4. UNCHANGED <<command, since, overtaken>>
      BY <2>3, Zenon DEF mainLoop, led_timer_handler, timer_handler,
                         detection_delay_timeout_handler
    <2>. QED
      BY <2>1, <2>2, <2>4 DEF TypesOK, Timers
  <1>2. /\ queue' \in Seq(Timers) /\ late' \in 0 .. Latency
        /\ Head(queue) \in Timers
        /\ Waits(queue', "detect") => late' = late
    <2>1. Waits(queue', "detect") => queue' # <<>>
      BY EmptySeq DEF Waits
    <2>. QED
      BY <1>1, <2>1, HeadTailProperties, NumberTypes DEF TypesOK, mainLoop
  <1>3. ASSUME Head(queue) # "detect", UNCHANGED <<transition, handler>>,
               LeftOK(left'), led' \in Leds, status' \in Statuses,
               (status' # "released") = (status # "released"),
               left'["detect"] = left["detect"]
        PROVE  IInv'
    <2>1. TypesOK'
      BY <1>1, <1>2, <1>3 DEF TypesOK
    <2>2. Waits(queue, "detect") => Waits(queue', "detect")
      BY <1>1, <1>3, TailWaits
    <2>3. EdgesAreTimed'
      BY <1>1, <1>2, <1>3, <2>2 DEF IInv, EdgesAreTimed
    <2>4. HandlerIsTimely' /\ EdgeIsReported'
      BY <1>1, <1>3 DEF IInv, HandlerIsTimely, EdgeIsReported
    <2>. QED
      BY <2>1, <2>3, <2>4 DEF IInv
  <1>4. CASE Head(queue) = "led"
    <2>1. led_timer_handler /\ transition' = transition
      BY <1>4 DEF mainLoop
    <2>2. UNCHANGED <<handler, left, status>>
      BY <2>1 DEF led_timer_handler
    <2>. QED
      BY <1>1, <1>3, <1>4, <2>1, <2>2, LedHandlerTypes DEF TypesOK
  <1>5. CASE Head(queue) = "push"
    <2>1. timer_handler /\ transition' = transition
      BY <1>5 DEF mainLoop
    <2>2. handler' = handler
      BY <2>1 DEF timer_handler
    <2>. QED
      BY <1>1, <1>3, <1>5, <2>1, <2>2, PressHandlerTypes
  <1>6. CASE Head(queue) = "detect"
    <2>1. /\ transition' = FALSE /\ UNCHANGED <<left, status, led>>
          /\ handler' = IF transition THEN "cleared" ELSE "idle"
      BY <1>1, <1>6 DEF mainLoop, detection_delay_timeout_handler
    <2>2. TypesOK'
      BY <1>1, <1>2, <2>1 DEF TypesOK, Handlers
    <2>3. EdgesAreTimed'
      BY <2>1 DEF EdgesAreTimed
    <2>4. HandlerIsTimely'
      <3>1. /\ left["detect"] \in Int /\ left["detect"] >= Off
            /\ held \in Int /\ late \in Int /\ late <= Latency
        BY <1>1, NumberTypes DEF TypesOK, LeftOK, Off
      <3>. QED
        BY <1>1, <2>1, <3>1, NumberTypes
           DEF IInv, EdgesAreTimed, HandlerIsTimely, Off
    <2>5. EdgeIsReported'
      BY <1>1, <2>1 DEF IInv, EdgeIsReported, TypesOK
    <2>. QED
      BY <2>2, <2>3, <2>4, <2>5 DEF IInv
  <1>. QED
    BY <1>2, <1>4, <1>5, <1>6 DEF Timers

LEMMA ReadPinIInv ==
    ASSUME IInv, readPin
    PROVE  IInv'
  <1>1. /\ TypesOK /\ handler = "cleared" /\ handler' = IF down THEN "down" ELSE "up"
        /\ UNCHANGED <<down, transition, pinDown, left, queue, late, status,
                       command, led, held, steady, since, overtaken>>
    BY DEF IInv, readPin, pin, history
  <1>2. TypesOK' /\ EdgesAreTimed'
    BY <1>1 DEF IInv, TypesOK, Handlers, EdgesAreTimed
  <1>3. HandlerIsTimely'
    BY <1>1 DEF IInv, HandlerIsTimely
  <1>4. EdgeIsReported'
    BY <1>1 DEF IInv, EdgeIsReported, TypesOK
  <1>. QED
    BY <1>2, <1>3, <1>4 DEF IInv

LEMMA ReportIInv ==
    ASSUME IInv, report
    PROVE  IInv'
  <1>1. /\ TypesOK /\ handler \in {"down", "up"} /\ handler' = "idle"
        /\ UNCHANGED <<down, transition, pinDown, queue, late, held, steady>>
    BY DEF IInv, report, pin, history
  <1>2. CASE pinDown # (handler = "down")
    <2>1. UNCHANGED <<left, status, command, led, since, overtaken>>
      BY <1>2 DEF report
    <2>2. TypesOK' /\ EdgesAreTimed'
      BY <1>1, <2>1 DEF IInv, TypesOK, Handlers, EdgesAreTimed
    <2>3. HandlerIsTimely' /\ EdgeIsReported'
      BY <1>1, <1>2 DEF IInv, HandlerIsTimely, EdgeIsReported
    <2>. QED
      BY <2>2, <2>3 DEF IInv
  <1>3. CASE pinDown = (handler = "down")
    <2>1. /\ command' \in Commands /\ LeftOK(left') /\ led' \in Leds
          /\ overtaken' \in BOOLEAN /\ since' \in 0 .. Longest
          /\ left'["detect"] = left["detect"]
          /\ status' = IF handler = "down" THEN "push" ELSE "released"
      <3>1. CASE handler = "down"
        BY <1>1, <1>3, <3>1, PushedTypes DEF report
      <3>2. CASE handler # "down"
        <4>1. buttonIsReleased
          BY <1>3, <3>2 DEF report
        <4>. QED
          BY <1>1, <3>2, <4>1, ReleasedTypes DEF TypesOK
      <3>. QED
        BY <3>1, <3>2
    <2>2. TypesOK'
      BY <1>1, <2>1 DEF TypesOK, Handlers, Statuses
    <2>3. EdgesAreTimed'
      BY <1>1, <2>1 DEF IInv, EdgesAreTimed
    <2>4. HandlerIsTimely'
      BY <1>1 DEF HandlerIsTimely
    <2>5. EdgeIsReported'
      BY <1>1, <2>1 DEF IInv, EdgeIsReported, TypesOK
    <2>. QED
      BY <2>2, <2>3, <2>4, <2>5 DEF IInv
  <1>. QED
    BY <1>2, <1>3

LEMMA OtherCommandIInv ==
    ASSUME IInv, otherCommand
    PROVE  /\ IInv'
           /\ left'["push"] = left["push"]
           /\ UNCHANGED <<queue, late, status, since>>
  <1>1. PICK c \in Commands \cup {"formattingStorage"} :
            setControlCommand(c, left, led)
    BY DEF otherCommand, Commands
  <1>2. TypesOK /\ UNCHANGED <<down, transition, pinDown, handler, queue, late,
                               status, held, steady, since>>
    BY DEF IInv, otherCommand, pin, history
  <1>3. /\ command' \in Commands /\ LeftOK(left') /\ led' \in Leds
        /\ overtaken' \in BOOLEAN
        /\ left'["push"] = left["push"] /\ left'["detect"] = left["detect"]
    BY <1>1, <1>2, CommandTypes DEF TypesOK
  <1>4. TypesOK' /\ EdgesAreTimed'
    BY <1>2, <1>3 DEF IInv, TypesOK, EdgesAreTimed
  <1>5. HandlerIsTimely' /\ EdgeIsReported'
    BY <1>2 DEF IInv, HandlerIsTimely, EdgeIsReported
  <1>. QED
    BY <1>2, <1>3, <1>4, <1>5 DEF IInv

LEMMA StepIInv == IInv /\ [Next]_vars => IInv'
  <1>. SUFFICES ASSUME IInv, [Next]_vars PROVE IInv'
    OBVIOUS
  <1>1. CASE UNCHANGED vars
    BY <1>1 DEF IInv, TypesOK, EdgesAreTimed, HandlerIsTimely, EdgeIsReported,
                vars, pin, history
  <1>. QED
    BY <1>1, TickIInv, ExpireIInv, EdgeIInv, FailedEdgeIInv, MainLoopIInv,
       ReadPinIInv, ReportIInv, OtherCommandIInv DEF Next, Handle

-----------------------------------------------------------------------------
\* The state of the button, its timers and the LED keeps its types: the
\* countdown of the LED's pause never goes below zero
\* (gpio_led_driver.c:61-70).
THEOREM TypeCorrect == Spec => []TypeOK
  <1>1. IInv => TypeOK
    BY DEF IInv, TypesOK, TypeOK, LeftOK, Leds, Commands, Handlers
  <1>. QED
    BY <1>1, InitIInv, StepIInv, PTL DEF Spec

\* However late the main loop is, however long the debouncing takes, and
\* wherever in app_button's handler the edge falls: once a button has settled
\* that had settled before, the press or release has been reported
\* (app_button.c:42-108, gpio_button_monitoring.c:38-74).
THEOREM SettledIsReported == Spec => []HeldIsReported
  <1>1. IInv => HeldIsReported
    <2>. SUFFICES ASSUME IInv, steady, held = Settled
                  PROVE  (status # "released") = down
      BY DEF HeldIsReported
    <2>1. TypesOK /\ LeftOK(left)
      BY DEF IInv, TypesOK
    <2>2. handler = "idle"
      BY NumberTypes DEF IInv, HandlerIsTimely
    <2>3. ~transition
      <3>1. /\ held # Off /\ late <= Latency /\ late \in Int
            /\ left["detect"] \in Int /\ left["detect"] >= Off
        BY <2>1, NumberTypes DEF TypesOK, LeftOK, Off
      <3>. QED
        BY <3>1, NumberTypes DEF IInv, EdgesAreTimed, Off
    <2>. QED
      BY <2>2, <2>3 DEF IInv, EdgeIsReported
  <1>. QED
    BY <1>1, InitIInv, StepIInv, PTL DEF Spec

-----------------------------------------------------------------------------
(* Nothing is formatted by a short press, as long as the main loop lags    *)
(* less than the timers of a press run.                                    *)

\* The timer runs only while there is a press, and its handler waits at most
\* once: it is started again only when the next expiry is further away than
\* the main loop lags.
PushTimer ==
    /\ status = "released" => left["push"] = Off
    /\ Once(queue, "push")
    /\ Waits(queue, "push") /\ left["push"] # Off =>
          \/ left["push"] + late >= LongPush
          \/ left["push"] + late >= VeryLongPush

\* What is left until the timer expires is what a press lacks, at least.
PushIsHeld ==
    status # "released" =>
       /\ left["push"] # Off => since + left["push"] >= LongPush
       /\ left["push"] = Off => since >= LongPush

\* The expiry that makes a long press a very long one is its own.
LongIsHeld == status = "long" /\ Waits(queue, "push") => since >= LongPush

FInv == IInv /\ PushTimer /\ PushIsHeld /\ LongIsHeld /\ FormatIsHeld

LEMMA InitFInv == Init => FInv
  <1>. SUFFICES ASSUME Init PROVE FInv
    OBVIOUS
  <1>1. queue = <<>> /\ status = "released" /\ left["push"] = Off
    BY DEF Init, Timers
  <1>2. ~Waits(queue, "push") /\ Once(queue, "push")
    BY <1>1, EmptySeq DEF Waits, Once
  <1>. QED
    BY <1>1, <1>2, InitIInv
       DEF FInv, PushTimer, PushIsHeld, LongIsHeld, FormatIsHeld

\* Steps that leave the press, its timer and the queue alone.
LEMMA OtherFInv ==
    ASSUME FInv, IInv', UNCHANGED <<queue, late, status, since>>,
           left'["push"] = left["push"]
    PROVE  FInv'
  BY DEF FInv, PushTimer, PushIsHeld, LongIsHeld, FormatIsHeld

LEMMA TickFInv ==
    ASSUME FInv, Tick
    PROVE  FInv'
  <1>1. /\ IInv' /\ TypesOK /\ LeftOK(left) /\ UNCHANGED <<queue, status>>
        /\ left["push"] \in Int /\ left["push"] >= Off /\ left["push"] # 0
        /\ left'["push"] = IF left["push"] = Off THEN Off ELSE left["push"] - 1
        /\ since \in Nat /\ since <= Longest /\ late \in Nat
    BY TickIInv, NumberTypes DEF FInv, IInv, TypesOK, LeftOK, Tick, Timers, Off
  <1>2. since' = IF since < Longest THEN since + 1 ELSE since
    BY <1>1, NumberTypes DEF Tick, Counted
  <1>3. Waits(queue, "push") => late' = late + 1
    <2>1. Waits(queue, "push") => queue # <<>>
      BY EmptySeq DEF Waits
    <2>. QED
      BY <2>1 DEF Tick
  <1>4. PushTimer'
    BY <1>1, <1>3, NumberTypes DEF FInv, PushTimer, Off
  <1>5. PushIsHeld'
    BY <1>1, <1>2, NumberTypes DEF FInv, PushIsHeld, Off
  <1>6. LongIsHeld' /\ FormatIsHeld'
    BY <1>1, <1>2, NumberTypes DEF FInv, LongIsHeld, FormatIsHeld
  <1>. QED
    BY <1>1, <1>4, <1>5, <1>6 DEF FInv

LEMMA ExpireFInv ==
    ASSUME FInv, NEW t \in Timers, Expire(t),
           Latency < LongPush, Latency < VeryLongPush
    PROVE  FInv'
  <1>1. /\ IInv' /\ TypesOK /\ LeftOK(left) /\ queue \in Seq(Timers)
        /\ left[t] = 0 /\ queue' = Append(queue, t)
        /\ UNCHANGED <<status, since, late>> /\ "push" \in Timers
        /\ since \in Nat /\ late \in Nat /\ late <= Latency
        /\ left["push"] \in Int
    <2>1. IInv' /\ TypesOK
      BY ExpireIInv DEF FInv, IInv
    <2>2. /\ LeftOK(left) /\ queue \in Seq(Timers) /\ left["push"] \in Int
          /\ since \in Nat /\ late \in Nat /\ late <= Latency
      BY <2>1, NumberTypes DEF TypesOK, LeftOK
    <2>. QED
      BY <2>1, <2>2 DEF Expire, Timers
  <1>2. CASE t # "push"
    <2>1. left'["push"] = left["push"]
      BY <1>1, <1>2 DEF Expire, LeftOK
    <2>2. /\ Waits(queue', "push") <=> Waits(queue, "push")
          /\ Once(queue, "push") => Once(queue', "push")
      BY <1>1, <1>2, AppendWaits
    <2>. QED
      BY <1>1, <2>1, <2>2
         DEF FInv, PushTimer, PushIsHeld, LongIsHeld, FormatIsHeld
  <1>3. CASE t = "push"
    <2>1. /\ left["push"] = 0 /\ left'["push"] = Off /\ status # "released"
      BY <1>1, <1>3 DEF Expire, LeftOK, FInv, PushTimer, Off
    <2>2. ~Waits(queue, "push")
      BY <1>1, <2>1, NumberTypes DEF FInv, PushTimer, Off
    <2>3. Once(queue', "push")
      BY <1>1, <2>2, AppendWaits DEF FInv, PushTimer
    <2>4. since >= LongPush
      BY <1>1, <2>1, NumberTypes DEF FInv, PushIsHeld, Off
    <2>. QED
      BY <1>1, <2>1, <2>3, <2>4
         DEF FInv, PushTimer, PushIsHeld, LongIsHeld, FormatIsHeld
  <1>. QED
    BY <1>2, <1>3

LEMMA AnyEdgeFInv ==
    ASSUME FInv, Edge \/ EdgeUnstopped \/ EdgeUnstarted
    PROVE  FInv'
  <1>1. IInv' /\ LeftOK(left)
    BY EdgeIInv, FailedEdgeIInv DEF FInv, IInv, TypesOK
  <1>2. UNCHANGED <<queue, late, status, since>>
    BY DEF Edge, EdgeUnstopped, EdgeUnstarted
  <1>3. left'["push"] = left["push"]
    BY <1>1 DEF Edge, EdgeUnstopped, EdgeUnstarted, Stop, LeftOK, Timers
  <1>. QED
    BY <1>1, <1>2, <1>3, OtherFInv

LEMMA MainLoopFInv ==
    ASSUME FInv, mainLoop
    PROVE  FInv'
  <1>1. /\ IInv' /\ TypesOK /\ LeftOK(left) /\ queue \in Seq(Timers)
        /\ queue # <<>> /\ queue' = Tail(queue) /\ "push" \in Timers
        /\ since \in Nat /\ late \in Nat /\ left["push"] \in Int
        /\ status \in Statuses
    <2>1. IInv' /\ TypesOK
      BY MainLoopIInv DEF FInv, IInv
    <2>2. /\ LeftOK(left) /\ queue \in Seq(Timers) /\ left["push"] \in Int
          /\ since \in Nat /\ late \in Nat /\ status \in Statuses
      BY <2>1, NumberTypes DEF TypesOK, LeftOK
    <2>. QED
      BY <2>1, <2>2 DEF mainLoop, Timers
  <1>2. Waits(queue', "push") => late' = late
    <2>1. Waits(queue', "push") => queue' # <<>>
      BY EmptySeq DEF Waits
    <2>. QED
      BY <2>1 DEF mainLoop
  <1>3. /\ Once(queue', "push")
        /\ Waits(queue', "push") => Waits(queue, "push")
        /\ Head(queue) = "push" => Waits(queue, "push") /\ ~Waits(queue', "push")
    BY <1>1, TailWaits DEF FInv, PushTimer
  <1>4. CASE Head(queue) # "push"
    <2>1. UNCHANGED <<left, status, since>>
      <3>1. Head(queue) \in {"led", "detect"}
        BY <1>1, <1>4, HeadTailProperties DEF Timers
      <3>. QED
        BY <3>1, Zenon
           DEF mainLoop, led_timer_handler, detection_delay_timeout_handler
    <2>. QED
      BY <1>1, <1>2, <1>3, <2>1
         DEF FInv, PushTimer, PushIsHeld, LongIsHeld, FormatIsHeld
  <1>5. CASE Head(queue) = "push"
    <2>1. timer_handler /\ ~Waits(queue', "push") /\ Waits(queue, "push")
      BY <1>3, <1>5 DEF mainLoop
    <2>2. since' = since
      BY <2>1 DEF timer_handler
    <2>3. CASE status = "push"
      <3>1. /\ status' = "long"
            /\ left'["push"] = IF left["push"] = Off THEN VeryLongPush
                               ELSE left["push"]
        BY <1>1, <2>1, <2>3 DEF timer_handler, Start, LeftOK, Timers
      <3>. QED
        BY <1>1, <1>3, <2>1, <2>2, <2>3, <3>1, NumberTypes
           DEF FInv, PushTimer, PushIsHeld, LongIsHeld, FormatIsHeld, Off
    <2>4. CASE status = "long"
      <3>1. status' = "veryLong" /\ left' = left
        BY <2>1, <2>4 DEF timer_handler
      <3>. QED
        BY <1>1, <1>3, <2>1, <2>2, <2>4, <3>1
           DEF FInv, PushTimer, PushIsHeld, LongIsHeld, FormatIsHeld
    <2>5. CASE status \in {"released", "veryLong"}
      <3>1. UNCHANGED <<status, left>>
        BY <2>1, <2>5 DEF timer_handler
      <3>. QED
        BY <1>1, <1>3, <2>1, <2>2, <3>1
           DEF FInv, PushTimer, PushIsHeld, LongIsHeld, FormatIsHeld
    <2>. QED
      BY <1>1, <2>3, <2>4, <2>5 DEF Statuses
  <1>. QED
    BY <1>4, <1>5

LEMMA ReadPinFInv ==
    ASSUME FInv, readPin
    PROVE  FInv'
  BY ReadPinIInv, OtherFInv DEF FInv, readPin

\* A press that is taken up keeps what its timer has left, or has been held
\* for that long.
LEMMA ReportFInv ==
    ASSUME FInv, report
    PROVE  FInv'
  <1>1. /\ IInv' /\ TypesOK /\ UNCHANGED <<queue, late>>
        /\ since \in Nat /\ late \in Nat /\ left["push"] \in Int
    BY ReportIInv, NumberTypes DEF FInv, IInv, TypesOK, LeftOK, report, Timers
  <1>2. CASE pinDown # (handler = "down")
    <2>1. UNCHANGED <<left, status, since>>
      BY <1>2 DEF report
    <2>. QED
      BY <1>1, <2>1, OtherFInv
  <1>3. CASE pinDown = (handler = "down") /\ handler = "down"
    <2>1. buttonIsPushed
      BY <1>3 DEF report
    <2>2. /\ status' = "push"
          /\ since' = IF status = "released" THEN 0 ELSE since
          /\ left'["push"] = IF left["push"] = Off THEN LongPush ELSE left["push"]
      BY <1>1, <2>1, PushedTypes
    <2>. QED
      BY <1>1, <2>2, NumberTypes
         DEF FInv, PushTimer, PushIsHeld, LongIsHeld, FormatIsHeld, Off
  <1>4. CASE pinDown = (handler = "down") /\ handler # "down"
    <2>1. buttonIsReleased
      BY <1>4 DEF report
    <2>2. status' = "released" /\ left'["push"] = Off
      BY <1>1, <2>1, ReleasedTypes
    <2>. QED
      BY <1>1, <2>2 DEF FInv, PushTimer, PushIsHeld, LongIsHeld, FormatIsHeld
  <1>. QED
    BY <1>2, <1>3, <1>4

LEMMA OtherCommandFInv ==
    ASSUME FInv, otherCommand
    PROVE  FInv'
  BY OtherCommandIInv, OtherFInv DEF FInv

LEMMA StepFInv ==
    ASSUME FInv, [Next]_vars, Latency < LongPush, Latency < VeryLongPush
    PROVE  FInv'
  <1>1. CASE UNCHANGED vars
    <2>1. IInv'
      BY <1>1, StepIInv DEF FInv
    <2>. QED
      BY <1>1, <2>1, OtherFInv DEF vars
  <1>. QED
    BY <1>1, TickFInv, ExpireFInv, AnyEdgeFInv, MainLoopFInv, ReadPinFInv,
       ReportFInv, OtherCommandFInv DEF Next, Handle

\* No press formats the storage that was not held for LONG_PUSH_DURATION_MS,
\* whatever edges are taken back, reported twice or lost, whatever handlers
\* wait and however a release races the timer; provided that the main loop is
\* held up for less than the timers of a press run (2 s and 3 s; a format that
\* stops a recording erases seventeen sectors, which takes 0.5 s typically, and
\* breaks the assumption only if each of them takes the longest, 120 ms)
\* (gpio_button_monitoring.c:38-95).
THEOREM FormatsAreHeld ==
    ASSUME Latency < LongPush, Latency < VeryLongPush
    PROVE  Spec => []FormatIsHeld
  <1>1. FInv /\ [Next]_vars => FInv'
    BY StepFInv
  <1>2. FInv => FormatIsHeld
    BY DEF FInv
  <1>. QED
    BY <1>1, <1>2, InitFInv, PTL DEF Spec
=============================================================================
