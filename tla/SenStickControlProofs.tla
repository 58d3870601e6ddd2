------------------------ MODULE SenStickControlProofs ------------------------
(***************************************************************************)
(* The promises of SenStickControl for any sensors, areas, numbers of logs *)
(* and mailboxes: IInv is inductive, and implies each of them.             *)
(*                                                                         *)
(* The steps pending are a stack.  An action takes the step at its head    *)
(* away, or puts others in its place or in front of it; the lemmas of the  *)
(* first part say what that does to the set of the pending steps and to    *)
(* their order, and no proof of an action looks into a sequence.           *)
(***************************************************************************)
EXTENDS SenStickControl, SequenceTheorems, WellFoundedInduction, TLAPS

-----------------------------------------------------------------------------
(* The inductive invariant. *)

Pending == Range(todo)
Has(name)       == \E step \in Pending : step.call = name
HasFor(name, s) == \E step \in Pending : step.call = name /\ step.sensor = s
Finishing(c)    == \E step \in Pending : step.call = "finish" /\ step.command = c

Booting   == Has("boot") \/ Has("countLogs")
Formatted == Finishing("formattingStorage") /\ ~Has("eraseMeta")

\* The calls that may come before a step.  Those of a stop may be part of a
\* nested one.
BootCalls == {"eraseMeta", "markMeta", "stopSensors", "formatLog"}
StopCalls == {"setControlCommand", "setDiskFull", "flashMailbox", "stopSensors",
              "closeLog", "eraseSettings", "markSettings", "saveSetting",
              "sensorsStopped", "finish"}
CallsBefore(b) ==
    CASE b.call \in {"boot", "startSensors"} -> {}
      [] b.call = "writeMeta" -> {"startSensors"}
      [] b.call = "finish" /\ b.command = "sensorShouldWork" ->
            {"startSensors", "writeMeta"}
      [] b.call = "countLogs" -> BootCalls
      [] b.call = "stopSensors" -> {"eraseMeta", "markMeta"}
      [] b.call = "setControlCommand" /\ b.command = "sensorShouldSleep" ->
            BootCalls \cup {"countLogs"}
      [] b.call = "setControlCommand" /\ b.command # "sensorShouldSleep" ->
            StopCalls \cup BootCalls \cup {"countLogs", "closeMeta"}
      [] b.call \in {"closeLog", "sensorsStopped"} -> StopCalls
      [] b.call = "formatLog" -> StopCalls \cup BootCalls
      [] b.call = "closeMeta" -> StopCalls \cup {"formatLog"}
      [] b.call \in {"flashMailbox", "setDiskFull"} -> StopCalls \cup {"closeMeta"}
      [] b.call = "eraseMeta" -> StopCalls \cup {"formatLog", "closeMeta"}
      [] OTHER -> StopCalls \cup BootCalls \cup {"closeMeta"}

\* Only the commands of a stop go on with something else.
Before(a, b) ==
    /\ a.call \in CallsBefore(b)
    /\ a.call \in {"setControlCommand", "finish"} => a.command = "sensorShouldSleep"

InOrder(steps) ==
    \A i, j \in DOMAIN steps : i < j => Before(steps[i], steps[j])

\* What holds as long as a step is pending.
Due(step) ==
    /\ step.call \in {"boot", "countLogs"} =>
          command = "shouldReset" /\ ~working /\ powered
    /\ step.call = "startSensors" =>
          /\ command = "sensorShouldWork" /\ ~working /\ powered /\ ~diskFull
          /\ step.logging = ShouldLog /\ step.id = logCount
          /\ step.logging => Has("writeMeta")
          /\ Finishing("sensorShouldWork")
    /\ step.call = "writeMeta" =>
          /\ command = "sensorShouldWork" /\ ~diskFull /\ ShouldLog
          /\ step.id = logCount /\ logCount < MaxNumOfLog
          /\ meta[logCount] = Erased
          /\ Has("startSensors") \/ working
          /\ Finishing("sensorShouldWork")
    /\ step.call = "finish" =>
          (command = "sensorShouldWork" <=> step.command = "sensorShouldWork")
    /\ step.call = "finish" /\ step.command = "sensorShouldWork" =>
          /\ ~diskFull
          /\ step.logging = ShouldLog
          /\ Has("startSensors") \/ working
          /\ step.logging =>
                /\ logCount < MaxNumOfLog
                /\ Has("writeMeta") \/ meta[logCount] = "open"
    /\ step.call \in {"stopSensors", "closeLog", "sensorsStopped", "closeMeta",
                      "formatLog", "eraseMeta", "markMeta"} =>
          command # "sensorShouldWork"
    /\ step.call = "stopSensors" /\ step.logging => ShouldLog
    /\ step.call \in {"closeLog", "sensorsStopped"} => ~timer
    /\ step.call = "closeLog" =>
          writing.log \in LogIDs /\ meta[writing.log] = "open"
    /\ step.call = "closeMeta" => step.id = logCount - 1
    /\ step.call \in {"formatLog", "eraseMeta"} =>
          Has("countLogs") \/ Finishing("formattingStorage")
    /\ step = setControlCommand("sensorShouldSleep") =>
          Has("countLogs") \/ At("setControlCommand")
    /\ step.call = "setDiskFull" /\ command = "sensorShouldWork" =>
          At("setControlCommand")

\* How far the sensors are behind the command.
SensorsFollow ==
    /\ timer => working /\ ~diskFull
    /\ command = "sensorShouldWork" /\ ~working => At("startSensors")
    /\ timer /\ command # "sensorShouldWork" => At("stopSensors")
    /\ working /\ ~timer => Has("sensorsStopped")
    /\ mailbox # <<>> => timer \/ At("flashMailbox")
    /\ mailbox \in Seq(Available)

\* A command that is nested inside another one is about a full disk.
NestedForFullDisk ==
    (\E step \in Pending : step = setControlCommand("sensorShouldSleep"))
    /\ (\E step \in Pending : step.call = "finish") => Has("setDiskFull")

\* Only a full disk keeps the device powered down after its sleep.
PowerFits ==
    LET filled == diskFull \/ Has("setDiskFull")
    IN  /\ working => powered
        /\ ~powered => command = "shouldDeviceSleep" \/ filled
        /\ Finishing("shouldDeviceSleep") => command = "shouldDeviceSleep" \/ filled
        /\ Finishing("formattingStorage") /\ ~powered => Has("markMeta")

\* What is written goes to a log without headers, and has room.
WritingFits ==
    /\ writing.log # NoLog =>
          \A s \in Sensors : /\ EndOfLog(s) <= Capacity
                             /\ header[s][writing.log] \in {Erased, EndOfLog(s)}
    /\ (timer \/ mailbox # <<>>) /\ ShouldLog =>
          /\ writing.log \in LogIDs
          /\ \A s \in Sensors : header[s][writing.log] = Erased
    /\ working /\ ShouldLog =>
          /\ writing.log \in LogIDs
          /\ Has("writeMeta") \/ meta[writing.log] = "open"
          /\ writing.log = IF Finishing("sensorShouldWork") THEN logCount
                           ELSE logCount - 1

\* The records are written and closed one after the other ...
RecordsInOrder ==
    \A i, j \in LogIDs : i < j /\ meta[j] # Erased => meta[i] = "closed"

\* ... and, but for a format cut short, each after and before its headers.
HeadersHaveRecords ==
    ~unfinished => \A s \in Sensors, id \in LogIDs :
                      header[s][id] # Erased => meta[id] # Erased

\* The last log is being recorded or about to be closed.
LastLogOpen ==
    \/ command = "sensorShouldWork" /\ working /\ ShouldLog
       /\ writing.log = logCount - 1
    \/ Has("closeMeta")

LogsCounted ==
    ~Booting =>
        /\ ~Formatted =>
              \A id \in LogIDs : id < logCount =>
                  \/ meta[id] = "closed"
                  \/ id = logCount - 1 /\ meta[id] = "open" /\ LastLogOpen
        /\ ~diskFull =>
              /\ \A id \in LogIDs : id >= logCount /\ meta[id] # Erased =>
                    id = logCount /\ Finishing("sensorShouldWork") /\ ShouldLog
              /\ logCount = MaxNumOfLog => LastLogOpen

\* Before the record of a log is closed, its headers are written.
HeadersBeforeClose ==
    /\ Has("closeMeta") /\ ~Finishing("formattingStorage") =>
          /\ writing.log = logCount - 1
          /\ \A s \in Sensors :
                \/ header[s][writing.log] # Erased
                \/ HasFor("closeLog", s)
                \/ At("stopSensors") /\ Head(todo).logging /\ working
    /\ Has("closeMeta") /\ Finishing("formattingStorage") => Has("eraseMeta")

\* How far a format has come.
AllToFormat == \A s \in Sensors : HasFor("formatLog", s)
FormatFits ==
    /\ Finishing("formattingStorage") =>
          /\ Has("eraseMeta") /\ ~unfinished => AllToFormat
          /\ \A name \in {"stopSensors", "flashMailbox", "closeLog", "setDiskFull"} :
                Has(name) => AllToFormat
    /\ Formatted \/ (Has("countLogs") /\ Has("formatLog") /\ ~Has("eraseMeta")) =>
          \A id \in LogIDs : meta[id] = Erased
    /\ Finishing("formattingStorage")
       \/ (Has("countLogs") /\ (Has("formatLog") \/ Has("eraseMeta"))) =>
          \A s \in Sensors : \/ HasFor("formatLog", s)
                             \/ \A id \in LogIDs : header[s][id] = Erased

IInv ==
    /\ TypeOK
    /\ InOrder(todo)
    /\ \A step \in Pending : Due(step)
    /\ SensorsFollow /\ NestedForFullDisk /\ PowerFits
    /\ NoHeaderRuined /\ WritingFits
    /\ RecordsInOrder /\ HeadersHaveRecords /\ ClosedLogsComplete
    /\ LogsCounted /\ HeadersBeforeClose /\ FormatFits

-----------------------------------------------------------------------------
(* The stack. *)

\* The steps after the one that the handler is at.
Below == Range(Tail(todo))

\* The head of the stack comes before all that is below it.
LEMMA Stack ==
    ASSUME todo \in Seq(Steps), InOrder(todo), ~Quiet
    PROVE  /\ Head(todo) \in Steps /\ Tail(todo) \in Seq(Steps)
           /\ Pending = {Head(todo)} \cup Below
           /\ Below \subseteq Steps
           /\ InOrder(Tail(todo))
           /\ \A step \in Below : Before(Head(todo), step)
<1> DEFINE t == Tail(todo)
<1>1. /\ Head(todo) \in Steps /\ t \in Seq(Steps) /\ Len(t) = Len(todo) - 1
      /\ \A i \in 1 .. Len(t) : t[i] = todo[i + 1]
  BY HeadTailProperties DEF Quiet
<1>2. /\ Len(todo) \in Nat /\ Len(todo) > 0 /\ DOMAIN todo = 1 .. Len(todo)
      /\ Head(todo) = todo[1]
  BY DEF Quiet
<1>3. Len(t) \in Nat /\ DOMAIN t = 1 .. Len(t)
  BY <1>1, LenProperties
<1> HIDE DEF t
<1>4. Range(t) = {t[i] : i \in 1 .. Len(t)}
  BY <1>3 DEF Range
<1>5. Pending = {todo[i] : i \in 1 .. Len(todo)}
  BY <1>2 DEF Range, Pending
<1>6. Pending = {Head(todo)} \cup Range(t)
  <2>1. \A i \in 1 .. Len(todo) : i = 1 \/ (i - 1 \in 1 .. Len(t) /\ todo[i] = t[i - 1])
    BY <1>1, <1>2, <1>3
  <2>2. 1 \in 1 .. Len(todo) /\ \A i \in 1 .. Len(t) : i + 1 \in 1 .. Len(todo)
    BY <1>1, <1>2, <1>3
  <2> QED
    BY <1>1, <1>2, <1>4, <1>5, <2>1, <2>2
<1>7. Range(t) \subseteq Steps
  BY <1>1, RangeOfSeq
<1>8. InOrder(t)
  <2> SUFFICES ASSUME NEW i \in 1 .. Len(t), NEW j \in 1 .. Len(t), i < j
               PROVE  Before(t[i], t[j])
    BY <1>3 DEF InOrder
  <2>1. i + 1 \in DOMAIN todo /\ j + 1 \in DOMAIN todo /\ i + 1 < j + 1
    BY <1>1, <1>2, <1>3
  <2>2. Before(todo[i + 1], todo[j + 1])
    BY <2>1 DEF InOrder
  <2> QED
    BY <1>1, <2>2
<1>9. ASSUME NEW step \in Range(t) PROVE Before(Head(todo), step)
  <2> PICK i \in 1 .. Len(t) : step = t[i]
    BY <1>4
  <2>1. 1 \in DOMAIN todo /\ i + 1 \in DOMAIN todo /\ 1 < i + 1
    BY <1>1, <1>2, <1>3
  <2>2. Before(todo[1], todo[i + 1])
    BY <2>1 DEF InOrder
  <2> QED
    BY <1>1, <1>2, <2>2
<1> QED
  BY <1>1, <1>6, <1>7, <1>8, <1>9 DEF t, Below

\* A sequence is in order if its two parts are, and all of the first come
\* before all of the second.
LEMMA OrderOfConcat ==
    ASSUME NEW p \in Seq(Steps), NEW q \in Seq(Steps), InOrder(p), InOrder(q),
           \A a \in Range(p), b \in Range(q) : Before(a, b)
    PROVE  /\ p \o q \in Seq(Steps) /\ Range(p \o q) = Range(p) \cup Range(q)
           /\ InOrder(p \o q)
           /\ p # <<>> => p \o q # <<>> /\ Head(p \o q) = Head(p)
<1> DEFINE r == p \o q
<1>1. /\ r \in Seq(Steps) /\ Len(r) = Len(p) + Len(q)
      /\ \A i \in 1 .. Len(p) + Len(q) : r[i] =
             IF i <= Len(p) THEN p[i] ELSE q[i - Len(p)]
  BY ConcatProperties
<1>2. /\ Len(p) \in Nat /\ DOMAIN p = 1 .. Len(p)
      /\ Len(q) \in Nat /\ DOMAIN q = 1 .. Len(q)
      /\ DOMAIN r = 1 .. Len(r)
  BY <1>1, LenProperties
<1>3. Range(r) = Range(p) \cup Range(q)
  BY RangeConcatenation
<1>4. p # <<>> => r # <<>> /\ Head(r) = Head(p)
  BY <1>1
<1> HIDE DEF r
<1>5. ASSUME NEW i \in DOMAIN r, NEW j \in DOMAIN r, i < j
      PROVE  Before(r[i], r[j])
  <2>1. CASE j <= Len(p)
    <3>1. i \in DOMAIN p /\ j \in DOMAIN p /\ r[i] = p[i] /\ r[j] = p[j]
      BY <1>1, <1>2, <1>5, <2>1
    <3> QED
      BY <1>5, <3>1 DEF InOrder
  <2>2. CASE i > Len(p)
    <3>1. /\ i - Len(p) \in DOMAIN q /\ j - Len(p) \in DOMAIN q
          /\ i - Len(p) < j - Len(p)
          /\ r[i] = q[i - Len(p)] /\ r[j] = q[j - Len(p)]
      BY <1>1, <1>2, <1>5, <2>2
    <3> QED
      BY <3>1 DEF InOrder
  <2>3. CASE i <= Len(p) /\ j > Len(p)
    <3>1. /\ i \in DOMAIN p /\ r[i] = p[i]
          /\ j - Len(p) \in DOMAIN q /\ r[j] = q[j - Len(p)]
      BY <1>1, <1>2, <1>5, <2>3
    <3>2. p[i] \in Range(p) /\ q[j - Len(p)] \in Range(q)
      BY <3>1 DEF Range
    <3> QED
      BY <3>1, <3>2
  <2> QED
    BY <1>2, <1>5, <2>1, <2>2, <2>3
<1>6. InOrder(r)
  BY <1>5 DEF InOrder
<1> QED
  BY <1>1, <1>3, <1>6, <1>4 DEF r

\* Sequences of one, two or three steps.
LEMMA OneStep ==
    ASSUME NEW a \in Steps
    PROVE  /\ <<a>> \in Seq(Steps) /\ Range(<<a>>) = {a} /\ InOrder(<<a>>)
           /\ <<a>> # <<>> /\ Head(<<a>>) = a /\ Tail(<<a>>) = <<>>
  BY DEF Range, InOrder

LEMMA TwoSteps ==
    ASSUME NEW a \in Steps, NEW b \in Steps, Before(a, b)
    PROVE  /\ <<a, b>> \in Seq(Steps) /\ Range(<<a, b>>) = {a, b}
           /\ InOrder(<<a, b>>)
           /\ <<a, b>> # <<>> /\ Head(<<a, b>>) = a
<1>1. <<a, b>> \in Seq(Steps) /\ <<a, b>> # <<>> /\ Head(<<a, b>>) = a
  OBVIOUS
<1>2. Range(<<a, b>>) = {a, b}
  BY DEF Range
<1>3. InOrder(<<a, b>>)
  BY DEF InOrder
<1> QED
  BY <1>1, <1>2, <1>3

LEMMA ThreeSteps ==
    ASSUME NEW a \in Steps, NEW b \in Steps, NEW c \in Steps,
           Before(a, b), Before(a, c), Before(b, c)
    PROVE  /\ <<a, b, c>> \in Seq(Steps) /\ Range(<<a, b, c>>) = {a, b, c}
           /\ InOrder(<<a, b, c>>)
           /\ <<a, b, c>> # <<>> /\ Head(<<a, b, c>>) = a
<1>1. <<a, b, c>> \in Seq(Steps) /\ <<a, b, c>> # <<>> /\ Head(<<a, b, c>>) = a
  OBVIOUS
<1>2. Range(<<a, b, c>>) = {a, b, c}
  BY DEF Range
<1>3. InOrder(<<a, b, c>>)
  BY DEF InOrder
<1> QED
  BY <1>1, <1>2, <1>3

\* A step for each sensor.
LEMMA StepsForEach ==
    ASSUME NumSensors \in Nat
    PROVE  /\ /\ ForEach(closeLog) \in Seq(Steps) /\ InOrder(ForEach(closeLog))
              /\ Range(ForEach(closeLog)) = {closeLog(s) : s \in Sensors}
           /\ /\ ForEach(saveSetting) \in Seq(Steps) /\ InOrder(ForEach(saveSetting))
              /\ Range(ForEach(saveSetting)) = {saveSetting(s) : s \in Sensors}
           /\ /\ ForEach(formatLog) \in Seq(Steps) /\ InOrder(ForEach(formatLog))
              /\ Range(ForEach(formatLog)) = {formatLog(s) : s \in Sensors}
<1>1. \A s \in Sensors : {closeLog(s), saveSetting(s), formatLog(s)} \subseteq Steps
  BY DEF Steps
<1>2. \A s, t \in Sensors : /\ Before(closeLog(s), closeLog(t))
                            /\ Before(saveSetting(s), saveSetting(t))
                            /\ Before(formatLog(s), formatLog(t))
  BY DEF closeLog, saveSetting, formatLog, Before, CallsBefore, StopCalls, BootCalls
<1>3. /\ ForEach(closeLog) \in Seq(Steps) /\ InOrder(ForEach(closeLog))
      /\ Range(ForEach(closeLog)) = {closeLog(s) : s \in Sensors}
  BY <1>1, <1>2 DEF ForEach, Sensors, InOrder, Range
<1>4. /\ ForEach(saveSetting) \in Seq(Steps) /\ InOrder(ForEach(saveSetting))
      /\ Range(ForEach(saveSetting)) = {saveSetting(s) : s \in Sensors}
  BY <1>1, <1>2 DEF ForEach, Sensors, InOrder, Range
<1>5. /\ ForEach(formatLog) \in Seq(Steps) /\ InOrder(ForEach(formatLog))
      /\ Range(ForEach(formatLog)) = {formatLog(s) : s \in Sensors}
  BY <1>1, <1>2 DEF ForEach, Sensors, InOrder, Range
<1> QED
  BY <1>3, <1>4, <1>5

\* The three ways of a handler to go on.
LEMMA Returning ==
    ASSUME todo \in Seq(Steps), InOrder(todo), ~Quiet, Return
    PROVE  todo' \in Seq(Steps) /\ InOrder(todo') /\ Pending' = Below
  BY Stack DEF Return, Pending, Below

LEMMA Entering ==
    ASSUME todo \in Seq(Steps), InOrder(todo), ~Quiet,
           NEW steps \in Seq(Steps), InOrder(steps), steps # <<>>,
           \A a \in Range(steps), b \in Below : Before(a, b),
           Enter(steps)
    PROVE  /\ todo' \in Seq(Steps) /\ InOrder(todo')
           /\ Pending' = Range(steps) \cup Below
           /\ todo' # <<>> /\ Head(todo') = Head(steps)
<1>1. Tail(todo) \in Seq(Steps) /\ InOrder(Tail(todo))
  BY Stack
<1>2. /\ todo' \in Seq(Steps) /\ InOrder(todo')
      /\ Pending' = Range(steps) \cup Below
  BY <1>1, OrderOfConcat DEF Enter, Below, Pending
<1>3. todo' # <<>> /\ Head(todo') = Head(steps)
  BY <1>1, ConcatProperties DEF Enter
<1> QED
  BY <1>2, <1>3

LEMMA Pushing ==
    ASSUME todo \in Seq(Steps), InOrder(todo),
           NEW steps \in Seq(Steps), InOrder(steps), steps # <<>>,
           \A a \in Range(steps), b \in Pending : Before(a, b),
           todo' = steps \o todo
    PROVE  /\ todo' \in Seq(Steps) /\ InOrder(todo')
           /\ Pending' = Range(steps) \cup Pending
           /\ todo' # <<>> /\ Head(todo') = Head(steps)
<1>1. /\ todo' \in Seq(Steps) /\ InOrder(todo')
      /\ Pending' = Range(steps) \cup Pending
  BY OrderOfConcat DEF Pending
<1>2. todo' # <<>> /\ Head(todo') = Head(steps)
  BY ConcatProperties
<1> QED
  BY <1>1, <1>2

-----------------------------------------------------------------------------
(* The steps pending. *)

\* What the fields of a step may hold.
LEMMA Fields ==
    ASSUME NEW step \in Steps
    PROVE  /\ step.call = "setControlCommand" =>
                 step.command \in Commands /\ step = setControlCommand(step.command)
           /\ step.call = "startSensors" =>
                 step.logging \in BOOLEAN /\ step.id \in 0 .. MaxNumOfLog
           /\ step.call = "stopSensors" => step.logging \in BOOLEAN
           /\ step.call \in {"closeLog", "saveSetting", "formatLog"} =>
                 step.sensor \in Sensors
           /\ step.call \in {"closeMeta", "writeMeta"} => step.id \in LogIDs
           /\ step.call = "finish" =>
                 step.command \in Commands /\ step.logging \in BOOLEAN
  BY DEF Steps, PlainSteps, Step, setControlCommand, startSensors, stopSensors,
         closeLog, saveSetting, formatLog, closeMeta, writeMeta, finish

\* The steps are made by their constructors.
LEMMA AreSteps ==
    /\ \A name \in PlainSteps : Step(name) \in Steps
    /\ \A c \in Commands : setControlCommand(c) \in Steps
    /\ \A log \in BOOLEAN, id \in 0 .. MaxNumOfLog : startSensors(log, id) \in Steps
    /\ \A log \in BOOLEAN : stopSensors(log) \in Steps
    /\ \A id \in LogIDs : closeMeta(id) \in Steps /\ writeMeta(id) \in Steps
    /\ \A c \in Commands, log \in BOOLEAN : finish(c, log) \in Steps
  BY DEF Steps

\* What may come after a step.
LEMMA WhatFollows ==
    ASSUME NEW a, NEW b, Before(a, b)
    PROVE  /\ a.call # "boot" /\ b.call # "boot"
           /\ b.call # "startSensors"
           /\ a.call = "startSensors" =>
                 \/ b.call = "writeMeta"
                 \/ b.call = "finish" /\ b.command = "sensorShouldWork"
           /\ b.call = "writeMeta" => a.call = "startSensors"
           /\ b.call = "finish" /\ b.command = "sensorShouldWork" =>
                 a.call \in {"startSensors", "writeMeta"}
           /\ a.call = "writeMeta" =>
                 b.call = "finish" /\ b.command = "sensorShouldWork"
           /\ a.call \in {"setControlCommand", "finish"} =>
                 a.command = "sensorShouldSleep"
           /\ a.call = "countLogs" => b.call = "setControlCommand"
           /\ b.call = "countLogs" => a.call \in BootCalls
           /\ b.call = "stopSensors" => a.call \in {"eraseMeta", "markMeta"}
           /\ b.call = "setControlCommand" /\ b.command = "sensorShouldSleep" =>
                 a.call \in BootCalls \cup {"countLogs"}
           /\ b.call \in {"closeLog", "sensorsStopped"} => a.call \in StopCalls
           /\ b.call = "formatLog" => a.call \in StopCalls \cup BootCalls
           /\ b.call = "closeMeta" => a.call \in StopCalls \cup {"formatLog"}
           /\ b.call \in {"flashMailbox", "setDiskFull"} =>
                 a.call \in StopCalls \cup {"closeMeta"}
           /\ b.call = "eraseMeta" =>
                 a.call \in StopCalls \cup {"formatLog", "closeMeta"}
<1>1. /\ a.call \in CallsBefore(b)
      /\ a.call \in {"setControlCommand", "finish"} => a.command = "sensorShouldSleep"
  BY DEF Before
<1>2. b.call \notin {"boot", "startSensors"}
  BY <1>1 DEF CallsBefore
<1> QED
  BY <1>1, <1>2 DEF CallsBefore, StopCalls, BootCalls

\* A step that is under way is pending.
LEMMA AtIsPending ==
    ASSUME todo \in Seq(Steps), NEW name, At(name)
    PROVE  Has(name) /\ Head(todo) \in Pending
<1>1. todo # <<>> /\ Head(todo) = todo[1] /\ 1 \in DOMAIN todo
  BY DEF At, Quiet
<1> QED
  BY <1>1 DEF At, Has, Pending, Range

\* What is pending after a step has been done.
LEMMA AfterReturn ==
    ASSUME todo \in Seq(Steps), InOrder(todo), ~Quiet, Return
    PROVE  /\ todo' \in Seq(Steps) /\ InOrder(todo')
           /\ \A step \in Pending' : /\ step \in Pending /\ step \in Steps
                                     /\ Before(Head(todo), step)
           /\ \A step \in Pending : step = Head(todo) \/ step \in Pending'
           /\ \A name : Has(name)' => Has(name)
           /\ \A name : Has(name) /\ name # Head(todo).call => Has(name)'
           /\ \A c : Finishing(c)' => Finishing(c)
           /\ \A c : Finishing(c) /\ Head(todo).call # "finish" => Finishing(c)'
           /\ \A name, s : HasFor(name, s)' => HasFor(name, s)
           /\ \A name, s :
                 HasFor(name, s) /\ ~(name = Head(todo).call /\ s = Head(todo).sensor)
                 => HasFor(name, s)'
           /\ \A name : At(name)' => Has(name)'
           /\ Pending' # {} => ~Quiet' /\ Head(todo') \in Pending'
<1>1. todo' \in Seq(Steps) /\ InOrder(todo') /\ Pending' = Below
  BY Returning
<1>2. /\ Pending = {Head(todo)} \cup Pending'
      /\ \A step \in Pending' : step \in Steps /\ Before(Head(todo), step)
  BY <1>1, Stack
<1>3. ~Quiet' => Head(todo') \in Pending'
  <2> SUFFICES ASSUME ~Quiet' PROVE Head(todo') \in Pending'
    OBVIOUS
  <2>1. todo' # <<>> /\ Head(todo') = todo'[1] /\ 1 \in DOMAIN todo'
    BY <1>1 DEF Quiet
  <2> QED
    BY <2>1 DEF Pending, Range
<1>4. \A name : At(name)' => Has(name)'
  BY <1>3 DEF At, Has
<1>5. Quiet' => Pending' = {}
  BY DEF Quiet, Pending, Range
<1> QED
  BY <1>1, <1>2, <1>3, <1>4, <1>5 DEF Has, Finishing, HasFor

-----------------------------------------------------------------------------
(* Reset and boot. *)

\* The only step of a device that starts over.
LEMMA OnlyBoot ==
    ASSUME todo' = <<Step("boot")>>
    PROVE  /\ todo' \in Seq(Steps) /\ InOrder(todo)' /\ Pending' = {Step("boot")}
           /\ Step("boot").call = "boot"
           /\ \A name : Has(name)' => name = "boot"
           /\ Has("boot")'
           /\ \A c : ~Finishing(c)'
           /\ \A name : At(name)' => name = "boot"
<1>1. Step("boot") \in Steps /\ Step("boot").call = "boot"
  BY DEF Steps, Step, PlainSteps
<1>2. /\ todo' \in Seq(Steps) /\ InOrder(todo)' /\ Pending' = {Step("boot")}
      /\ Head(todo') = Step("boot")
  BY <1>1, OneStep DEF Pending
<1> QED
  BY <1>1, <1>2 DEF Has, Finishing, At

LEMMA InitIInv == Init => IInv
<1> SUFFICES ASSUME Init PROVE IInv
  OBVIOUS
<1>1. todo \in Seq(Steps) /\ InOrder(todo) /\ Pending = {Step("boot")}
  <2>1. Step("boot") \in Steps
    BY DEF Steps, Step, PlainSteps
  <2> QED
    BY <2>1, OneStep DEF Pending, Init
<1>2. /\ Step("boot").call = "boot" /\ Has("boot")
      /\ \A name : Has(name) => name = "boot"
      /\ \A c : ~Finishing(c)
  BY <1>1 DEF Has, Finishing, Step
<1>3. TypeOK
  <2>1. <<>> \in Seq(Sensors) /\ Len(<<>>) = 0
    OBVIOUS
  <2>2. "stop" \in Settings \cup {Erased}
    BY DEF Settings
  <2>3. /\ meta \in [LogIDs -> {Erased, "open", "closed"}]
        /\ header \in [Sensors -> [LogIDs -> (0 .. Capacity) \cup {Erased, Ruined}]]
        /\ saved \in [magic : BOOLEAN, setting : [Sensors -> Settings \cup {Erased}]]
        /\ setting \in [Sensors -> Settings \cup {Erased}]
    BY <2>2 DEF Init
  <2>4. writing \in [log : LogIDs \cup {NoLog}, wpos : [Sensors -> 0 .. Capacity]]
    BY ControlAssumption DEF Init
  <2>5. logCount \in 0 .. MaxNumOfLog /\ Len(mailbox) <= MailboxSize
    BY <2>1, ControlAssumption DEF Init
  <2> QED
    BY <1>1, <2>1, <2>3, <2>4, <2>5 DEF Init, TypeOK
<1>4. \A step \in Pending : Due(step)
  BY <1>1, <1>2 DEF Init, Due, setControlCommand
<1>5. mailbox = <<>> /\ ~timer /\ ~working /\ writing.log = NoLog /\ powered
  BY DEF Init
<1>6. SensorsFollow /\ PowerFits
  <2>1. command # "sensorShouldWork" /\ <<>> \in Seq(Available)
    BY DEF Init
  <2> QED
    BY <1>2, <1>5, <2>1 DEF SensorsFollow, PowerFits
<1>7. NestedForFullDisk
  BY <1>2 DEF NestedForFullDisk, Has
<1>8. NoHeaderRuined
  BY ControlAssumption DEF NoHeaderRuined, Init
<1>9. WritingFits
  BY <1>2, <1>5 DEF WritingFits
<1>10. RecordsInOrder /\ HeadersHaveRecords /\ ClosedLogsComplete
  BY ControlAssumption DEF RecordsInOrder, HeadersHaveRecords, ClosedLogsComplete, Init
<1>11. LogsCounted /\ HeadersBeforeClose /\ FormatFits
  BY <1>2 DEF LogsCounted, HeadersBeforeClose, FormatFits, Booting, Formatted
<1> QED
  BY <1>1, <1>3, <1>4, <1>6, <1>8, <1>9, <1>10, <1>11,
     <1>7 DEF IInv

\* A reset forgets all that is pending; the flash memory is left as it is.
LEMMA ResetKeepsIInv ==
    ASSUME IInv, Reset, formatted' \in BOOLEAN
    PROVE  IInv'
<1> USE DEF IInv
<1>1. /\ todo' = <<Step("boot")>>
      /\ UNCHANGED <<meta, header, saved, unfinished>>
  BY DEF Reset, Idle
<1>2. /\ todo' \in Seq(Steps) /\ InOrder(todo)' /\ Pending' = {Step("boot")}
      /\ Step("boot").call = "boot" /\ Has("boot")'
      /\ \A name : Has(name)' => name = "boot"
      /\ \A c : ~Finishing(c)'
  BY <1>1, OnlyBoot
<1>3. /\ mailbox' = <<>> /\ ~timer' /\ ~working' /\ writing'.log = NoLog /\ powered'
      /\ command' = "shouldReset"
  BY DEF Reset, Idle
<1>4. TypeOK'
  <2>1. <<>> \in Seq(Sensors) /\ Len(<<>>) = 0
    OBVIOUS
  <2>2. setting' \in [Sensors -> Settings \cup {Erased}]
    BY DEF TypeOK, Reset, Idle, Settings
  <2>3. writing' \in [log : LogIDs \cup {NoLog}, wpos : [Sensors -> 0 .. Capacity]]
    BY ControlAssumption DEF Reset, Idle
  <2>4. logCount' \in 0 .. MaxNumOfLog /\ Len(mailbox') <= MailboxSize
    BY <2>1, ControlAssumption DEF Reset, Idle
  <2>5. /\ meta' \in [LogIDs -> {Erased, "open", "closed"}]
        /\ header' \in [Sensors -> [LogIDs -> (0 .. Capacity) \cup {Erased, Ruined}]]
        /\ saved' \in [magic : BOOLEAN, setting : [Sensors -> Settings \cup {Erased}]]
        /\ unfinished' \in BOOLEAN
    BY <1>1 DEF TypeOK
  <2>6. {diskFull, connected, waitingForDFU, working, timer, powered, led}' \subseteq BOOLEAN
    BY DEF Reset, Idle
  <2> QED
    BY <1>2, <1>3, <2>1, <2>2, <2>3, <2>4, <2>5, <2>6 DEF TypeOK
<1>5. \A step \in Pending' : Due(step)'
  BY <1>2, <1>3 DEF Due, setControlCommand
<1>6. SensorsFollow' /\ PowerFits'
  <2>1. command' # "sensorShouldWork" /\ <<>> \in Seq(Available)
    BY <1>3
  <2> QED
    BY <1>2, <1>3, <2>1 DEF SensorsFollow, PowerFits
<1>7. NestedForFullDisk'
  BY <1>2 DEF NestedForFullDisk, Has
<1>8. NoHeaderRuined' /\ RecordsInOrder' /\ HeadersHaveRecords' /\ ClosedLogsComplete'
  BY <1>1 DEF NoHeaderRuined, RecordsInOrder, HeadersHaveRecords, ClosedLogsComplete
<1>9. WritingFits'
  BY <1>2, <1>3 DEF WritingFits
<1>10. LogsCounted' /\ HeadersBeforeClose' /\ FormatFits'
  BY <1>2 DEF LogsCounted, HeadersBeforeClose, FormatFits, Booting, Formatted
<1> QED
  BY <1>2, <1>4, <1>5, <1>6, <1>7, <1>8, <1>9, <1>10

LEMMA RestartKeepsIInv ==
    ASSUME IInv, Restart \/ RestartAfterDFU
    PROVE  IInv'
  BY ResetKeepsIInv DEF Restart, RestartAfterDFU, IInv, TypeOK

\* What boot leaves to be done, depending on the magic word.
LEMMA BootSteps ==
    ASSUME todo \in Seq(Steps), InOrder(todo), boot
    PROVE  /\ todo' \in Seq(Steps) /\ InOrder(todo)'
           /\ \A name : Has(name)' <=>
                 \/ name \in {"countLogs", "setControlCommand"}
                 \/ ~formatted /\ name \in {"eraseMeta", "markMeta", "stopSensors"}
                 \/ ~formatted /\ name = "formatLog" /\ Sensors # {}
           /\ \A s \in Sensors : ~formatted => HasFor("formatLog", s)'
           /\ \A step \in Pending' : step.call = "stopSensors" => ~step.logging
           /\ \A c : ~Finishing(c)'
           /\ \A step \in Pending' : step.call # "finish"
           /\ \A name : At(name)' => name \in {"countLogs", "eraseMeta"}
<1> DEFINE counting == <<Step("countLogs"), setControlCommand("sensorShouldSleep"),
                         setControlCommand("sensorShouldWork")>>
           erasing  == <<Step("eraseMeta"), Step("markMeta"), stopSensors(FALSE)>>
           each     == ForEach(formatLog)
<1>1. /\ Step("countLogs") \in Steps /\ setControlCommand("sensorShouldSleep") \in Steps
      /\ setControlCommand("sensorShouldWork") \in Steps
      /\ Step("eraseMeta") \in Steps /\ Step("markMeta") \in Steps
      /\ stopSensors(FALSE) \in Steps
  BY AreSteps DEF PlainSteps, Commands
<1>2. /\ counting \in Seq(Steps) /\ counting # <<>> /\ InOrder(counting)
      /\ Range(counting) = {Step("countLogs"), setControlCommand("sensorShouldSleep"),
                            setControlCommand("sensorShouldWork")}
      /\ Head(counting) = Step("countLogs")
  <2>1. /\ Before(Step("countLogs"), setControlCommand("sensorShouldSleep"))
        /\ Before(Step("countLogs"), setControlCommand("sensorShouldWork"))
        /\ Before(setControlCommand("sensorShouldSleep"),
                  setControlCommand("sensorShouldWork"))
    BY DEF Before, CallsBefore, StopCalls, BootCalls, Step, setControlCommand
  <2> QED
    BY <1>1, <2>1, ThreeSteps
<1>3. /\ erasing \in Seq(Steps) /\ erasing # <<>> /\ InOrder(erasing)
      /\ Range(erasing) = {Step("eraseMeta"), Step("markMeta"), stopSensors(FALSE)}
      /\ Head(erasing) = Step("eraseMeta")
  <2>1. /\ Before(Step("eraseMeta"), Step("markMeta"))
        /\ Before(Step("eraseMeta"), stopSensors(FALSE))
        /\ Before(Step("markMeta"), stopSensors(FALSE))
    BY DEF Before, CallsBefore, StopCalls, BootCalls, Step, stopSensors
  <2> QED
    BY <1>1, <2>1, ThreeSteps
<1>4. /\ each \in Seq(Steps) /\ InOrder(each)
      /\ Range(each) = {formatLog(s) : s \in Sensors}
  BY StepsForEach, ControlAssumption
<1> HIDE DEF counting, erasing, each
<1>5. /\ erasing \o each \in Seq(Steps) /\ InOrder(erasing \o each)
      /\ Range(erasing \o each) = Range(erasing) \cup Range(each)
  <2>1. \A a \in Range(erasing), b \in Range(each) : Before(a, b)
    BY <1>2, <1>3, <1>4
       DEF Before, CallsBefore, StopCalls, BootCalls, Step, stopSensors, formatLog
  <2> QED
    BY <1>3, <1>4, <2>1, OrderOfConcat
<1>6. /\ (erasing \o each) \o counting \in Seq(Steps)
      /\ InOrder((erasing \o each) \o counting)
      /\ Range((erasing \o each) \o counting) =
            (Range(erasing) \cup Range(each)) \cup Range(counting)
  <2>1. \A a \in Range(erasing) \cup Range(each), b \in Range(counting) : Before(a, b)
    BY <1>2, <1>3, <1>4 DEF Before, CallsBefore, StopCalls, BootCalls, Step, stopSensors,
                      formatLog, setControlCommand
  <2> DEFINE both == erasing \o each
  <2>2. /\ both \in Seq(Steps) /\ InOrder(both)
        /\ Range(both) = Range(erasing) \cup Range(each)
    BY <1>5
  <2> HIDE DEF both
  <2>3. /\ both \o counting \in Seq(Steps) /\ InOrder(both \o counting)
        /\ Range(both \o counting) = Range(both) \cup Range(counting)
    BY <1>2, <2>1, <2>2, OrderOfConcat
  <2> QED
    BY <2>2, <2>3 DEF both
<1>7. /\ Head((erasing \o each) \o counting) = Step("eraseMeta")
      /\ (erasing \o each) \o counting # <<>>
  <2>1. Head(erasing \o each) = Step("eraseMeta") /\ erasing \o each # <<>>
    BY <1>2, <1>3, <1>4, ConcatProperties
  <2> QED
    BY <1>2, <1>5, <2>1, ConcatProperties
<1>8. CASE formatted
  <2>1. /\ todo' = counting
    BY <1>2, <1>8, ConcatEmptySeq DEF boot, counting
  <2>2. Pending' = {Step("countLogs"), setControlCommand("sensorShouldSleep"),
                    setControlCommand("sensorShouldWork")}
    BY <1>2, <2>1 DEF Pending
  <2> QED
    BY <1>2, <1>3, <1>8, <2>1, <2>2
       DEF Has, Finishing, At, Step, setControlCommand
<1>9. CASE ~formatted
  <2>1. todo' = (erasing \o each) \o counting
    BY <1>9 DEF boot, counting, erasing, each
  <2>2. Pending' = {Step("eraseMeta"), Step("markMeta"), stopSensors(FALSE)}
                   \cup {formatLog(s) : s \in Sensors}
                   \cup {Step("countLogs"), setControlCommand("sensorShouldSleep"),
                         setControlCommand("sensorShouldWork")}
    BY <1>2, <1>3, <1>4, <1>6, <2>1 DEF Pending
  <2>3. \A s \in Sensors : HasFor("formatLog", s)'
    <3>1. \A s \in Sensors : /\ formatLog(s) \in Pending' /\ formatLog(s).sensor = s
                            /\ formatLog(s).call = "formatLog"
      BY <2>2 DEF formatLog
    <3> QED
      BY <3>1 DEF HasFor
  <2>4. \A name : Has(name)' <=>
           \/ name \in {"countLogs", "setControlCommand", "eraseMeta", "markMeta",
                        "stopSensors"}
           \/ name = "formatLog" /\ Sensors # {}
    <3>1. /\ Step("eraseMeta") \in Pending' /\ Step("eraseMeta").call = "eraseMeta"
          /\ Step("markMeta") \in Pending' /\ Step("markMeta").call = "markMeta"
          /\ stopSensors(FALSE) \in Pending'
          /\ stopSensors(FALSE).call = "stopSensors"
          /\ Step("countLogs") \in Pending' /\ Step("countLogs").call = "countLogs"
          /\ setControlCommand("sensorShouldSleep") \in Pending'
          /\ setControlCommand("sensorShouldSleep").call = "setControlCommand"
          /\ \A s \in Sensors : /\ formatLog(s) \in Pending'
                               /\ formatLog(s).call = "formatLog"
      BY <2>2 DEF Step, setControlCommand, stopSensors, formatLog
    <3>2. \A step \in Pending' :
             \/ step.call \in {"countLogs", "setControlCommand", "eraseMeta",
                              "markMeta", "stopSensors"}
             \/ step.call = "formatLog" /\ Sensors # {}
      BY <2>2 DEF Step, setControlCommand, stopSensors, formatLog
    <3> QED
      BY <3>1, <3>2 DEF Has
  <2>5. /\ \A step \in Pending' : step.call = "stopSensors" => ~step.logging
        /\ \A step \in Pending' : step.call # "finish"
    BY <2>2 DEF Step, setControlCommand, stopSensors, formatLog
  <2>6. \A name : At(name)' => name = "eraseMeta"
    BY <1>7, <2>1 DEF At, Step
  <2> QED
    BY <1>6, <1>9, <2>1, <2>3, <2>4, <2>5, <2>6 DEF Finishing
<1> QED
  BY <1>8, <1>9

LEMMA BootKeepsIInv ==
    ASSUME IInv, boot
    PROVE  IInv'
<1> USE DEF IInv
<1>1. /\ ~Quiet /\ Head(todo).call = "boot" /\ todo \in Seq(Steps) /\ InOrder(todo)
      /\ UNCHANGED <<flash, model, sensors, rest>>
  BY DEF boot, At, TypeOK
<1>2. /\ todo' \in Seq(Steps) /\ InOrder(todo)'
      /\ \A name : Has(name)' <=>
            \/ name \in {"countLogs", "setControlCommand"}
            \/ ~formatted /\ name \in {"eraseMeta", "markMeta", "stopSensors"}
            \/ ~formatted /\ name = "formatLog" /\ Sensors # {}
      /\ \A s \in Sensors : ~formatted => HasFor("formatLog", s)'
      /\ \A step \in Pending' : step.call = "stopSensors" => ~step.logging
      /\ \A c : ~Finishing(c)'
      /\ \A step \in Pending' : step.call # "finish"
      /\ \A name : At(name)' => name \in {"countLogs", "eraseMeta"}
  BY <1>1, BootSteps
<1>3. Head(todo) \in Pending
  BY <1>1, Stack
<1>4. command = "shouldReset" /\ ~working /\ powered
  BY <1>1, <1>3 DEF Due
<1>5. ~timer /\ mailbox = <<>>
  BY <1>1, <1>4 DEF SensorsFollow, At
<1> USE DEF flash, model, sensors, rest
<1>6. TypeOK'
  BY <1>1, <1>2 DEF TypeOK
<1>7. \A step \in Pending' : Has(step.call)'
  BY DEF Has
<1>8. ASSUME NEW step \in Pending' PROVE Due(step)'
  BY <1>1, <1>2, <1>4, <1>5, <1>7 DEF Due
<1>9. SensorsFollow'
  BY <1>1, <1>2, <1>4, <1>5 DEF SensorsFollow
<1>10. NestedForFullDisk' /\ PowerFits'
  BY <1>1, <1>2, <1>4 DEF NestedForFullDisk, PowerFits
<1>11. NoHeaderRuined' /\ WritingFits'
  BY <1>1, <1>4, <1>5 DEF WritingFits, NoHeaderRuined, EndOfLog, Used
<1>12. RecordsInOrder' /\ HeadersHaveRecords' /\ ClosedLogsComplete'
  BY <1>1 DEF RecordsInOrder, HeadersHaveRecords, ClosedLogsComplete
<1>13. LogsCounted' /\ HeadersBeforeClose'
  BY <1>2 DEF LogsCounted, HeadersBeforeClose, Booting
<1>14. FormatFits'
  BY <1>2 DEF FormatFits, Formatted, AllToFormat
<1> QED
  BY <1>2, <1>6, <1>8, <1>9, <1>10, <1>11, <1>12, <1>13, <1>14

\* metaDataLogGetLogCount finds the first record that is not closed.
LEMMA ClosedRecordsFound ==
    ASSUME TypeOK
    PROVE  /\ ClosedRecords \in 0 .. MaxNumOfLog
           /\ \A id \in 0 .. ClosedRecords - 1 : meta[id] = "closed"
           /\ ClosedRecords < MaxNumOfLog => meta[ClosedRecords] # "closed"
<1> DEFINE Stops == {n \in 0 .. MaxNumOfLog : n < MaxNumOfLog => meta[n] # "closed"}
<1>1. MaxNumOfLog \in Stops /\ Stops \subseteq Nat
  BY ControlAssumption
<1> HIDE DEF Stops
<1> DEFINE Less == {pair \in Nat \X Nat : pair[1] < pair[2]}
<1>2. IsWellFoundedOn(Less, Nat)
  BY NatLessThanWellFounded DEF OpToRel
<1> HIDE DEF Less
<1>3. PICK n \in Stops : \A m \in Stops : ~(<<m, n>> \in Less)
  BY <1>1, <1>2, WFMin
<1>4. ASSUME NEW m \in Stops PROVE n <= m
  <2>1. m \in Nat /\ n \in Nat /\ <<m, n>> \notin Less
    BY <1>1, <1>3
  <2>2. m < n => <<m, n>> \in Less
    BY <2>1 DEF Less
  <2> QED
    BY <2>1, <2>2
<1>5. n \in 0 .. MaxNumOfLog /\ (n < MaxNumOfLog => meta[n] # "closed")
  BY DEF Stops
<1>6. ASSUME NEW id \in 0 .. n - 1 PROVE meta[id] = "closed"
  <2>1. id \in 0 .. MaxNumOfLog /\ id < n
    BY <1>5, ControlAssumption
  <2>2. id \notin Stops
    BY <1>1, <1>4, <1>5, <2>1
  <2> QED
    BY <2>1, <2>2 DEF Stops
<1> QED
  BY <1>5, <1>6 DEF ClosedRecords

LEMMA CountLogsKeepsIInv ==
    ASSUME IInv, countLogs
    PROVE  IInv'
<1> USE DEF IInv
<1> DEFINE count == ClosedRecords
<1>1. CASE count > 0 /\ ~CanOpen(count - 1) /\ Restart
  BY <1>1, RestartKeepsIInv
<1>2. CASE /\ ~Quiet /\ Head(todo).call = "countLogs" /\ Return
           /\ logCount' = count /\ diskFull' = FullAtBoot(count)
           /\ UNCHANGED <<command, connected, waitingForDFU, flash, sensors, rest>>
  <2>1. /\ todo \in Seq(Steps) /\ InOrder(todo) /\ Head(todo) \in Pending
    BY <1>2, Stack DEF TypeOK
  <2>2. command = "shouldReset" /\ ~working /\ powered
    BY <1>2, <2>1 DEF Due
  <2>3. ~timer /\ mailbox = <<>>
    BY <1>2, <2>2 DEF SensorsFollow, At
  <2>4. \A step \in Pending' : step.call = "setControlCommand"
    BY <1>2, <2>1, AfterReturn, WhatFollows
  <2>5. /\ \A name : Has(name)' => name = "setControlCommand"
        /\ \A c : ~Finishing(c)'
    BY <2>4 DEF Has, Finishing
  <2>6. /\ count \in 0 .. MaxNumOfLog
        /\ \A id \in 0 .. count - 1 : meta[id] = "closed"
        /\ count < MaxNumOfLog => meta[count] # "closed"
    BY ClosedRecordsFound
  <2> HIDE DEF count
  <2> USE DEF flash, model, sensors, rest
  <2>7. TypeOK' /\ InOrder(todo)'
    BY <1>2, <2>1, <2>6, AfterReturn DEF TypeOK, FullAtBoot
  <2>8. ASSUME NEW step \in Pending' PROVE Due(step)'
    <3>1. At("setControlCommand")'
      BY <1>2, <2>1, <2>4, <2>8, AfterReturn DEF At
    <3> QED
      BY <2>4, <3>1 DEF Due
  <2>9. SensorsFollow'
    BY <1>2, <2>2, <2>3 DEF SensorsFollow
  <2>10. NestedForFullDisk' /\ PowerFits'
    BY <1>2, <2>2, <2>4, <2>5 DEF NestedForFullDisk, PowerFits
  <2>11. NoHeaderRuined' /\ WritingFits'
    BY <1>2, <2>2, <2>3 DEF WritingFits, NoHeaderRuined, EndOfLog, Used
  <2>12. RecordsInOrder' /\ HeadersHaveRecords' /\ ClosedLogsComplete'
    BY <1>2 DEF RecordsInOrder, HeadersHaveRecords, ClosedLogsComplete
  <2>13. LogsCounted'
    <3>1. \A id \in LogIDs : id < count => meta[id] = "closed"
      BY <2>6 DEF LogIDs
    <3>2. ASSUME ~FullAtBoot(count), NEW id \in LogIDs, id >= count
          PROVE  meta[id] = Erased
      <4>1. count \in LogIDs /\ meta[count] = Erased
        BY <2>6, <3>2, ControlAssumption DEF FullAtBoot, LogIDs
      <4> QED
        BY <2>6, <3>2, <4>1, ControlAssumption DEF RecordsInOrder, LogIDs
    <3>3. ~FullAtBoot(count) => count # MaxNumOfLog
      BY DEF FullAtBoot
    <3> QED
      BY <1>2, <2>5, <3>1, <3>2, <3>3 DEF LogsCounted, Formatted
  <2>14. HeadersBeforeClose' /\ FormatFits'
    BY <2>5 DEF HeadersBeforeClose, FormatFits, Formatted
  <2> QED
    BY <2>7, <2>8, <2>9, <2>10, <2>11, <2>12, <2>13, <2>14
<1> QED
  BY <1>1, <1>2 DEF countLogs, At

-----------------------------------------------------------------------------
(* The steps of a stop. *)

\* Steps that leave nothing behind that another step waits for.
LEMMA PlainReturnKeepsIInv ==
    ASSUME IInv, ~Quiet, Return,
           Head(todo).call \in {"eraseSettings", "markSettings", "saveSetting",
                                "markMeta", "flashMailbox", "stopSensors"},
           Head(todo).call = "markMeta" => powered,
           Head(todo).call = "flashMailbox" => mailbox = <<>>,
           Head(todo).call = "stopSensors" => ~working,
           formatted' \in BOOLEAN,
           saved' \in [magic : BOOLEAN, setting : [Sensors -> Settings \cup {Erased}]],
           UNCHANGED <<meta, header, model, sensors, rest>>
    PROVE  IInv'
<1> USE DEF IInv, model, sensors, rest
<1>1. /\ todo \in Seq(Steps) /\ InOrder(todo)
      /\ Head(todo) \in Steps /\ Head(todo) \in Pending
  BY Stack DEF TypeOK
<1>2. TypeOK' /\ InOrder(todo)'
  BY <1>1, AfterReturn DEF TypeOK
<1>3. ASSUME NEW step \in Pending' PROVE Due(step)'
  BY <1>1, <1>3, AfterReturn DEF Due, ShouldLog, IsLogging, ToLog, At
<1>4. SensorsFollow'
  BY <1>1, AfterReturn DEF SensorsFollow, At
<1>5. NestedForFullDisk'
  BY <1>1, AfterReturn DEF NestedForFullDisk
<1>6. PowerFits'
  BY <1>1, AfterReturn DEF PowerFits
<1>7. NoHeaderRuined' /\ WritingFits'
  BY <1>1, AfterReturn
     DEF WritingFits, NoHeaderRuined, EndOfLog, Used, ShouldLog, IsLogging, ToLog
<1>8. RecordsInOrder' /\ HeadersHaveRecords' /\ ClosedLogsComplete'
  BY DEF RecordsInOrder, HeadersHaveRecords, ClosedLogsComplete
<1>9. LogsCounted'
  BY <1>1, AfterReturn
     DEF LogsCounted, LastLogOpen, Booting, Formatted, ShouldLog, IsLogging, ToLog
<1>10. HeadersBeforeClose'
  BY <1>1, AfterReturn DEF HeadersBeforeClose, At
<1>11. FormatFits'
  BY <1>1, AfterReturn DEF FormatFits, Formatted, AllToFormat
<1> QED
  BY <1>2, <1>3, <1>4, <1>5, <1>6, <1>7, <1>8, <1>9, <1>10, <1>11

LEMMA SettingsStepsKeepIInv ==
    ASSUME IInv, eraseSettings \/ markSettings \/ saveSetting_ \/ markMeta
    PROVE  IInv'
<1>1. saved' \in [magic : BOOLEAN, setting : [Sensors -> Settings \cup {Erased}]]
  <2> USE DEF IInv, TypeOK, flash
  <2>1. CASE markMeta
    BY <2>1 DEF markMeta
  <2>2. CASE eraseSettings
    <3>1. [s \in Sensors |-> Erased] \in [Sensors -> Settings \cup {Erased}]
      OBVIOUS
    <3> QED
      BY <2>2, <3>1 DEF eraseSettings
  <2>3. CASE markSettings
    BY <2>3 DEF markSettings
  <2>4. CASE saveSetting_
    <3>1. Head(todo).sensor \in Sensors
      BY <2>4, Stack, Fields DEF saveSetting_, At
    <3>2. setting[Head(todo).sensor] \in Settings \cup {Erased}
      BY <3>1
    <3> QED
      BY <2>4, <3>2 DEF saveSetting_
  <2> QED
    BY <2>1, <2>3, <2>4, <2>2
<1>2. /\ ~Quiet /\ Return
      /\ Head(todo).call \in {"eraseSettings", "markSettings", "saveSetting", "markMeta"}
      /\ powered /\ formatted' \in BOOLEAN
      /\ UNCHANGED <<meta, header, model, sensors, rest>>
  BY DEF eraseSettings, markSettings, saveSetting_, markMeta, At, IInv, TypeOK
<1> QED
  BY <1>1, <1>2, PlainReturnKeepsIInv

LEMMA SensorsStoppedKeepsIInv ==
    ASSUME IInv, sensorsStopped
    PROVE  IInv'
<1> USE DEF IInv, flash, model, rest
<1>1. /\ ~Quiet /\ Head(todo).call = "sensorsStopped" /\ Return /\ working' = FALSE
      /\ UNCHANGED <<setting, writing, timer, mailbox, flash, model, rest>>
  BY DEF sensorsStopped, At
<1>2. /\ todo \in Seq(Steps) /\ InOrder(todo)
      /\ Head(todo) \in Steps /\ Head(todo) \in Pending
  BY <1>1, Stack DEF TypeOK
<1>3. command # "sensorShouldWork" /\ ~timer /\ mailbox = <<>>
  BY <1>1, <1>2 DEF Due, SensorsFollow, At
<1>4. TypeOK' /\ InOrder(todo)'
  BY <1>1, <1>2, AfterReturn DEF TypeOK
<1>5. ASSUME NEW step \in Pending' PROVE Due(step)'
  BY <1>1, <1>2, <1>3, <1>5, AfterReturn DEF Due, ShouldLog, IsLogging, ToLog, At
<1>6. SensorsFollow'
  BY <1>1, <1>2, <1>3, AfterReturn DEF SensorsFollow, At
<1>7. NestedForFullDisk' /\ PowerFits'
  BY <1>1, <1>2, AfterReturn DEF NestedForFullDisk, PowerFits
<1>8. NoHeaderRuined' /\ WritingFits'
  BY <1>1, <1>3 DEF WritingFits, NoHeaderRuined, EndOfLog, Used
<1>9. RecordsInOrder' /\ HeadersHaveRecords' /\ ClosedLogsComplete'
  BY <1>1 DEF RecordsInOrder, HeadersHaveRecords, ClosedLogsComplete
<1>10. LogsCounted'
  BY <1>1, <1>2, <1>3, AfterReturn
     DEF LogsCounted, LastLogOpen, Booting, Formatted, ShouldLog, IsLogging, ToLog
<1>11. HeadersBeforeClose'
  BY <1>1, <1>2, AfterReturn DEF HeadersBeforeClose, At
<1>12. FormatFits'
  BY <1>1, <1>2, AfterReturn DEF FormatFits, Formatted, AllToFormat
<1> QED
  BY <1>4, <1>5, <1>6, <1>7, <1>8, <1>9, <1>10, <1>11, <1>12

LEMMA SetDiskFullKeepsIInv ==
    ASSUME IInv, setDiskFull
    PROVE  IInv'
<1> USE DEF IInv, flash, sensors, rest
<1>1. /\ ~Quiet /\ Head(todo).call = "setDiskFull" /\ Return /\ diskFull' = TRUE
      /\ UNCHANGED <<command, logCount, connected, waitingForDFU, flash, sensors, rest>>
  BY DEF setDiskFull, At
<1>2. /\ todo \in Seq(Steps) /\ InOrder(todo)
      /\ Head(todo) \in Steps /\ Head(todo) \in Pending
  BY <1>1, Stack DEF TypeOK
<1>3. command # "sensorShouldWork" /\ ~timer /\ mailbox = <<>>
  BY <1>1, <1>2 DEF Due, SensorsFollow, At
<1>4. TypeOK' /\ InOrder(todo)'
  BY <1>1, <1>2, AfterReturn DEF TypeOK
<1>5. ASSUME NEW step \in Pending' PROVE Due(step)'
  BY <1>1, <1>2, <1>3, <1>5, AfterReturn DEF Due, ShouldLog, IsLogging, ToLog, At
<1>6. SensorsFollow'
  BY <1>1, <1>2, <1>3, AfterReturn DEF SensorsFollow, At
<1>7. NestedForFullDisk'
  BY <1>1, <1>2, AfterReturn, WhatFollows
     DEF NestedForFullDisk, setControlCommand, BootCalls
<1>8. PowerFits'
  BY <1>1, <1>2, AfterReturn DEF PowerFits
<1>9. NoHeaderRuined' /\ WritingFits'
  BY <1>1, <1>2, <1>3, AfterReturn
     DEF WritingFits, NoHeaderRuined, EndOfLog, Used, ShouldLog, IsLogging, ToLog
<1>10. RecordsInOrder' /\ HeadersHaveRecords' /\ ClosedLogsComplete'
  BY <1>1 DEF RecordsInOrder, HeadersHaveRecords, ClosedLogsComplete
<1>11. LogsCounted'
  BY <1>1, <1>2, <1>3, AfterReturn
     DEF LogsCounted, LastLogOpen, Booting, Formatted, ShouldLog, IsLogging, ToLog
<1>12. HeadersBeforeClose'
  BY <1>1, <1>2, AfterReturn DEF HeadersBeforeClose, At
<1>13. FormatFits'
  BY <1>1, <1>2, AfterReturn DEF FormatFits, Formatted, AllToFormat
<1> QED
  BY <1>4, <1>5, <1>6, <1>7, <1>8, <1>9, <1>10, <1>11, <1>12, <1>13

\* What the stop of sensors that work leaves to be done.
LEMMA StopSteps ==
    ASSUME IInv, stopSensors_, working
    PROVE  /\ todo' \in Seq(Steps) /\ InOrder(todo)'
           /\ \A step \in Pending' :
                 \/ step \in Pending /\ step \in Steps /\ Before(Head(todo), step)
                 \/ step.call \in {"flashMailbox", "eraseSettings", "markSettings",
                                   "saveSetting", "sensorsStopped"}
                 \/ step.call = "closeLog" /\ Head(todo).logging
           /\ \A step \in Pending : step = Head(todo) \/ step \in Pending'
           /\ Has("sensorsStopped")' /\ At("flashMailbox")'
           /\ Head(todo).logging => \A s \in Sensors : HasFor("closeLog", s)'
           /\ ~Has("countLogs") /\ Has("stopSensors")
<1> DEFINE h == Head(todo)
           flush == <<Step("flashMailbox")>>
           close == IF h.logging THEN ForEach(closeLog) ELSE <<>>
           erase == <<Step("eraseSettings"), Step("markSettings")>>
           save  == ForEach(saveSetting)
           last  == <<Step("sensorsStopped")>>
           upTo2 == flush \o close
           upTo3 == upTo2 \o erase
           upTo4 == upTo3 \o save
           steps == upTo4 \o last
           F == {Step("flashMailbox")}
           C == IF h.logging THEN {closeLog(s) : s \in Sensors} ELSE {}
           E == {Step("eraseSettings"), Step("markSettings")}
           S == {saveSetting(s) : s \in Sensors}
           L == {Step("sensorsStopped")}
<1>1. /\ ~Quiet /\ h.call = "stopSensors"
      /\ Enter(steps)
  BY DEF stopSensors_, At, IInv, TypeOK
<1>2. /\ todo \in Seq(Steps) /\ InOrder(todo) /\ h \in Steps /\ h \in Pending
      /\ Pending = {h} \cup Below
      /\ \A b \in Below : b \in Steps /\ Before(h, b)
  BY <1>1, Stack DEF IInv, TypeOK
<1>3. ~Has("countLogs") /\ Has("stopSensors")
  BY <1>1, <1>2 DEF IInv, Due, Has
<1>4. /\ \A b \in Below : b.call # "countLogs" /\ b # setControlCommand("sensorShouldSleep")
  BY <1>1, <1>2, <1>3 DEF IInv, Due, Has, At
<1>5. /\ Step("flashMailbox") \in Steps /\ Step("eraseSettings") \in Steps
      /\ Step("markSettings") \in Steps /\ Step("sensorsStopped") \in Steps
  BY AreSteps DEF PlainSteps
<1>6. /\ flush \in Seq(Steps) /\ Range(flush) = F /\ InOrder(flush) /\ flush # <<>>
      /\ Head(flush) = Step("flashMailbox")
      /\ last \in Seq(Steps) /\ Range(last) = L /\ InOrder(last)
  BY <1>5, OneStep
<1>7. erase \in Seq(Steps) /\ Range(erase) = E /\ InOrder(erase)
  <2>1. Before(Step("eraseSettings"), Step("markSettings"))
    BY DEF Before, CallsBefore, StopCalls, BootCalls, Step
  <2> QED
    BY <1>5, <2>1, TwoSteps
<1>8. /\ close \in Seq(Steps) /\ Range(close) = C /\ InOrder(close)
      /\ save \in Seq(Steps) /\ Range(save) = S /\ InOrder(save)
  <2>1. <<>> \in Seq(Steps) /\ Range(<<>>) = {} /\ InOrder(<<>>)
    BY DEF Range, InOrder
  <2> QED
    BY <2>1, StepsForEach, ControlAssumption
<1> HIDE DEF h, flush, close, erase, save, last, upTo2, upTo3, upTo4, steps
<1>9. \A a \in F \cup C \cup E \cup S \cup L :
         a.call \in {"flashMailbox", "eraseSettings", "markSettings", "saveSetting",
                     "sensorsStopped", "closeLog"}
  BY DEF Step, closeLog, saveSetting
<1>10. \A a \in F \cup C \cup E \cup S \cup L, b \in F \cup C \cup E \cup S \cup L :
          Before(a, b)
  <2>1. \A b \in F \cup C \cup E \cup S \cup L : StopCalls \subseteq CallsBefore(b)
    BY DEF CallsBefore, Step, closeLog, saveSetting
  <2> QED
    BY <1>9, <2>1 DEF Before, StopCalls
<1>11. \A a \in F \cup C \cup E \cup S \cup L, b \in Below : Before(a, b)
  <2>1. \A b \in Below : StopCalls \subseteq CallsBefore(b)
    <3> SUFFICES ASSUME NEW b \in Below PROVE StopCalls \subseteq CallsBefore(b)
      OBVIOUS
    <3>1. /\ h.call \in CallsBefore(b) /\ b \in Steps
      BY <1>2 DEF Before
    <3>2. b.call \notin {"countLogs", "boot", "startSensors", "writeMeta", "stopSensors"}
      BY <1>1, <1>2, <1>4, WhatFollows
    <3>3. /\ b.call = "finish" => b.command # "sensorShouldWork"
          /\ b.call = "setControlCommand" => b.command # "sensorShouldSleep"
      BY <1>1, <1>2, <1>4, WhatFollows, Fields
    <3> QED
      BY <3>2, <3>3 DEF CallsBefore
  <2> QED
    BY <1>9, <2>1 DEF Before, StopCalls
<1> HIDE DEF F, C, E, S, L
<1>12. /\ upTo2 \in Seq(Steps) /\ InOrder(upTo2)
       /\ Range(upTo2) = F \cup C
       /\ upTo2 # <<>> /\ Head(upTo2) = Step("flashMailbox")
  BY <1>6, <1>8, <1>10, OrderOfConcat DEF upTo2
<1>13. /\ upTo3 \in Seq(Steps) /\ InOrder(upTo3)
       /\ Range(upTo3) = F \cup C \cup E
       /\ upTo3 # <<>> /\ Head(upTo3) = Step("flashMailbox")
  BY <1>7, <1>10, <1>12, OrderOfConcat DEF upTo3
<1>14. /\ upTo4 \in Seq(Steps) /\ InOrder(upTo4)
       /\ Range(upTo4) = F \cup C \cup E \cup S
       /\ upTo4 # <<>> /\ Head(upTo4) = Step("flashMailbox")
  BY <1>8, <1>10, <1>13, OrderOfConcat DEF upTo4
<1>15. /\ steps \in Seq(Steps) /\ InOrder(steps)
       /\ Range(steps) = F \cup C \cup E \cup S \cup L
       /\ steps # <<>> /\ Head(steps) = Step("flashMailbox")
  BY <1>6, <1>10, <1>14, OrderOfConcat DEF steps
<1>16. /\ todo' \in Seq(Steps) /\ InOrder(todo)'
       /\ Pending' = (F \cup C \cup E \cup S \cup L) \cup Below
       /\ todo' # <<>> /\ Head(todo') = Step("flashMailbox")
  BY <1>1, <1>2, <1>11, <1>15, Entering
<1>17. /\ Has("sensorsStopped")' /\ At("flashMailbox")'
       /\ h.logging => \A s \in Sensors : HasFor("closeLog", s)'
  <2>1. /\ Step("sensorsStopped") \in Pending'
        /\ Step("sensorsStopped").call = "sensorsStopped"
        /\ Step("flashMailbox").call = "flashMailbox"
    BY <1>16 DEF L, Step
  <2>2. \A s \in Sensors : /\ h.logging => closeLog(s) \in Pending'
                           /\ closeLog(s).call = "closeLog" /\ closeLog(s).sensor = s
    BY <1>16 DEF C, closeLog
  <2> QED
    BY <1>16, <2>1, <2>2 DEF Has, HasFor, At, Quiet
<1>18. \A step \in Pending' :
          \/ step \in Below
          \/ step.call \in {"flashMailbox", "eraseSettings", "markSettings",
                            "saveSetting", "sensorsStopped"}
          \/ step.call = "closeLog" /\ h.logging
  BY <1>16 DEF F, C, E, S, L, Step, saveSetting, closeLog
<1> QED
  BY <1>2, <1>3, <1>16, <1>17, <1>18 DEF h

LEMMA StopSensorsKeepsIInv ==
    ASSUME IInv, stopSensors_
    PROVE  IInv'
<1> USE DEF flash, model, rest
<1>1. /\ ~Quiet /\ Head(todo).call = "stopSensors"
      /\ UNCHANGED <<working, setting, writing, mailbox, flash, model, rest>>
  BY DEF stopSensors_, At
<1>2. CASE ~working
  <2>1. Return /\ UNCHANGED timer
    BY <1>2 DEF stopSensors_
  <2> QED
    BY <1>1, <1>2, <2>1, PlainReturnKeepsIInv DEF IInv, TypeOK, sensors
<1>3. CASE working
  <2> USE DEF IInv
  <2>1. /\ todo' \in Seq(Steps) /\ InOrder(todo)'
        /\ \A step \in Pending' :
              \/ step \in Pending /\ step \in Steps /\ Before(Head(todo), step)
              \/ step.call \in {"flashMailbox", "eraseSettings", "markSettings",
                                "saveSetting", "sensorsStopped"}
              \/ step.call = "closeLog" /\ Head(todo).logging
        /\ \A step \in Pending : step = Head(todo) \/ step \in Pending'
        /\ Has("sensorsStopped")' /\ At("flashMailbox")'
        /\ Head(todo).logging => \A s \in Sensors : HasFor("closeLog", s)'
        /\ ~Has("countLogs") /\ Has("stopSensors")
    BY <1>3, StopSteps
  <2>2. Head(todo) \in Steps /\ Head(todo) \in Pending
    BY <1>1, Stack DEF TypeOK
  <2>3. /\ command # "sensorShouldWork" /\ timer' = FALSE
        /\ Head(todo).logging => ShouldLog
    BY <1>1, <1>3, <2>2 DEF Due, stopSensors_
  <2>4. /\ \A name : Has(name)' =>
              \/ Has(name)
              \/ name \in {"flashMailbox", "eraseSettings", "markSettings",
                           "saveSetting", "sensorsStopped"}
              \/ name = "closeLog" /\ Head(todo).logging
        /\ \A name : Has(name) /\ name # "stopSensors" => Has(name)'
        /\ \A c : Finishing(c)' <=> Finishing(c)
        /\ \A name, s : HasFor(name, s) /\ name # "stopSensors" => HasFor(name, s)'
    BY <1>1, <2>1 DEF Has, Finishing, HasFor
  <2>5. /\ setControlCommand("sensorShouldSleep") \notin Pending
        /\ setControlCommand("sensorShouldSleep") \notin Pending'
    BY <1>1, <2>1 DEF Due, At, setControlCommand
  <2>6. TypeOK'
    BY <1>1, <2>1, <2>3 DEF TypeOK
  <2>7. ASSUME NEW step \in Pending' PROVE Due(step)'
    <3>1. CASE step.call = "closeLog" /\ Head(todo).logging
      <4>1. ~Has("writeMeta")
        BY <2>3 DEF Has, Due
      <4>2. writing.log \in LogIDs /\ meta[writing.log] = "open"
        BY <1>3, <2>3, <3>1, <4>1 DEF WritingFits
      <4> QED
        BY <1>1, <2>3, <3>1, <4>2 DEF Due, setControlCommand
    <3>2. CASE step.call \in {"flashMailbox", "eraseSettings", "markSettings",
                              "saveSetting", "sensorsStopped"}
      BY <1>1, <2>3, <3>2 DEF Due, setControlCommand
    <3>3. CASE step \in Pending
      <4>1. step # setControlCommand("sensorShouldSleep")
        BY <2>5, <3>3
      <4> QED
        BY <1>1, <2>3, <2>4, <3>3, <4>1 DEF Due, ShouldLog, IsLogging, ToLog
    <3> QED
      BY <2>1, <2>7, <3>1, <3>2, <3>3
  <2>8. SensorsFollow'
    BY <1>1, <2>1, <2>3 DEF SensorsFollow
  <2>9. NestedForFullDisk'
    BY <2>5 DEF NestedForFullDisk
  <2>10. PowerFits'
    BY <1>1, <2>4 DEF PowerFits
  <2>11. NoHeaderRuined' /\ WritingFits'
    BY <1>1, <2>3, <2>4
       DEF WritingFits, NoHeaderRuined, EndOfLog, Used, ShouldLog, IsLogging, ToLog
  <2>12. RecordsInOrder' /\ HeadersHaveRecords' /\ ClosedLogsComplete'
    BY <1>1 DEF RecordsInOrder, HeadersHaveRecords, ClosedLogsComplete
  <2>13. LogsCounted'
    BY <1>1, <2>4
       DEF LogsCounted, LastLogOpen, Booting, Formatted, ShouldLog, IsLogging, ToLog
  <2>14. HeadersBeforeClose'
    BY <1>1, <2>1, <2>4 DEF HeadersBeforeClose
  <2>15. FormatFits'
    BY <1>1, <2>1, <2>4 DEF FormatFits, Formatted, AllToFormat
  <2> QED
    BY <2>1, <2>6, <2>7, <2>8, <2>9, <2>10, <2>11, <2>12, <2>13, <2>14, <2>15
<1> QED
  BY <1>2, <1>3

\* What is in use of an area lies in the area.
LEMMA UsedFits ==
    ASSUME TypeOK, NEW s \in Sensors, NEW count \in -1 .. MaxNumOfLog
    PROVE  Used(s, count) \in 0 .. Capacity
<1>1. count > 0 => count - 1 \in LogIDs
  BY ControlAssumption DEF LogIDs
<1>2. count > 0 => header[s][count - 1] \in (0 .. Capacity) \cup {Erased, Ruined}
  BY <1>1 DEF TypeOK
<1> QED
  BY <1>2, ControlAssumption DEF Used

LEMMA EndOfLogIsInt ==
    ASSUME TypeOK, NEW s \in Sensors
    PROVE  /\ writing.log \in -1 .. MaxNumOfLog
           /\ Used(s, writing.log) \in 0 .. Capacity
           /\ writing.wpos[s] \in 0 .. Capacity
           /\ EndOfLog(s) = Used(s, writing.log) + writing.wpos[s]
           /\ EndOfLog(s) \in Nat
<1>1. writing.log \in -1 .. MaxNumOfLog /\ writing.wpos[s] \in 0 .. Capacity
  BY ControlAssumption DEF TypeOK, LogIDs, NoLog
<1> QED
  BY <1>1, UsedFits, ControlAssumption DEF EndOfLog

\* The head of the mailbox is a sensor, and the rest is a mailbox.
LEMMA MailboxTail ==
    ASSUME TypeOK, SensorsFollow, mailbox # <<>>
    PROVE  /\ Head(mailbox) \in Available /\ Head(mailbox) \in Sensors
           /\ Tail(mailbox) \in Seq(Available) /\ Tail(mailbox) \in Seq(Sensors)
           /\ Len(Tail(mailbox)) <= MailboxSize
           /\ ToLog(Head(mailbox)) => ShouldLog
<1>1. mailbox \in Seq(Sensors) /\ mailbox \in Seq(Available) /\ Len(mailbox) <= MailboxSize
  BY DEF TypeOK, SensorsFollow
<1>2. /\ Head(mailbox) \in Available /\ Head(mailbox) \in Sensors
      /\ Tail(mailbox) \in Seq(Available) /\ Tail(mailbox) \in Seq(Sensors)
      /\ Len(Tail(mailbox)) = Len(mailbox) - 1 /\ Len(mailbox) \in Nat
  BY <1>1, HeadTailProperties, LenProperties
<1> QED
  BY <1>1, <1>2, ControlAssumption DEF ShouldLog, IsLogging

LEMMA FlashMailboxKeepsIInv ==
    ASSUME IInv, flashMailbox
    PROVE  IInv'
<1> USE DEF flash, model, rest
<1>1. /\ ~Quiet /\ Head(todo).call = "flashMailbox"
      /\ UNCHANGED <<working, setting, timer, flash, model, rest>>
  BY DEF flashMailbox, At
<1>2. CASE mailbox = <<>>
  <2>1. Return /\ UNCHANGED <<mailbox, writing>>
    BY <1>2 DEF flashMailbox
  <2> QED
    BY <1>1, <1>2, <2>1, PlainReturnKeepsIInv DEF IInv, TypeOK, sensors
<1>3. CASE mailbox # <<>>
  <2> USE DEF IInv
  <2> DEFINE s == Head(mailbox)
  <2>1. /\ mailbox' = Tail(mailbox) /\ UNCHANGED todo
        /\ \/ UNCHANGED writing
           \/ /\ ToLog(s) /\ writing.wpos[s] < Room(s)
              /\ writing' = [writing EXCEPT !.wpos[s] = @ + 1]
    BY <1>3 DEF flashMailbox
  <2>2. /\ s \in Available /\ s \in Sensors
        /\ mailbox' \in Seq(Available) /\ mailbox' \in Seq(Sensors)
        /\ Len(mailbox') <= MailboxSize
        /\ ToLog(s) => ShouldLog
    BY <1>3, <2>1, MailboxTail
  <2> HIDE DEF s
  <2>3. /\ \A name : Has(name)' <=> Has(name)
        /\ \A name : At(name)' <=> At(name)
        /\ \A c : Finishing(c)' <=> Finishing(c)
        /\ \A name, t : HasFor(name, t)' <=> HasFor(name, t)
        /\ Pending' = Pending
    BY <2>1 DEF Has, Finishing, HasFor, Pending, At, Quiet
  <2>4. /\ writing'.log = writing.log
        /\ writing' \in [log : LogIDs \cup {NoLog}, wpos : [Sensors -> 0 .. Capacity]]
        /\ writing.log # NoLog =>
              \A t \in Sensors : /\ EndOfLog(t)' <= Capacity
                                 /\ header[t][writing.log] \in {Erased, EndOfLog(t)'}
    <3>1. CASE UNCHANGED writing
      BY <1>1, <3>1 DEF TypeOK, WritingFits, EndOfLog, Used
    <3>2. CASE /\ ToLog(s) /\ writing.wpos[s] < Room(s)
               /\ writing' = [writing EXCEPT !.wpos[s] = @ + 1]
      <4>1. /\ writing.log \in LogIDs
            /\ \A t \in Sensors : header[t][writing.log] = Erased
        BY <1>3, <2>2, <3>2 DEF WritingFits
      <4>2. writing.wpos[s] + 1 \in 0 .. Capacity
        <5>1. /\ Used(s, writing.log) \in 0 .. Capacity
              /\ writing.wpos[s] \in 0 .. Capacity
          BY <2>2, EndOfLogIsInt
        <5>2. writing.wpos[s] < Capacity - Used(s, writing.log)
          BY <3>2 DEF Room
        <5> HIDE DEF IInv, flash, model, rest
        <5> QED
          BY <5>1, <5>2, ControlAssumption
      <4>3. /\ writing'.log = writing.log
            /\ writing'.wpos = [writing.wpos EXCEPT ![s] = writing.wpos[s] + 1]
            /\ writing' \in [log : LogIDs \cup {NoLog},
                             wpos : [Sensors -> 0 .. Capacity]]
        BY <2>2, <3>2, <4>2 DEF TypeOK
      <4>4. ASSUME NEW t \in Sensors PROVE EndOfLog(t)' <= Capacity
        <5>1. EndOfLog(t)' = Used(t, writing.log) + writing'.wpos[t]
          BY <1>1, <4>3 DEF EndOfLog, Used
        <5>2. writing'.wpos[t] = IF t = s THEN writing.wpos[s] + 1 ELSE writing.wpos[t]
          BY <2>2, <4>3 DEF TypeOK
        <5>3. EndOfLog(t) <= Capacity
          BY <4>1, ControlAssumption DEF WritingFits, LogIDs, NoLog
        <5>4. /\ Used(t, writing.log) \in 0 .. Capacity
              /\ writing.wpos[t] \in 0 .. Capacity
              /\ EndOfLog(t) = Used(t, writing.log) + writing.wpos[t]
          BY EndOfLogIsInt
        <5>5. writing.wpos[s] < Capacity - Used(s, writing.log)
          BY <3>2 DEF Room
        <5> HIDE DEF IInv, flash, model, rest
        <5> QED
          BY <4>2, <5>1, <5>2, <5>3, <5>4, <5>5, ControlAssumption
      <4> QED
        BY <4>1, <4>3, <4>4
    <3> QED
      BY <2>1, <3>1, <3>2
  <2>5. TypeOK' /\ InOrder(todo)'
    BY <1>1, <2>1, <2>2, <2>4 DEF TypeOK
  <2>6. ASSUME NEW step \in Pending' PROVE Due(step)'
    BY <1>1, <2>3, <2>4, <2>6 DEF Due, ShouldLog, IsLogging, ToLog
  <2>7. SensorsFollow'
    BY <1>1, <2>2, <2>3 DEF SensorsFollow, At
  <2>8. NestedForFullDisk' /\ PowerFits'
    BY <1>1, <2>3 DEF NestedForFullDisk, PowerFits
  <2>9. NoHeaderRuined' /\ WritingFits'
    BY <1>1, <1>3, <2>3, <2>4
       DEF WritingFits, NoHeaderRuined, ShouldLog, IsLogging, ToLog
  <2>10. RecordsInOrder' /\ HeadersHaveRecords' /\ ClosedLogsComplete'
    BY <1>1 DEF RecordsInOrder, HeadersHaveRecords, ClosedLogsComplete
  <2>11. LogsCounted'
    BY <1>1, <2>3, <2>4
       DEF LogsCounted, LastLogOpen, Booting, Formatted, ShouldLog, IsLogging, ToLog
  <2>12. HeadersBeforeClose'
    BY <1>1, <2>3, <2>4 DEF HeadersBeforeClose, At
  <2>13. FormatFits'
    BY <1>1, <2>3 DEF FormatFits, Formatted, AllToFormat
  <2> QED
    BY <2>5, <2>6, <2>7, <2>8, <2>9, <2>10, <2>11, <2>12, <2>13
<1> QED
  BY <1>2, <1>3

\* Where one call of a stop may stand, each of them may.
LEMMA StopCallsTogether ==
    ASSUME NEW a, NEW b, Before(a, b), a.call \in StopCalls \ {"stopSensors"}
    PROVE  StopCalls \subseteq CallsBefore(b)
  BY DEF Before, CallsBefore, StopCalls, BootCalls

LEMMA StorageFullKeepsIInv ==
    ASSUME IInv, storageFull
    PROVE  IInv'
<1> USE DEF IInv, flash, model, rest
<1> DEFINE stop == setControlCommand("sensorShouldSleep")
           full == Step("setDiskFull")
<1>1. /\ ~Quiet /\ Head(todo).call = "flashMailbox" /\ mailbox' = <<>>
      /\ todo' = <<stop, full>> \o todo
      /\ UNCHANGED <<working, setting, writing, timer, flash, model, rest>>
  BY DEF storageFull, At
<1>2. /\ todo \in Seq(Steps) /\ InOrder(todo) /\ Head(todo) \in Pending
      /\ Pending = {Head(todo)} \cup Below
      /\ \A b \in Below : Before(Head(todo), b)
  BY <1>1, Stack DEF TypeOK
<1>3. /\ stop \in Steps /\ full \in Steps /\ Before(stop, full)
      /\ stop.call = "setControlCommand" /\ stop.command = "sensorShouldSleep"
      /\ full.call = "setDiskFull"
  BY AreSteps
     DEF PlainSteps, Commands, Before, CallsBefore, StopCalls, Step, setControlCommand
<1>4. \A b \in Pending : Before(stop, b) /\ Before(full, b)
  <2>1. \A b \in Below : StopCalls \subseteq CallsBefore(b)
    BY <1>1, <1>2, StopCallsTogether DEF StopCalls
  <2>2. StopCalls \subseteq CallsBefore(Head(todo))
    BY <1>1 DEF CallsBefore
  <2> QED
    BY <1>2, <1>3, <2>1, <2>2 DEF Before, StopCalls
<1>5. /\ <<stop, full>> \in Seq(Steps) /\ InOrder(<<stop, full>>)
      /\ Range(<<stop, full>>) = {stop, full}
      /\ <<stop, full>> # <<>> /\ Head(<<stop, full>>) = stop
  BY <1>3, TwoSteps
<1> HIDE DEF stop, full
<1>6. /\ todo' \in Seq(Steps) /\ InOrder(todo)'
      /\ Pending' = {stop, full} \cup Pending
      /\ At("setControlCommand")'
  BY <1>1, <1>2, <1>3, <1>4, <1>5, Pushing DEF At, Quiet
<1>7. /\ \A name : Has(name)' <=>
            Has(name) \/ name \in {"setControlCommand", "setDiskFull"}
      /\ \A c : Finishing(c)' <=> Finishing(c)
      /\ \A name, s : HasFor(name, s) => HasFor(name, s)'
  BY <1>3, <1>6 DEF Has, Finishing, HasFor
<1>8. TypeOK'
  <2>1. mailbox' \in Seq(Sensors) /\ Len(mailbox') <= MailboxSize
    <3>1. \A q : q = <<>> => q \in Seq(Sensors) /\ Len(q) = 0
      BY EmptySeq
    <3> QED
      BY <1>1, <3>1, ControlAssumption
  <2>2. TypeOK
    OBVIOUS
  <2> HIDE DEF IInv
  <2> QED
    BY <1>1, <1>6, <2>1, <2>2 DEF TypeOK
<1>9. ASSUME NEW step \in Pending' PROVE Due(step)'
  <2>1. CASE step \in {stop, full}
    BY <1>3, <1>6, <2>1 DEF Due
  <2>2. CASE step \in Pending
    BY <1>1, <1>6, <1>7, <2>2 DEF Due, ShouldLog, IsLogging, ToLog, At
  <2> QED
    BY <1>6, <1>9, <2>1, <2>2
<1>10. SensorsFollow'
  BY <1>1, <1>6, <1>7 DEF SensorsFollow, At
<1>11. NestedForFullDisk' /\ PowerFits'
  BY <1>1, <1>7 DEF NestedForFullDisk, PowerFits
<1>12. NoHeaderRuined' /\ WritingFits'
  BY <1>1, <1>7
     DEF WritingFits, NoHeaderRuined, EndOfLog, Used, ShouldLog, IsLogging, ToLog
<1>13. RecordsInOrder' /\ HeadersHaveRecords' /\ ClosedLogsComplete'
  BY <1>1 DEF RecordsInOrder, HeadersHaveRecords, ClosedLogsComplete
<1>14. LogsCounted'
  BY <1>1, <1>7
     DEF LogsCounted, LastLogOpen, Booting, Formatted, ShouldLog, IsLogging, ToLog
<1>15. HeadersBeforeClose'
  BY <1>1, <1>7 DEF HeadersBeforeClose, At
<1>16. FormatFits'
  <2>1. Has("flashMailbox")
    BY <1>1, <1>2 DEF Has
  <2> QED
    BY <1>1, <1>7, <2>1 DEF FormatFits, Formatted, AllToFormat
<1> QED
  BY <1>6, <1>8, <1>9, <1>10, <1>11, <1>12, <1>13, <1>14, <1>15, <1>16

LEMMA CloseLogKeepsIInv ==
    ASSUME IInv, closeLog_
    PROVE  IInv'
<1> USE DEF IInv, model, sensors, rest
<1> DEFINE s == Head(todo).sensor
           l == writing.log
<1>1. /\ ~Quiet /\ Head(todo).call = "closeLog" /\ Return
      /\ UNCHANGED <<formatted, meta, saved, model, sensors, rest>>
  BY DEF closeLog_, At
<1>2. /\ todo \in Seq(Steps) /\ InOrder(todo) /\ Head(todo) \in Steps
      /\ Head(todo) \in Pending /\ s \in Sensors
  BY <1>1, Stack, Fields DEF TypeOK
<1>3. /\ command # "sensorShouldWork" /\ ~timer /\ mailbox = <<>>
      /\ l \in LogIDs /\ meta[l] = "open" /\ l # NoLog
  BY <1>1, <1>2, ControlAssumption DEF Due, SensorsFollow, At, LogIDs, NoLog
<1>4. /\ header' = [header EXCEPT ![s] = [header[s] EXCEPT ![l] = EndOfLog(s)]]
      /\ EndOfLog(s) \in 0 .. Capacity
  <2>1. header[s][l] \in {Erased, EndOfLog(s)} /\ EndOfLog(s) <= Capacity
    BY <1>2, <1>3 DEF WritingFits
  <2>2. EndOfLog(s) \in 0 .. Capacity
    BY <1>2, <2>1, EndOfLogIsInt, ControlAssumption
  <2> QED
    BY <1>3, <2>1, <2>2 DEF closeLog_
<1> HIDE DEF s, l
<1>5. /\ \A t \in Sensors, id \in LogIDs :
            header'[t][id] = IF t = s /\ id = l THEN EndOfLog(s) ELSE header[t][id]
      /\ header' \in [Sensors -> [LogIDs -> (0 .. Capacity) \cup {Erased, Ruined}]]
  BY <1>2, <1>3, <1>4 DEF TypeOK
<1>6. EndOfLog(s) \notin {Erased, Ruined}
  BY <1>4, ControlAssumption
<1>7. \A t \in Sensors : EndOfLog(t)' = EndOfLog(t)
  <2> SUFFICES ASSUME NEW t \in Sensors PROVE EndOfLog(t)' = EndOfLog(t)
    OBVIOUS
  <2>1. l > 0 => l - 1 \in LogIDs /\ l - 1 # l
    BY <1>3, ControlAssumption DEF LogIDs
  <2>2. l > 0 => header'[t][l - 1] = header[t][l - 1]
    BY <1>5, <2>1
  <2> QED
    BY <1>1, <2>2 DEF EndOfLog, Used, l
<1>8. TypeOK' /\ InOrder(todo)'
  BY <1>1, <1>2, <1>5, AfterReturn DEF TypeOK
<1>9. ASSUME NEW step \in Pending' PROVE Due(step)'
  BY <1>1, <1>2, <1>3, <1>9, AfterReturn DEF Due, ShouldLog, IsLogging, ToLog, At
<1>10. SensorsFollow'
  BY <1>1, <1>2, <1>3, AfterReturn DEF SensorsFollow, At
<1>11. NestedForFullDisk' /\ PowerFits'
  BY <1>1, <1>2, AfterReturn DEF NestedForFullDisk, PowerFits
<1>12. NoHeaderRuined'
  BY <1>5, <1>6 DEF NoHeaderRuined
<1>13. WritingFits'
  <2>1. \A t \in Sensors : /\ EndOfLog(t)' <= Capacity
                           /\ header'[t][l] \in {Erased, EndOfLog(t)'}
    BY <1>3, <1>5, <1>7 DEF WritingFits, l
  <2>2. ~Has("writeMeta")
    BY <1>3 DEF Due, Has
  <2> QED
    BY <1>1, <1>2, <1>3, <2>1, <2>2, AfterReturn
       DEF WritingFits, ShouldLog, IsLogging, ToLog, l
<1>14. RecordsInOrder' /\ HeadersHaveRecords' /\ ClosedLogsComplete'
  BY <1>1, <1>3, <1>5, <1>6, ControlAssumption
     DEF RecordsInOrder, HeadersHaveRecords, ClosedLogsComplete
<1>15. LogsCounted'
  BY <1>1, <1>2, AfterReturn
     DEF LogsCounted, LastLogOpen, Booting, Formatted, ShouldLog, IsLogging, ToLog
<1>16. HeadersBeforeClose'
  <2>1. \A t \in Sensors : HasFor("closeLog", t) => t = s \/ HasFor("closeLog", t)'
    BY <1>1, <1>2, AfterReturn DEF s
  <2> QED
    BY <1>1, <1>2, <1>3, <1>5, <1>6, <2>1, AfterReturn DEF HeadersBeforeClose, At, l
<1>17. FormatFits'
  <2>1. /\ Has("closeLog")
        /\ \A t \in Sensors : HasFor("formatLog", t) => HasFor("formatLog", t)'
    BY <1>1, <1>2, AfterReturn DEF Has
  <2>2. ~Has("countLogs")'
    BY <1>1, <1>2, AfterReturn, WhatFollows DEF Has, BootCalls
  <2> QED
    BY <1>1, <1>2, <2>1, <2>2, AfterReturn DEF FormatFits, Formatted, AllToFormat
<1> QED
  BY <1>8, <1>9, <1>10, <1>11, <1>12, <1>13, <1>14, <1>15, <1>16, <1>17

-----------------------------------------------------------------------------
(* The records, and the format of the storage. *)

\* Of two steps that are pending, one comes before the other.
LEMMA Comparable ==
    ASSUME InOrder(todo), todo \in Seq(Steps), NEW a \in Pending, NEW b \in Pending
    PROVE  a = b \/ Before(a, b) \/ Before(b, a)
<1>1. DOMAIN todo \subseteq Int
  BY LenProperties
<1>2. PICK i \in DOMAIN todo, j \in DOMAIN todo : a = todo[i] /\ b = todo[j]
  BY DEF Pending, Range
<1>3. i < j \/ j < i \/ i = j
  BY <1>1
<1> QED
  BY <1>2, <1>3 DEF InOrder

\* A format at boot is none of a command, and closes no record.
LEMMA BootFormatsOnly ==
    ASSUME IInv, Has("countLogs")
    PROVE  /\ ~Has("closeMeta")
           /\ \A c : ~Finishing(c)
<1>1. PICK a \in Pending : a.call = "countLogs"
  BY DEF Has
<1>2. ASSUME NEW b \in Pending, b.call \in {"closeMeta", "finish"} PROVE FALSE
  <2>1. a = b \/ Before(a, b) \/ Before(b, a)
    BY Comparable DEF IInv, TypeOK
  <2> QED
    BY <1>1, <1>2, <2>1, WhatFollows DEF BootCalls
<1> QED
  BY <1>2 DEF Has, Finishing

LEMMA CloseMetaKeepsIInv ==
    ASSUME IInv, closeMeta_
    PROVE  IInv'
<1> USE DEF IInv, sensors, rest
<1> DEFINE id == Head(todo).id
<1>1. /\ ~Quiet /\ Head(todo).call = "closeMeta" /\ Return
      /\ meta' = [meta EXCEPT ![id] = IF @ = "open" THEN "closed" ELSE @]
      /\ diskFull' = (diskFull \/ id + 1 >= MaxNumOfLog)
      /\ UNCHANGED <<formatted, header, saved, command, logCount, connected,
                     waitingForDFU, sensors, rest>>
  BY DEF closeMeta_, At
<1>2. /\ todo \in Seq(Steps) /\ InOrder(todo)
      /\ Head(todo) \in Steps /\ Head(todo) \in Pending /\ id \in LogIDs
  BY <1>1, Stack, Fields DEF TypeOK
<1>3. /\ \A name \in {"closeLog", "sensorsStopped", "formatLog", "stopSensors",
                      "countLogs", "closeMeta", "boot"} : ~Has(name)'
  BY <1>1, <1>2, AfterReturn, WhatFollows DEF Has, StopCalls, BootCalls
<1>4. command # "sensorShouldWork" /\ id = logCount - 1 /\ ~timer /\ mailbox = <<>>
  BY <1>1, <1>2 DEF Due, SensorsFollow, At
<1>5. ~working
  BY <1>1, <1>2, <1>3, <1>4, AfterReturn DEF SensorsFollow
<1> HIDE DEF id
<1>6. /\ meta' \in [LogIDs -> {Erased, "open", "closed"}]
      /\ \A j \in LogIDs :
            /\ meta'[j] = IF j = id /\ meta[j] = "open" THEN "closed" ELSE meta[j]
            /\ meta'[j] = Erased <=> meta[j] = Erased
  BY <1>1, <1>2, ControlAssumption DEF TypeOK
<1>7. TypeOK' /\ InOrder(todo)'
  BY <1>1, <1>2, <1>6, AfterReturn DEF TypeOK
<1>8. ASSUME NEW step \in Pending' PROVE Due(step)'
  <2>1. Has(step.call)'
    BY <1>8 DEF Has
  <2> QED
    BY <1>1, <1>2, <1>3, <1>4, <1>8, <2>1, AfterReturn
       DEF Due, ShouldLog, IsLogging, ToLog, At
<1>9. SensorsFollow'
  BY <1>1, <1>2, <1>4, <1>5 DEF SensorsFollow
<1>10. NestedForFullDisk' /\ PowerFits'
  BY <1>1, <1>2, AfterReturn DEF NestedForFullDisk, PowerFits
<1>11. NoHeaderRuined' /\ WritingFits'
  BY <1>1, <1>4, <1>5 DEF WritingFits, NoHeaderRuined, EndOfLog, Used
<1>12. RecordsInOrder' /\ HeadersHaveRecords'
  BY <1>1, <1>6 DEF RecordsInOrder, HeadersHaveRecords
<1>13. ClosedLogsComplete'
  <2> SUFFICES ASSUME ~unfinished, NEW j \in LogIDs, meta'[j] = "closed",
                      NEW s \in Sensors
               PROVE  header[s][j] # Erased
    BY <1>1 DEF ClosedLogsComplete
  <2>1. CASE meta[j] = "closed"
    BY <2>1 DEF ClosedLogsComplete
  <2>2. CASE meta[j] # "closed"
    <3>1. j = id /\ Has("closeMeta")
      BY <1>1, <1>2, <1>6, <2>2 DEF Has
    <3>2. ~HasFor("closeLog", s) /\ ~HasFor("formatLog", s)
      BY <1>1, <1>2, <1>3, AfterReturn DEF Has, HasFor
    <3> QED
      BY <1>1, <1>4, <3>1, <3>2 DEF HeadersBeforeClose, FormatFits, AllToFormat, At
  <2> QED
    BY <2>1, <2>2
<1>14. LogsCounted'
  <2>1. /\ Formatted' <=> Formatted
        /\ \A c : Finishing(c)' <=> Finishing(c)
        /\ ~Booting
    BY <1>1, <1>2, <1>3, AfterReturn DEF Formatted, Booting
  <2>2. ASSUME ~Formatted, NEW j \in LogIDs, j < logCount PROVE meta'[j] = "closed"
    BY <1>4, <1>6, <2>1, <2>2 DEF LogsCounted
  <2>3. ~diskFull' => ~diskFull /\ logCount # MaxNumOfLog
    <3>1. id \in Int /\ logCount \in Int /\ MaxNumOfLog \in Int /\ id = logCount - 1
      BY <1>2, <1>4, ControlAssumption DEF LogIDs, TypeOK
    <3>2. ~diskFull' => ~diskFull /\ ~(id + 1 >= MaxNumOfLog)
      BY <1>1
    <3> QED
      BY <3>1, <3>2
  <2> QED
    BY <1>1, <1>6, <2>1, <2>2, <2>3 DEF LogsCounted, ShouldLog, IsLogging, ToLog
<1>15. HeadersBeforeClose'
  BY <1>3 DEF HeadersBeforeClose
<1>16. FormatFits'
  BY <1>1, <1>2, <1>6, AfterReturn DEF FormatFits, Formatted, AllToFormat
<1> QED
  BY <1>7, <1>8, <1>9, <1>10, <1>11, <1>12, <1>13, <1>14, <1>15, <1>16

LEMMA WriteMetaKeepsIInv ==
    ASSUME IInv, writeMeta_
    PROVE  IInv'
<1> USE DEF IInv, model, sensors, rest
<1> DEFINE id == Head(todo).id
<1>1. ~Quiet /\ Head(todo).call = "writeMeta"
  BY DEF writeMeta_, At
<1>2. /\ todo \in Seq(Steps) /\ InOrder(todo)
      /\ Head(todo) \in Steps /\ Head(todo) \in Pending /\ id \in LogIDs
  BY <1>1, Stack, Fields DEF TypeOK
<1>3. /\ command = "sensorShouldWork" /\ ~diskFull /\ ShouldLog
      /\ id = logCount /\ logCount < MaxNumOfLog /\ meta[id] = Erased
      /\ Finishing("sensorShouldWork") /\ (Has("startSensors") \/ working)
  BY <1>1, <1>2 DEF Due
<1> HIDE DEF id
<1>4. /\ Return /\ meta' = [meta EXCEPT ![id] = "open"]
      /\ UNCHANGED <<formatted, header, saved, model, sensors, rest>>
  BY <1>3 DEF writeMeta_, id
<1>5. \A step \in Pending' : step.call = "finish" /\ step.command = "sensorShouldWork"
  BY <1>1, <1>2, <1>4, AfterReturn, WhatFollows
<1>6. /\ \A name : Has(name)' => name = "finish"
      /\ \A name : Has(name) => name \in {"writeMeta", "finish"}
      /\ \A c : Finishing(c)' <=> Finishing(c)
      /\ \A c : Finishing(c) => c = "sensorShouldWork"
      /\ working
  <2>1. /\ \A name : Has(name)' => name = "finish"
        /\ \A name : Has(name) => name \in {"writeMeta", "finish"}
        /\ \A c : Finishing(c)' <=> Finishing(c)
        /\ \A c : Finishing(c)' => c = "sensorShouldWork"
    BY <1>1, <1>2, <1>4, <1>5, AfterReturn DEF Has, Finishing
  <2> QED
    BY <1>3, <2>1
<1>7. /\ meta' \in [LogIDs -> {Erased, "open", "closed"}]
      /\ \A j \in LogIDs : meta'[j] = IF j = id THEN "open" ELSE meta[j]
  BY <1>2, <1>4 DEF TypeOK
<1>8. /\ \A j \in LogIDs : j < id => meta[j] = "closed"
      /\ \A j \in LogIDs : j > id => meta[j] = Erased
  <2>1. ~Booting /\ ~Formatted
    BY <1>6 DEF Booting, Formatted
  <2>2. ~LastLogOpen
    <3>1. writing.log = logCount /\ logCount \in Int
      BY <1>3, <1>6 DEF WritingFits, TypeOK
    <3> QED
      BY <1>6, <3>1 DEF LastLogOpen
  <2> QED
    <3>1. /\ \A j \in LogIDs : j < logCount => meta[j] = "closed"
          /\ \A j \in LogIDs : j >= logCount /\ meta[j] # Erased => j = logCount
      BY <1>3, <2>1, <2>2 DEF LogsCounted
    <3>2. \A j \in LogIDs : j > id => j >= logCount /\ j # logCount
      BY <1>2, <1>3 DEF LogIDs
    <3> QED
      BY <1>3, <3>1, <3>2
<1>9. TypeOK' /\ InOrder(todo)'
  BY <1>1, <1>2, <1>4, <1>7, AfterReturn DEF TypeOK
<1>10. ASSUME NEW step \in Pending' PROVE Due(step)'
  <2>1. step \in Pending
    BY <1>1, <1>2, <1>4, <1>10, AfterReturn
  <2>2. meta'[logCount] = "open"
    BY <1>2, <1>3, <1>7
  <2> QED
    <3>1. step.call = "finish" /\ step.command = "sensorShouldWork" /\ step.logging = ShouldLog
      BY <1>5, <1>10, <2>1 DEF Due
    <3>2. ShouldLog' = ShouldLog /\ UNCHANGED <<command, diskFull, logCount, working>>
      BY <1>4 DEF ShouldLog, IsLogging, ToLog
    <3> QED
      BY <1>3, <1>6, <2>2, <3>1, <3>2 DEF Due, setControlCommand
<1>11. SensorsFollow'
  BY <1>1, <1>3, <1>4, <1>6 DEF SensorsFollow, At
<1>12. NestedForFullDisk' /\ PowerFits'
  <2>1. setControlCommand("sensorShouldSleep") \notin Pending'
    BY <1>5 DEF setControlCommand
  <2> QED
    BY <1>4, <1>6, <2>1 DEF NestedForFullDisk, PowerFits
<1>13. NoHeaderRuined' /\ WritingFits'
  <2>1. meta'[writing.log] = "open"
    BY <1>2, <1>3, <1>6, <1>7 DEF WritingFits
  <2> QED
    BY <1>3, <1>4, <1>6, <2>1
       DEF WritingFits, NoHeaderRuined, EndOfLog, Used, ShouldLog, IsLogging, ToLog
<1>14. RecordsInOrder' /\ HeadersHaveRecords' /\ ClosedLogsComplete'
  <2>1. RecordsInOrder'
    BY <1>7, <1>8, ControlAssumption DEF RecordsInOrder, LogIDs
  <2>2. HeadersHaveRecords'
    BY <1>4, <1>7, ControlAssumption DEF HeadersHaveRecords
  <2>3. ClosedLogsComplete'
    BY <1>4, <1>7 DEF ClosedLogsComplete
  <2> QED
    BY <2>1, <2>2, <2>3
<1>15. LogsCounted'
  <2>1. \A j \in LogIDs : j < logCount => meta'[j] = "closed"
    BY <1>3, <1>7, <1>8, ControlAssumption DEF LogIDs
  <2>2. \A j \in LogIDs : j >= logCount /\ meta'[j] # Erased => j = logCount
    BY <1>3, <1>7, <1>8, ControlAssumption DEF LogIDs, TypeOK
  <2> QED
    BY <1>3, <1>4, <1>6, <2>1, <2>2
       DEF LogsCounted, LastLogOpen, ShouldLog, IsLogging, ToLog, TypeOK
<1>16. HeadersBeforeClose' /\ FormatFits'
  BY <1>6 DEF HeadersBeforeClose, FormatFits, Formatted
<1> QED
  BY <1>9, <1>10, <1>11, <1>12, <1>13, <1>14, <1>15, <1>16

\* What a format leaves to be done, as its steps record it.
LEMMA StillToFormat ==
    ASSUME todo \in Seq(Steps), InOrder(todo), ~Quiet, Return
    PROVE  LeftUnfinished <=> Has("formatLog")' \/ Has("eraseMeta")'
<1>1. Pending' = Range(Tail(todo))
  BY Returning DEF Below
<1> QED
  BY <1>1 DEF LeftUnfinished, Has, Range

LEMMA EraseMetaKeepsIInv ==
    ASSUME IInv, eraseMeta
    PROVE  IInv'
<1> USE DEF IInv, model, sensors
<1>1. /\ ~Quiet /\ Head(todo).call = "eraseMeta" /\ Return
      /\ formatted' = FALSE /\ meta' = [id \in LogIDs |-> Erased]
      /\ unfinished' = LeftUnfinished
      /\ UNCHANGED <<header, saved, model, sensors, powered, led>>
  BY DEF eraseMeta, At
<1>2. /\ todo \in Seq(Steps) /\ InOrder(todo)
      /\ Head(todo) \in Steps /\ Head(todo) \in Pending /\ Has("eraseMeta")
  BY <1>1, Stack DEF TypeOK, Has
<1>3. /\ \A name \in {"closeLog", "sensorsStopped", "closeMeta", "eraseMeta",
                      "startSensors", "writeMeta", "boot"} : ~Has(name)'
      /\ ~Finishing("sensorShouldWork")'
  BY <1>1, <1>2, AfterReturn, WhatFollows DEF Has, Finishing, StopCalls
<1>4. /\ command # "sensorShouldWork" /\ ~timer /\ mailbox = <<>>
      /\ Has("countLogs") \/ Finishing("formattingStorage")
  BY <1>1, <1>2 DEF Due, SensorsFollow, At
<1>5. ~working
  BY <1>1, <1>2, <1>3, <1>4, AfterReturn DEF SensorsFollow
<1>6. /\ meta' \in [LogIDs -> {Erased, "open", "closed"}]
      /\ \A id \in LogIDs : meta'[id] = Erased
  BY <1>1
<1>7. TypeOK' /\ InOrder(todo)'
  <2>1. unfinished' \in BOOLEAN
    BY <1>1 DEF LeftUnfinished
  <2> QED
    BY <1>1, <1>2, <1>6, <2>1, AfterReturn DEF TypeOK
<1>8. ASSUME NEW step \in Pending' PROVE Due(step)'
  <2>1. Has(step.call)'
    BY <1>8 DEF Has
  <2> QED
    BY <1>1, <1>2, <1>3, <1>4, <1>8, <2>1, AfterReturn, WhatFollows
       DEF Due, ShouldLog, IsLogging, ToLog, At
<1>9. SensorsFollow'
  BY <1>1, <1>2, <1>4, <1>5 DEF SensorsFollow
<1>10. NestedForFullDisk' /\ PowerFits'
  BY <1>1, <1>2, AfterReturn DEF NestedForFullDisk, PowerFits
<1>11. NoHeaderRuined' /\ WritingFits'
  BY <1>1, <1>4, <1>5 DEF WritingFits, NoHeaderRuined, EndOfLog, Used
<1>12. RecordsInOrder' /\ ClosedLogsComplete'
  BY <1>1, <1>6, ControlAssumption DEF RecordsInOrder, ClosedLogsComplete
<1>13. HeadersHaveRecords'
  <2> SUFFICES ASSUME ~unfinished', NEW s \in Sensors, NEW id \in LogIDs
               PROVE  header[s][id] = Erased
    BY <1>1 DEF HeadersHaveRecords
  <2>1. ~Has("formatLog")'
    BY <1>1, <1>2, StillToFormat
  <2>2. ~HasFor("formatLog", s)
    BY <1>1, <1>2, <2>1, AfterReturn DEF Has, HasFor
  <2> QED
    BY <1>2, <1>4, <2>2 DEF FormatFits
<1>14. LogsCounted'
  <2>1. \A c : Finishing(c)' <=> Finishing(c)
    BY <1>1, <1>2, AfterReturn
  <2>2. ~LastLogOpen
    <3>1. ~Has("closeMeta")
      BY <1>1, <1>2, <1>3, AfterReturn
    <3> QED
      BY <1>4, <3>1 DEF LastLogOpen
  <2>3. Has("countLogs") => Booting'
    BY <1>1, <1>2, AfterReturn DEF Booting
  <2>4. ~Booting' => Formatted' /\ ~Booting
    BY <1>1, <1>2, <1>3, <1>4, <2>1, <2>3, AfterReturn DEF Booting, Formatted
  <2> QED
    BY <1>1, <1>6, <2>2, <2>4 DEF LogsCounted
<1>15. HeadersBeforeClose'
  BY <1>3 DEF HeadersBeforeClose
<1>16. FormatFits'
  BY <1>1, <1>2, <1>3, <1>6, AfterReturn DEF FormatFits, Formatted, AllToFormat
<1> QED
  BY <1>7, <1>8, <1>9, <1>10, <1>11, <1>12, <1>13, <1>14, <1>15, <1>16

LEMMA FormatLogKeepsIInv ==
    ASSUME IInv, formatLog_
    PROVE  IInv'
<1> USE DEF IInv, model, sensors
<1> DEFINE s == Head(todo).sensor
<1>1. /\ ~Quiet /\ Head(todo).call = "formatLog" /\ Return
      /\ header' = [header EXCEPT ![s] = [id \in LogIDs |-> Erased]]
      /\ unfinished' = LeftUnfinished
      /\ UNCHANGED <<formatted, meta, saved, model, sensors, powered, led>>
  BY DEF formatLog_, At
<1>2. /\ todo \in Seq(Steps) /\ InOrder(todo)
      /\ Head(todo) \in Steps /\ Head(todo) \in Pending /\ Has("formatLog")
      /\ s \in Sensors
  BY <1>1, Stack, Fields DEF TypeOK, Has
<1>3. \A name \in {"closeLog", "sensorsStopped", "stopSensors", "flashMailbox",
                   "setDiskFull", "startSensors", "writeMeta", "boot"} : ~Has(name)'
  <2>1. \A b : Before(Head(todo), b) => b.call \notin {"flashMailbox", "setDiskFull"}
    BY <1>1 DEF Before, CallsBefore, StopCalls
  <2> QED
    BY <1>1, <1>2, <2>1, AfterReturn, WhatFollows DEF Has, StopCalls
<1>4. /\ command # "sensorShouldWork" /\ ~timer /\ mailbox = <<>>
      /\ Has("countLogs") \/ Finishing("formattingStorage")
  BY <1>1, <1>2 DEF Due, SensorsFollow, At
<1>5. ~working
  BY <1>1, <1>2, <1>3, <1>4, AfterReturn DEF SensorsFollow
<1> HIDE DEF s
<1>6. /\ header' \in [Sensors -> [LogIDs -> (0 .. Capacity) \cup {Erased, Ruined}]]
      /\ \A t \in Sensors, id \in LogIDs :
            header'[t][id] = IF t = s THEN Erased ELSE header[t][id]
  BY <1>1, <1>2 DEF TypeOK
<1>7. TypeOK' /\ InOrder(todo)'
  <2>1. unfinished' \in BOOLEAN
    BY <1>1 DEF LeftUnfinished
  <2> QED
    BY <1>1, <1>2, <1>6, <2>1, AfterReturn DEF TypeOK
<1>8. ASSUME NEW step \in Pending' PROVE Due(step)'
  <2>1. Has(step.call)'
    BY <1>8 DEF Has
  <2> QED
    BY <1>1, <1>2, <1>3, <1>4, <1>8, <2>1, AfterReturn
       DEF Due, ShouldLog, IsLogging, ToLog, At
<1>9. SensorsFollow'
  BY <1>1, <1>2, <1>4, <1>5 DEF SensorsFollow
<1>10. NestedForFullDisk' /\ PowerFits'
  BY <1>1, <1>2, AfterReturn DEF NestedForFullDisk, PowerFits
<1>11. NoHeaderRuined'
  BY <1>6, ControlAssumption DEF NoHeaderRuined
<1>12. WritingFits'
  <2> SUFFICES ASSUME writing.log # NoLog, NEW t \in Sensors
               PROVE  /\ EndOfLog(t)' <= Capacity
                      /\ header'[t][writing.log] \in {Erased, EndOfLog(t)'}
    BY <1>1, <1>4, <1>5 DEF WritingFits
  <2>1. /\ writing.log \in LogIDs
        /\ writing.log > 0 => writing.log - 1 \in LogIDs
    BY ControlAssumption DEF TypeOK, LogIDs
  <2>2. CASE t = s
    <3>1. Used(t, writing.log)' = 0
      BY <1>1, <1>6, <2>1, <2>2, ControlAssumption DEF Used
    <3>2. EndOfLog(t)' = writing.wpos[t] /\ writing.wpos[t] \in 0 .. Capacity
      BY <1>1, <3>1, EndOfLogIsInt DEF EndOfLog
    <3> QED
      BY <1>6, <2>1, <2>2, <3>2, ControlAssumption
  <2>3. CASE t # s
    <3>1. EndOfLog(t)' = EndOfLog(t)
      BY <1>1, <1>6, <2>1, <2>3 DEF EndOfLog, Used
    <3> QED
      BY <1>6, <2>1, <2>3, <3>1 DEF WritingFits
  <2> QED
    BY <2>2, <2>3
<1>13. RecordsInOrder' /\ HeadersHaveRecords' /\ ClosedLogsComplete'
  <2>1. RecordsInOrder'
    BY <1>1 DEF RecordsInOrder
  <2>2. ASSUME ~unfinished'
        PROVE  \A id \in LogIDs : /\ meta[id] = Erased
                                  /\ \A t \in Sensors : header'[t][id] = Erased
    <3>1. ~Has("formatLog")' /\ ~Has("eraseMeta")'
      BY <1>1, <1>2, <2>2, StillToFormat
    <3>2. ~Has("eraseMeta") /\ \A t \in Sensors : t = s \/ ~HasFor("formatLog", t)
      BY <1>1, <1>2, <3>1, AfterReturn DEF Has, HasFor, s
    <3>3. \A id \in LogIDs : meta[id] = Erased
      BY <1>2, <1>4, <3>2 DEF FormatFits, Formatted
    <3>4. \A t \in Sensors : t = s \/ \A id \in LogIDs : header[t][id] = Erased
      BY <1>2, <1>4, <3>2 DEF FormatFits
    <3> QED
      BY <1>6, <3>3, <3>4
  <2> QED
    BY <1>1, <2>1, <2>2, ControlAssumption
       DEF HeadersHaveRecords, ClosedLogsComplete
<1>14. LogsCounted'
  BY <1>1, <1>2, <1>3, AfterReturn
     DEF LogsCounted, LastLogOpen, Booting, Formatted, ShouldLog, IsLogging, ToLog
<1>15. HeadersBeforeClose'
  <2>1. Has("closeMeta")' => ~Has("countLogs")
    BY <1>1, <1>2, AfterReturn, BootFormatsOnly
  <2> QED
    BY <1>1, <1>2, <1>4, <2>1, AfterReturn DEF HeadersBeforeClose
<1>16. FormatFits'
  <2>1. Has("eraseMeta")' => unfinished'
    BY <1>1, <1>2, StillToFormat
  <2>2. \A t \in Sensors : t = s \/ (HasFor("formatLog", t) => HasFor("formatLog", t)')
    BY <1>1, <1>2, AfterReturn DEF s
  <2> QED
    BY <1>1, <1>2, <1>3, <1>6, <2>1, <2>2, AfterReturn
       DEF FormatFits, Formatted
<1> QED
  BY <1>7, <1>8, <1>9, <1>10, <1>11, <1>12, <1>13, <1>14, <1>15, <1>16

-----------------------------------------------------------------------------
(* The commands. *)

LEMMA RefuseKeepsIInv ==
    ASSUME IInv, refuseCommand
    PROVE  IInv'
<1> DEFINE c == Head(todo).command
<1> USE DEF IInv
<1>1. /\ ~Quiet /\ Head(todo).call = "setControlCommand" /\ Refused(c) /\ Return
      /\ UNCHANGED <<flash, model, sensors, rest>>
  BY DEF refuseCommand, At
<1>2. /\ todo \in Seq(Steps) /\ InOrder(todo)
      /\ Head(todo) \in Steps /\ Head(todo) \in Pending
  BY <1>1, Stack DEF TypeOK
<1>3. \/ command = "sensorShouldSleep" /\ c = "sensorShouldSleep"
      \/ Pending' = {}
  BY <1>1, <1>2, AfterReturn, WhatFollows, Fields DEF Refused
<1> USE DEF flash, model, sensors, rest
<1>4. TypeOK' /\ InOrder(todo)'
  BY <1>1, <1>2, AfterReturn DEF TypeOK
<1>5. ASSUME NEW step \in Pending' PROVE Due(step)'
  <2>1. step # setControlCommand("sensorShouldSleep")
    BY <1>1, <1>2, AfterReturn, WhatFollows DEF setControlCommand, BootCalls
  <2> QED
    BY <1>1, <1>2, <1>3, <2>1, AfterReturn DEF Due, ShouldLog, IsLogging, ToLog
<1>6. SensorsFollow'
  BY <1>1, <1>2, AfterReturn DEF SensorsFollow, At
<1>7. NestedForFullDisk'
  BY <1>1, <1>2, AfterReturn DEF NestedForFullDisk
<1>8. PowerFits'
  BY <1>1, <1>2, AfterReturn DEF PowerFits
<1>9. NoHeaderRuined' /\ WritingFits'
  BY <1>1, <1>2, AfterReturn DEF WritingFits, NoHeaderRuined, EndOfLog, Used, ShouldLog, IsLogging, ToLog
<1>10. RecordsInOrder' /\ HeadersHaveRecords' /\ ClosedLogsComplete'
  BY <1>1 DEF RecordsInOrder, HeadersHaveRecords, ClosedLogsComplete
<1>11. LogsCounted'
  BY <1>1, <1>2, AfterReturn DEF LogsCounted, LastLogOpen, Booting, Formatted, ShouldLog, IsLogging, ToLog
<1>12. HeadersBeforeClose'
  BY <1>1, <1>2, AfterReturn DEF HeadersBeforeClose, At
<1>13. FormatFits'
  BY <1>1, <1>2, AfterReturn DEF FormatFits, Formatted, AllToFormat
<1> QED
  BY <1>4, <1>5, <1>6, <1>7, <1>8, <1>9, <1>10, <1>11, <1>12, <1>13
\* The steps that the observers of a command leave to be done.
SensorSteps(c, log, id) ==
    IF c = "sensorShouldWork" THEN {startSensors(log, id)}
    ELSE IF c = "formattingStorage"
         THEN {stopSensors(FALSE)} \cup {formatLog(s) : s \in Sensors}
              \cup {Step("eraseSettings")}
         ELSE {stopSensors(log)}

MetaSteps(c, log, id) ==
    (IF log /\ command = "sensorShouldWork" THEN {closeMeta(id - 1)} ELSE {})
    \cup (IF c = "sensorShouldWork" /\ log THEN {writeMeta(id)} ELSE {})
    \cup (IF c = "formattingStorage" THEN {Step("eraseMeta"), Step("markMeta")} ELSE {})

LEMMA SensorObserverSteps ==
    ASSUME NEW c \in Commands, NEW log \in BOOLEAN, NEW id \in 0 .. MaxNumOfLog
    PROVE  /\ SensorObserver(c, log, id) \in Seq(Steps)
           /\ InOrder(SensorObserver(c, log, id))
           /\ Range(SensorObserver(c, log, id)) = SensorSteps(c, log, id)
           /\ SensorObserver(c, log, id) # <<>>
           /\ Head(SensorObserver(c, log, id)) =
                 IF c = "sensorShouldWork" THEN startSensors(log, id)
                 ELSE stopSensors(log /\ c # "formattingStorage")
<1>1. /\ startSensors(log, id) \in Steps /\ stopSensors(log) \in Steps
      /\ stopSensors(FALSE) \in Steps /\ Step("eraseSettings") \in Steps
  BY AreSteps DEF PlainSteps
<1>2. CASE c = "sensorShouldWork"
  <2>1. /\ SensorObserver(c, log, id) = <<startSensors(log, id)>>
        /\ SensorSteps(c, log, id) = {startSensors(log, id)}
    BY <1>2 DEF SensorObserver, SensorSteps
  <2> QED
    BY <1>1, <1>2, <2>1, OneStep
<1>3. CASE c = "formattingStorage"
  <2> DEFINE stop  == <<stopSensors(FALSE)>>
             each  == ForEach(formatLog)
             erase == <<Step("eraseSettings")>>
             front == stop \o each
  <2>1. /\ SensorObserver(c, log, id) = front \o erase
        /\ SensorSteps(c, log, id) = {stopSensors(FALSE)}
              \cup {formatLog(s) : s \in Sensors} \cup {Step("eraseSettings")}
    BY <1>3 DEF SensorObserver, SensorSteps
  <2>2. /\ stop \in Seq(Steps) /\ Range(stop) = {stopSensors(FALSE)} /\ InOrder(stop)
        /\ stop # <<>> /\ Head(stop) = stopSensors(FALSE)
        /\ erase \in Seq(Steps) /\ Range(erase) = {Step("eraseSettings")}
        /\ InOrder(erase)
    BY <1>1, OneStep
  <2>3. /\ each \in Seq(Steps) /\ InOrder(each)
        /\ Range(each) = {formatLog(s) : s \in Sensors}
    BY StepsForEach, ControlAssumption
  <2>4. /\ \A s \in Sensors : /\ Before(stopSensors(FALSE), formatLog(s))
                              /\ Before(formatLog(s), Step("eraseSettings"))
        /\ Before(stopSensors(FALSE), Step("eraseSettings"))
    BY DEF Before, CallsBefore, StopCalls, BootCalls, Step, stopSensors, formatLog
  <2> HIDE DEF stop, each, erase, front
  <2>5. /\ front \in Seq(Steps) /\ InOrder(front)
        /\ Range(front) = Range(stop) \cup Range(each)
        /\ front # <<>> /\ Head(front) = stopSensors(FALSE)
    <3>1. \A a \in Range(stop), b \in Range(each) : Before(a, b)
      BY <2>2, <2>3, <2>4
    <3> QED
      BY <2>2, <2>3, <3>1, OrderOfConcat DEF front
  <2>6. /\ front \o erase \in Seq(Steps) /\ InOrder(front \o erase)
        /\ Range(front \o erase) = (Range(stop) \cup Range(each)) \cup Range(erase)
        /\ front \o erase # <<>> /\ Head(front \o erase) = stopSensors(FALSE)
    <3>1. \A a \in Range(front), b \in Range(erase) : Before(a, b)
      BY <2>2, <2>3, <2>4, <2>5
    <3> QED
      BY <2>2, <2>5, <3>1, OrderOfConcat
  <2>7. (log /\ c # "formattingStorage") = FALSE
    BY <1>3
  <2> QED
    BY <1>3, <2>1, <2>2, <2>3, <2>6, <2>7
<1>4. CASE c \notin {"sensorShouldWork", "formattingStorage"}
  <2>1. /\ SensorObserver(c, log, id) = <<stopSensors(log)>>
        /\ SensorSteps(c, log, id) = {stopSensors(log)}
        /\ (log /\ c # "formattingStorage") = log
    BY <1>4 DEF SensorObserver, SensorSteps
  <2> QED
    BY <1>1, <1>4, <2>1, OneStep
<1> QED
  BY <1>2, <1>3, <1>4

LEMMA MetaObserverSteps ==
    ASSUME NEW c \in Commands, NEW log \in BOOLEAN, NEW id \in 0 .. MaxNumOfLog,
           c # command,
           log /\ command = "sensorShouldWork" => id - 1 \in LogIDs,
           log /\ c = "sensorShouldWork" => id \in LogIDs
    PROVE  LET steps == MetaObserver(c, log, id)
           IN  /\ steps \in Seq(Steps) /\ InOrder(steps)
               /\ Range(steps) = MetaSteps(c, log, id)
<1> DEFINE close == IF log /\ command = "sensorShouldWork" THEN <<closeMeta(id - 1)>>
                    ELSE <<>>
           C == IF log /\ command = "sensorShouldWork" THEN {closeMeta(id - 1)} ELSE {}
           own == CASE c = "sensorShouldWork" /\ log -> <<writeMeta(id)>>
                    [] c = "formattingStorage" -> <<Step("eraseMeta"), Step("markMeta")>>
                    [] OTHER -> <<>>
           O == (IF c = "sensorShouldWork" /\ log THEN {writeMeta(id)} ELSE {})
                \cup (IF c = "formattingStorage"
                      THEN {Step("eraseMeta"), Step("markMeta")} ELSE {})
<1>1. <<>> \in Seq(Steps) /\ Range(<<>>) = {} /\ InOrder(<<>>)
  BY DEF Range, InOrder
<1>2. close \in Seq(Steps) /\ Range(close) = C /\ InOrder(close)
  <2>1. CASE log /\ command = "sensorShouldWork"
    <3>1. closeMeta(id - 1) \in Steps
      BY <2>1, AreSteps
    <3> QED
      BY <2>1, <3>1, OneStep
  <2> QED
    BY <1>1, <2>1
<1>3. own \in Seq(Steps) /\ Range(own) = O /\ InOrder(own)
  <2>1. CASE c = "sensorShouldWork" /\ log
    <3>1. writeMeta(id) \in Steps
      BY <2>1, AreSteps
    <3>2. own = <<writeMeta(id)>> /\ O = {writeMeta(id)}
      BY <2>1
    <3> QED
      BY <3>1, <3>2, OneStep
  <2>2. CASE c = "formattingStorage"
    <3>1. Step("eraseMeta") \in Steps /\ Step("markMeta") \in Steps
      BY AreSteps DEF PlainSteps
    <3>2. Before(Step("eraseMeta"), Step("markMeta"))
      BY DEF Before, CallsBefore, BootCalls, Step
    <3>3. /\ own = <<Step("eraseMeta"), Step("markMeta")>>
          /\ O = {Step("eraseMeta"), Step("markMeta")}
      BY <2>2
    <3> QED
      BY <3>1, <3>2, <3>3, TwoSteps
  <2>3. CASE c # "formattingStorage" /\ ~(c = "sensorShouldWork" /\ log)
    <3>1. own = <<>> /\ O = {}
      BY <2>3
    <3> QED
      BY <1>1, <3>1
  <2> QED
    BY <2>1, <2>2, <2>3
<1>4. \A a \in C, b \in O : Before(a, b)
  BY DEF Before, CallsBefore, StopCalls, BootCalls, Step, closeMeta, writeMeta
<1>5. /\ close \o own \in Seq(Steps) /\ Range(close \o own) = C \cup O
      /\ InOrder(close \o own)
  <2> HIDE DEF close, own, C, O
  <2> QED
    BY <1>2, <1>3, <1>4, OrderOfConcat
<1>6. MetaObserver(c, log, id) = close \o own
  BY DEF MetaObserver
<1>7. MetaSteps(c, log, id) = C \cup O
  BY DEF MetaSteps
<1> HIDE DEF close, own, C, O
<1> QED
  BY <1>5, <1>6, <1>7

LEMMA ObserversSteps ==
    ASSUME NEW c \in Commands, NEW log \in BOOLEAN, NEW id \in 0 .. MaxNumOfLog,
           c # command,
           log /\ command = "sensorShouldWork" => id - 1 \in LogIDs,
           log /\ c = "sensorShouldWork" => id \in LogIDs
    PROVE  LET steps == Observers(c, log, id)
           IN  /\ steps \in Seq(Steps) /\ InOrder(steps)
               /\ Range(steps) = SensorSteps(c, log, id) \cup MetaSteps(c, log, id)
                                 \cup {finish(c, log)}
               /\ steps # <<>>
               /\ Head(steps) =
                     IF c = "sensorShouldWork" THEN startSensors(log, id)
                     ELSE stopSensors(log /\ c # "formattingStorage")
<1> DEFINE sensor == SensorObserver(c, log, id)
           first == IF c = "sensorShouldWork" THEN startSensors(log, id)
                    ELSE stopSensors(log /\ c # "formattingStorage")
           record == MetaObserver(c, log, id)
           last == <<finish(c, log)>>
           both == sensor \o record
<1>1. finish(c, log) \in Steps
  BY AreSteps
<1>2. /\ sensor \in Seq(Steps) /\ InOrder(sensor)
      /\ Range(sensor) = SensorSteps(c, log, id) /\ sensor # <<>>
      /\ Head(sensor) = first
  BY SensorObserverSteps
<1>3. /\ record \in Seq(Steps) /\ InOrder(record)
      /\ Range(record) = MetaSteps(c, log, id)
  BY MetaObserverSteps
<1>4. last \in Seq(Steps) /\ InOrder(last) /\ Range(last) = {finish(c, log)}
  BY <1>1, OneStep
<1>5. \A a \in SensorSteps(c, log, id), b \in MetaSteps(c, log, id) : Before(a, b)
  BY DEF SensorSteps, MetaSteps, Before, CallsBefore, StopCalls, BootCalls, Step,
         startSensors, stopSensors, formatLog, closeMeta, writeMeta
<1>6. \A a \in SensorSteps(c, log, id) \cup MetaSteps(c, log, id) :
         Before(a, finish(c, log))
  BY DEF SensorSteps, MetaSteps, Before, CallsBefore, StopCalls, BootCalls, Step,
         startSensors, stopSensors, formatLog, closeMeta, writeMeta, finish
<1>7. Observers(c, log, id) = both \o last
  BY DEF Observers
<1> HIDE DEF sensor, record, last, both, first
<1>8. /\ both \in Seq(Steps) /\ InOrder(both)
      /\ Range(both) = SensorSteps(c, log, id) \cup MetaSteps(c, log, id)
      /\ both # <<>> /\ Head(both) = Head(sensor)
  BY <1>2, <1>3, <1>5, OrderOfConcat DEF both
<1>9. /\ both \o last \in Seq(Steps) /\ InOrder(both \o last)
      /\ Range(both \o last) = Range(both) \cup {finish(c, log)}
      /\ both \o last # <<>> /\ Head(both \o last) = Head(sensor)
  BY <1>4, <1>6, <1>8, OrderOfConcat
<1> QED
  BY <1>2, <1>7, <1>8, <1>9 DEF first

\* What is known when a command is accepted, and what it leaves to be done.
\* Nothing but the switch to sleep is part of another handler.
LEMMA AcceptedCommand ==
    ASSUME IInv, acceptCommand, NEW c, c = Head(todo).command
    PROVE  /\ ~Quiet /\ Head(todo).call = "setControlCommand" /\ c \in Commands
           /\ c # command /\ command' = c /\ ~Refused(c)
           /\ c # "sensorShouldSleep" => Below = {}
           /\ Pending = {Head(todo)} \cup Below
           /\ \A b \in Below : b \in Steps /\ Before(Head(todo), b)
           /\ \A name \in {"boot", "countLogs", "startSensors", "writeMeta",
                           "stopSensors"} : ~Has(name)
           /\ ~Finishing("sensorShouldWork")
           /\ command = "sensorShouldWork" => working
           /\ timer => command = "sensorShouldWork"
           /\ mailbox # <<>> => timer
           /\ command = "sensorShouldWork" /\ ShouldLog =>
                 logCount - 1 \in LogIDs /\ writing.log = logCount - 1
           /\ c = "sensorShouldWork" =>
                 /\ ~diskFull /\ ~working
                 /\ \A id \in LogIDs : /\ id < logCount => meta[id] = "closed"
                                       /\ id >= logCount => meta[id] = Erased
                 /\ logCount \in LogIDs
           /\ ShouldLog' = ShouldLog
<1> USE DEF IInv
<1>1. /\ ~Quiet /\ Head(todo).call = "setControlCommand"
      /\ c # command /\ command' = c /\ ~Refused(c) /\ setting' = setting
  BY DEF acceptCommand, At, Refused, sensors
<1>2. /\ Head(todo) \in Steps /\ Head(todo) \in Pending
      /\ Pending = {Head(todo)} \cup Below
      /\ \A b \in Below : b \in Steps /\ Before(Head(todo), b)
  BY <1>1, Stack DEF TypeOK
<1>3. c \in Commands
  BY <1>1, <1>2, Fields
<1>4. c # "sensorShouldSleep" => Below = {}
  BY <1>1, <1>2, WhatFollows
<1>5. /\ \A name \in {"boot", "countLogs", "startSensors", "writeMeta", "stopSensors"} :
            ~Has(name)
      /\ ~Finishing("sensorShouldWork")
  BY <1>1, <1>2, WhatFollows DEF Has, Finishing, BootCalls
<1>6. /\ command = "sensorShouldWork" => working
      /\ timer => command = "sensorShouldWork"
      /\ mailbox # <<>> => timer
  BY <1>1 DEF SensorsFollow, At
<1>7. ASSUME command = "sensorShouldWork", ShouldLog
      PROVE  logCount - 1 \in LogIDs /\ writing.log = logCount - 1
  BY <1>5, <1>6, <1>7 DEF WritingFits
<1>8. ASSUME c = "sensorShouldWork"
      PROVE  /\ ~diskFull /\ ~working
             /\ \A id \in LogIDs : /\ id < logCount => meta[id] = "closed"
                                   /\ id >= logCount => meta[id] = Erased
             /\ logCount \in LogIDs
  <2>1. ~diskFull
    BY <1>1, <1>8 DEF Refused
  <2>2. Pending = {Head(todo)}
    BY <1>2, <1>4, <1>8
  <2>3. ~Has("closeMeta") /\ ~Has("sensorsStopped") /\ ~Formatted
    BY <1>1, <2>2 DEF Has, Formatted, Finishing
  <2>4. ~working
    BY <1>1, <1>6, <1>8, <2>3 DEF SensorsFollow
  <2>5. ~LastLogOpen /\ ~Booting
    BY <1>5, <2>3, <2>4 DEF LastLogOpen, Booting
  <2>6. logCount # MaxNumOfLog
    BY <2>1, <2>5 DEF LogsCounted
  <2>7. logCount \in LogIDs
    BY <2>6, ControlAssumption DEF TypeOK, LogIDs
  <2> QED
    BY <1>5, <2>1, <2>3, <2>4, <2>5, <2>7 DEF LogsCounted
<1>9. ShouldLog' = ShouldLog
  BY <1>1 DEF ShouldLog, IsLogging, ToLog
<1> QED
  BY <1>1, <1>2, <1>3, <1>4, <1>5, <1>6, <1>7, <1>8, <1>9

LEMMA AcceptedSteps ==
    ASSUME IInv, acceptCommand, NEW c, c = Head(todo).command
    PROVE  /\ todo' \in Seq(Steps) /\ InOrder(todo)' /\ ~Quiet'
           /\ Pending' = SensorSteps(c, ShouldLog, logCount)
                         \cup MetaSteps(c, ShouldLog, logCount)
                         \cup {finish(c, ShouldLog)} \cup Below
           /\ Head(todo') = IF c = "sensorShouldWork" THEN startSensors(ShouldLog, logCount)
                            ELSE stopSensors(ShouldLog /\ c # "formattingStorage")
<1> USE DEF IInv
<1> DEFINE steps == Observers(c, ShouldLog, logCount)
           new == SensorSteps(c, ShouldLog, logCount)
                  \cup MetaSteps(c, ShouldLog, logCount) \cup {finish(c, ShouldLog)}
           first == IF c = "sensorShouldWork" THEN startSensors(ShouldLog, logCount)
                    ELSE stopSensors(ShouldLog /\ c # "formattingStorage")
<1>1. /\ ~Quiet /\ Head(todo).call = "setControlCommand" /\ c \in Commands
      /\ c # command
      /\ c # "sensorShouldSleep" => Below = {}
      /\ Pending = {Head(todo)} \cup Below
      /\ \A b \in Below : b \in Steps /\ Before(Head(todo), b)
      /\ command = "sensorShouldWork" /\ ShouldLog => logCount - 1 \in LogIDs
      /\ c = "sensorShouldWork" => logCount \in LogIDs
  BY AcceptedCommand
<1>2. Enter(steps) /\ todo \in Seq(Steps) /\ InOrder(todo)
  BY DEF acceptCommand, TypeOK
<1>3. ShouldLog \in BOOLEAN /\ logCount \in 0 .. MaxNumOfLog
  BY DEF TypeOK, ShouldLog
<1>4. /\ steps \in Seq(Steps) /\ InOrder(steps) /\ Range(steps) = new
      /\ steps # <<>> /\ Head(steps) = first
  BY <1>1, <1>3, ObserversSteps
<1>5. ASSUME NEW a \in new, NEW b \in Below PROVE Before(a, b)
  <2>1. /\ c = "sensorShouldSleep" /\ Before(Head(todo), b) /\ b \in Pending
    BY <1>1, <1>5
  <2>2. StopCalls \subseteq CallsBefore(b)
    BY <1>1, <2>1, StopCallsTogether DEF StopCalls
  <2>3. CASE a.call \in StopCalls
    <3>1. a.call \in {"setControlCommand", "finish"} => a.command = "sensorShouldSleep"
      BY <2>1, <1>5 DEF SensorSteps, MetaSteps, finish, stopSensors, closeMeta
    <3> QED
      BY <2>2, <2>3, <3>1 DEF Before
  <2>4. CASE a.call \notin StopCalls
    <3>1. a.call = "closeMeta" /\ command = "sensorShouldWork"
      BY <1>5, <2>1, <2>4
         DEF SensorSteps, MetaSteps, finish, stopSensors, closeMeta, StopCalls
    <3>2. b.call \notin {"closeLog", "sensorsStopped", "formatLog", "closeMeta"}
      BY <2>1, <3>1 DEF Due
    <3> QED
      BY <1>1, <2>1, <3>1, <3>2 DEF Before, CallsBefore, StopCalls, BootCalls
  <2> QED
    BY <2>3, <2>4
<1> HIDE DEF steps, new, first
<1>6. /\ todo' \in Seq(Steps) /\ InOrder(todo') /\ Pending' = new \cup Below
      /\ todo' # <<>> /\ Head(todo') = first
  BY <1>1, <1>2, <1>4, <1>5, Entering
<1> QED
  BY <1>6 DEF new, first, Quiet

\* What a command that is accepted leaves as it is.
LEMMA AcceptedFrame ==
    ASSUME IInv, acceptCommand
    PROVE  /\ UNCHANGED <<logCount, diskFull, connected, waitingForDFU, flash, sensors,
                          led, unfinished>>
           /\ powered' = (powered \/ command = "shouldDeviceSleep")
           /\ TypeOK' /\ InOrder(todo)'
           /\ NoHeaderRuined'
           /\ RecordsInOrder' /\ HeadersHaveRecords' /\ ClosedLogsComplete'
<1>1. /\ UNCHANGED <<logCount, diskFull, connected, waitingForDFU, flash, sensors,
                     led, unfinished>>
      /\ powered' = (powered \/ command = "shouldDeviceSleep")
  BY DEF acceptCommand
<1>2. command' \in Commands /\ todo' \in Seq(Steps) /\ InOrder(todo)'
  BY AcceptedCommand, AcceptedSteps
<1> USE DEF IInv, flash, sensors
<1>3. TypeOK'
  BY <1>1, <1>2 DEF TypeOK
<1>4. NoHeaderRuined' /\ RecordsInOrder' /\ HeadersHaveRecords' /\ ClosedLogsComplete'
  BY <1>1 DEF NoHeaderRuined, RecordsInOrder, HeadersHaveRecords, ClosedLogsComplete
<1> QED
  BY <1>1, <1>2, <1>3, <1>4

\* The command to work: nothing is pending, and the logs so far are closed.
LEMMA AcceptWorkKeepsIInv ==
    ASSUME IInv, acceptCommand, Head(todo).command = "sensorShouldWork"
    PROVE  IInv'
<1> USE DEF IInv, flash, sensors
<1> DEFINE first == startSensors(ShouldLog, logCount)
           record == writeMeta(logCount)
           last == finish("sensorShouldWork", ShouldLog)
<1>1. /\ ~Quiet' /\ Head(todo') = first
      /\ Pending' = {first} \cup (IF ShouldLog THEN {record} ELSE {}) \cup {last}
  <2>1. /\ Below = {} /\ command # "sensorShouldWork"
        /\ ~Quiet' /\ Head(todo') = first
        /\ Pending' = SensorSteps("sensorShouldWork", ShouldLog, logCount)
                      \cup MetaSteps("sensorShouldWork", ShouldLog, logCount)
                      \cup {last} \cup Below
    BY AcceptedCommand, AcceptedSteps
  <2>2. SensorSteps("sensorShouldWork", ShouldLog, logCount) = {first}
    BY DEF SensorSteps
  <2>3. MetaSteps("sensorShouldWork", ShouldLog, logCount) =
           IF ShouldLog THEN {record} ELSE {}
    BY <2>1 DEF MetaSteps
  <2> HIDE DEF first, record, last
  <2> QED
    BY <2>1, <2>2, <2>3
<1>2. /\ command' = "sensorShouldWork" /\ command # "sensorShouldWork"
      /\ ~diskFull /\ ~working /\ ~timer /\ mailbox = <<>>
      /\ \A id \in LogIDs : /\ id < logCount => meta[id] = "closed"
                            /\ id >= logCount => meta[id] = Erased
      /\ logCount \in LogIDs /\ ShouldLog' = ShouldLog
      /\ ~Has("setDiskFull")
  <2>1. Pending = {Head(todo)} /\ Head(todo).call = "setControlCommand"
    BY AcceptedCommand
  <2> QED
    BY <2>1, AcceptedCommand DEF Has
<1>3. /\ UNCHANGED <<logCount, diskFull, connected, waitingForDFU, flash, sensors,
                     led, unfinished>>
      /\ powered' = (powered \/ command = "shouldDeviceSleep")
      /\ TypeOK' /\ InOrder(todo)'
      /\ NoHeaderRuined' /\ RecordsInOrder' /\ HeadersHaveRecords' /\ ClosedLogsComplete'
  BY AcceptedFrame
<1>4. /\ first.call = "startSensors" /\ first.logging = ShouldLog /\ first.id = logCount
      /\ record.call = "writeMeta" /\ record.id = logCount
      /\ last.call = "finish" /\ last.command = "sensorShouldWork"
      /\ last.logging = ShouldLog
  BY DEF startSensors, writeMeta, finish
<1> HIDE DEF first, record, last
<1>5. first \in Pending' /\ last \in Pending' /\ (ShouldLog => record \in Pending')
  BY <1>1
<1>6. /\ \A name : Has(name)' => name \in {"startSensors", "writeMeta", "finish"}
      /\ Has("startSensors")' /\ (ShouldLog => Has("writeMeta")')
      /\ \A x : Finishing(x)' <=> x = "sensorShouldWork"
      /\ At("startSensors")'
  BY <1>1, <1>4, <1>5 DEF Has, Finishing, At
<1>7. powered'
  BY <1>2, <1>3 DEF PowerFits
<1>8. ASSUME NEW step \in Pending' PROVE Due(step)'
  <2>1. logCount < MaxNumOfLog
    BY <1>2, ControlAssumption DEF LogIDs
  <2>2. step # setControlCommand("sensorShouldSleep")
    BY <1>1, <1>4 DEF setControlCommand
  <2>3. CASE step = first
    BY <1>2, <1>3, <1>4, <1>6, <1>7, <2>2, <2>3 DEF Due
  <2>4. CASE step = record /\ ShouldLog
    <3>1. /\ meta'[logCount] = Erased /\ logCount' = logCount /\ ~diskFull'
          /\ command' = "sensorShouldWork" /\ ShouldLog'
          /\ Has("startSensors")' /\ Finishing("sensorShouldWork")'
          /\ step.call = "writeMeta" /\ step.id = logCount
      BY <1>2, <1>3, <1>4, <1>6, <2>1, <2>4 DEF TypeOK
    <3> QED
      BY <2>1, <2>2, <3>1 DEF Due
  <2>5. CASE step = last
    BY <1>2, <1>3, <1>4, <1>6, <2>1, <2>2, <2>5 DEF Due
  <2> QED
    BY <1>1, <2>3, <2>4, <2>5
<1>9. SensorsFollow'
  BY <1>2, <1>3, <1>6 DEF SensorsFollow
<1>10. NestedForFullDisk' /\ PowerFits'
  <2>1. setControlCommand("sensorShouldSleep") \notin Pending'
    BY <1>1, <1>4 DEF setControlCommand
  <2> QED
    BY <1>2, <1>3, <1>6, <1>7, <2>1 DEF NestedForFullDisk, PowerFits
<1>11. WritingFits'
  BY <1>2, <1>3 DEF WritingFits, EndOfLog, Used
<1>12. LogsCounted'
  <2>1. logCount # MaxNumOfLog
    BY <1>2, ControlAssumption DEF LogIDs
  <2> QED
    BY <1>2, <1>3, <2>1 DEF LogsCounted
<1>13. HeadersBeforeClose' /\ FormatFits'
  BY <1>6 DEF HeadersBeforeClose, FormatFits, Formatted
<1> QED
  BY <1>3, <1>8, <1>9, <1>10, <1>11, <1>12, <1>13

\* The steps of a command that stops the sensors.
LEMMA AcceptedStopSteps ==
    ASSUME IInv, acceptCommand, NEW c, c = Head(todo).command, c # "sensorShouldWork"
    PROVE  /\ \A step \in Pending' :
                 \/ step \in Below
                 \/ step.call = "stopSensors" /\ (step.logging => ShouldLog)
                 \/ step.call = "finish" /\ step.command = c
                 \/ /\ step.call = "closeMeta" /\ step.id = logCount - 1
                    /\ ShouldLog /\ command = "sensorShouldWork"
                 \/ /\ step.call \in {"formatLog", "eraseSettings", "eraseMeta", "markMeta"}
                    /\ c = "formattingStorage"
           /\ Below \subseteq Pending'
           /\ At("stopSensors")'
           /\ Head(todo').logging = (ShouldLog /\ c # "formattingStorage")
           /\ Finishing(c)' /\ Has("stopSensors")'
           /\ ShouldLog /\ command = "sensorShouldWork" => Has("closeMeta")'
           /\ c = "formattingStorage" =>
                 AllToFormat' /\ Has("eraseMeta")' /\ Has("markMeta")'
           /\ \A step \in Pending' : step # setControlCommand("sensorShouldSleep")
<1> DEFINE stop == stopSensors(ShouldLog /\ c # "formattingStorage")
           close == closeMeta(logCount - 1)
           last == finish(c, ShouldLog)
<1>1. /\ c \in Commands /\ Pending = {Head(todo)} \cup Below
      /\ Head(todo).call = "setControlCommand"
      /\ \A b \in Below : b \in Steps /\ Before(Head(todo), b)
  BY AcceptedCommand
<1>2. /\ ~Quiet' /\ Head(todo') = stop
      /\ Pending' = SensorSteps(c, ShouldLog, logCount)
                    \cup MetaSteps(c, ShouldLog, logCount) \cup {last} \cup Below
  BY AcceptedSteps
<1>3. /\ stop.call = "stopSensors" /\ stop.logging = (ShouldLog /\ c # "formattingStorage")
      /\ stopSensors(FALSE).call = "stopSensors" /\ stopSensors(FALSE).logging = FALSE
      /\ close.call = "closeMeta" /\ close.id = logCount - 1
      /\ last.call = "finish" /\ last.command = c
      /\ \A s \in Sensors : formatLog(s).call = "formatLog" /\ formatLog(s).sensor = s
      /\ \A name : Step(name).call = name
      /\ setControlCommand("sensorShouldSleep").call = "setControlCommand"
      /\ setControlCommand("sensorShouldSleep").command = "sensorShouldSleep"
  BY DEF stopSensors, closeMeta, finish, formatLog, Step, setControlCommand
<1>4. stop = stopSensors(FALSE) \/ stop = stopSensors(ShouldLog)
  BY DEF ShouldLog
<1>5. /\ c = "formattingStorage" =>
            /\ SensorSteps(c, ShouldLog, logCount) =
                  {stop} \cup {formatLog(s) : s \in Sensors} \cup {Step("eraseSettings")}
            /\ MetaSteps(c, ShouldLog, logCount) =
                  (IF ShouldLog /\ command = "sensorShouldWork" THEN {close} ELSE {})
                  \cup {Step("eraseMeta"), Step("markMeta")}
      /\ c # "formattingStorage" =>
            /\ SensorSteps(c, ShouldLog, logCount) = {stop}
            /\ MetaSteps(c, ShouldLog, logCount) =
                  IF ShouldLog /\ command = "sensorShouldWork" THEN {close} ELSE {}
  <2>1. CASE c = "formattingStorage"
    <3>1. (ShouldLog /\ c # "formattingStorage") = FALSE
      BY <2>1
    <3> QED
      BY <2>1, <3>1 DEF SensorSteps, MetaSteps
  <2>2. CASE c # "formattingStorage"
    <3>1. (ShouldLog /\ c # "formattingStorage") = ShouldLog
      BY <2>2 DEF ShouldLog
    <3>2. MetaSteps(c, ShouldLog, logCount) =
             IF ShouldLog /\ command = "sensorShouldWork" THEN {close} ELSE {}
      BY <2>2 DEF MetaSteps
    <3> QED
      BY <2>2, <3>1, <3>2 DEF SensorSteps
  <2> QED
    BY <2>1, <2>2
<1> HIDE DEF stop, close, last
<1>6. /\ At("stopSensors")' /\ Head(todo').logging = (ShouldLog /\ c # "formattingStorage")
      /\ last \in Pending' /\ stop \in Pending' /\ Below \subseteq Pending'
      /\ ShouldLog /\ command = "sensorShouldWork" => close \in Pending'
  BY <1>2, <1>3, <1>5 DEF At
<1>7. c = "formattingStorage" =>
         /\ \A s \in Sensors : formatLog(s) \in Pending'
         /\ Step("eraseMeta") \in Pending' /\ Step("markMeta") \in Pending'
  BY <1>2, <1>5
<1>8. ASSUME NEW step \in Pending'
      PROVE  \/ step \in Below
             \/ step = stop \/ step = last
             \/ step = close /\ ShouldLog /\ command = "sensorShouldWork"
             \/ /\ c = "formattingStorage"
                /\ \/ step \in {Step("eraseSettings"), Step("eraseMeta"), Step("markMeta")}
                   \/ \E s \in Sensors : step = formatLog(s)
  BY <1>2, <1>5
<1>9. ASSUME NEW step \in Below PROVE step # setControlCommand("sensorShouldSleep")
  BY <1>1, <1>3, WhatFollows DEF BootCalls
<1>10. ASSUME NEW step \in Pending' PROVE step # setControlCommand("sensorShouldSleep")
  BY <1>3, <1>8, <1>9
<1>11. c = "formattingStorage" => AllToFormat' /\ Has("eraseMeta")' /\ Has("markMeta")'
  BY <1>3, <1>7 DEF AllToFormat, HasFor, Has
<1>12. /\ Finishing(c)' /\ Has("stopSensors")'
       /\ ShouldLog /\ command = "sensorShouldWork" => Has("closeMeta")'
  BY <1>3, <1>6 DEF Finishing, Has
<1>13. ASSUME NEW step \in Pending'
       PROVE  \/ step \in Below
              \/ step.call = "stopSensors" /\ (step.logging => ShouldLog)
              \/ step.call = "finish" /\ step.command = c
              \/ /\ step.call = "closeMeta" /\ step.id = logCount - 1
                 /\ ShouldLog /\ command = "sensorShouldWork"
              \/ /\ step.call \in {"formatLog", "eraseSettings", "eraseMeta", "markMeta"}
                 /\ c = "formattingStorage"
  <2>1. stop.logging => ShouldLog
    BY <1>3
  <2>2. CASE step = stop
    BY <1>3, <2>1, <2>2
  <2>3. CASE step = last \/ step \in Below
    BY <1>3, <2>3
  <2>4. CASE step = close /\ ShouldLog /\ command = "sensorShouldWork"
    BY <1>3, <2>4
  <2>5. CASE /\ c = "formattingStorage"
             /\ \/ step \in {Step("eraseSettings"), Step("eraseMeta"), Step("markMeta")}
                \/ \E s \in Sensors : step = formatLog(s)
    BY <1>3, <2>5
  <2> QED
    BY <1>8, <2>2, <2>3, <2>4, <2>5
<1> QED
  BY <1>6, <1>10, <1>11, <1>12, <1>13

\* A command that stops the sensors, the switch to sleep perhaps from inside
\* another one.
LEMMA AcceptStopKeepsIInv ==
    ASSUME IInv, acceptCommand, Head(todo).command # "sensorShouldWork"
    PROVE  IInv'
<1> SUFFICES ASSUME NEW c, c = Head(todo).command PROVE IInv'
  OBVIOUS
<1> USE DEF IInv, flash, sensors
<1>1. /\ ~Quiet /\ Head(todo).call = "setControlCommand" /\ c \in Commands
      /\ c # command /\ command' = c
      /\ c # "sensorShouldSleep" => Below = {}
      /\ Pending = {Head(todo)} \cup Below
      /\ \A b \in Below : b \in Steps /\ Before(Head(todo), b)
      /\ \A name \in {"boot", "countLogs", "startSensors", "writeMeta",
                      "stopSensors"} : ~Has(name)
      /\ ~Finishing("sensorShouldWork")
      /\ command = "sensorShouldWork" => working
      /\ timer => command = "sensorShouldWork"
      /\ mailbox # <<>> => timer
      /\ command = "sensorShouldWork" /\ ShouldLog =>
            logCount - 1 \in LogIDs /\ writing.log = logCount - 1
      /\ ShouldLog' = ShouldLog
  BY AcceptedCommand
<1>2. /\ \A step \in Pending' :
            \/ step \in Below
            \/ step.call = "stopSensors" /\ (step.logging => ShouldLog)
            \/ step.call = "finish" /\ step.command = c
            \/ /\ step.call = "closeMeta" /\ step.id = logCount - 1
               /\ ShouldLog /\ command = "sensorShouldWork"
            \/ /\ step.call \in {"formatLog", "eraseSettings", "eraseMeta", "markMeta"}
               /\ c = "formattingStorage"
      /\ Below \subseteq Pending'
      /\ At("stopSensors")'
      /\ Head(todo').logging = (ShouldLog /\ c # "formattingStorage")
      /\ Finishing(c)' /\ Has("stopSensors")'
      /\ ShouldLog /\ command = "sensorShouldWork" => Has("closeMeta")'
      /\ c = "formattingStorage" =>
            AllToFormat' /\ Has("eraseMeta")' /\ Has("markMeta")'
      /\ \A step \in Pending' : step # setControlCommand("sensorShouldSleep")
  BY AcceptedStopSteps
<1>3. /\ UNCHANGED <<logCount, diskFull, connected, waitingForDFU, flash, sensors,
                     led, unfinished>>
      /\ powered' = (powered \/ command = "shouldDeviceSleep")
      /\ TypeOK' /\ InOrder(todo)'
      /\ NoHeaderRuined' /\ RecordsInOrder' /\ HeadersHaveRecords' /\ ClosedLogsComplete'
  BY AcceptedFrame
<1>4. c # "sensorShouldWork"
  OBVIOUS
\* What is pending before and after.
<1>5. /\ \A name : name # "setControlCommand" /\ Has(name) => Has(name)'
      /\ \A x : Finishing(x) => Finishing(x)'
      /\ \A name, s : name # "setControlCommand" /\ HasFor(name, s) => HasFor(name, s)'
  BY <1>1, <1>2 DEF Has, Finishing, HasFor
<1>6. /\ \A x : Finishing(x)' => x = c \/ Finishing(x)
      /\ \A name : Has(name)' =>
            \/ Has(name) \/ name \in {"stopSensors", "finish"}
            \/ name = "closeMeta" /\ ShouldLog /\ command = "sensorShouldWork"
            \/ c = "formattingStorage"
  BY <1>1, <1>2 DEF Has, Finishing
<1>7. c = "formattingStorage" =>
         /\ \A name : Has(name)' =>
               name \in {"stopSensors", "finish", "closeMeta", "formatLog",
                         "eraseSettings", "eraseMeta", "markMeta"}
         /\ \A x : ~Finishing(x) /\ \A name : Has(name) => name = "setControlCommand"
  BY <1>1, <1>2 DEF Has, Finishing
<1>8. /\ ~Booting /\ ~Booting' /\ ~Finishing("sensorShouldWork")'
      /\ ~Has("startSensors")' /\ ~Has("writeMeta")'
  BY <1>1, <1>4, <1>6, <1>7 DEF Booting
<1>9. c = "sensorShouldSleep" /\ (\E x : Finishing(x)) => Has("setDiskFull")
  <2> SUFFICES ASSUME c = "sensorShouldSleep", NEW x, Finishing(x)
               PROVE  Has("setDiskFull")
    OBVIOUS
  <2>1. Head(todo) \in Pending /\ Head(todo) = setControlCommand("sensorShouldSleep")
    BY <1>1, Fields, Stack DEF TypeOK
  <2>2. \E step \in Pending : step.call = "finish"
    BY DEF Finishing
  <2> QED
    BY <2>1, <2>2 DEF NestedForFullDisk
<1>10. ASSUME NEW step \in Pending' PROVE Due(step)'
  <2>1. CASE step \in Below
    <3>1. /\ step \in Pending /\ Due(step)
          /\ step.call \notin {"boot", "countLogs", "startSensors", "writeMeta",
                               "stopSensors"}
          /\ step.call = "finish" => step.command # "sensorShouldWork"
      BY <1>1, <2>1 DEF Has, Finishing
    <3> QED
      BY <1>1, <1>2, <1>3, <1>4, <1>5, <3>1 DEF Due, Booting
  <2>2. CASE step.call = "stopSensors" /\ (step.logging => ShouldLog)
    BY <1>1, <1>2, <1>4, <2>2 DEF Due
  <2>3. CASE step.call = "finish" /\ step.command = c
    BY <1>1, <1>2, <1>4, <2>3 DEF Due
  <2>4. CASE step.call = "closeMeta" /\ step.id = logCount - 1
    BY <1>1, <1>2, <1>3, <1>4, <2>4 DEF Due
  <2>5. CASE /\ step.call \in {"formatLog", "eraseSettings", "eraseMeta", "markMeta"}
             /\ c = "formattingStorage"
    BY <1>1, <1>2, <1>4, <2>5 DEF Due
  <2> QED
    BY <1>2, <2>1, <2>2, <2>3, <2>4, <2>5
<1>11. SensorsFollow'
  BY <1>1, <1>2, <1>3, <1>4, <1>5 DEF SensorsFollow
<1>12. NestedForFullDisk'
  BY <1>2 DEF NestedForFullDisk
<1>13. PowerFits'
  <2>1. ~powered' => diskFull \/ Has("setDiskFull")
    BY <1>3 DEF PowerFits
  <2>2. Finishing("shouldDeviceSleep")' => c = "shouldDeviceSleep" \/ Has("setDiskFull")
    BY <1>1, <1>6, <1>7, <1>9 DEF Finishing
  <2>3. Finishing("formattingStorage")' /\ ~powered' => Has("markMeta")'
    BY <1>2, <1>3, <1>5, <1>6 DEF PowerFits
  <2>4. working' => powered'
    BY <1>3 DEF PowerFits
  <2> QED
    BY <1>1, <1>3, <1>5, <2>1, <2>2, <2>3, <2>4 DEF PowerFits
<1>14. WritingFits'
  BY <1>1, <1>3, <1>8 DEF WritingFits, EndOfLog, Used, Has
<1>15. LogsCounted'
  <2>1. Formatted => Formatted'
    BY <1>5, <1>6, <1>7 DEF Formatted
  <2>2. LastLogOpen => LastLogOpen'
    BY <1>2, <1>5 DEF LastLogOpen
  <2> QED
    BY <1>1, <1>3, <1>8, <2>1, <2>2 DEF LogsCounted
<1>16. HeadersBeforeClose'
  <2>1. CASE c = "formattingStorage"
    BY <1>2, <2>1 DEF HeadersBeforeClose
  <2>2. CASE command = "sensorShouldWork" /\ ShouldLog /\ c # "formattingStorage"
    <3>1. /\ writing'.log = logCount' - 1
          /\ At("stopSensors")' /\ Head(todo').logging /\ working'
      BY <1>1, <1>2, <1>3, <2>2
    <3>2. ASSUME Finishing("formattingStorage")' PROVE FALSE
      BY <1>6, <2>2, <3>2 DEF Due, Finishing
    <3> QED
      BY <3>1, <3>2 DEF HeadersBeforeClose
  <2>3. CASE ~(command = "sensorShouldWork" /\ ShouldLog) /\ c # "formattingStorage"
    <3>1. /\ Has("closeMeta")' <=> Has("closeMeta")
          /\ Finishing("formattingStorage")' <=> Finishing("formattingStorage")
      BY <1>5, <1>6, <2>3
    <3>2. ~At("stopSensors")
      BY <1>1 DEF At
    <3> QED
      BY <1>3, <1>5, <3>1, <3>2 DEF HeadersBeforeClose
  <2> QED
    BY <2>1, <2>2, <2>3
<1>17. FormatFits'
  <2>1. ~Formatted' \/ (Formatted /\ c # "formattingStorage")
    BY <1>2, <1>5, <1>6 DEF Formatted
  <2>2. ~Has("countLogs")'
    BY <1>8 DEF Booting
  <2>3. CASE c = "formattingStorage"
    BY <1>2, <2>1, <2>2, <2>3 DEF FormatFits, AllToFormat
  <2>4. CASE c # "formattingStorage"
    <3>1. /\ Finishing("formattingStorage")' => Finishing("formattingStorage")
          /\ AllToFormat => AllToFormat'
          /\ Has("eraseMeta")' => Has("eraseMeta")
      BY <1>5, <1>6, <2>4 DEF AllToFormat
    <3>2. Finishing("formattingStorage")' /\ c = "sensorShouldSleep" => AllToFormat'
      BY <1>9, <3>1 DEF FormatFits
    <3>3. Finishing("formattingStorage")' => c = "sensorShouldSleep"
      BY <1>1, <3>1 DEF Finishing
    <3> QED
      BY <1>3, <1>5, <2>1, <2>2, <3>1, <3>2, <3>3 DEF FormatFits
  <2> QED
    BY <2>3, <2>4
<1> QED
  BY <1>3, <1>10, <1>11, <1>12, <1>13, <1>14, <1>15, <1>16, <1>17

LEMMA AcceptKeepsIInv ==
    ASSUME IInv, acceptCommand
    PROVE  IInv'
  BY AcceptWorkKeepsIInv, AcceptStopKeepsIInv

\* The end of a command.
LEMMA FinishWorkKeepsIInv ==
    ASSUME IInv, ~Quiet, Head(todo).call = "finish",
           Head(todo).command = "sensorShouldWork", Return,
           logCount' = IF Head(todo).logging THEN logCount + 1 ELSE logCount,
           led' \in BOOLEAN, diskFull' = diskFull, powered' = powered,
           UNCHANGED <<waitingForDFU, command, connected, flash, sensors, unfinished>>
    PROVE  IInv'
<1> USE DEF IInv, flash, sensors
<1>1. /\ todo \in Seq(Steps) /\ InOrder(todo)
      /\ Head(todo) \in Steps /\ Head(todo) \in Pending
  BY Stack DEF TypeOK
<1>2. Pending' = {} /\ Pending = {Head(todo)}
  BY <1>1, AfterReturn, WhatFollows
<1>3. /\ \A name : Has(name) => name = "finish"
      /\ \A name : ~Has(name)'
      /\ \A x : Finishing(x) <=> x = "sensorShouldWork"
      /\ \A x : ~Finishing(x)'
  BY <1>2 DEF Has, Finishing
<1>4. /\ command = "sensorShouldWork" /\ ~diskFull /\ working
      /\ Head(todo).logging = ShouldLog
      /\ ShouldLog => logCount < MaxNumOfLog /\ meta[logCount] = "open"
  BY <1>1, <1>3 DEF Due
<1>5. ShouldLog' = ShouldLog
  BY DEF ShouldLog, IsLogging, ToLog
<1>6. /\ logCount \in 0 .. MaxNumOfLog
      /\ logCount' = IF ShouldLog THEN logCount + 1 ELSE logCount
  BY <1>4 DEF TypeOK
<1>7. ShouldLog => writing.log \in LogIDs /\ writing.log = logCount
  BY <1>3, <1>4 DEF WritingFits
<1>8. TypeOK' /\ InOrder(todo)'
  <2>1. logCount' \in 0 .. MaxNumOfLog
    BY <1>4, <1>6, ControlAssumption
  <2> QED
    BY <1>1, <2>1, AfterReturn DEF TypeOK
<1>9. timer /\ (mailbox # <<>> => timer)
  BY <1>3, <1>4 DEF SensorsFollow
<1>10. SensorsFollow'
  BY <1>4, <1>9 DEF SensorsFollow
<1>11. NestedForFullDisk' /\ PowerFits'
  BY <1>2, <1>3, <1>4 DEF NestedForFullDisk, PowerFits
<1>12. NoHeaderRuined' /\ RecordsInOrder' /\ HeadersHaveRecords' /\ ClosedLogsComplete'
  BY DEF NoHeaderRuined, RecordsInOrder, HeadersHaveRecords, ClosedLogsComplete
<1>13. WritingFits'
  <2>1. ShouldLog => /\ writing.log \in LogIDs /\ writing.log = logCount' - 1
                     /\ meta[writing.log] = "open"
    BY <1>4, <1>6, <1>7
  <2>2. /\ writing.log # NoLog =>
              \A s \in Sensors : /\ EndOfLog(s)' <= Capacity
                                 /\ header[s][writing.log] \in {Erased, EndOfLog(s)'}
        /\ ShouldLog => \A s \in Sensors : header[s][writing.log] = Erased
    BY <1>9 DEF WritingFits, EndOfLog, Used
  <2> QED
    BY <1>3, <1>5, <2>1, <2>2 DEF WritingFits
<1>14. LogsCounted'
  <2>1. LastLogOpen => FALSE
    BY <1>3, <1>6, <1>7 DEF LastLogOpen
  <2>2. ~Booting /\ ~Formatted
    BY <1>3 DEF Booting, Formatted
  <2>3. \A id \in LogIDs : id < logCount => meta[id] = "closed"
    BY <2>1, <2>2 DEF LogsCounted
  <2>4. /\ \A id \in LogIDs : id >= logCount /\ meta[id] # Erased =>
              id = logCount /\ ShouldLog
        /\ logCount # MaxNumOfLog
    BY <1>4, <2>1, <2>2 DEF LogsCounted
  <2>5. CASE ShouldLog
    <3>1. LastLogOpen'
      BY <1>4, <1>5, <1>6, <1>7, <2>5 DEF LastLogOpen
    <3>2. logCount' = logCount + 1 /\ logCount' - 1 = logCount /\ meta[logCount] = "open"
      BY <1>4, <1>6, <2>5
    <3>3. \A id \in LogIDs : /\ id \in Int
                             /\ id < logCount' => id < logCount \/ id = logCount
                             /\ id >= logCount' => id >= logCount /\ id # logCount
      BY <1>6, <3>2 DEF LogIDs
    <3> QED
      BY <2>3, <2>4, <3>1, <3>2, <3>3 DEF LogsCounted
  <2>6. CASE ~ShouldLog
    <3>1. logCount' = logCount
      BY <1>6, <2>6
    <3> QED
      BY <2>3, <2>4, <2>6, <3>1 DEF LogsCounted
  <2> QED
    BY <2>5, <2>6
<1>15. HeadersBeforeClose' /\ FormatFits'
  BY <1>3 DEF HeadersBeforeClose, FormatFits, Formatted
<1> QED
  BY <1>2, <1>8, <1>10, <1>11, <1>12, <1>13, <1>14, <1>15

\* After a format nothing is left, and the device goes to sleep.
LEMMA FinishFormatKeepsIInv ==
    ASSUME IInv, ~Quiet, Head(todo).call = "finish",
           Head(todo).command = "formattingStorage",
           Enter(<<setControlCommand("sensorShouldSleep")>>),
           logCount' = 0, led' \in BOOLEAN, diskFull' = FALSE, powered' = powered,
           UNCHANGED <<waitingForDFU, command, connected, flash, sensors, unfinished>>
    PROVE  IInv'
<1> USE DEF IInv, flash, sensors
<1> DEFINE next == setControlCommand("sensorShouldSleep")
<1>1. /\ todo \in Seq(Steps) /\ InOrder(todo) /\ Head(todo) \in Pending
      /\ Pending = {Head(todo)} /\ Below = {}
  BY Stack, WhatFollows DEF TypeOK
<1>2. /\ \A name : Has(name) => name = "finish"
      /\ Finishing("formattingStorage")
  BY <1>1 DEF Has, Finishing
<1>3. next \in Steps /\ next.call = "setControlCommand"
  BY AreSteps DEF Commands, setControlCommand
<1>4. /\ todo' \in Seq(Steps) /\ InOrder(todo') /\ Pending' = {next}
      /\ todo' # <<>> /\ Head(todo') = next
  <2> HIDE DEF next
  <2>1. /\ <<next>> \in Seq(Steps) /\ InOrder(<<next>>) /\ Range(<<next>>) = {next}
        /\ <<next>> # <<>> /\ Head(<<next>>) = next
    BY <1>3, OneStep
  <2>2. Enter(<<next>>)
    BY DEF next
  <2> QED
    BY <1>1, <2>1, <2>2, Entering
<1>5. /\ \A name : Has(name)' => name = "setControlCommand"
      /\ \A x : ~Finishing(x)'
      /\ At("setControlCommand")'
  BY <1>3, <1>4 DEF Has, Finishing, At, Quiet
<1>6. command # "sensorShouldWork"
  BY <1>1 DEF Due
<1>7. ~timer /\ ~working /\ mailbox = <<>>
  BY <1>2, <1>6 DEF SensorsFollow, At
<1>8. powered /\ \A id \in LogIDs : meta[id] = Erased
  BY <1>2 DEF PowerFits, FormatFits, Formatted
<1>9. TypeOK'
  <2>1. logCount' \in 0 .. MaxNumOfLog
    BY ControlAssumption
  <2> QED
    BY <1>4, <2>1 DEF TypeOK
<1>10. \A step \in Pending' : Due(step)'
  BY <1>3, <1>4, <1>5, <1>6 DEF Due
<1>11. SensorsFollow'
  BY <1>6, <1>7 DEF SensorsFollow
<1>12. NestedForFullDisk' /\ PowerFits'
  BY <1>3, <1>4, <1>5, <1>7, <1>8 DEF NestedForFullDisk, PowerFits
<1>13. NoHeaderRuined' /\ RecordsInOrder' /\ HeadersHaveRecords' /\ ClosedLogsComplete'
  BY DEF NoHeaderRuined, RecordsInOrder, HeadersHaveRecords, ClosedLogsComplete
<1>14. WritingFits'
  BY <1>7 DEF WritingFits, EndOfLog, Used
<1>15. LogsCounted'
  BY <1>8, ControlAssumption DEF LogsCounted, LogIDs
<1>16. HeadersBeforeClose' /\ FormatFits'
  BY <1>5 DEF HeadersBeforeClose, FormatFits, Formatted
<1> QED
  BY <1>4, <1>9, <1>10, <1>11, <1>12, <1>13, <1>14, <1>15, <1>16

\* The other commands; the flash memory is put to sleep with nothing pending.
LEMMA FinishStopKeepsIInv ==
    ASSUME IInv, ~Quiet, Head(todo).call = "finish",
           Head(todo).command \notin {"sensorShouldWork", "formattingStorage"}, Return,
           led' \in BOOLEAN, waitingForDFU' \in BOOLEAN,
           powered' = (powered /\ ~(Head(todo).command = "shouldDeviceSleep" /\ ~connected)),
           UNCHANGED <<logCount, diskFull, command, connected, flash, sensors, unfinished>>
    PROVE  IInv'
<1> USE DEF IInv, flash, sensors
<1>1. /\ todo \in Seq(Steps) /\ InOrder(todo)
      /\ Head(todo) \in Steps /\ Head(todo) \in Pending
  BY Stack DEF TypeOK
<1>2. /\ command # "sensorShouldWork"
      /\ Head(todo).command # "sensorShouldSleep" => Pending' = {}
  BY <1>1, AfterReturn, WhatFollows DEF Due
<1>3. /\ \A x : Finishing(x) /\ x # Head(todo).command => Finishing(x)'
      /\ ~Finishing("sensorShouldWork")
  BY <1>1, <1>2, AfterReturn DEF Finishing, Due
<1>4. ~timer /\ mailbox = <<>> /\ ~At("stopSensors")
  BY <1>2 DEF SensorsFollow, At
<1>5. TypeOK' /\ InOrder(todo)'
  <2>1. powered' \in BOOLEAN
    BY DEF TypeOK
  <2> QED
    BY <1>1, <2>1, AfterReturn DEF TypeOK
<1>6. ASSUME NEW step \in Pending' PROVE Due(step)'
  <2>1. /\ step \in Pending /\ Due(step) /\ step # setControlCommand("sensorShouldSleep")
        /\ step.call \notin {"boot", "countLogs", "startSensors", "writeMeta", "stopSensors"}
        /\ step.call = "finish" => step.command # "sensorShouldWork"
    BY <1>1, <1>3, AfterReturn, WhatFollows
       DEF setControlCommand, BootCalls, Finishing
  <2> QED
    BY <1>1, <1>2, <1>3, <2>1, AfterReturn DEF Due
<1>7. SensorsFollow'
  BY <1>1, <1>2, <1>4, AfterReturn DEF SensorsFollow
<1>8. NestedForFullDisk'
  BY <1>1, AfterReturn DEF NestedForFullDisk
<1>9. PowerFits'
  <2>1. CASE powered' = powered
    BY <1>1, <2>1, AfterReturn DEF PowerFits
  <2>2. CASE powered' # powered
    <3>1. /\ Head(todo).command = "shouldDeviceSleep"
          /\ \A x : ~Finishing(x)' /\ ~Has("sensorsStopped")'
      BY <1>2, <2>2 DEF Finishing, Has, TypeOK
    <3>2. ~Has("sensorsStopped") /\ Finishing("shouldDeviceSleep")
      BY <1>1, <3>1, AfterReturn DEF Finishing
    <3>3. ~working'
      BY <1>2, <1>4, <3>2 DEF SensorsFollow
    <3>4. Has("setDiskFull") => Has("setDiskFull")'
      BY <1>1, AfterReturn
    <3> QED
      BY <3>1, <3>2, <3>3, <3>4 DEF PowerFits
  <2> QED
    BY <2>1, <2>2
<1>10. NoHeaderRuined' /\ RecordsInOrder' /\ HeadersHaveRecords' /\ ClosedLogsComplete'
  BY DEF NoHeaderRuined, RecordsInOrder, HeadersHaveRecords, ClosedLogsComplete
<1>11. WritingFits'
  BY <1>1, <1>3, <1>4, AfterReturn
     DEF WritingFits, EndOfLog, Used, ShouldLog, IsLogging, ToLog
<1>12. LogsCounted'
  BY <1>1, <1>3, AfterReturn
     DEF LogsCounted, LastLogOpen, Booting, Formatted, ShouldLog, IsLogging, ToLog
<1>13. HeadersBeforeClose'
  BY <1>1, <1>3, <1>4, AfterReturn DEF HeadersBeforeClose
<1>14. FormatFits'
  BY <1>1, <1>3, AfterReturn DEF FormatFits, Formatted, AllToFormat
<1> QED
  BY <1>5, <1>6, <1>7, <1>8, <1>9, <1>10, <1>11, <1>12, <1>13, <1>14

LEMMA FinishKeepsIInv ==
    ASSUME IInv, finishCommand
    PROVE  IInv'
<1> DEFINE c == Head(todo).command
<1>1. ~Quiet /\ Head(todo).call = "finish"
  BY DEF finishCommand, At
<1>2. CASE c = "enterDFUmode" /\ ~connected /\ RestartAfterDFU
  BY <1>2, RestartKeepsIInv
<1>3. CASE ~(c = "enterDFUmode" /\ ~connected)
  <2>1. /\ led' = (c # "shouldDeviceSleep")
        /\ logCount' = CASE c = "sensorShouldWork" /\ Head(todo).logging -> logCount + 1
                         [] c = "formattingStorage" -> 0
                         [] OTHER -> logCount
        /\ diskFull' = (diskFull /\ c # "formattingStorage")
        /\ waitingForDFU' = (waitingForDFU \/ c = "enterDFUmode")
        /\ powered' = (powered /\ ~(c = "shouldDeviceSleep" /\ ~connected))
        /\ IF c = "formattingStorage"
           THEN Enter(<<setControlCommand("sensorShouldSleep")>>)
           ELSE Return
        /\ UNCHANGED <<command, connected, flash, sensors, unfinished>>
    BY <1>3 DEF finishCommand
  <2>2. {diskFull, powered, waitingForDFU} \subseteq BOOLEAN /\ led' \in BOOLEAN
    BY <2>1 DEF IInv, TypeOK
  <2>3. CASE c = "sensorShouldWork"
    <3>1. /\ logCount' = IF Head(todo).logging THEN logCount + 1 ELSE logCount
          /\ diskFull' = diskFull /\ powered' = powered /\ waitingForDFU' = waitingForDFU
          /\ Return
      BY <2>1, <2>2, <2>3
    <3> QED
      BY <1>1, <2>1, <2>2, <2>3, <3>1, FinishWorkKeepsIInv
  <2>4. CASE c = "formattingStorage"
    <3>1. /\ logCount' = 0 /\ diskFull' = FALSE
          /\ powered' = powered /\ waitingForDFU' = waitingForDFU
          /\ Enter(<<setControlCommand("sensorShouldSleep")>>)
      BY <2>1, <2>2, <2>4
    <3> QED
      BY <1>1, <2>1, <2>2, <2>4, <3>1, FinishFormatKeepsIInv
  <2>5. CASE c \notin {"sensorShouldWork", "formattingStorage"}
    <3>1. logCount' = logCount /\ diskFull' = diskFull /\ Return
          /\ waitingForDFU' \in BOOLEAN
      BY <2>1, <2>2, <2>5
    <3> QED
      BY <1>1, <2>1, <2>2, <2>5, <3>1, FinishStopKeepsIInv
  <2> QED
    BY <2>3, <2>4, <2>5
<1> QED
  BY <1>2, <1>3 DEF finishCommand

-----------------------------------------------------------------------------
(* The sensors start. *)

LEMMA StartSensorsKeepsIInv ==
    ASSUME IInv, startSensors_
    PROVE  IInv'
<1> USE DEF IInv
<1> DEFINE step == Head(todo)
<1>1. /\ ~Quiet /\ step.call = "startSensors"
      /\ todo \in Seq(Steps) /\ InOrder(todo) /\ step \in Steps /\ step \in Pending
  BY Stack DEF startSensors_, At, TypeOK
<1>2. /\ command = "sensorShouldWork" /\ ~working /\ powered /\ ~diskFull
      /\ step.logging = ShouldLog /\ step.id = logCount
      /\ Finishing("sensorShouldWork")
  BY <1>1 DEF Due
<1>3. CASE Restart
  BY <1>3, RestartKeepsIInv
<1>4. CASE /\ step.logging => CanCreate(step.id)
           /\ working' = TRUE /\ timer' = TRUE
           /\ writing' = IF step.logging
                         THEN [log |-> step.id, wpos |-> [s \in Sensors |-> 0]]
                         ELSE writing
           /\ Return
           /\ UNCHANGED <<setting, mailbox, flash, model, rest>>
  <2> HIDE DEF step
  <2> USE DEF flash, model, rest
  <2>1. \A b \in Pending' : \/ b.call = "writeMeta"
                            \/ b.call = "finish" /\ b.command = "sensorShouldWork"
    BY <1>1, <1>4, AfterReturn, WhatFollows DEF step
  <2>2. /\ \A name : Has(name)' => name \in {"writeMeta", "finish"}
        /\ \A x : Finishing(x)' => x = "sensorShouldWork"
        /\ Finishing("sensorShouldWork")'
        /\ \A name : Has(name) => name \in {"startSensors", "writeMeta", "finish"}
        /\ \A x : Finishing(x) => x = "sensorShouldWork"
        /\ Has("writeMeta") => Has("writeMeta")'
    <3>1. /\ \A name : Has(name)' => name \in {"writeMeta", "finish"}
          /\ \A x : Finishing(x)' => x = "sensorShouldWork"
      BY <2>1 DEF Has, Finishing
    <3> QED
      BY <1>1, <1>2, <1>4, <3>1, AfterReturn DEF step
  <2>3. ShouldLog => /\ logCount < MaxNumOfLog /\ logCount \in LogIDs
                     /\ Has("writeMeta")' \/ meta[logCount] = "open"
    <3>1. PICK b \in Pending : b.call = "finish" /\ b.command = "sensorShouldWork"
      BY <1>2 DEF Finishing
    <3>2. ShouldLog => /\ logCount < MaxNumOfLog
                       /\ Has("writeMeta") \/ meta[logCount] = "open"
      BY <3>1 DEF Due
    <3>3. logCount \in 0 .. MaxNumOfLog
      BY DEF TypeOK
    <3> QED
      BY <2>2, <3>2, <3>3, ControlAssumption DEF LogIDs
  <2>4. ShouldLog => \A s \in Sensors : header[s][logCount] = Erased
    BY <1>2, <1>4 DEF CanCreate
  <2>5. ShouldLog' = ShouldLog
    BY <1>4 DEF ShouldLog, IsLogging, ToLog
  <2>6. /\ ShouldLog => writing' = [log |-> logCount, wpos |-> [s \in Sensors |-> 0]]
        /\ ~ShouldLog => writing' = writing
    BY <1>2, <1>4
  <2>7. TypeOK' /\ InOrder(todo)'
    <3>1. writing' \in [log : LogIDs \cup {NoLog}, wpos : [Sensors -> 0 .. Capacity]]
      <4>1. CASE ShouldLog
        BY <2>3, <2>6, <4>1, ControlAssumption
      <4>2. CASE ~ShouldLog
        BY <2>6, <4>2 DEF TypeOK
      <4> QED
        BY <4>1, <4>2
    <3> QED
      BY <1>1, <1>4, <3>1, AfterReturn DEF TypeOK, step
  <2>8. ASSUME NEW b \in Pending' PROVE Due(b)'
    <3>1. b \in Pending /\ Due(b)
      BY <1>1, <1>4, AfterReturn DEF step
    <3>2. b # setControlCommand("sensorShouldSleep")
      BY <2>1 DEF setControlCommand
    <3> QED
      BY <1>2, <1>4, <2>1, <2>2, <2>5, <3>1, <3>2 DEF Due
  <2>9. SensorsFollow'
    BY <1>1, <1>2, <1>4 DEF SensorsFollow, At
  <2>10. NestedForFullDisk' /\ PowerFits'
    <3>1. setControlCommand("sensorShouldSleep") \notin Pending'
      BY <2>1 DEF setControlCommand
    <3> QED
      BY <1>2, <1>4, <2>2, <3>1 DEF NestedForFullDisk, PowerFits
  <2>11. /\ NoHeaderRuined' /\ RecordsInOrder' /\ HeadersHaveRecords'
         /\ ClosedLogsComplete'
    BY <1>4 DEF NoHeaderRuined, RecordsInOrder, HeadersHaveRecords, ClosedLogsComplete
  <2>12. WritingFits'
    <3>1. CASE ShouldLog
      <4>1. ASSUME NEW s \in Sensors
            PROVE  EndOfLog(s)' <= Capacity /\ header'[s][logCount] = Erased
        <5>1. Used(s, logCount) \in 0 .. Capacity
          BY UsedFits DEF TypeOK
        <5>2. EndOfLog(s)' = Used(s, logCount) + 0
          BY <1>4, <2>6, <3>1 DEF EndOfLog, Used
        <5> QED
          BY <1>4, <2>4, <3>1, <5>1, <5>2, ControlAssumption
      <4>2. writing'.log = logCount /\ writing'.log \in LogIDs
        BY <2>3, <2>6, <3>1
      <4> QED
        BY <1>4, <2>2, <2>3, <2>5, <3>1, <4>1, <4>2 DEF WritingFits
    <3>2. CASE ~ShouldLog
      <4>1. /\ writing' = writing
            /\ \A s \in Sensors : EndOfLog(s)' = EndOfLog(s)
        BY <1>4, <2>6, <3>2 DEF EndOfLog, Used
      <4> QED
        BY <1>4, <2>5, <3>2, <4>1 DEF WritingFits
    <3> QED
      BY <3>1, <3>2
  <2>13. LogsCounted'
    <3>1. ~LastLogOpen /\ ~Booting /\ ~Booting' /\ ~Formatted /\ ~Formatted'
      BY <1>2, <2>2 DEF LastLogOpen, Booting, Formatted
    <3> QED
      BY <1>2, <1>4, <2>2, <2>5, <3>1 DEF LogsCounted
  <2>14. HeadersBeforeClose' /\ FormatFits'
    BY <2>2 DEF HeadersBeforeClose, FormatFits, Formatted
  <2> QED
    BY <2>7, <2>8, <2>9, <2>10, <2>11, <2>12, <2>13, <2>14
<1> QED
  BY <1>2, <1>3, <1>4 DEF startSensors_

-----------------------------------------------------------------------------
(* Events. *)

\* Between two events nothing is pending.
LEMMA NothingPending ==
    ASSUME IInv, Quiet
    PROVE  /\ Pending = {}
           /\ \A name : ~Has(name) /\ ~At(name)
           /\ \A x : ~Finishing(x)
           /\ \A name, s : ~HasFor(name, s)
           /\ working <=> command = "sensorShouldWork"
           /\ timer <=> working
           /\ mailbox # <<>> => timer
           /\ working => powered
<1>1. Pending = {}
  BY DEF Quiet, Pending, Range
<1>2. /\ \A name : ~Has(name) /\ ~At(name)
      /\ \A x : ~Finishing(x)
      /\ \A name, s : ~HasFor(name, s)
  BY <1>1 DEF Has, At, Finishing, HasFor
<1> QED
  BY <1>1, <1>2 DEF IInv, TypeOK, SensorsFollow, PowerFits

\* An event pushes a command or two, or the flush of the mailbox.
LEMMA EventKeepsIInv ==
    ASSUME IInv, Quiet, todo' \in Seq(Steps), InOrder(todo)', todo' # <<>>,
           \/ \A step \in Pending' : step.call = "setControlCommand"
           \/ \A step \in Pending' : step.call = "flashMailbox",
           UNCHANGED <<flash, model, sensors, rest>>
    PROVE  IInv'
<1> USE DEF IInv, flash, model, sensors, rest
<1>1. /\ Pending = {}
      /\ \A name : ~Has(name) /\ ~At(name)
      /\ \A x : ~Finishing(x)
      /\ \A name, s : ~HasFor(name, s)
      /\ working <=> command = "sensorShouldWork"
      /\ timer <=> working
      /\ mailbox # <<>> => timer
      /\ working => powered
  BY NothingPending
<1>2. Head(todo') \in Pending'
  <2>1. Head(todo') = todo'[1] /\ 1 \in DOMAIN todo'
    OBVIOUS
  <2> QED
    BY <2>1 DEF Pending, Range
<1>3. /\ \A name : Has(name)' => name \in {"setControlCommand", "flashMailbox"}
      /\ \A x : ~Finishing(x)'
      /\ \A step \in Pending' : At(step.call)'
  BY <1>2 DEF Has, Finishing, At, Quiet
<1>4. TypeOK'
  BY DEF TypeOK
<1>5. ASSUME NEW step \in Pending' PROVE Due(step)'
  BY <1>3 DEF Due, setControlCommand
<1>6. SensorsFollow'
  BY <1>1 DEF SensorsFollow
<1>7. NestedForFullDisk' /\ PowerFits'
  BY <1>1, <1>3 DEF NestedForFullDisk, PowerFits, Finishing
<1>8. NoHeaderRuined' /\ RecordsInOrder' /\ HeadersHaveRecords' /\ ClosedLogsComplete'
  BY DEF NoHeaderRuined, RecordsInOrder, HeadersHaveRecords, ClosedLogsComplete
<1>9. WritingFits'
  BY <1>1, <1>3 DEF WritingFits, EndOfLog, Used, ShouldLog, IsLogging, ToLog
<1>10. LogsCounted'
  BY <1>1, <1>3
     DEF LogsCounted, LastLogOpen, Booting, Formatted, ShouldLog, IsLogging, ToLog
<1>11. HeadersBeforeClose' /\ FormatFits'
  BY <1>3 DEF HeadersBeforeClose, FormatFits, Formatted
<1> QED
  BY <1>4, <1>5, <1>6, <1>7, <1>8, <1>9, <1>10, <1>11

LEMMA RequestKeepsIInv ==
    ASSUME IInv, request
    PROVE  IInv'
<1>1. /\ \A c \in Commands : /\ setControlCommand(c) \in Steps
                             /\ setControlCommand(c).call = "setControlCommand"
                             /\ setControlCommand(c).command = c
      /\ {"sensorShouldSleep", "sensorShouldWork", "shouldDeviceSleep",
          "formattingStorage"} \subseteq Commands
  BY AreSteps DEF setControlCommand, Commands
<1>2. \/ \E c \in Commands : todo' = <<setControlCommand(c)>>
      \/ todo' = <<setControlCommand("sensorShouldSleep"),
                   setControlCommand("sensorShouldWork")>>
  BY <1>1 DEF request, Requests
<1>3. /\ todo' \in Seq(Steps) /\ InOrder(todo') /\ todo' # <<>>
      /\ \A step \in Range(todo') : step.call = "setControlCommand"
  <2>1. CASE \E c \in Commands : todo' = <<setControlCommand(c)>>
    <3> PICK c \in Commands : todo' = <<setControlCommand(c)>>
      BY <2>1
    <3> QED
      BY <1>1, OneStep
  <2>2. CASE todo' = <<setControlCommand("sensorShouldSleep"),
                       setControlCommand("sensorShouldWork")>>
    <3>1. Before(setControlCommand("sensorShouldSleep"),
                 setControlCommand("sensorShouldWork"))
      BY <1>1 DEF Before, CallsBefore, StopCalls
    <3> QED
      BY <1>1, <2>2, <3>1, TwoSteps
  <2> QED
    BY <1>2, <2>1, <2>2
<1>4. Quiet /\ UNCHANGED <<flash, model, sensors, rest>>
  BY DEF request
<1> QED
  BY <1>3, <1>4, EventKeepsIInv DEF Pending

LEMMA DequeueKeepsIInv ==
    ASSUME IInv, dequeue
    PROVE  IInv'
<1>1. /\ Quiet /\ todo' = <<Step("flashMailbox")>>
      /\ UNCHANGED <<flash, model, sensors, rest>>
  BY DEF dequeue
<1>2. Step("flashMailbox") \in Steps /\ Step("flashMailbox").call = "flashMailbox"
  BY AreSteps DEF PlainSteps, Step
<1>3. /\ todo' \in Seq(Steps) /\ InOrder(todo') /\ todo' # <<>>
      /\ \A step \in Range(todo') : step.call = "flashMailbox"
  BY <1>1, <1>2, OneStep
<1> QED
  BY <1>1, <1>3, EventKeepsIInv DEF Pending

\* A client connects or disconnects.
LEMMA ConnectionKeepsIInv ==
    ASSUME IInv, connect \/ disconnect
    PROVE  IInv'
<1>1. CASE RestartAfterDFU
  BY <1>1, RestartKeepsIInv
<1>2. CASE /\ Quiet /\ connected' \in BOOLEAN
           /\ powered' \in {powered, powered /\ command # "shouldDeviceSleep"}
           /\ UNCHANGED <<command, logCount, diskFull, waitingForDFU, flash, sensors,
                          led, unfinished, todo>>
  <2> USE DEF IInv, flash, sensors
  <2>1. /\ \A name : ~Has(name) /\ ~At(name)
        /\ \A x : ~Finishing(x)
        /\ working <=> command = "sensorShouldWork"
        /\ timer <=> working
        /\ mailbox # <<>> => timer
        /\ working => powered
    BY <1>2, NothingPending
  <2>2. /\ Pending' = {} /\ Pending = {} /\ InOrder(todo)'
        /\ \A name : ~Has(name)' /\ ~At(name)'
        /\ \A x : ~Finishing(x)'
    BY <1>2 DEF Pending, Has, Finishing, At, Quiet, Range, InOrder
  <2>3. powered' \in BOOLEAN /\ (powered' => powered)
        /\ (powered /\ ~powered' => command = "shouldDeviceSleep")
    BY <1>2 DEF TypeOK
  <2>4. TypeOK'
    BY <1>2, <2>3 DEF TypeOK
  <2>5. SensorsFollow' /\ NestedForFullDisk'
    BY <1>2, <2>1, <2>2 DEF SensorsFollow, NestedForFullDisk
  <2>6. PowerFits'
    BY <1>2, <2>1, <2>2, <2>3 DEF PowerFits
  <2>7. NoHeaderRuined' /\ RecordsInOrder' /\ HeadersHaveRecords' /\ ClosedLogsComplete'
    BY <1>2 DEF NoHeaderRuined, RecordsInOrder, HeadersHaveRecords, ClosedLogsComplete
  <2>8. WritingFits'
    BY <1>2, <2>1, <2>2 DEF WritingFits, EndOfLog, Used, ShouldLog, IsLogging, ToLog
  <2>9. LogsCounted'
    BY <1>2, <2>1, <2>2
       DEF LogsCounted, LastLogOpen, Booting, Formatted, ShouldLog, IsLogging, ToLog
  <2>10. HeadersBeforeClose' /\ FormatFits'
    BY <2>2 DEF HeadersBeforeClose, FormatFits, Formatted
  <2> QED
    BY <2>2, <2>4, <2>5, <2>6, <2>7, <2>8, <2>9, <2>10
<1> QED
  BY <1>1, <1>2 DEF connect, disconnect, rest

\* The settings change while nothing is sampled or written.
LEMMA WriteSettingKeepsIInv ==
    ASSUME IInv, NEW s \in Sensors, NEW c \in Settings, writeSetting(s, c)
    PROVE  IInv'
<1> USE DEF IInv, flash, model, rest
<1>1. /\ Quiet /\ ~working /\ setting' = [setting EXCEPT ![s] = c]
      /\ UNCHANGED <<working, writing, timer, mailbox, flash, model, rest, todo>>
  BY DEF writeSetting
<1>2. /\ \A name : ~Has(name) /\ ~At(name)
      /\ \A x : ~Finishing(x)
      /\ command # "sensorShouldWork" /\ ~timer /\ mailbox = <<>>
  BY <1>1, NothingPending
<1>3. /\ Pending' = {} /\ InOrder(todo)'
      /\ \A name : ~Has(name)' /\ ~At(name)'
      /\ \A x : ~Finishing(x)'
  BY <1>1 DEF Pending, Has, Finishing, At, Quiet, Range, InOrder
<1>4. TypeOK'
  BY <1>1 DEF TypeOK
<1>5. SensorsFollow' /\ NestedForFullDisk' /\ PowerFits'
  BY <1>1, <1>2, <1>3 DEF SensorsFollow, NestedForFullDisk, PowerFits
<1>6. NoHeaderRuined' /\ RecordsInOrder' /\ HeadersHaveRecords' /\ ClosedLogsComplete'
  BY <1>1 DEF NoHeaderRuined, RecordsInOrder, HeadersHaveRecords, ClosedLogsComplete
<1>7. WritingFits'
  BY <1>1, <1>2 DEF WritingFits, EndOfLog, Used
<1>8. LogsCounted'
  BY <1>1, <1>2, <1>3 DEF LogsCounted, LastLogOpen, Booting, Formatted
<1>9. HeadersBeforeClose' /\ FormatFits'
  BY <1>3 DEF HeadersBeforeClose, FormatFits, Formatted
<1> QED
  BY <1>3, <1>4, <1>5, <1>6, <1>7, <1>8, <1>9

\* The sampling interrupt, between any two steps of a handler.
LEMMA SampleKeepsIInv ==
    ASSUME IInv, NEW s \in Sensors, sample(s)
    PROVE  IInv'
<1>1. CASE Restart
  BY <1>1, RestartKeepsIInv
<1>2. CASE /\ Len(mailbox) < MailboxSize /\ mailbox' = Append(mailbox, s)
           /\ UNCHANGED <<working, setting, writing, timer, flash, model, rest, todo>>
  <2> USE DEF IInv, flash, model, rest
  <2>1. timer /\ s \in Available
    BY DEF sample, IsActive
  <2>2. /\ Pending' = Pending /\ InOrder(todo)' /\ todo' = todo
        /\ \A name : Has(name)' <=> Has(name)
        /\ \A name : At(name)' <=> At(name)
        /\ \A x : Finishing(x)' <=> Finishing(x)
        /\ \A name, t : HasFor(name, t)' <=> HasFor(name, t)
    BY <1>2 DEF Pending, Has, HasFor, Finishing, At, Quiet
  <2>3. mailbox' \in Seq(Sensors) /\ Len(mailbox') <= MailboxSize
    <3>1. mailbox' \in Seq(Sensors) /\ Len(mailbox') = Len(mailbox) + 1
      BY <1>2, AppendProperties DEF TypeOK
    <3> QED
      BY <1>2, <3>1, ControlAssumption DEF TypeOK
  <2>4. mailbox' \in Seq(Available)
    BY <1>2, <2>1, AppendProperties DEF SensorsFollow
  <2>5. TypeOK'
    BY <1>2, <2>3 DEF TypeOK
  <2>6. ASSUME NEW step \in Pending' PROVE Due(step)'
    BY <1>2, <2>2 DEF Due, ShouldLog, IsLogging, ToLog
  <2>7. SensorsFollow'
    BY <1>2, <2>1, <2>2, <2>4 DEF SensorsFollow
  <2>8. NestedForFullDisk' /\ PowerFits'
    BY <1>2, <2>2 DEF NestedForFullDisk, PowerFits
  <2>9. NoHeaderRuined' /\ RecordsInOrder' /\ HeadersHaveRecords' /\ ClosedLogsComplete'
    BY <1>2 DEF NoHeaderRuined, RecordsInOrder, HeadersHaveRecords, ClosedLogsComplete
  <2>10. WritingFits'
    BY <1>2, <2>1, <2>2 DEF WritingFits, EndOfLog, Used, ShouldLog, IsLogging, ToLog
  <2>11. LogsCounted'
    BY <1>2, <2>2
       DEF LogsCounted, LastLogOpen, Booting, Formatted, ShouldLog, IsLogging, ToLog
  <2>12. HeadersBeforeClose' /\ FormatFits'
    BY <1>2, <2>2 DEF HeadersBeforeClose, FormatFits, Formatted, AllToFormat
  <2> QED
    BY <2>2, <2>5, <2>6, <2>7, <2>8, <2>9, <2>10, <2>11, <2>12
<1> QED
  BY <1>1, <1>2 DEF sample

-----------------------------------------------------------------------------
(* Every step keeps the invariant. *)

LEMMA NextKeepsIInv ==
    ASSUME IInv, [Next]_vars
    PROVE  IInv'
<1>1. CASE Proceed
  <2>1. CASE boot
    BY <2>1, BootKeepsIInv
  <2>2. CASE countLogs
    BY <2>2, CountLogsKeepsIInv
  <2>3. CASE refuseCommand
    BY <2>3, RefuseKeepsIInv
  <2>4. CASE acceptCommand
    BY <2>4, AcceptKeepsIInv
  <2>5. CASE finishCommand
    BY <2>5, FinishKeepsIInv
  <2>6. CASE setDiskFull
    BY <2>6, SetDiskFullKeepsIInv
  <2>7. CASE startSensors_
    BY <2>7, StartSensorsKeepsIInv
  <2>8. CASE stopSensors_
    BY <2>8, StopSensorsKeepsIInv
  <2>9. CASE sensorsStopped
    BY <2>9, SensorsStoppedKeepsIInv
  <2>10. CASE flashMailbox
    BY <2>10, FlashMailboxKeepsIInv
  <2>11. CASE storageFull
    BY <2>11, StorageFullKeepsIInv
  <2>12. CASE closeLog_
    BY <2>12, CloseLogKeepsIInv
  <2>13. CASE eraseSettings \/ markSettings \/ saveSetting_ \/ markMeta
    BY <2>13, SettingsStepsKeepIInv
  <2>14. CASE formatLog_
    BY <2>14, FormatLogKeepsIInv
  <2>15. CASE closeMeta_
    BY <2>15, CloseMetaKeepsIInv
  <2>16. CASE writeMeta_
    BY <2>16, WriteMetaKeepsIInv
  <2>17. CASE eraseMeta
    BY <2>17, EraseMetaKeepsIInv
  <2>18. CASE unanswered
    BY <2>18, RestartKeepsIInv DEF unanswered
  <2> QED
    BY <1>1, <2>1, <2>2, <2>3, <2>4, <2>5, <2>6, <2>7, <2>8, <2>9, <2>10, <2>11,
       <2>12, <2>13, <2>14, <2>15, <2>16, <2>17, <2>18 DEF Proceed
<1>2. CASE request
  BY <1>2, RequestKeepsIInv
<1>3. CASE connect \/ disconnect
  BY <1>3, ConnectionKeepsIInv
<1>4. CASE dequeue
  BY <1>4, DequeueKeepsIInv
<1>5. CASE \E s \in Sensors, c \in Settings : writeSetting(s, c)
  BY <1>5, WriteSettingKeepsIInv
<1>6. CASE \E s \in Sensors : sample(s)
  BY <1>6, SampleKeepsIInv
<1>7. CASE powerCut
  BY <1>7, RestartKeepsIInv DEF powerCut
<1>8. CASE UNCHANGED vars
  <2> USE DEF vars, flash, model, sensors, rest
  <2>1. /\ Pending' = Pending
        /\ \A name : Has(name)' <=> Has(name)
        /\ \A name : At(name)' <=> At(name)
        /\ \A x : Finishing(x)' <=> Finishing(x)
        /\ \A name, t : HasFor(name, t)' <=> HasFor(name, t)
    BY <1>8 DEF Pending, Has, HasFor, Finishing, At, Quiet
  <2>2. TypeOK' /\ InOrder(todo)' /\ \A step \in Pending' : Due(step)'
    <3>1. TypeOK' /\ InOrder(todo)'
      BY <1>8 DEF IInv, TypeOK
    <3>2. ShouldLog' = ShouldLog
      BY <1>8 DEF ShouldLog, IsLogging, ToLog
    <3>3. ASSUME NEW step \in Pending PROVE Due(step)'
      BY <1>8, <2>1, <3>2 DEF IInv, Due
    <3> QED
      BY <2>1, <3>1, <3>3
  <2>3. SensorsFollow' /\ NestedForFullDisk' /\ PowerFits' /\ NoHeaderRuined'
    BY <1>8, <2>1 DEF IInv, SensorsFollow, NestedForFullDisk, PowerFits, NoHeaderRuined
  <2>4. WritingFits'
    BY <1>8, <2>1 DEF IInv, WritingFits, EndOfLog, Used, ShouldLog, IsLogging, ToLog
  <2>5. RecordsInOrder' /\ HeadersHaveRecords' /\ ClosedLogsComplete'
    BY <1>8 DEF IInv, RecordsInOrder, HeadersHaveRecords, ClosedLogsComplete
  <2>6. LogsCounted'
    BY <1>8, <2>1 DEF IInv, LogsCounted, LastLogOpen, Booting, Formatted,
                      ShouldLog, IsLogging, ToLog
  <2>7. HeadersBeforeClose' /\ FormatFits'
    BY <1>8, <2>1 DEF IInv, HeadersBeforeClose, FormatFits, Formatted, AllToFormat
  <2> QED
    BY <1>8, <2>2, <2>3, <2>4, <2>5, <2>6, <2>7 DEF IInv
<1> QED
  BY <1>1, <1>2, <1>3, <1>4, <1>5, <1>6, <1>7, <1>8 DEF Next

-----------------------------------------------------------------------------
(* The promises. *)

\* The order of the steps pending, and what goes with each: with these the
\* promises below are kept by every step, also those of a power cut.
THEOREM Invariance == Spec => []IInv
<1>1. Init => IInv
  BY InitIInv
<1>2. IInv /\ [Next]_vars => IInv'
  BY NextKeepsIInv
<1> QED
  BY <1>1, <1>2, PTL DEF Spec

\* Every variable keeps its type: the IDs, log ends and settings, and the
\* mailbox within its size.
THEOREM TypesHold == Spec => []TypeOK
<1>1. IInv => TypeOK
  BY DEF IInv
<1> QED
  BY <1>1, Invariance, PTL

\* A record that says "closed" is never ahead of the headers of its log
\* (senstick_data_model.c:209-211).
THEOREM ClosedIsComplete == Spec => []ClosedLogsComplete
<1>1. IInv => ClosedLogsComplete
  BY DEF IInv
<1> QED
  BY <1>1, Invariance, PTL

\* No header is programmed over a different one, although the disk becoming
\* full closes a log twice (senstick_sensor_controller.c:259).
THEOREM HeadersSurvive == Spec => []NoHeaderRuined
<1>1. IInv => NoHeaderRuined
  BY DEF IInv
<1> QED
  BY <1>1, Invariance, PTL

\* Between two events the sensors, their timer and the power agree with the
\* command of the control point.
THEOREM SensorsFollowCommand == Spec => []CommandAgrees
<1>1. IInv => CommandAgrees
  BY NothingPending DEF CommandAgrees
<1> QED
  BY <1>1, Invariance, PTL

\* Unless a format was cut short, the ASSERTs hold.
LEMMA AssertsFollow ==
    ASSUME IInv, ~unfinished
    PROVE  AssertionsHold
<1> USE DEF IInv
<1>1. ASSUME At("startSensors"), Head(todo).logging
      PROVE  CanCreate(Head(todo).id)
  <2>1. Head(todo) \in Pending /\ Has("startSensors") /\ Head(todo).call = "startSensors"
    BY <1>1, AtIsPending DEF TypeOK, At
  <2>2. /\ command = "sensorShouldWork" /\ ~working /\ ~diskFull
        /\ Head(todo).id = logCount /\ Has("writeMeta")
    BY <1>1, <2>1 DEF Due
  <2>3. logCount \in LogIDs /\ meta[logCount] = Erased
    <3>1. PICK b \in Pending : b.call = "writeMeta"
      BY <2>2 DEF Has
    <3>2. logCount < MaxNumOfLog /\ meta[logCount] = Erased
      BY <3>1 DEF Due
    <3> QED
      BY <3>2, ControlAssumption DEF TypeOK, LogIDs
  <2>4. \A s \in Sensors : header[s][logCount] = Erased
    BY <2>3 DEF HeadersHaveRecords
  <2>5. ASSUME logCount > 0, NEW s \in Sensors PROVE header[s][logCount - 1] # Erased
    <3>1. logCount - 1 \in LogIDs /\ logCount - 1 < logCount
      BY <2>3, <2>5, ControlAssumption DEF LogIDs
    <3>2. ~Has("closeMeta")
      BY <2>2 DEF Has, Due
    <3>3. ~Booting /\ ~Formatted
      BY <2>2 DEF Booting, Formatted, Finishing, Has, Due
    <3>4. meta[logCount - 1] = "closed"
      BY <2>2, <3>1, <3>2, <3>3 DEF LogsCounted, LastLogOpen
    <3> QED
      BY <3>1, <3>4 DEF ClosedLogsComplete
  <2> QED
    BY <2>2, <2>4, <2>5 DEF CanCreate
<1>2. ASSUME At("writeMeta") PROVE meta[Head(todo).id] = Erased
  <2>1. Head(todo) \in Pending /\ Head(todo).call = "writeMeta"
    BY <1>2, AtIsPending DEF TypeOK, At
  <2> QED
    BY <2>1 DEF Due
<1>3. ASSUME ClosedRecords > 0 PROVE CanOpen(ClosedRecords - 1)
  <2> DEFINE n == ClosedRecords
  <2>1. n \in 0 .. MaxNumOfLog /\ \A id \in 0 .. n - 1 : meta[id] = "closed"
    BY ClosedRecordsFound
  <2> HIDE DEF n
  <2>2. n > 0 => n - 1 \in LogIDs /\ meta[n - 1] = "closed"
    BY <2>1, ControlAssumption DEF LogIDs
  <2>3. n > 0 => \A s \in Sensors : header[s][n - 1] # Erased
    BY <2>2 DEF ClosedLogsComplete
  <2>4. n > 0 => CanOpen(n - 1)
    BY <2>3 DEF CanOpen
  <2> QED
    BY <1>3, <2>4 DEF n
<1> QED
  BY <1>1, <1>2, <1>3 DEF AssertionsHold

\* The ASSERTs of createLog, metaDataLogWrite and openLog hold wherever they
\* are met (log_controller.c:30, 61, metadata_log_controller.c:56).
THEOREM AssertsHold == Spec => []AssertionsHold
<1>1. IInv => AssertionsHold
  BY AssertsFollow DEF AssertionsHold
<1> QED
  BY <1>1, Invariance, PTL

\* The log that is open between two events is the one being recorded, unless
\* the disk is marked full.
LEMMA OpenLogIsRecorded ==
    ASSUME IInv, Quiet, ~diskFull, NEW id \in LogIDs, meta[id] = "open"
    PROVE  Recording(id) /\ ShouldLog
<1> USE DEF IInv
<1>1. ~Booting /\ ~Formatted /\ ~Finishing("sensorShouldWork") /\ ~Has("closeMeta")
  BY NothingPending DEF Booting, Formatted
<1>2. id < logCount
  BY <1>1, ControlAssumption DEF LogsCounted, TypeOK, LogIDs
<1>3. id = logCount - 1 /\ LastLogOpen
  BY <1>1, <1>2 DEF LogsCounted
<1> QED
  BY <1>1, <1>3 DEF LastLogOpen, Recording

\* A log that nobody records any more, or the last ID used up, shows as a full
\* disk (main.c:338-352, senstick_data_model.c:175).
THEOREM FullIsSeen == Spec => []FullIsFlagged
<1>1. ASSUME IInv, Quiet, ~diskFull
      PROVE  /\ \A id \in LogIDs : meta[id] = "open" => Recording(id)
             /\ logCount = MaxNumOfLog => Recording(logCount - 1)
  <2>1. \A id \in LogIDs : meta[id] = "open" => Recording(id)
    BY <1>1, OpenLogIsRecorded
  <2>2. ~Booting /\ ~Has("closeMeta")
    BY <1>1, NothingPending DEF Booting
  <2>3. logCount = MaxNumOfLog => LastLogOpen
    BY <1>1, <2>2 DEF IInv, LogsCounted
  <2> QED
    BY <2>1, <2>2, <2>3 DEF LastLogOpen, Recording
<1>2. IInv => FullIsFlagged
  BY <1>1 DEF FullIsFlagged
<1> QED
  BY <1>2, Invariance, PTL

\* A log being recorded has the highest ID in use: the headers from it on are
\* erased, the logs before it closed.
THEOREM RecordingHasLastID == Spec => []RecordingIsLast
<1>1. ASSUME IInv, Quiet, working, ~unfinished, NEW id \in LogIDs, meta[id] = "open"
      PROVE  /\ Recording(id)
             /\ \A s \in Sensors, j \in LogIDs : header[s][j] = Erased <=> j >= id
             /\ \A j \in LogIDs : j < id => meta[j] = "closed"
  <2> USE DEF IInv
  <2>1. timer /\ ~diskFull
    BY <1>1, NothingPending DEF SensorsFollow
  <2>2. Recording(id) /\ ShouldLog
    BY <1>1, <2>1, OpenLogIsRecorded
  <2>3. \A j \in LogIDs : j < id => meta[j] = "closed"
    BY <1>1, ControlAssumption DEF RecordsInOrder
  <2>4. ASSUME NEW j \in LogIDs, j > id PROVE meta[j] = Erased
    BY <1>1, <2>4, ControlAssumption DEF RecordsInOrder
  <2>5. ASSUME NEW s \in Sensors, NEW j \in LogIDs
        PROVE  header[s][j] = Erased <=> j >= id
    <3>1. CASE j < id
      BY <1>1, <2>3, <3>1 DEF ClosedLogsComplete, LogIDs
    <3>2. CASE j = id
      <4>1. header[s][j] = Erased
        BY <1>1, <2>1, <2>2, <3>2 DEF WritingFits, Recording
      <4> QED
        BY <3>2, <4>1, ControlAssumption DEF LogIDs
    <3>3. CASE j > id
      BY <1>1, <2>4, <3>3 DEF HeadersHaveRecords, LogIDs
    <3> QED
      BY <3>1, <3>2, <3>3 DEF LogIDs
  <2> QED
    BY <2>2, <2>3, <2>5
<1>2. IInv => RecordingIsLast
  BY <1>1 DEF RecordingIsLast
<1> QED
  BY <1>2, Invariance, PTL

\* The steps that neither write a record nor a header.
LEMMA OthersKeepLogs ==
    ASSUME [Next]_vars,
           ~(closeLog_ \/ formatLog_ \/ closeMeta_ \/ writeMeta_ \/ eraseMeta)
    PROVE  meta' = meta /\ header' = header
<1> USE DEF flash
<1>1. Restart \/ RestartAfterDFU => meta' = meta /\ header' = header
  BY DEF Restart, RestartAfterDFU, Reset
<1>2. CASE Proceed
  BY <1>1, <1>2
     DEF Proceed, boot, countLogs, refuseCommand, acceptCommand, finishCommand,
         setDiskFull, startSensors_, stopSensors_, sensorsStopped, flashMailbox,
         storageFull, eraseSettings, markSettings, saveSetting_, markMeta, unanswered
<1>3. CASE ~Proceed
  BY <1>1, <1>3
     DEF Next, request, connect, disconnect, dequeue, writeSetting, sample, powerCut,
         vars
<1> QED
  BY <1>2, <1>3

\* A step takes a record from erased to open or from open to closed, or erases
\* all of them; the header of a log whose record is closed changes only when
\* its area is formatted.
LEMMA StepKeepsHistory ==
    ASSUME IInv, [Next]_vars
    PROVE  HistoryStep
<1> USE DEF HistoryStep
<1>1. CASE meta' = meta /\ header' = header
  BY <1>1
<1>2. CASE closeLog_
  <2>1. /\ todo \in Seq(Steps) /\ InOrder(todo)
        /\ Head(todo) \in Pending /\ Head(todo).call = "closeLog"
    BY <1>2, AtIsPending DEF closeLog_, At, IInv, TypeOK
  <2>2. meta' = meta /\ meta[writing.log] = "open" /\ writing.log # NoLog
    BY <1>2, <2>1, ControlAssumption DEF closeLog_, IInv, Due, LogIDs, NoLog
  <2>3. header' = [header EXCEPT ![Head(todo).sensor][writing.log] =
            IF @ \in {Erased, EndOfLog(Head(todo).sensor)}
            THEN EndOfLog(Head(todo).sensor) ELSE Ruined]
    BY <1>2, <2>2 DEF closeLog_
  <2>4. ASSUME NEW s \in Sensors, NEW id \in LogIDs, meta[id] = "closed"
        PROVE  header'[s][id] = header[s][id]
    BY <2>2, <2>3, <2>4 DEF IInv, TypeOK
  <2> QED
    BY <2>2, <2>4
<1>3. CASE formatLog_
  BY <1>3 DEF formatLog_
<1>4. CASE closeMeta_
  <2>1. /\ header' = header
        /\ meta' = [meta EXCEPT ![Head(todo).id] = IF @ = "open" THEN "closed" ELSE @]
    BY <1>4 DEF closeMeta_
  <2> QED
    BY <2>1 DEF IInv, TypeOK
<1>5. CASE writeMeta_
  <2>1. CASE Restart
    BY <1>1, <2>1 DEF Restart, Reset
  <2>2. CASE /\ header' = header /\ meta[Head(todo).id] = Erased
             /\ meta' = [meta EXCEPT ![Head(todo).id] = "open"]
    BY <2>2 DEF IInv, TypeOK
  <2> QED
    BY <1>5, <2>1, <2>2 DEF writeMeta_
<1>6. CASE eraseMeta
  BY <1>6 DEF eraseMeta
<1>7. CASE ~(closeLog_ \/ formatLog_ \/ closeMeta_ \/ writeMeta_ \/ eraseMeta)
  BY <1>1, <1>7, OthersKeepLogs
<1> QED
  BY <1>2, <1>3, <1>4, <1>5, <1>6, <1>7

\* Nothing but a format takes a record back, or changes the header of a closed
\* log (metadata_log_controller.c:79-90, log_controller.c:65-77).
THEOREM HistoryIsKept == Spec => HistoryKept
<1>1. IInv /\ [Next]_vars => [HistoryStep]_vars
  BY StepKeepsHistory
<1> QED
  BY <1>1, Invariance, PTL DEF HistoryKept, Spec

-----------------------------------------------------------------------------
(* The archive of closed logs. *)

\* A sensor has the headers of its logs one after the other, and each log
\* ends behind the one before ...
HeadersInRow ==
    \A s \in Sensors, i, j \in LogIDs : i < j /\ header[s][j] # Erased =>
        header[s][i] # Erased /\ header[s][i] <= header[s][j]

\* ... because a log is only begun, and closed, after one that has headers.
LogUnderWay == (working /\ ShouldLog) \/ Has("closeLog")
LogFollows ==
    LogUnderWay /\ writing.log > 0 =>
        \A s \in Sensors : header[s][writing.log - 1] # Erased

RowInv == HeadersInRow /\ LogFollows

\* Only the start of the sensors begins a log.
LEMMA UnderWayBefore ==
    ASSUME IInv, [Next]_vars, ~startSensors_, LogUnderWay'
    PROVE  LogUnderWay /\ writing'.log = writing.log
<1> USE DEF flash, model, sensors, rest
<1>1. todo \in Seq(Steps) /\ InOrder(todo)
  BY DEF IInv, TypeOK
<1>2. ~Restart /\ ~RestartAfterDFU
  BY OnlyBoot DEF Restart, RestartAfterDFU, Reset, Idle, LogUnderWay
<1>3. setting' = setting => ShouldLog' = ShouldLog
  BY DEF ShouldLog, IsLogging, ToLog
<1>4. CASE /\ working' => working
           /\ setting' = setting /\ writing'.log = writing.log
           /\ Has("closeLog")' => Has("closeLog")
  BY <1>3, <1>4 DEF LogUnderWay
<1>5. CASE ~Quiet /\ Return /\ (working' => working) /\ UNCHANGED <<setting, writing>>
  BY <1>1, <1>4, <1>5, AfterReturn
<1>6. CASE boot
  <2>1. ~Has("closeLog")'
    BY <1>1, <1>6, BootSteps
  <2> QED
    BY <1>4, <1>6, <2>1 DEF boot
<1>7. CASE acceptCommand
  <2> DEFINE c == Head(todo).command
             new == SensorSteps(c, ShouldLog, logCount)
                    \cup MetaSteps(c, ShouldLog, logCount) \cup {finish(c, ShouldLog)}
  <2>1. Pending' = new \cup Below /\ Below \subseteq Pending
    BY <1>1, <1>7, AcceptedSteps, Stack DEF acceptCommand, At
  <2>2. \A step \in new : step.call # "closeLog"
    BY DEF SensorSteps, MetaSteps, Step, finish, startSensors, stopSensors, formatLog,
           closeMeta, writeMeta
  <2>3. Has("closeLog")' => Has("closeLog")
    BY <2>1, <2>2 DEF Has
  <2> QED
    BY <1>4, <1>7, <2>3 DEF acceptCommand
<1>8. CASE finishCommand
  <2> DEFINE next == <<setControlCommand("sensorShouldSleep")>>
  <2>1. ~Quiet /\ UNCHANGED sensors
    BY <1>2, <1>8 DEF finishCommand, At
  <2>2. CASE Enter(next)
    <3> DEFINE after == Tail(todo)
    <3>1. /\ next \in Seq(Steps) /\ Range(next) = {setControlCommand("sensorShouldSleep")}
          /\ after \in Seq(Steps) /\ Range(after) \subseteq Pending
      BY <1>1, <2>1, AreSteps, OneStep, Stack DEF Commands, Below
    <3> HIDE DEF next, after
    <3>2. Range(next \o after) = Range(next) \cup Range(after)
      BY <3>1, RangeConcatenation
    <3>3. Has("closeLog")' => Has("closeLog")
      BY <2>2, <3>1, <3>2 DEF Has, setControlCommand, Pending, Enter, next, after
    <3> QED
      BY <1>4, <2>1, <3>3
  <2>3. CASE Return
    BY <1>5, <2>1, <2>3
  <2> QED
    BY <1>2, <1>8, <2>2, <2>3 DEF finishCommand
<1>9. CASE stopSensors_
  <2>1. ~Quiet /\ Head(todo).call = "stopSensors" /\ UNCHANGED <<working, setting, writing>>
    BY <1>9 DEF stopSensors_, At
  <2>2. CASE ~working
    BY <1>5, <1>9, <2>1, <2>2 DEF stopSensors_
  <2>3. CASE working
    <3>1. \A step \in Pending' : step.call = "closeLog" =>
             step \in Pending \/ Head(todo).logging
      BY <1>9, <2>3, StopSteps
    <3>2. Head(todo).logging => ShouldLog
      BY <1>1, <2>1, Stack DEF IInv, Due
    <3> QED
      BY <1>3, <2>1, <2>3, <3>1, <3>2 DEF LogUnderWay, Has
  <2> QED
    BY <2>2, <2>3
<1>10. CASE flashMailbox
  <2>1. writing'.log = writing.log
    BY <1>10 DEF flashMailbox, IInv, TypeOK
  <2>2. Has("closeLog")' => Has("closeLog")
    <3>1. CASE todo' = todo
      BY <3>1 DEF Has, Pending
    <3>2. CASE ~Quiet /\ Return
      BY <1>1, <3>2, AfterReturn
    <3> QED
      BY <1>10, <3>1, <3>2 DEF flashMailbox, At
  <2> QED
    BY <1>4, <1>10, <2>1, <2>2 DEF flashMailbox
<1>11. CASE storageFull
  <2> DEFINE stop == setControlCommand("sensorShouldSleep")
             full == Step("setDiskFull")
             new  == <<stop, full>>
  <2>1. stop \in Steps /\ full \in Steps
    BY AreSteps DEF Commands, PlainSteps
  <2>2. new \in Seq(Steps) /\ Range(new) = {stop, full}
    BY <2>1 DEF Range
  <2>3. stop.call # "closeLog" /\ full.call # "closeLog"
    BY DEF setControlCommand, Step
  <2> HIDE DEF new, stop, full
  <2>4. Range(new \o todo) = {stop, full} \cup Pending
    BY <1>1, <2>2, RangeConcatenation DEF Pending
  <2>5. Has("closeLog")' => Has("closeLog")
    BY <1>11, <2>3, <2>4 DEF Has, Pending, storageFull, new, stop, full
  <2> QED
    BY <1>4, <1>11, <2>5 DEF storageFull
<1>12. CASE \/ countLogs \/ refuseCommand \/ setDiskFull \/ sensorsStopped \/ closeLog_
            \/ eraseSettings \/ markSettings \/ saveSetting_ \/ formatLog_ \/ closeMeta_
            \/ writeMeta_ \/ eraseMeta \/ markMeta
  BY <1>2, <1>5, <1>12
     DEF countLogs, refuseCommand, setDiskFull, sensorsStopped, closeLog_,
         eraseSettings, markSettings, saveSetting_, formatLog_, closeMeta_, writeMeta_,
         eraseMeta, markMeta, At
<1>13. CASE request \/ dequeue
  <2>1. ~Has("closeLog")' /\ UNCHANGED sensors
    <3>1. \A steps \in Requests : \A i \in DOMAIN steps : steps[i].call # "closeLog"
      BY DEF Requests, setControlCommand
    <3>2. \A i \in DOMAIN todo' : todo'[i].call # "closeLog"
      BY <1>13, <3>1 DEF request, dequeue, Step
    <3> QED
      BY <1>13, <3>2 DEF Has, Pending, Range, request, dequeue
  <2> QED
    BY <1>4, <2>1
<1>14. CASE \E s \in Sensors, c \in Settings : writeSetting(s, c)
  <2>1. ~working /\ working' = working /\ writing' = writing /\ todo' = todo
    BY <1>14 DEF writeSetting
  <2> QED
    BY <2>1 DEF LogUnderWay, Has, Pending
<1>15. CASE connect \/ disconnect \/ (\E s \in Sensors : sample(s)) \/ UNCHANGED vars
  <2>1. UNCHANGED <<todo, working, setting, writing>>
    BY <1>2, <1>15 DEF connect, disconnect, sample, vars
  <2> QED
    BY <1>4, <2>1 DEF Has, Pending
<1> QED
  BY <1>2, <1>6, <1>7, <1>8, <1>9, <1>10, <1>11, <1>12, <1>13, <1>14, <1>15
     DEF Next, Proceed, unanswered, powerCut

\* closeLog writes the header behind that of the log before, and changes none.
LEMMA CloseLogInRow ==
    ASSUME IInv, RowInv, closeLog_
    PROVE  HeadersInRow' /\ \A t \in Sensors, id \in LogIDs :
                               header[t][id] # Erased => header'[t][id] = header[t][id]
<1> DEFINE s == Head(todo).sensor
           l == writing.log
<1>1. s \in Sensors /\ l \in LogIDs /\ LogUnderWay
  <2>1. Head(todo) \in Pending /\ Head(todo) \in Steps /\ Head(todo).call = "closeLog"
    BY Stack DEF closeLog_, At, IInv, TypeOK
  <2> QED
    BY <2>1, Fields DEF IInv, Due, LogUnderWay, Has
<1>2. /\ header[s][l] \in {Erased, EndOfLog(s)}
      /\ \A t \in Sensors, id \in LogIDs :
            header'[t][id] = IF t = s /\ id = l THEN EndOfLog(s) ELSE header[t][id]
  <2>1. l # NoLog
    BY <1>1, ControlAssumption DEF LogIDs, NoLog
  <2>2. header[s][l] \in {Erased, EndOfLog(s)}
    BY <1>1, <2>1 DEF IInv, WritingFits
  <2>3. header' = [header EXCEPT ![s] = [header[s] EXCEPT ![l] = EndOfLog(s)]]
    BY <2>1, <2>2 DEF closeLog_
  <2> QED
    BY <1>1, <2>2, <2>3 DEF IInv, TypeOK
<1>3. l > 0 => header[s][l - 1] # Erased
  BY <1>1 DEF RowInv, LogFollows
<1> HIDE DEF s, l
<1>4. \A id \in LogIDs : id \in Int /\ header[s][id] \in (0 .. Capacity) \cup {Erased}
  <2>1. \A id \in LogIDs : id \in Int
    BY ControlAssumption DEF LogIDs
  <2>2. \A id \in LogIDs : header[s][id] \in (0 .. Capacity) \cup {Erased}
    BY <1>1 DEF IInv, TypeOK, NoHeaderRuined
  <2> QED
    BY <2>1, <2>2
<1>5. ASSUME NEW i \in LogIDs, i < l
      PROVE  header[s][i] # Erased /\ header[s][i] <= EndOfLog(s)
  <2>1. l > 0 /\ l - 1 \in LogIDs /\ (i = l - 1 \/ i < l - 1)
    BY <1>1, <1>4, <1>5, ControlAssumption DEF LogIDs
  <2>2. header[s][i] # Erased /\ header[s][i] <= header[s][l - 1]
    BY <1>1, <1>3, <1>4, <1>5, <2>1, ControlAssumption DEF RowInv, HeadersInRow
  <2>3. /\ EndOfLog(s) = header[s][l - 1] + writing.wpos[s]
        /\ writing.wpos[s] \in 0 .. Capacity
    BY <1>1, <1>3, <1>4, <2>1, EndOfLogIsInt, ControlAssumption DEF IInv, Used, l
  <2> QED
    BY <1>3, <1>4, <1>5, <2>1, <2>2, <2>3, ControlAssumption
<1>6. HeadersInRow'
  <2> SUFFICES ASSUME NEW t \in Sensors, NEW i \in LogIDs, NEW j \in LogIDs, i < j,
                      header'[t][j] # Erased
               PROVE  header'[t][i] # Erased /\ header'[t][i] <= header'[t][j]
    BY DEF HeadersInRow
  <2>1. CASE t = s /\ j = l
    BY <1>2, <1>4, <1>5, <2>1
  <2>2. CASE ~(t = s /\ j = l)
    <3>1. header[t][i] # Erased /\ header[t][i] <= header[t][j]
      BY <1>2, <2>2 DEF RowInv, HeadersInRow
    <3> QED
      BY <1>2, <2>2, <3>1
  <2> QED
    BY <2>1, <2>2
<1> QED
  BY <1>2, <1>6

\* No log is under way when the area of a sensor is wiped.
LEMMA FormatLogInRow ==
    ASSUME IInv, RowInv, formatLog_
    PROVE  /\ ~LogUnderWay /\ HeadersInRow'
           /\ Head(todo).sensor \in Sensors
           /\ \A t \in Sensors, id \in LogIDs :
                 header'[t][id] = IF t = Head(todo).sensor THEN Erased ELSE header[t][id]
<1> DEFINE s == Head(todo).sensor
<1>1. /\ todo \in Seq(Steps) /\ InOrder(todo) /\ ~Quiet /\ Head(todo).call = "formatLog"
      /\ Head(todo) \in Pending /\ s \in Sensors
      /\ Pending = {Head(todo)} \cup Below
      /\ \A step \in Below : Before(Head(todo), step)
  BY Stack, Fields DEF formatLog_, At, IInv, TypeOK
<1>2. ~Has("closeLog") /\ ~Has("sensorsStopped")
  BY <1>1, WhatFollows DEF Has, StopCalls
<1>3. ~working
  BY <1>1, <1>2 DEF IInv, Due, SensorsFollow, At
<1>4. \A t \in Sensors, id \in LogIDs :
         header'[t][id] = IF t = s THEN Erased ELSE header[t][id]
  BY <1>1 DEF formatLog_, IInv, TypeOK
<1>5. HeadersInRow'
  BY <1>4 DEF RowInv, HeadersInRow
<1> QED
  BY <1>1, <1>2, <1>3, <1>4, <1>5 DEF LogUnderWay

\* createLog begins a log where the one before has its headers.
LEMMA StartInRow ==
    ASSUME IInv, RowInv, startSensors_
    PROVE  LogFollows'
<1> USE DEF flash, model, sensors, rest
<1>1. /\ todo \in Seq(Steps) /\ InOrder(todo) /\ ~Quiet /\ Head(todo).call = "startSensors"
      /\ Head(todo) \in Pending /\ \A step \in Below : Before(Head(todo), step)
      /\ Pending = {Head(todo)} \cup Below
  BY Stack DEF startSensors_, At, IInv, TypeOK
<1>2. CASE Restart
  BY <1>2, OnlyBoot DEF Restart, Reset, Idle, LogFollows, LogUnderWay
<1>3. ~working /\ Head(todo).logging = ShouldLog
  BY <1>1 DEF IInv, Due
<1>4. CASE /\ Return /\ setting' = setting
           /\ ShouldLog => CanCreate(Head(todo).id) /\ header' = header
                           /\ writing'.log = Head(todo).id
  <2>1. ~Has("closeLog")'
    BY <1>1, <1>4, AfterReturn, WhatFollows DEF Has
  <2>2. ShouldLog' = ShouldLog
    BY <1>4 DEF ShouldLog, IsLogging, ToLog
  <2> QED
    BY <1>4, <2>1, <2>2 DEF LogFollows, LogUnderWay, CanCreate
<1> QED
  BY <1>2, <1>3, <1>4 DEF startSensors_

LEMMA NextKeepsRowInv ==
    ASSUME IInv, RowInv, [Next]_vars
    PROVE  RowInv'
<1> USE DEF flash, model, sensors, rest
<1>1. CASE startSensors_
  <2>1. header' = header
    BY <1>1 DEF startSensors_, Restart, Reset
  <2> QED
    BY <1>1, <2>1, StartInRow DEF RowInv, HeadersInRow
<1>2. CASE closeLog_
  <2>1. HeadersInRow'
    BY <1>2, CloseLogInRow
  <2>2. ASSUME LogUnderWay', writing'.log > 0, NEW s \in Sensors
        PROVE  header'[s][writing'.log - 1] # Erased
    <3>1. ~startSensors_
      BY <1>2 DEF startSensors_, closeLog_, At
    <3>2. LogUnderWay /\ writing'.log = writing.log
      BY <2>2, <3>1, UnderWayBefore
    <3>3. writing.log - 1 \in LogIDs /\ header[s][writing.log - 1] # Erased
      BY <2>2, <3>2, ControlAssumption DEF RowInv, LogFollows, IInv, TypeOK, LogIDs, NoLog
    <3> QED
      BY <1>2, <3>2, <3>3, CloseLogInRow, ControlAssumption
  <2> QED
    BY <2>1, <2>2 DEF RowInv, LogFollows
<1>3. CASE formatLog_
  <2>1. ~startSensors_
    BY <1>3 DEF startSensors_, formatLog_, At
  <2> QED
    BY <1>3, <2>1, UnderWayBefore, FormatLogInRow DEF RowInv, LogFollows
<1>4. CASE ~startSensors_ /\ header' = header
  BY <1>4, UnderWayBefore DEF RowInv, HeadersInRow, LogFollows
<1>5. CASE ~(startSensors_ \/ closeLog_ \/ formatLog_)
  <2>1. header' = header
    BY <1>5, OthersKeepLogs DEF closeMeta_, writeMeta_, eraseMeta, Restart, Reset
  <2> QED
    BY <1>4, <1>5, <2>1
<1> QED
  BY <1>1, <1>2, <1>3, <1>5

LEMMA Rows == Spec => [](IInv /\ RowInv)
<1>1. Init => RowInv
  BY InitIInv, ControlAssumption DEF Init, RowInv, HeadersInRow, LogFollows, NoLog
<1>2. IInv /\ RowInv /\ [Next]_vars => RowInv'
  BY NextKeepsRowInv
<1> QED
  BY <1>1, <1>2, Invariance, PTL DEF Spec

\* What closed logs there are, and where they end, is the whole archive.
SomeLeft == \E id \in ClosedLogs, s \in Sensors : header[s][id] # Erased

LEMMA SameArchive ==
    ASSUME ClosedLogs' = ClosedLogs,
           \A id \in ClosedLogs, s \in Sensors : header'[s][id] = header[s][id]
    PROVE  Archived' = Archived
  BY DEF Archived

LEMMA ArchivedLogs ==
    /\ SomeLeft => Archived = [id \in ClosedLogs |-> [s \in Sensors |-> header[s][id]]]
    /\ ~SomeLeft => Archived = <<>>
    /\ SomeLeft' =>
          Archived' = [id \in ClosedLogs' |-> [s \in Sensors |-> header'[s][id]]]
    /\ ~SomeLeft' => Archived' = <<>>
  BY DEF Archived, SomeLeft

\* The record of a log is closed when there are all its headers, or none is
\* left because the storage is being formatted.
LEMMA CloseMetaCloses ==
    ASSUME IInv, RowInv, closeMeta_, NEW id, id = Head(todo).id, meta[id] = "open",
           SomeLeft'
    PROVE  /\ id \in LogIDs /\ ClosedLogs = 0 .. id - 1 /\ ClosedLogs' = 0 .. id
           /\ \A s \in Sensors : header[s][id] \in 0 .. Capacity
           /\ Sensors # {} /\ header' = header
<1>1. /\ todo \in Seq(Steps) /\ ~Quiet /\ Head(todo).call = "closeMeta"
      /\ Head(todo) \in Steps /\ Head(todo) \in Pending /\ id \in LogIDs
      /\ Pending = {Head(todo)} \cup Below
      /\ \A step \in Below : Before(Head(todo), step)
  BY Stack, Fields DEF closeMeta_, At, IInv, TypeOK
<1>2. meta' = [meta EXCEPT ![id] = "closed"] /\ header' = header
  BY DEF closeMeta_
<1>3. \A j \in LogIDs : (j < id => meta[j] = "closed") /\ (j > id => meta[j] = Erased)
  BY <1>1, ControlAssumption DEF IInv, RecordsInOrder
<1>4. ClosedLogs = 0 .. id - 1 /\ ClosedLogs' = 0 .. id
  <2>1. id \in Nat /\ LogIDs \subseteq Nat /\ 0 .. id \subseteq LogIDs
    BY <1>1, ControlAssumption DEF LogIDs
  <2>2. \A j \in LogIDs : meta[j] = "closed" <=> j < id
    BY <1>1, <1>3, <2>1, ControlAssumption
  <2>3. \A j \in LogIDs : meta'[j] = "closed" <=> j <= id
    BY <1>1, <1>2, <1>3, <2>1, ControlAssumption DEF IInv, TypeOK
  <2>4. /\ 0 .. id - 1 = {j \in LogIDs : j < id}
        /\ 0 .. id = {j \in LogIDs : j <= id}
    BY <1>1, ControlAssumption DEF LogIDs
  <2> QED
    BY <2>2, <2>3, <2>4 DEF ClosedLogs
<1>5. PICK i \in ClosedLogs', t \in Sensors : header[t][i] # Erased
  BY <1>2 DEF SomeLeft
<1>6. ~Has("closeLog") /\ ~Has("formatLog") /\ ~At("stopSensors")
  BY <1>1, WhatFollows DEF Has, At, StopCalls, BootCalls
<1>7. ~Finishing("formattingStorage")
  <2>1. i \in LogIDs
    BY DEF ClosedLogs
  <2> QED
    BY <1>5, <1>6, <2>1 DEF IInv, FormatFits, HasFor, Has
<1>8. ASSUME NEW s \in Sensors PROVE header[s][id] \in 0 .. Capacity
  <2>1. Has("closeMeta") /\ id = logCount - 1
    BY <1>1 DEF Has, IInv, Due
  <2>2. header[s][id] # Erased
    BY <1>6, <1>7, <2>1 DEF IInv, HeadersBeforeClose, HasFor, Has
  <2> QED
    BY <1>1, <2>2 DEF IInv, TypeOK, NoHeaderRuined
<1> QED
  BY <1>1, <1>2, <1>4, <1>5, <1>8

\* ... which adds it to the archive, behind the others.
LEMMA CloseMetaArchives ==
    ASSUME IInv, RowInv, closeMeta_
    PROVE  Store!Close \/ UNCHANGED Archived
<1> DEFINE id == Head(todo).id
<1>1. CASE meta[id] # "open"
  <2>1. meta' = meta /\ header' = header
    BY <1>1 DEF closeMeta_, IInv, TypeOK
  <2> QED
    BY <2>1, SameArchive DEF ClosedLogs
<1>2. CASE ~SomeLeft'
  <2>1. header' = header /\ \A i \in ClosedLogs : i \in ClosedLogs'
    BY DEF closeMeta_, ClosedLogs, IInv, TypeOK
  <2>2. ~SomeLeft
    BY <1>2, <2>1 DEF SomeLeft
  <2> QED
    BY <1>2, <2>2, ArchivedLogs
<1>3. CASE meta[id] = "open" /\ SomeLeft'
  <2>1. /\ id \in LogIDs /\ ClosedLogs = 0 .. id - 1 /\ ClosedLogs' = 0 .. id
        /\ \A s \in Sensors : header[s][id] \in 0 .. Capacity
        /\ Sensors # {} /\ header' = header
    BY <1>3, CloseMetaCloses
  <2> HIDE DEF id
  <2>2. id \in Nat
    BY <2>1, ControlAssumption DEF LogIDs
  <2> DEFINE ends == [s \in Sensors |-> header[s][id]]
  <2>3. ends \in [Sensors -> 0 .. Capacity]
    BY <2>1
  <2>4. ASSUME id > 0
        PROVE  SomeLeft /\ \A s \in Sensors : header[s][id - 1] \in 0 .. header[s][id]
    <3>1. id - 1 \in LogIDs /\ id - 1 \in ClosedLogs /\ id - 1 < id
      BY <2>1, <2>2, <2>4, ControlAssumption DEF LogIDs
    <3>2. ASSUME NEW s \in Sensors
          PROVE  header[s][id - 1] # Erased /\ header[s][id - 1] \in 0 .. header[s][id]
      <4>1. header[s][id] # Erased
        BY <2>1, ControlAssumption
      <4>2. header[s][id - 1] # Erased /\ header[s][id - 1] <= header[s][id]
        BY <2>1, <3>1, <4>1 DEF RowInv, HeadersInRow
      <4>3. header[s][id - 1] \in 0 .. Capacity
        BY <3>1, <4>2 DEF IInv, TypeOK, NoHeaderRuined
      <4> QED
        BY <2>1, <4>2, <4>3, ControlAssumption
    <3> QED
      BY <2>1, <3>1, <3>2 DEF SomeLeft
  <2>5. /\ DOMAIN Archived = 0 .. id - 1
        /\ \A i \in 0 .. id - 1 : Archived[i] = [s \in Sensors |-> header[s][i]]
    <3>1. CASE id > 0
      BY <2>1, <2>4, <3>1, ArchivedLogs
    <3>2. CASE id = 0
      <4>1. ~SomeLeft /\ 0 .. id - 1 = {}
        BY <2>1, <3>2 DEF SomeLeft
      <4> QED
        BY <4>1, ArchivedLogs
    <3> QED
      BY <2>2, <3>1, <3>2
  <2>6. Archived' = [i \in 0 .. id |-> [s \in Sensors |-> header[s][i]]]
    BY <1>3, <2>1, ArchivedLogs
  <2>7. Archived' = [i \in 0 .. id |-> IF i = id THEN ends ELSE Archived[i]]
    <3>1. \A i \in 0 .. id : i = id \/ i \in 0 .. id - 1
      BY <2>2
    <3> QED
      BY <2>5, <2>6, <3>1
  <2>8. id > 0 => \A s \in Sensors : Archived[id - 1][s] \in 0 .. ends[s]
    <3>1. id > 0 => id - 1 \in 0 .. id - 1
      BY <2>2
    <3> QED
      BY <2>4, <2>5, <3>1
  <2> HIDE DEF ends
  <2> QED
    BY <2>1, <2>3, <2>5, <2>7, <2>8 DEF Store!Close
<1> QED
  BY <1>1, <1>2, <1>3 DEF IInv, TypeOK

\* A format takes the logs of a sensor away, the last one all that is left.
LEMMA FormatLogWipes ==
    ASSUME IInv, RowInv, formatLog_
    PROVE  Store!Clear \/ \E s \in Sensors : Store!Wipe(s)
<1> DEFINE s == Head(todo).sensor
<1>1. s \in Sensors /\ ClosedLogs' = ClosedLogs /\ ClosedLogs \subseteq LogIDs
  BY FormatLogInRow DEF formatLog_, ClosedLogs
<1>2. \A t \in Sensors, id \in LogIDs :
         header'[t][id] = IF t = s THEN Erased ELSE header[t][id]
  BY FormatLogInRow
<1> HIDE DEF s
<1>3. CASE ~SomeLeft'
  BY <1>3, ArchivedLogs DEF Store!Clear
<1>4. CASE SomeLeft'
  <2>1. SomeLeft
    BY <1>1, <1>2, <1>4 DEF SomeLeft
  <2>2. /\ Archived = [id \in ClosedLogs |-> [t \in Sensors |-> header[t][id]]]
        /\ Archived' = [id \in ClosedLogs |-> [t \in Sensors |-> header'[t][id]]]
    BY <1>1, <1>4, <2>1, ArchivedLogs
  <2>3. \A id \in ClosedLogs : [Archived[id] EXCEPT ![s] = Erased]
                               = [t \in Sensors |-> header'[t][id]]
    BY <1>1, <1>2, <2>2
  <2>4. Store!Wipe(s)
    BY <2>2, <2>3 DEF Store!Wipe
  <2> QED
    BY <1>1, <2>4
<1> QED
  BY <1>3, <1>4

LEMMA NextIsArchive ==
    ASSUME IInv, RowInv, [Next]_vars
    PROVE  Store!Next \/ UNCHANGED Archived
<1>1. CASE closeMeta_
  BY <1>1, CloseMetaArchives DEF Store!Next
<1>2. CASE formatLog_
  BY <1>2, FormatLogWipes DEF Store!Next
<1>3. CASE eraseMeta
  <2>1. ClosedLogs' = {}
    BY <1>3, ControlAssumption DEF eraseMeta, ClosedLogs
  <2> QED
    BY <2>1, ArchivedLogs DEF SomeLeft, Store!Next, Store!Clear
<1>4. CASE closeLog_ \/ writeMeta_
  <2>1. ClosedLogs' = ClosedLogs
    BY <1>4, ControlAssumption
       DEF closeLog_, writeMeta_, Restart, Reset, ClosedLogs, IInv, TypeOK
  <2>2. \A id \in ClosedLogs, s \in Sensors : header'[s][id] = header[s][id]
    BY <1>4, StepKeepsHistory
       DEF HistoryStep, ClosedLogs, closeLog_, writeMeta_, formatLog_, At
  <2> QED
    BY <2>1, <2>2, SameArchive
<1>5. CASE meta' = meta /\ header' = header
  BY <1>5, SameArchive DEF ClosedLogs
<1>6. CASE ~(closeMeta_ \/ formatLog_ \/ eraseMeta \/ closeLog_ \/ writeMeta_)
  <2>1. meta' = meta /\ header' = header
    BY <1>6, OthersKeepLogs
  <2> QED
    BY <1>5, <2>1
<1> QED
  BY <1>1, <1>2, <1>3, <1>4, <1>6

\* Nested commands, a full disk, logs that are closed twice and a power cut at
\* any flash operation keep the closed logs, each with every sensor's samples
\* and behind the logs before it (log_controller.c:22-58,
\* senstick_data_model.c:209-211): the firmware implements Archive.
THEOREM ClosedLogsAreKept == Spec => ClosedLogsKept
<1>1. Init => Store!Init
  BY ControlAssumption DEF Init, Store!Init, Archived, ClosedLogs
<1>2. IInv /\ RowInv /\ [Next]_vars => [Store!Next]_Archived
  BY NextIsArchive
<1> QED
  BY <1>1, <1>2, Rows, PTL DEF Spec, ClosedLogsKept, Store!Spec
=============================================================================
