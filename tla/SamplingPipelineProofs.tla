----------------------- MODULE SamplingPipelineProofs -----------------------
(***************************************************************************)
(* Theorems about SamplingPipeline, for every number of sensors and every  *)
(* size of the mailbox and of the scheduler's queue: the invariants that   *)
(* the run `pipeline' checks.                                              *)
(***************************************************************************)
EXTENDS SamplingPipeline, SequenceTheorems, TLAPS

-----------------------------------------------------------------------------
(* The inductive invariant. *)

\* flash_mailbox runs for an event or a stop, and nested in itself at most
\* once: the command it was nested for is set by then.
CallsFit ==
    /\ callers \in {<<>>, <<"event">>, <<"stop">>,
                    <<"nested", "event">>, <<"nested", "stop">>}
    /\ callers = <<>> <=> pc = "idle"
    /\ Len(callers) = 2 => command = "sensorShouldSleep"

\* A stop, nested or not, has shut the timer down before it flushes, so what
\* flash_mailbox finds empty stays empty.
StopsAreQuiet ==
    /\ timer => callers \in {<<>>, <<"event">>}
    /\ pc = "clear" => mailbox = <<>> \/ timer

\* flash_mailbox writes what it has taken.
WritesASample == pc = "write" => item \in Samples

\* What is in the mailbox is of the recording under way.
MailboxIsCurrent ==
    \A i \in 1 .. Len(mailbox) : mailbox[i].session = session

IInv ==
    /\ TypeOK
    /\ CallsFit
    /\ StopsAreQuiet
    /\ WritesASample
    /\ MailboxIsCurrent
    /\ OwnRecording
    /\ StoppedIsDrained
    /\ FlagMeansTask

-----------------------------------------------------------------------------
(* Sequences. *)

\* The samples of one interrupt are a sequence of samples of this recording.
LEMMA SamplesOfDue ==
    ASSUME TypeOK, NEW n \in Sensors, NEW due \in Due(n)
    PROVE  /\ SamplesOf(due) \in Seq(Samples)
           /\ Len(SamplesOf(due)) = Len(due)
           /\ Len(due) = n
           /\ \A i \in 1 .. n : SamplesOf(due)[i].session = session
<1>1. due \in [1 .. n -> Sensors] BY DEF Due
<1>2. n \in Nat BY PipelineAssumption DEF Sensors
<1>3. SamplesOf(due) \in [1 .. n -> Samples]
  BY <1>1 DEF SamplesOf, Samples, TypeOK
<1>4. due \in Seq(Sensors) /\ Len(due) = n
  BY <1>1, <1>2
<1>5. SamplesOf(due) \in Seq(Samples) /\ Len(SamplesOf(due)) = n
  BY <1>2, <1>3
<1>6. \A i \in 1 .. n : SamplesOf(due)[i].session = session
  BY <1>1 DEF SamplesOf
<1> QED BY <1>4, <1>5, <1>6

\* What is queued stays queued when an event is added, and the first one is
\* gone when it is taken.
LEMMA QueuedAppend ==
    ASSUME NEW e, NEW q \in Seq({"flash", "other"}), NEW f \in {"flash", "other"},
           \E i \in DOMAIN q : q[i] = e
    PROVE  \E i \in DOMAIN Append(q, f) : Append(q, f)[i] = e
<1>1. PICK i \in 1 .. Len(q) : q[i] = e
  OBVIOUS
<1>2. Append(q, f)[i] = e /\ i \in 1 .. Len(Append(q, f))
  BY <1>1
<1> QED BY <1>2

LEMMA QueuedAppended ==
    ASSUME NEW q \in Seq({"flash", "other"}), NEW f \in {"flash", "other"}
    PROVE  \E i \in DOMAIN Append(q, f) : Append(q, f)[i] = f
<1>1. Append(q, f)[Len(q) + 1] = f /\ Len(q) + 1 \in 1 .. Len(Append(q, f))
  OBVIOUS
<1> QED BY <1>1

LEMMA QueuedTail ==
    ASSUME NEW e, NEW q \in Seq({"flash", "other"}), q # <<>>, Head(q) # e,
           \E i \in DOMAIN q : q[i] = e
    PROVE  \E i \in DOMAIN Tail(q) : Tail(q)[i] = e
<1>1. PICK i \in 1 .. Len(q) : q[i] = e
  OBVIOUS
<1>2. i # 1 BY <1>1
<1>3. i - 1 \in 1 .. Len(Tail(q)) /\ Tail(q)[i - 1] = q[i]
  BY <1>2, HeadTailProperties
<1> QED BY <1>1, <1>3

\* What a call adds to the callers and a return takes from them.
LEMMA CallAndReturn ==
    ASSUME NEW c \in {"event", "stop"}
    PROVE  /\ <<"nested">> \o <<c>> = <<"nested", c>>
           /\ Head(<<"nested", c>>) = "nested" /\ Tail(<<"nested", c>>) = <<c>>
           /\ Head(<<c>>) = c /\ Tail(<<c>>) = <<>>
           /\ <<c>> \in Seq(Callers) /\ Len(<<c>>) = 1
           /\ <<"nested", c>> \in Seq(Callers) /\ Len(<<"nested", c>>) = 2
           /\ <<>> \in Seq(Callers) /\ Len(<<>>) = 0
<1>1. <<"nested">> \o <<c>> = <<"nested", c>>
  <2> DEFINE a == <<"nested">>
             b == <<c>>
             d == <<"nested", c>>
  <2>1. /\ a \in Seq({"nested", c}) /\ Len(a) = 1 /\ a[1] = "nested"
        /\ b \in Seq({"nested", c}) /\ Len(b) = 1 /\ b[1] = c
        /\ d \in Seq({"nested", c}) /\ Len(d) = 2 /\ d[1] = "nested" /\ d[2] = c
    OBVIOUS
  <2> HIDE DEF a, b, d
  <2>2. /\ a \o b \in Seq({"nested", c}) /\ Len(a \o b) = 2
        /\ (a \o b)[1] = "nested" /\ (a \o b)[2] = c
    <3>1. /\ a \o b \in Seq({"nested", c}) /\ Len(a \o b) = Len(a) + Len(b)
          /\ \A i \in 1 .. Len(a) + Len(b) : (a \o b)[i] =
                 IF i <= Len(a) THEN a[i] ELSE b[i - Len(a)]
      BY <2>1, ConcatProperties
    <3>2. 1 \in 1 .. 2 /\ 2 \in 1 .. 2 /\ 2 - 1 = 1
      OBVIOUS
    <3> QED BY <2>1, <3>1, <3>2
  <2>3. a \o b = d
    BY <2>1, <2>2, SeqEqual
  <2> QED BY <2>3 DEF a, b, d
<1>2. Head(<<"nested", c>>) = "nested" /\ Head(<<c>>) = c
  OBVIOUS
<1>3. Tail(<<"nested", c>>) = <<c>>
  OBVIOUS
<1>4. Tail(<<c>>) = <<>>
  OBVIOUS
<1>5. c \in Callers /\ "nested" \in Callers
  BY DEF Callers
<1>6. <<c>> \in Seq(Callers) /\ Len(<<c>>) = 1
  BY <1>5
<1>7. <<"nested", c>> \in Seq(Callers) /\ Len(<<"nested", c>>) = 2
  BY <1>5
<1>8. <<>> \in Seq(Callers) /\ Len(<<>>) = 0
  OBVIOUS
<1> QED BY <1>1, <1>2, <1>3, <1>4, <1>6, <1>7, <1>8

-----------------------------------------------------------------------------
(* The initial states. *)

LEMMA InitIInv == Init => IInv
<1> SUFFICES ASSUME Init PROVE IInv
  OBVIOUS
<1>1. TypeOK
  <2>1. mailbox \in Seq(Samples) /\ Len(mailbox) <= MailboxSize
    BY PipelineAssumption DEF Init
  <2>2. queue \in Seq({"flash", "other"}) /\ Len(queue) <= QueueSize
    BY PipelineAssumption DEF Init
  <2>3. callers \in Seq(Callers) /\ Len(callers) <= 2
    BY DEF Init
  <2>4. /\ flag \in BOOLEAN /\ timer \in BOOLEAN /\ working \in BOOLEAN
        /\ putFailed \in BOOLEAN
    BY DEF Init
  <2>5. /\ pc = "idle" /\ item \in Samples \cup {NoItem}
        /\ command = "sensorShouldSleep"
        /\ full \subseteq Sensors /\ dropped \subseteq Sensors
        /\ session \in {0, 1}
    BY DEF Init
  <2> QED BY <2>1, <2>2, <2>3, <2>4, <2>5 DEF TypeOK
<1>2. CallsFit /\ StopsAreQuiet /\ WritesASample /\ MailboxIsCurrent
  BY DEF Init, CallsFit, StopsAreQuiet, WritesASample, MailboxIsCurrent
<1>3. OwnRecording /\ StoppedIsDrained /\ FlagMeansTask
  BY DEF Init, OwnRecording, StoppedIsDrained, FlagMeansTask
<1> QED BY <1>1, <1>2, <1>3 DEF IInv

-----------------------------------------------------------------------------
(* The steps.  Each keeps the invariant; FlagMeansTask has lemmas of its   *)
(* own, since only two steps take something from the queue or set the flag.*)

LEMMA TickKeepsIInv ==
    ASSUME IInv, NEW n \in Sensors, NEW due \in Due(n), tick(due)
    PROVE  IInv'
<1> DEFINE new == SamplesOf(due)
<1>1. /\ TypeOK /\ CallsFit /\ StopsAreQuiet /\ WritesASample /\ MailboxIsCurrent
      /\ OwnRecording /\ StoppedIsDrained /\ FlagMeansTask
  BY DEF IInv
<1>2. /\ new \in Seq(Samples) /\ Len(new) = n /\ Len(due) = n
      /\ \A i \in 1 .. n : new[i].session = session
  BY <1>1, SamplesOfDue
<1>3. /\ mailbox' = mailbox \o new /\ timer /\ flag' = TRUE
      /\ Len(mailbox) + n <= MailboxSize
      /\ UNCHANGED <<pc, callers, item, timer, working, command, full, session,
                     dropped>>
  BY <1>2 DEF tick
<1>4. /\ mailbox' \in Seq(Samples) /\ Len(mailbox') = Len(mailbox) + n
      /\ \A i \in 1 .. Len(mailbox') : mailbox'[i].session = session
  <2>1. mailbox \in Seq(Samples) BY <1>1 DEF TypeOK
  <2>2. \A i \in 1 .. Len(mailbox) : mailbox[i].session = session
    BY <1>1 DEF MailboxIsCurrent
  <2>3. n \in Nat BY PipelineAssumption DEF Sensors
  <2> HIDE DEF new
  <2>4. /\ mailbox \o new \in Seq(Samples)
        /\ Len(mailbox \o new) = Len(mailbox) + n
        /\ \A i \in 1 .. Len(mailbox) + n : (mailbox \o new)[i] =
              IF i <= Len(mailbox) THEN mailbox[i] ELSE new[i - Len(mailbox)]
    BY <2>1, <1>2, ConcatProperties
  <2> QED BY <2>1, <2>2, <2>3, <2>4, <1>2, <1>3
<1>5. queue' \in Seq({"flash", "other"}) /\ Len(queue') <= QueueSize
      /\ putFailed' \in BOOLEAN
  <2>1. CASE UNCHANGED <<queue, putFailed>>
    BY <1>1, <2>1 DEF TypeOK
  <2>2. CASE /\ Len(queue) < QueueSize
             /\ queue' = Append(queue, "flash") /\ UNCHANGED putFailed
    BY <1>1, <2>2, PipelineAssumption DEF TypeOK
  <2>3. CASE putFailed' = TRUE /\ UNCHANGED queue
    BY <1>1, <2>3 DEF TypeOK
  <2> QED BY <2>1, <2>2, <2>3 DEF tick
<1>6. TypeOK'
  <2>1. Len(mailbox') <= MailboxSize
    BY <1>3, <1>4
  <2>2. flag' \in BOOLEAN
    BY <1>3
  <2>3. /\ pc' \in {"idle", "get", "write", "drain", "command", "clear"}
        /\ callers' \in Seq(Callers) /\ Len(callers') <= 2
        /\ item' \in Samples \cup {NoItem}
        /\ timer' \in BOOLEAN /\ working' \in BOOLEAN
        /\ command' \in {"sensorShouldWork", "sensorShouldSleep",
                          "shouldDeviceSleep"}
        /\ full' \subseteq Sensors /\ dropped' \subseteq Sensors
        /\ session' \in {0, 1}
    BY <1>1, <1>3 DEF TypeOK
  <2>4. mailbox' \in Seq(Samples)
    BY <1>4
  <2> QED BY <1>5, <2>1, <2>2, <2>3, <2>4 DEF TypeOK
<1>7. CallsFit' /\ StopsAreQuiet' /\ WritesASample' /\ OwnRecording'
  BY <1>1, <1>3 DEF CallsFit, StopsAreQuiet, WritesASample, OwnRecording
<1>8. MailboxIsCurrent'
  BY <1>3, <1>4 DEF MailboxIsCurrent
<1>9. StoppedIsDrained'
  BY <1>1, <1>3 DEF StoppedIsDrained
<1>10. FlagMeansTask'
  <2> SUFFICES ASSUME ~putFailed', callers = <<>>
               PROVE  Queued("flash")'
    BY <1>3 DEF FlagMeansTask
  <2>1. CASE flag
    <3>1. UNCHANGED <<queue, putFailed>> BY <2>1 DEF tick
    <3> QED BY <1>1, <2>1, <3>1 DEF FlagMeansTask, Queued
  <2>2. CASE ~flag
    <3>1. queue' = Append(queue, "flash")
      BY <1>3, <2>2 DEF tick
    <3>2. queue \in Seq({"flash", "other"}) BY <1>1 DEF TypeOK
    <3> QED BY <3>1, <3>2, QueuedAppended DEF Queued
  <2> QED BY <2>1, <2>2
<1> QED BY <1>6, <1>7, <1>8, <1>9, <1>10 DEF IInv

LEMMA OverflowKeepsIInv ==
    ASSUME IInv, overflow
    PROVE  IInv'
<1>1. TypeOK'
  <2>1. mailbox' \in Seq(Samples) /\ Len(mailbox') <= MailboxSize
    BY PipelineAssumption DEF overflow
  <2>2. queue' \in Seq({"flash", "other"}) /\ Len(queue') <= QueueSize
    BY PipelineAssumption DEF overflow
  <2>3. callers' \in Seq(Callers) /\ Len(callers') <= 2
    BY DEF overflow
  <2>4. /\ flag' \in BOOLEAN /\ timer' \in BOOLEAN /\ working' \in BOOLEAN
        /\ putFailed' \in BOOLEAN
    BY DEF overflow
  <2>5. /\ pc' = "idle" /\ item' \in Samples \cup {NoItem}
        /\ command' = "sensorShouldSleep"
        /\ full' \subseteq Sensors /\ dropped' \subseteq Sensors
        /\ session' \in {0, 1}
    BY DEF overflow, IInv, TypeOK
  <2> QED BY <2>1, <2>2, <2>3, <2>4, <2>5 DEF TypeOK
<1>2. CallsFit' /\ StopsAreQuiet' /\ WritesASample' /\ MailboxIsCurrent'
  BY DEF overflow, CallsFit, StopsAreQuiet, WritesASample, MailboxIsCurrent
<1>3. OwnRecording' /\ StoppedIsDrained' /\ FlagMeansTask'
  BY DEF overflow, OwnRecording, StoppedIsDrained, FlagMeansTask
<1> QED BY <1>1, <1>2, <1>3 DEF IInv

LEMMA OtherEventKeepsIInv ==
    ASSUME IInv, otherEvent
    PROVE  IInv'
<1>1. /\ TypeOK /\ queue' = Append(queue, "other") /\ Len(queue) < QueueSize
      /\ UNCHANGED <<mailbox, flag, pc, callers, item, timer, working, command,
                     full, session, dropped, putFailed>>
  BY DEF IInv, otherEvent
<1>2. queue' \in Seq({"flash", "other"}) /\ Len(queue') <= QueueSize
  BY <1>1, PipelineAssumption DEF TypeOK
<1>3. TypeOK'
  BY <1>1, <1>2 DEF TypeOK
<1>4. CallsFit' /\ StopsAreQuiet' /\ WritesASample' /\ MailboxIsCurrent'
  BY <1>1 DEF IInv, CallsFit, StopsAreQuiet, WritesASample, MailboxIsCurrent
<1>5. OwnRecording' /\ StoppedIsDrained'
  BY <1>1 DEF IInv, OwnRecording, StoppedIsDrained
<1>6. FlagMeansTask'
  <2> SUFFICES ASSUME Queued("flash") PROVE Queued("flash")'
    BY <1>1 DEF IInv, FlagMeansTask
  <2> QED BY <1>1, QueuedAppend DEF TypeOK, Queued
<1> QED BY <1>3, <1>4, <1>5, <1>6 DEF IInv

LEMMA ExecuteKeepsIInv ==
    ASSUME IInv, execute
    PROVE  IInv'
<1>1. /\ TypeOK /\ pc = "idle" /\ queue # <<>> /\ queue' = Tail(queue)
      /\ queue \in Seq({"flash", "other"})
      /\ UNCHANGED <<mailbox, flag, item, timer, working, command, full, session,
                     dropped, putFailed>>
  BY DEF IInv, execute, TypeOK
<1>2. queue' \in Seq({"flash", "other"}) /\ Len(queue') <= QueueSize
  BY <1>1, HeadTailProperties, PipelineAssumption DEF TypeOK
<1>3. CASE Head(queue) = "flash"
  <2>1. pc' = "get" /\ callers' = <<"event">>
    BY <1>3 DEF execute
  <2>2. TypeOK'
    BY <1>1, <1>2, <2>1 DEF TypeOK, Callers
  <2>3. CallsFit' /\ StopsAreQuiet' /\ WritesASample' /\ MailboxIsCurrent'
    BY <1>1, <2>1 DEF IInv, CallsFit, StopsAreQuiet, WritesASample, MailboxIsCurrent
  <2>4. OwnRecording' /\ StoppedIsDrained' /\ FlagMeansTask'
    BY <1>1, <2>1 DEF IInv, OwnRecording, StoppedIsDrained, FlagMeansTask
  <2> QED BY <2>2, <2>3, <2>4 DEF IInv
<1>4. CASE Head(queue) # "flash"
  <2>1. UNCHANGED <<pc, callers>>
    BY <1>4 DEF execute
  <2>2. TypeOK'
    BY <1>1, <1>2, <2>1 DEF TypeOK
  <2>3. CallsFit' /\ StopsAreQuiet' /\ WritesASample' /\ MailboxIsCurrent'
    BY <1>1, <2>1 DEF IInv, CallsFit, StopsAreQuiet, WritesASample, MailboxIsCurrent
  <2>4. OwnRecording' /\ StoppedIsDrained'
    BY <1>1, <2>1 DEF IInv, OwnRecording, StoppedIsDrained
  <2>5. FlagMeansTask'
    <3> SUFFICES ASSUME Queued("flash") PROVE Queued("flash")'
      BY <1>1, <2>1 DEF IInv, FlagMeansTask
    <3> QED BY <1>1, <1>4, QueuedTail DEF Queued
  <2> QED BY <2>2, <2>3, <2>4, <2>5 DEF IInv
<1> QED BY <1>3, <1>4

LEMMA StartKeepsIInv ==
    ASSUME IInv, start
    PROVE  IInv'
<1>1. /\ TypeOK /\ pc = "idle" /\ mailbox = <<>> /\ callers = <<>>
      /\ working' = TRUE /\ timer' = TRUE /\ command' = "sensorShouldWork"
      /\ session' = 1 - session /\ full' = {} /\ dropped' = {}
      /\ UNCHANGED <<mailbox, flag, queue, pc, callers, item, putFailed>>
  BY DEF IInv, start, StoppedIsDrained, CallsFit
<1>2. TypeOK'
  <2>1. timer' \in BOOLEAN /\ working' \in BOOLEAN
    BY <1>1
  <2>2. session' \in {0, 1}
    BY <1>1 DEF TypeOK
  <2>3. /\ mailbox' \in Seq(Samples) /\ Len(mailbox') <= MailboxSize
        /\ queue' \in Seq({"flash", "other"}) /\ Len(queue') <= QueueSize
        /\ callers' \in Seq(Callers) /\ Len(callers') <= 2
        /\ item' \in Samples \cup {NoItem}
        /\ flag' \in BOOLEAN /\ putFailed' \in BOOLEAN
    BY <1>1 DEF TypeOK
  <2> QED BY <1>1, <2>1, <2>2, <2>3 DEF TypeOK
<1>3. CallsFit' /\ StopsAreQuiet' /\ WritesASample' /\ MailboxIsCurrent'
  BY <1>1 DEF IInv, CallsFit, StopsAreQuiet, WritesASample, MailboxIsCurrent
<1>4. OwnRecording' /\ StoppedIsDrained'
  BY <1>1 DEF OwnRecording, StoppedIsDrained
<1>5. FlagMeansTask'
  BY <1>1 DEF IInv, FlagMeansTask, Queued
<1> QED BY <1>2, <1>3, <1>4, <1>5 DEF IInv

LEMMA StopKeepsIInv ==
    ASSUME IInv, NEW c \in {"sensorShouldSleep", "shouldDeviceSleep"}, stop(c)
    PROVE  IInv'
<1>1. /\ TypeOK /\ pc = "idle" /\ working /\ command' = c /\ timer' = FALSE
      /\ pc' = "get" /\ callers' = <<"stop">>
      /\ UNCHANGED <<mailbox, flag, queue, item, working, full, session,
                     dropped, putFailed>>
  BY DEF IInv, stop
<1>2. TypeOK'
  <2>1. timer' \in BOOLEAN
    BY <1>1
  <2>2. callers' \in Seq(Callers) /\ Len(callers') <= 2
    BY <1>1 DEF Callers
  <2> QED BY <1>1, <2>1, <2>2 DEF TypeOK
<1>3. CallsFit' /\ StopsAreQuiet' /\ WritesASample' /\ MailboxIsCurrent'
  BY <1>1 DEF IInv, CallsFit, StopsAreQuiet, WritesASample, MailboxIsCurrent
<1>4. OwnRecording' /\ StoppedIsDrained' /\ FlagMeansTask'
  BY <1>1 DEF OwnRecording, StoppedIsDrained, FlagMeansTask
<1> QED BY <1>2, <1>3, <1>4 DEF IInv

\* Where flash_mailbox runs, somebody waits for it, and the sensors have not
\* been marked as stopped if it has something to take.
LEMMA GetKeepsIInv ==
    ASSUME IInv, get
    PROVE  IInv'
<1>1. /\ TypeOK /\ CallsFit /\ StopsAreQuiet /\ MailboxIsCurrent
      /\ StoppedIsDrained /\ FlagMeansTask /\ pc = "get"
      /\ UNCHANGED <<flag, queue, callers, timer, working, command, full,
                     session, dropped, putFailed>>
  BY DEF IInv, get
<1>2. callers # <<>>
  BY <1>1 DEF CallsFit
<1>3. FlagMeansTask'
  BY <1>1, <1>2 DEF FlagMeansTask
<1>4. CASE mailbox = <<>>
  <2>1. pc' = "clear" /\ UNCHANGED <<mailbox, item>>
    BY <1>4 DEF get
  <2>2. TypeOK'
    BY <1>1, <2>1 DEF TypeOK
  <2>3. CallsFit' /\ StopsAreQuiet' /\ WritesASample' /\ MailboxIsCurrent'
    BY <1>1, <1>4, <2>1 DEF CallsFit, StopsAreQuiet, WritesASample,
       MailboxIsCurrent
  <2>4. OwnRecording' /\ StoppedIsDrained'
    BY <1>1, <2>1 DEF OwnRecording, StoppedIsDrained
  <2> QED BY <1>3, <2>2, <2>3, <2>4 DEF IInv
<1>5. CASE mailbox # <<>>
  <2>1. pc' = "write" /\ item' = Head(mailbox) /\ mailbox' = Tail(mailbox)
    BY <1>5 DEF get
  <2>2. /\ mailbox \in Seq(Samples)
        /\ \A i \in 1 .. Len(mailbox) : mailbox[i].session = session
    BY <1>1 DEF TypeOK, MailboxIsCurrent
  <2>3. /\ item' \in Samples /\ item'.session = session
        /\ mailbox' \in Seq(Samples) /\ Len(mailbox') = Len(mailbox) - 1
        /\ \A i \in 1 .. Len(mailbox') : mailbox'[i].session = session
    <3>1. /\ Head(mailbox) = mailbox[1] /\ 1 \in 1 .. Len(mailbox)
          /\ Head(mailbox) \in Samples
      BY <1>5, <2>2
    <3>2. /\ Tail(mailbox) \in Seq(Samples)
          /\ Len(Tail(mailbox)) = Len(mailbox) - 1
          /\ \A i \in 1 .. Len(Tail(mailbox)) : Tail(mailbox)[i] = mailbox[i + 1]
      BY <1>5, <2>2, HeadTailProperties
    <3>3. \A i \in 1 .. Len(mailbox) - 1 : i + 1 \in 1 .. Len(mailbox)
      BY <2>2
    <3> QED BY <2>1, <2>2, <3>1, <3>2, <3>3
  <2>4. TypeOK'
    <3>1. Len(mailbox') <= MailboxSize
      BY <1>1, <2>2, <2>3, PipelineAssumption DEF TypeOK
    <3> QED BY <1>1, <2>1, <2>3, <3>1 DEF TypeOK
  <2>5. CallsFit' /\ StopsAreQuiet' /\ WritesASample'
    BY <1>1, <2>1, <2>3 DEF CallsFit, StopsAreQuiet, WritesASample
  <2>6. MailboxIsCurrent'
    BY <1>1, <2>3 DEF MailboxIsCurrent
  <2>7. working
    BY <1>1, <1>5 DEF StoppedIsDrained
  <2>8. OwnRecording' /\ StoppedIsDrained'
    BY <1>1, <2>3, <2>7 DEF OwnRecording, StoppedIsDrained
  <2> QED BY <1>3, <2>4, <2>5, <2>6, <2>8 DEF IInv
<1> QED BY <1>4, <1>5

LEMMA WriteKeepsIInv ==
    ASSUME IInv, write
    PROVE  IInv'
<1>1. /\ TypeOK /\ CallsFit /\ StopsAreQuiet /\ WritesASample /\ MailboxIsCurrent
      /\ StoppedIsDrained /\ FlagMeansTask /\ pc = "write"
      /\ pc' \in {"get", "drain"} /\ item' = NoItem
      /\ UNCHANGED <<mailbox, flag, queue, callers, timer, working, command,
                     session, putFailed>>
  BY DEF IInv, write
<1>2. item.sensor \in Sensors
  BY <1>1 DEF WritesASample, Samples
<1>3. full' \subseteq Sensors /\ dropped' \subseteq Sensors
  BY <1>1, <1>2 DEF write, TypeOK
<1>4. TypeOK'
  BY <1>1, <1>3 DEF TypeOK
<1>5. CallsFit' /\ StopsAreQuiet' /\ WritesASample' /\ MailboxIsCurrent'
  BY <1>1 DEF CallsFit, StopsAreQuiet, WritesASample, MailboxIsCurrent
<1>6. OwnRecording' /\ StoppedIsDrained' /\ FlagMeansTask'
  BY <1>1 DEF OwnRecording, StoppedIsDrained, FlagMeansTask, Queued
<1> QED BY <1>4, <1>5, <1>6 DEF IInv

LEMMA DrainKeepsIInv ==
    ASSUME IInv, drain
    PROVE  IInv'
<1>1. /\ TypeOK /\ CallsFit /\ StopsAreQuiet /\ MailboxIsCurrent
      /\ StoppedIsDrained /\ FlagMeansTask /\ pc = "drain"
      /\ UNCHANGED <<flag, queue, callers, item, timer, working, command, full,
                     session, putFailed>>
  BY DEF IInv, drain
<1>2. /\ mailbox \in Seq(Samples)
      /\ \A i \in 1 .. Len(mailbox) : mailbox[i].session = session
  BY <1>1 DEF TypeOK, MailboxIsCurrent
<1>3. /\ pc' \in {"drain", "command"} /\ dropped' \subseteq Sensors
      /\ mailbox' \in Seq(Samples) /\ Len(mailbox') <= Len(mailbox)
      /\ \A i \in 1 .. Len(mailbox') : mailbox'[i].session = session
      /\ mailbox = <<>> => mailbox' = <<>>
  <2>1. CASE mailbox = <<>>
    <3>1. pc' = "command" /\ UNCHANGED <<mailbox, dropped>>
      BY <2>1 DEF drain
    <3> QED BY <1>1, <1>2, <3>1 DEF TypeOK
  <2>2. CASE mailbox # <<>>
    <3>1. /\ dropped' = dropped \cup {Head(mailbox).sensor}
          /\ mailbox' = Tail(mailbox) /\ pc' = pc
      BY <2>2 DEF drain
    <3>2. Head(mailbox).sensor \in Sensors
      <4>1. Head(mailbox) \in Samples BY <1>2, <2>2
      <4> QED BY <4>1 DEF Samples
    <3>3. /\ Tail(mailbox) \in Seq(Samples)
          /\ Len(Tail(mailbox)) = Len(mailbox) - 1
          /\ \A i \in 1 .. Len(Tail(mailbox)) : Tail(mailbox)[i] = mailbox[i + 1]
      BY <2>2, <1>2, HeadTailProperties
    <3>4. \A i \in 1 .. Len(mailbox) - 1 : i + 1 \in 1 .. Len(mailbox)
      BY <1>2
    <3>5. dropped' \subseteq Sensors
      BY <1>1, <3>1, <3>2 DEF TypeOK
    <3>6. Len(mailbox') <= Len(mailbox)
      BY <1>2, <3>1, <3>3
    <3> QED BY <1>1, <1>2, <2>2, <3>1, <3>3, <3>4, <3>5, <3>6
  <2> QED BY <2>1, <2>2
<1>4. TypeOK'
  <2>1. Len(mailbox') <= MailboxSize
    BY <1>1, <1>2, <1>3, PipelineAssumption DEF TypeOK
  <2> QED BY <1>1, <1>3, <2>1 DEF TypeOK
<1>5. CallsFit' /\ StopsAreQuiet' /\ WritesASample' /\ MailboxIsCurrent'
  BY <1>1, <1>3 DEF CallsFit, StopsAreQuiet, WritesASample, MailboxIsCurrent
<1>6. OwnRecording' /\ StoppedIsDrained' /\ FlagMeansTask'
  BY <1>1, <1>3 DEF OwnRecording, StoppedIsDrained, FlagMeansTask, Queued
<1> QED BY <1>4, <1>5, <1>6 DEF IInv

\* The command that the nested call sets keeps it from being nested again.
LEMMA NestedCommandKeepsIInv ==
    ASSUME IInv, nestedCommand
    PROVE  IInv'
<1>1. /\ TypeOK /\ CallsFit /\ StopsAreQuiet /\ MailboxIsCurrent
      /\ StoppedIsDrained /\ FlagMeansTask
      /\ pc = "command" /\ pc' = "get" /\ command' = "sensorShouldSleep"
      /\ UNCHANGED <<mailbox, flag, queue, item, working, full, session,
                     dropped, putFailed>>
  BY DEF IInv, nestedCommand
<1>2. WritesASample' /\ MailboxIsCurrent' /\ OwnRecording'
  BY <1>1 DEF WritesASample, MailboxIsCurrent, OwnRecording
<1>3. CASE command # "sensorShouldSleep" /\ working
  <2>1. timer' = FALSE /\ callers' = <<"nested">> \o callers
    BY <1>3 DEF nestedCommand
  <2>2. callers \in {<<"event">>, <<"stop">>}
    <3>1. callers # <<>> /\ Len(callers) # 2
      BY <1>1, <1>3 DEF CallsFit
    <3> QED BY <1>1, <3>1 DEF CallsFit
  <2>3. PICK c \in {"event", "stop"} : callers = <<c>>
    BY <2>2
  <2>4. /\ callers' = <<"nested", c>>
        /\ callers' \in Seq(Callers) /\ Len(callers') = 2 /\ callers' # <<>>
    BY <2>1, <2>3, CallAndReturn
  <2>5. timer' \in BOOLEAN
    BY <2>1
  <2>6. TypeOK'
    BY <1>1, <2>4, <2>5 DEF TypeOK
  <2>7. CallsFit'
    BY <1>1, <2>3, <2>4 DEF CallsFit
  <2>8. StopsAreQuiet' /\ StoppedIsDrained' /\ FlagMeansTask'
    BY <1>1, <2>1, <2>4 DEF StopsAreQuiet, StoppedIsDrained, FlagMeansTask
  <2> QED BY <1>2, <2>6, <2>7, <2>8 DEF IInv
<1>4. CASE ~(command # "sensorShouldSleep" /\ working)
  <2>1. UNCHANGED <<timer, callers>>
    BY <1>4 DEF nestedCommand
  <2>2. TypeOK'
    BY <1>1, <2>1 DEF TypeOK
  <2>3. CallsFit' /\ StopsAreQuiet'
    BY <1>1, <2>1 DEF CallsFit, StopsAreQuiet
  <2>4. StoppedIsDrained' /\ FlagMeansTask'
    BY <1>1, <2>1 DEF StoppedIsDrained, FlagMeansTask, Queued
  <2> QED BY <1>2, <2>2, <2>3, <2>4 DEF IInv
<1> QED BY <1>3, <1>4

\* Whoever stopped the sensors has shut the timer down, so the mailbox that
\* was found empty is still empty when they are marked as stopped.
LEMMA ClearKeepsIInv ==
    ASSUME IInv, clear
    PROVE  IInv'
<1>1. /\ TypeOK /\ CallsFit /\ StopsAreQuiet /\ MailboxIsCurrent
      /\ StoppedIsDrained
      /\ pc = "clear" /\ flag' = FALSE /\ callers' = Tail(callers)
      /\ working' = (working /\ Head(callers) = "event")
      /\ pc' = IF Head(callers) = "nested" THEN "get" ELSE "idle"
      /\ UNCHANGED <<mailbox, queue, item, timer, command, full, session,
                     dropped, putFailed>>
  BY DEF IInv, clear
<1>2. \/ callers = <<"event">> /\ callers' = <<>> /\ pc' = "idle"
      \/ callers = <<"stop">> /\ callers' = <<>> /\ pc' = "idle"
      \/ callers = <<"nested", "event">> /\ callers' = <<"event">> /\ pc' = "get"
      \/ callers = <<"nested", "stop">> /\ callers' = <<"stop">> /\ pc' = "get"
  <2>1. \E c \in {"event", "stop"} : callers \in {<<c>>, <<"nested", c>>}
    BY <1>1 DEF CallsFit
  <2>2. PICK c \in {"event", "stop"} : callers \in {<<c>>, <<"nested", c>>}
    BY <2>1
  <2>3. CASE callers = <<c>>
    <3>1. Head(callers) = c /\ callers' = <<>>
      BY <1>1, <2>3, CallAndReturn
    <3>2. pc' = "idle"
      BY <1>1, <3>1
    <3> QED BY <2>3, <3>1, <3>2
  <2>4. CASE callers = <<"nested", c>>
    <3>1. Head(callers) = "nested" /\ callers' = <<c>>
      BY <1>1, <2>4, CallAndReturn
    <3>2. pc' = "get"
      BY <1>1, <3>1
    <3> QED BY <2>4, <3>1, <3>2
  <2> QED BY <2>2, <2>3, <2>4
<1>3. ~working' => mailbox = <<>> /\ ~timer
  <2>1. CASE callers = <<"event">>
    <3>1. working' = (working /\ TRUE)
      BY <1>1, <2>1
    <3> QED BY <1>1, <3>1 DEF StoppedIsDrained
  <2>2. CASE callers # <<"event">>
    <3>1. callers \notin {<<>>, <<"event">>}
      BY <1>2, <2>2
    <3> QED BY <1>1, <3>1 DEF StopsAreQuiet
  <2> QED BY <2>1, <2>2
<1>4. TypeOK'
  <2>1. callers' \in Seq(Callers) /\ Len(callers') <= 2
    <3>1. callers' = <<>> \/ \E c \in {"event", "stop"} : callers' = <<c>>
      BY <1>2
    <3>2. CASE callers' = <<>>
      BY <3>2, CallAndReturn
    <3>3. CASE \E c \in {"event", "stop"} : callers' = <<c>>
      BY <3>3, CallAndReturn
    <3> QED BY <3>1, <3>2, <3>3
  <2>2. working' \in BOOLEAN
    BY <1>1
  <2>3. flag' \in BOOLEAN
    BY <1>1
  <2>4. pc' \in {"idle", "get"}
    BY <1>2
  <2> QED BY <1>1, <2>1, <2>2, <2>3, <2>4 DEF TypeOK
<1>5. CallsFit'
  <2>1. callers' \in {<<>>, <<"event">>, <<"stop">>} /\ Len(callers') # 2
    BY <1>2
  <2>2. callers' = <<>> <=> pc' = "idle"
    BY <1>2
  <2> QED BY <2>1, <2>2 DEF CallsFit
<1>6. StopsAreQuiet'
  <2>1. timer => callers' \in {<<>>, <<"event">>}
    BY <1>1, <1>2 DEF StopsAreQuiet
  <2> QED BY <1>1, <1>2, <2>1 DEF StopsAreQuiet
<1>7. WritesASample' /\ MailboxIsCurrent' /\ OwnRecording'
  BY <1>1, <1>2 DEF WritesASample, MailboxIsCurrent, OwnRecording
<1>8. StoppedIsDrained'
  BY <1>1, <1>3 DEF StoppedIsDrained
<1>9. FlagMeansTask'
  BY <1>1 DEF FlagMeansTask
<1> QED BY <1>4, <1>5, <1>6, <1>7, <1>8, <1>9 DEF IInv

LEMMA StutterKeepsIInv ==
    ASSUME IInv, UNCHANGED vars
    PROVE  IInv'
<1>1. TypeOK' /\ CallsFit' /\ StopsAreQuiet'
  BY DEF IInv, vars, TypeOK, CallsFit, StopsAreQuiet
<1>2. WritesASample' /\ MailboxIsCurrent' /\ OwnRecording' /\ StoppedIsDrained'
  BY DEF IInv, vars, WritesASample, MailboxIsCurrent, OwnRecording,
         StoppedIsDrained
<1>3. FlagMeansTask'
  BY DEF IInv, vars, FlagMeansTask, Queued
<1> QED BY <1>1, <1>2, <1>3 DEF IInv

LEMMA NextKeepsIInv == IInv /\ [Next]_vars => IInv'
<1> SUFFICES ASSUME IInv, [Next]_vars PROVE IInv'
  OBVIOUS
<1>1. CASE mainLoop
  BY <1>1, ExecuteKeepsIInv, GetKeepsIInv, WriteKeepsIInv, DrainKeepsIInv,
     NestedCommandKeepsIInv, ClearKeepsIInv DEF mainLoop
<1>2. CASE interrupt
  BY <1>2, TickKeepsIInv DEF interrupt
<1>3. CASE overflow
  BY <1>3, OverflowKeepsIInv
<1>4. CASE otherEvent
  BY <1>4, OtherEventKeepsIInv
<1>5. CASE request
  BY <1>5, StartKeepsIInv, StopKeepsIInv DEF request
<1>6. CASE UNCHANGED vars
  BY <1>6, StutterKeepsIInv
<1> QED BY <1>1, <1>2, <1>3, <1>4, <1>5, <1>6 DEF Next

-----------------------------------------------------------------------------
(* The theorems. *)

\* The inductive invariant holds whatever the interrupt, the main loop and
\* the requests to start and stop do, and in whatever order.
THEOREM Invariance == Spec => []IInv
<1> QED BY InitIInv, NextKeepsIInv, PTL DEF Spec

\* The mailbox and the scheduler's queue never hold more than their sizes,
\* and flash_mailbox is nested in itself at most once.
THEOREM TypeCorrect == Spec => []TypeOK
<1>1. IInv => TypeOK BY DEF IInv
<1> QED BY <1>1, Invariance, PTL

\* flash_mailbox never writes a sample of an earlier recording, nor any
\* sample after the logs are closed.
THEOREM SamplesStayInTheirRecording == Spec => []OwnRecording
<1>1. IInv => OwnRecording BY DEF IInv
<1> QED BY <1>1, Invariance, PTL

\* Once the sensors have stopped the mailbox is empty and the timer is off.
THEOREM NothingAfterTheStop == Spec => []StoppedIsDrained
<1>1. IInv => StoppedIsDrained BY DEF IInv
<1> QED BY <1>1, Invariance, PTL

\* isDequeueTaskRunning never stays set without a task that will clear it,
\* unless an event could not be put into the scheduler's queue.
THEOREM FlagIsNeverStale == Spec => []FlagMeansTask
<1>1. IInv => FlagMeansTask BY DEF IInv
<1> QED BY <1>1, Invariance, PTL
=============================================================================
