-------------------------- MODULE SamplingPipeline --------------------------
(***************************************************************************)
(* The way of a sample from the TIMER2 interrupt to a log, in              *)
(* senstick_sensor_controller.c: the interrupt puts samples into the       *)
(* mailbox and schedules flash_mailbox, unless the flag                    *)
(* isDequeueTaskRunning says that this has been done; the main loop runs   *)
(* flash_mailbox, which clears the flag when it leaves.  Stopping the      *)
(* sensors flushes the mailbox too, and so does the stop that a full area  *)
(* causes inside flash_mailbox.                                            *)
(*                                                                         *)
(* Here the interrupt comes between any two steps of flash_mailbox.  What  *)
(* a sample contains, when it is due (SamplingClock) and what else a       *)
(* command does (SenStickControl) is left out.                             *)
(***************************************************************************)
EXTENDS Integers, Sequences

CONSTANTS
    NumSensors,    \* sensors that are available and logging
    MailboxSize,   \* MAILBOX_QUEUE_SIZE (40 or 255)
    QueueSize      \* SCHED_QUEUE_SIZE (20)

Sensors == 1 .. NumSensors

ASSUME PipelineAssumption ==
    /\ NumSensors \in Nat \ {0} /\ QueueSize \in Nat \ {0}
    /\ MailboxSize \in Nat /\ MailboxSize >= NumSensors

VARIABLES
    mailbox,    \* m_mailbox
    flag,       \* isDequeueTaskRunning
    queue,      \* the scheduler's queue: "flash" or "other", an event that
                \* neither samples nor commands cause
    pc,         \* where the main loop is
    callers,    \* who waits for flash_mailbox to return, innermost first
    item,       \* the sample that flash_mailbox has taken from the mailbox
    timer,      \* TIMER2 is running
    working,    \* isSensorWorking
    command,    \* the control command, as far as a nested one depends on it
    full,       \* the sensors whose area has no room left
    session,    \* history: which recording this is, of every other
    dropped,    \* history: the sensors that lost a sample of this recording
    putFailed   \* history: app_sched_event_put has failed in the interrupt

vars == <<mailbox, flag, queue, pc, callers, item, timer, working, command,
          full, session, dropped, putFailed>>

Samples == [sensor : Sensors, session : {0, 1}]
NoItem  == [sensor |-> 0, session |-> 0]
Callers == {"event", "stop", "nested"}

TypeOK ==
    /\ mailbox \in Seq(Samples) /\ Len(mailbox) <= MailboxSize
    /\ queue \in Seq({"flash", "other"}) /\ Len(queue) <= QueueSize
    /\ pc \in {"idle", "get", "write", "drain", "command", "clear"}
    /\ callers \in Seq(Callers) /\ Len(callers) <= 2
    /\ item \in Samples \cup {NoItem}
    /\ flag \in BOOLEAN /\ timer \in BOOLEAN /\ working \in BOOLEAN
    /\ putFailed \in BOOLEAN
    /\ command \in {"sensorShouldWork", "sensorShouldSleep", "shouldDeviceSleep"}
    /\ full \subseteq Sensors /\ dropped \subseteq Sensors
    /\ session \in {0, 1}

Init ==
    /\ mailbox = <<>> /\ flag = FALSE /\ queue = <<>>
    /\ pc = "idle" /\ callers = <<>> /\ item = NoItem
    /\ timer = FALSE /\ working = FALSE /\ command = "sensorShouldSleep"
    /\ full = {} /\ dropped = {}
    /\ session = 0 /\ putFailed = FALSE

-----------------------------------------------------------------------------
(* TIMER2_IRQHandler.  The interrupt has the highest priority: it runs as  *)
(* a whole, between two steps of the main loop.                            *)

\* The sensors that have a sample at one interrupt, in the order of its loop.
Due(n) == {due \in [1 .. n -> Sensors] :
              \A i, j \in 1 .. n : i < j => due[i] < due[j]}

SamplesOf(due) == [i \in DOMAIN due |-> [sensor |-> due[i], session |-> session]]

\* Between leaving the loop of flash_mailbox and clearing the flag there are
\* a few instructions, between two interrupts 10 milliseconds.
AtMostOneInTheWindow == pc = "clear" => mailbox = <<>>

\* Mutant: the mailbox itself tells whether there is a task.
tickIfEmpty(due) ==
    /\ timer /\ AtMostOneInTheWindow
    /\ Len(mailbox) + Len(due) <= MailboxSize
    /\ mailbox' = mailbox \o SamplesOf(due)
    /\ flag' = TRUE
    /\ IF flag \/ mailbox # <<>> THEN UNCHANGED <<queue, putFailed>>
       ELSE IF Len(queue) < QueueSize
       THEN queue' = Append(queue, "flash") /\ UNCHANGED putFailed
       ELSE putFailed' = TRUE /\ UNCHANGED queue
    /\ UNCHANGED <<pc, callers, item, timer, working, command, full, session,
                   dropped>>

\* "If there is something in the mailbox and no task to empty it, add one":
\* the flag is set whether or not the queue has room.
tick(due) ==
    /\ timer /\ AtMostOneInTheWindow
    /\ Len(mailbox) + Len(due) <= MailboxSize
    /\ mailbox' = mailbox \o SamplesOf(due)
    /\ flag' = TRUE
    /\ IF flag THEN UNCHANGED <<queue, putFailed>>
       ELSE IF Len(queue) < QueueSize
       THEN queue' = Append(queue, "flash") /\ UNCHANGED putFailed
       ELSE putFailed' = TRUE /\ UNCHANGED queue
    /\ UNCHANGED <<pc, callers, item, timer, working, command, full, session,
                   dropped>>

\* A full mailbox is a checked error, and an error resets the device.
overflow ==
    /\ timer
    /\ Len(mailbox) + NumSensors > MailboxSize
    /\ mailbox' = <<>> /\ flag' = FALSE /\ queue' = <<>>
    /\ pc' = "idle" /\ callers' = <<>> /\ item' = NoItem
    /\ timer' = FALSE /\ working' = FALSE /\ command' = "sensorShouldSleep"
    /\ full' = {} /\ dropped' = {}
    /\ putFailed' = FALSE
    /\ UNCHANGED session

-----------------------------------------------------------------------------
(* The main loop: one event or command after the other.                    *)

otherEvent ==
    /\ Len(queue) < QueueSize
    /\ queue' = Append(queue, "other")
    /\ UNCHANGED <<mailbox, flag, pc, callers, item, timer, working, command,
                   full, session, dropped, putFailed>>

\* app_sched_execute
execute ==
    /\ pc = "idle" /\ queue # <<>>
    /\ queue' = Tail(queue)
    /\ IF Head(queue) = "flash"
       THEN pc' = "get" /\ callers' = <<"event">>
       ELSE UNCHANGED <<pc, callers>>
    /\ UNCHANGED <<mailbox, flag, item, timer, working, command, full, session,
                   dropped, putFailed>>

\* setSensorShoudlWork(true); a format may have made room before.
start ==
    /\ pc = "idle" /\ ~working
    /\ working' = TRUE /\ timer' = TRUE
    /\ command' = "sensorShouldWork"
    /\ session' = 1 - session
    /\ full' = {} /\ dropped' = {}
    /\ UNCHANGED <<mailbox, flag, queue, pc, callers, item, putFailed>>

\* Mutants: the mailbox is not flushed; the timer is not shut down.
stopUnflushed(c) ==
    /\ pc = "idle" /\ working
    /\ command' = c
    /\ timer' = FALSE /\ working' = FALSE
    /\ UNCHANGED <<mailbox, flag, queue, pc, callers, item, full, session, dropped,
                   putFailed>>

stopTicking(c) ==
    /\ pc = "idle" /\ working
    /\ command' = c
    /\ pc' = "get" /\ callers' = <<"stop">>
    /\ UNCHANGED <<mailbox, flag, queue, item, timer, working, full, session,
                   dropped, putFailed>>

\* setSensorShoudlWork(false): the timer is shut down and the mailbox flushed.
stop(c) ==
    /\ pc = "idle" /\ working
    /\ command' = c
    /\ timer' = FALSE
    /\ pc' = "get" /\ callers' = <<"stop">>
    /\ UNCHANGED <<mailbox, flag, queue, item, working, full, session, dropped,
                   putFailed>>

-----------------------------------------------------------------------------
(* flash_mailbox. *)

get ==
    /\ pc = "get"
    /\ IF mailbox = <<>>
       THEN pc' = "clear" /\ UNCHANGED <<mailbox, item>>
       ELSE /\ pc' = "write"
            /\ item' = Head(mailbox) /\ mailbox' = Tail(mailbox)
    /\ UNCHANGED <<flag, queue, callers, timer, working, command, full, session,
                   dropped, putFailed>>

\* writeLog takes the sample, or its area has no room any more.
write ==
    /\ pc = "write"
    /\ \/ /\ item.sensor \notin full
          /\ pc' = "get"
          /\ UNCHANGED <<full, dropped>>
       \/ /\ pc' = "drain"
          /\ full' = full \cup {item.sensor}
          /\ dropped' = dropped \cup {item.sensor}
    /\ item' = NoItem
    /\ UNCHANGED <<mailbox, flag, queue, callers, timer, working, command, session,
                   putFailed>>

\* One turn of the loop that empties the mailbox.
drain ==
    /\ pc = "drain"
    /\ IF mailbox = <<>>
       THEN pc' = "command" /\ UNCHANGED <<mailbox, dropped>>
       ELSE /\ dropped' = dropped \cup {Head(mailbox).sensor}
            /\ mailbox' = Tail(mailbox)
            /\ UNCHANGED pc
    /\ UNCHANGED <<flag, queue, callers, item, timer, working, command, full,
                   session, putFailed>>

\* Mutant: the command that is set already is not refused.
nestedCommandAgain ==
    /\ pc = "command"
    /\ pc' = "get"
    /\ timer' = FALSE /\ callers' = <<"nested">> \o callers
    /\ command' = "sensorShouldSleep"
    /\ UNCHANGED <<mailbox, flag, queue, item, working, full, session, dropped,
                   putFailed>>

\* senstick_setControlCommand(sensorShouldSleep), which does nothing if that
\* is the command already, or the sensors have stopped.
nestedCommand ==
    /\ pc = "command"
    /\ pc' = "get"
    /\ IF command # "sensorShouldSleep" /\ working
       THEN timer' = FALSE /\ callers' = <<"nested">> \o callers
       ELSE UNCHANGED <<timer, callers>>
    /\ command' = "sensorShouldSleep"
    /\ UNCHANGED <<mailbox, flag, queue, item, working, full, session, dropped,
                   putFailed>>

\* Mutant: the flag stays set.
clearNothing ==
    /\ pc = "clear"
    /\ callers' = Tail(callers)
    /\ pc' = IF Head(callers) = "nested" THEN "get" ELSE "idle"
    /\ working' = (working /\ Head(callers) = "event")
    /\ UNCHANGED <<mailbox, flag, queue, item, timer, command, full, session,
                   dropped, putFailed>>

\* The flag is cleared; whoever stopped the sensors closes their logs.
clear ==
    /\ pc = "clear"
    /\ flag' = FALSE
    /\ callers' = Tail(callers)
    /\ pc' = IF Head(callers) = "nested" THEN "get" ELSE "idle"
    /\ working' = (working /\ Head(callers) = "event")
    /\ UNCHANGED <<mailbox, queue, item, timer, command, full, session, dropped,
                   putFailed>>

Queued(event) == \E i \in DOMAIN queue : queue[i] = event

mainLoop == execute \/ get \/ write \/ drain \/ nestedCommand \/ clear
interrupt == \E n \in Sensors : \E due \in Due(n) : tick(due)
request == start \/ \E c \in {"sensorShouldSleep", "shouldDeviceSleep"} : stop(c)

Next == mainLoop \/ interrupt \/ overflow \/ otherEvent \/ request

\* The main loop goes on (the scheduler is run after every event), and the
\* timer too.
Spec == Init /\ [][Next]_vars /\ WF_vars(mainLoop) /\ WF_vars(interrupt)

-----------------------------------------------------------------------------
(* Properties. *)

\* Samples reach the log of their own recording, before it is closed: the
\* stop, also the one nested in flash_mailbox, leaves nothing behind that the
\* loop around it or the next recording would write
\* (senstick_sensor_controller.c:394-408, 259-266).
OwnRecording ==
    pc = "write" => working /\ item.session = session

\* When the sensors have stopped, the mailbox is empty and stays so.
StoppedIsDrained ==
    ~working => mailbox = <<>> /\ ~timer

\* While the flag is set there is a task, queued or running, that will clear
\* it, unless the scheduler's queue was full when the task was added.
FlagMeansTask ==
    flag /\ ~putFailed => callers # <<>> \/ Queued("flash")

\* A sample in the mailbox is taken from it, even one that came when
\* flash_mailbox had found the mailbox empty and not yet cleared the flag,
\* unless the device restarts.
MailboxServed ==
    mailbox # <<>> ~> (pc \in {"write", "drain"} \/ putFailed \/ ~working)

-----------------------------------------------------------------------------
(* What comments and notes say, and the code does not do.                  *)

\* A log has no gaps: a sample is written only if the sensor's samples before
\* it have been.
NoGapInLog ==
    pc = "write" /\ item.sensor \notin full => item.sensor \notin dropped
=============================================================================
