--------------------------- MODULE SenStickControl ---------------------------
(***************************************************************************)
(* The control commands of SenStick and everything one command sets off:   *)
(* senstick_data_model.c and its observers, senstick_sensor_controller.c   *)
(* and metadata_log_controller.c, together with the boot sequence of       *)
(* main.c and a power cut between any two flash operations of them.        *)
(*                                                                         *)
(* The firmware handles commands, BLE events, timers and button events one *)
(* after another in its main loop.  `todo' is what the handler under way   *)
(* has still to do: a call pushes the steps of the function called, so     *)
(* that a nested command, which the disk becoming full issues from inside  *)
(* another one, runs where the code runs it.  Each step ends at a flash    *)
(* operation, because there a power cut makes a difference.  Only the      *)
(* sampling interrupt runs between the steps of a handler.                 *)
(*                                                                         *)
(* What is inside the area of a sensor is the subject of LogStore; here a  *)
(* log is its header in each area and its record in the metadata area.     *)
(* Addresses are counted in samples from the start of an area, and of a    *)
(* header only its start and size together matter: where the log ends.     *)
(***************************************************************************)
EXTENDS Integers, Sequences, Functions

CONSTANTS
    NumSensors,      \* NUM_OF_SENSORS (7)
    Available,       \* the sensors whose initialisation succeeds
    MaxNumOfLog,     \* MAX_NUM_OF_LOG (100)
    Capacity,        \* samples that the area of a sensor takes
    Margin,          \* what IsDataFull wants to be left (6 * 128 bytes)
    MailboxSize,     \* MAILBOX_QUEUE_SIZE (40 or 255)
    ClientSettings,  \* bound: the combinations of settings a client chooses
    Erased, Ruined   \* erased flash; a header programmed over another one

Sensors  == 1 .. NumSensors
LogIDs   == 0 .. MaxNumOfLog - 1
Commands == {"sensorShouldSleep", "sensorShouldWork", "formattingStorage",
             "shouldDeviceSleep", "enterDFUmode"}
Settings == {"stop", "sensing", "logging"}

ASSUME ControlAssumption ==
    /\ NumSensors \in Nat /\ Available \subseteq Sensors
    /\ MaxNumOfLog \in Nat \ {0} /\ MailboxSize \in Nat \ {0}
    /\ Capacity \in Nat /\ Margin \in Nat \ {0}
    /\ ClientSettings \subseteq [Sensors -> Settings]
    /\ Erased \notin Settings \cup {"open", "closed", Ruined}
    /\ {Erased, Ruined} \cap Nat = {}

VARIABLES
    (* The flash memory. *)
    formatted,   \* the metadata area holds this firmware's magic word
    meta,        \* the metadata records: Erased, "open" or "closed"
    header,      \* per sensor and log ID: Erased, Ruined or the log's end
    saved,       \* the persisted settings, and their magic word
    (* senstick_data_model.c. *)
    command, logCount, diskFull, connected, waitingForDFU,
    (* senstick_sensor_controller.c. *)
    working,     \* isSensorWorking
    setting,     \* sensorSetting[].command; Erased when read as 0xff
    writing,     \* the writingLogContexts: log ID, and writePosition of each
    timer,       \* TIMER2 is running
    mailbox,     \* m_mailbox, the sensors that the samples in it are of
    (* The rest. *)
    powered,     \* the flash memory is not in deep power-down, and TWI is up
    led,         \* the LED's timer is running
    todo,        \* the remaining steps of the handler under way
    unfinished   \* history: a format of the storage has been left half done

flash   == <<formatted, meta, header, saved>>
model   == <<command, logCount, diskFull, connected, waitingForDFU>>
sensors == <<working, setting, writing, timer, mailbox>>
rest    == <<powered, led, unfinished>>
vars    == <<flash, model, sensors, rest, todo>>

NoLog == -1
Quiet == todo = <<>>

-----------------------------------------------------------------------------
(* The steps of a handler, named after the functions they are part of.     *)

Step(name)           == [call |-> name]
setControlCommand(c) == [call |-> "setControlCommand", command |-> c]
startSensors(log, id) == [call |-> "startSensors", logging |-> log, id |-> id]
stopSensors(log)     == [call |-> "stopSensors", logging |-> log]
closeLog(s)          == [call |-> "closeLog", sensor |-> s]
saveSetting(s)       == [call |-> "saveSetting", sensor |-> s]
formatLog(s)         == [call |-> "formatLog", sensor |-> s]
closeMeta(id)        == [call |-> "closeMeta", id |-> id]
writeMeta(id)        == [call |-> "writeMeta", id |-> id]
finish(c, log)       == [call |-> "finish", command |-> c, logging |-> log]

PlainSteps == {"boot", "countLogs", "flashMailbox", "setDiskFull",
               "eraseSettings", "markSettings", "sensorsStopped",
               "eraseMeta", "markMeta"}
Steps ==
    {Step(name) : name \in PlainSteps}
    \cup {setControlCommand(c) : c \in Commands}
    \cup {startSensors(log, id) : log \in BOOLEAN, id \in 0 .. MaxNumOfLog}
    \cup {stopSensors(log) : log \in BOOLEAN}
    \cup {closeLog(s) : s \in Sensors} \cup {saveSetting(s) : s \in Sensors}
    \cup {formatLog(s) : s \in Sensors}
    \cup {closeMeta(id) : id \in LogIDs} \cup {writeMeta(id) : id \in LogIDs}
    \cup {finish(c, log) : c \in Commands, log \in BOOLEAN}

\* The same step for each sensor, in the order of the loops of the code.
ForEach(step(_)) == [s \in Sensors |-> step(s)]

At(name)     == ~Quiet /\ Head(todo).call = name
Return       == todo' = Tail(todo)
Enter(steps) == todo' = steps \o Tail(todo)

TypeOK ==
    /\ formatted \in BOOLEAN
    /\ meta \in [LogIDs -> {Erased, "open", "closed"}]
    /\ header \in [Sensors -> [LogIDs -> (0 .. Capacity) \cup {Erased, Ruined}]]
    /\ saved \in [magic : BOOLEAN,
                  setting : [Sensors -> Settings \cup {Erased}]]
    /\ command \in Commands \cup {"shouldReset"}
    /\ logCount \in 0 .. MaxNumOfLog
    /\ {diskFull, connected, waitingForDFU, working, timer, powered, led,
        unfinished} \subseteq BOOLEAN
    /\ setting \in [Sensors -> Settings \cup {Erased}]
    /\ writing \in [log : LogIDs \cup {NoLog}, wpos : [Sensors -> 0 .. Capacity]]
    /\ mailbox \in Seq(Sensors) /\ Len(mailbox) <= MailboxSize
    /\ todo \in Seq(Steps)

-----------------------------------------------------------------------------
(* Reset: flash keeps what it holds, all else starts over.                 *)

Idle(sett) ==
    /\ command' = "shouldReset" /\ logCount' = 0 /\ diskFull' = FALSE
    /\ connected' = FALSE /\ waitingForDFU' = FALSE
    /\ working' = FALSE /\ timer' = FALSE /\ mailbox' = <<>>
    /\ setting' = sett
    /\ writing' = [log |-> NoLog, wpos |-> [s \in Sensors |-> 0]]
    /\ powered' = TRUE /\ led' = TRUE
    /\ todo' = <<Step("boot")>>

\* loadSensorSetting trusts the magic word.
Reset ==
    /\ Idle(IF saved.magic THEN saved.setting ELSE [s \in Sensors |-> "stop"])
    /\ UNCHANGED <<meta, header, saved, unfinished>>

\* Power is lost or returns, an ASSERT fails or an error is checked.
Restart == Reset /\ UNCHANGED formatted

\* A DFU may leave a firmware of another revision, with another magic word.
RestartAfterDFU == Reset /\ (formatted' = FALSE \/ UNCHANGED formatted)

Init ==
    /\ formatted = FALSE
    /\ meta = [id \in LogIDs |-> Erased]
    /\ header = [s \in Sensors |-> [id \in LogIDs |-> Erased]]
    /\ saved = [magic |-> FALSE, setting |-> [s \in Sensors |-> Erased]]
    /\ command = "shouldReset" /\ logCount = 0 /\ diskFull = FALSE
    /\ connected = FALSE /\ waitingForDFU = FALSE
    /\ working = FALSE /\ timer = FALSE /\ mailbox = <<>>
    /\ setting = [s \in Sensors |-> "stop"]
    /\ writing = [log |-> NoLog, wpos |-> [s \in Sensors |-> 0]]
    /\ powered = TRUE /\ led = TRUE
    /\ todo = <<Step("boot")>>
    /\ unfinished = FALSE

-----------------------------------------------------------------------------
(* What the firmware reads back from flash.                                *)

IsActive(s)   == s \in Available /\ setting[s] # "stop"
ToLog(s)      == setting[s] \in {"logging", Erased}
IsLogging(s)  == s \in Available /\ ToLog(s)
ShouldLog     == \E s \in Sensors : IsLogging(s)

\* Logs tile an area (LogStore): the last header tells what is in use, and
\* where the next log starts.
Used(s, count) ==
    IF count > 0 /\ header[s][count - 1] \in Nat THEN header[s][count - 1] ELSE 0
IsAreaFull(s, id) == Used(s, id + 1) + Margin > Capacity

\* metaDataLogGetLogCount: the records up to the first that is not closed.
ClosedRecords ==
    CHOOSE n \in 0 .. MaxNumOfLog :
        /\ \A id \in 0 .. n - 1 : meta[id] = "closed"
        /\ n < MaxNumOfLog => meta[n] # "closed"

\* Mutant: the ASSERTs are compiled out.
AnyLog(id) == id \in LogIDs

\* The ASSERTs of createLog, for every sensor: the log's header is erased,
\* and the one before it is written.
CanCreate(id) ==
    \A s \in Sensors : /\ header[s][id] = Erased
                       /\ id > 0 => header[s][id - 1] # Erased

\* The ASSERT of openLog, as senstickSensorControllerIsDataFull meets it: it
\* leaves its loop at the first sensor whose area is full.
CanOpen(id) ==
    \A s \in Sensors :
        header[s][id] = Erased => \E t \in 1 .. s - 1 : IsAreaFull(t, id)

-----------------------------------------------------------------------------
(* senstick_setControlCommand.                                             *)

\* Mutant: a full disk does not matter.
RefusedUnlessFull(c) ==
    \/ c = command
    \/ c = "sensorShouldWork" /\ ~\E s \in Sensors : IsActive(s)

Refused(c) ==
    \/ c = command
    \/ c = "sensorShouldWork"
       /\ (diskFull \/ ~\E s \in Sensors : IsActive(s))

refuseCommand ==
    /\ At("setControlCommand")
    /\ Refused(Head(todo).command)
    /\ Return
    /\ UNCHANGED <<flash, model, sensors, rest>>

\* Mutant: enterDFUmode does not stop the sensors.
SensorObserverOfThree(c, log, id) ==
    CASE c = "sensorShouldWork"  -> <<startSensors(log, id)>>
      [] c = "formattingStorage" ->
            <<stopSensors(FALSE)>> \o ForEach(formatLog) \o <<Step("eraseSettings")>>
      [] c = "enterDFUmode"      -> <<>>
      [] OTHER                   -> <<stopSensors(log)>>

\* senstickSensorController_observeControlCommand
SensorObserver(c, log, id) ==
    CASE c = "sensorShouldWork"  -> <<startSensors(log, id)>>
      [] c = "formattingStorage" ->
            <<stopSensors(FALSE)>> \o ForEach(formatLog) \o <<Step("eraseSettings")>>
      [] OTHER                   -> <<stopSensors(log)>>

\* Mutants: the record is never closed; it is closed when it is written.
MetaObserverLeavingOpen(c, log, id) ==
    CASE c = "sensorShouldWork" /\ log -> <<writeMeta(id)>>
      [] c = "formattingStorage" -> <<Step("eraseMeta"), Step("markMeta")>>
      [] OTHER -> <<>>

MetaObserverClosingEarly(c, log, id) ==
    CASE c = "sensorShouldWork" /\ log -> <<writeMeta(id), closeMeta(id)>>
      [] c = "formattingStorage" -> <<Step("eraseMeta"), Step("markMeta")>>
      [] OTHER -> <<>>

\* metaDatalog_observeControlCommand
MetaObserver(c, log, id) ==
    (IF log /\ command = "sensorShouldWork" THEN <<closeMeta(id - 1)>> ELSE <<>>)
    \o CASE c = "sensorShouldWork" /\ log -> <<writeMeta(id)>>
         [] c = "formattingStorage" -> <<Step("eraseMeta"), Step("markMeta")>>
         [] OTHER -> <<>>

\* Mutant: the other order.
ObserversSwapped(c, log, id) ==
    MetaObserver(c, log, id) \o SensorObserver(c, log, id) \o <<finish(c, log)>>

\* The sensor controller observes a command before the metadata log does, so
\* that a log has its headers before its record says that it is closed.
Observers(c, log, id) ==
    SensorObserver(c, log, id) \o MetaObserver(c, log, id) \o <<finish(c, log)>>

\* The command is set, and the power restored, before the observers run.
acceptCommand ==
    /\ At("setControlCommand")
    /\ LET c == Head(todo).command
       IN  /\ ~Refused(c)
           /\ command' = c
           /\ Enter(Observers(c, ShouldLog, logCount))
    /\ powered' = (powered \/ command = "shouldDeviceSleep")
    /\ UNCHANGED <<logCount, diskFull, connected, waitingForDFU, flash, sensors,
                   led, unfinished>>

\* The observer of the LED, and the switch at the end of the function.
finishCommand ==
    /\ At("finish")
    /\ LET step == Head(todo)
           c    == step.command
       IN  \/ /\ c = "enterDFUmode" /\ ~connected
              /\ RestartAfterDFU
           \/ /\ ~(c = "enterDFUmode" /\ ~connected)
              /\ led' = (c # "shouldDeviceSleep")
              /\ logCount' = CASE c = "sensorShouldWork" /\ step.logging -> logCount + 1
                              [] c = "formattingStorage" -> 0
                              [] OTHER -> logCount
              /\ diskFull' = (diskFull /\ c # "formattingStorage")
              /\ waitingForDFU' = (waitingForDFU \/ c = "enterDFUmode")
              /\ powered' = (powered /\ ~(c = "shouldDeviceSleep" /\ ~connected))
              /\ IF c = "formattingStorage"
                 THEN Enter(<<setControlCommand("sensorShouldSleep")>>)
                 ELSE Return
              /\ UNCHANGED <<command, connected, flash, sensors, unfinished>>

setDiskFull ==
    /\ At("setDiskFull")
    /\ diskFull' = TRUE
    /\ Return
    /\ UNCHANGED <<command, logCount, connected, waitingForDFU, flash, sensors, rest>>

-----------------------------------------------------------------------------
(* senstick_sensor_controller.c.  A flash memory in deep power-down does   *)
(* not answer: waitFlashReady runs into its timeout, which is checked.     *)

unanswered ==
    /\ ~powered /\ ~Quiet
    /\ \/ Head(todo).call \in {"closeLog", "saveSetting", "formatLog", "closeMeta",
                               "writeMeta", "eraseSettings", "markSettings",
                               "eraseMeta", "markMeta"}
       \/ At("startSensors") /\ ~working /\ Head(todo).logging
       \/ At("flashMailbox") /\ mailbox # <<>> /\ ToLog(Head(mailbox))
    /\ Restart

\* setSensorShoudlWork(true): the contexts are in RAM, nothing is written.
startSensors_ ==
    /\ At("startSensors")
    /\ LET step == Head(todo)
       IN  \/ working /\ Return /\ UNCHANGED <<flash, model, sensors, rest>>
           \/ /\ ~working /\ step.logging /\ powered /\ ~CanCreate(step.id)
              /\ Restart
           \/ /\ ~working /\ (step.logging => powered /\ CanCreate(step.id))
              /\ working' = TRUE /\ timer' = TRUE
              /\ writing' = IF step.logging
                            THEN [log |-> step.id, wpos |-> [s \in Sensors |-> 0]]
                            ELSE writing
              /\ Return
              /\ UNCHANGED <<setting, mailbox, flash, model, rest>>

\* setSensorShoudlWork(false)
stopSensors_ ==
    /\ At("stopSensors")
    /\ \/ ~working /\ Return /\ UNCHANGED timer
       \/ /\ working
          /\ timer' = FALSE
          /\ Enter(<<Step("flashMailbox")>>
                   \o (IF Head(todo).logging THEN ForEach(closeLog) ELSE <<>>)
                   \o <<Step("eraseSettings"), Step("markSettings")>>
                   \o ForEach(saveSetting) \o <<Step("sensorsStopped")>>)
    /\ UNCHANGED <<working, setting, writing, mailbox, flash, model, rest>>

sensorsStopped ==
    /\ At("sensorsStopped")
    /\ working' = FALSE
    /\ Return
    /\ UNCHANGED <<setting, writing, timer, mailbox, flash, model, rest>>

\* Mutant: off by one.
RoomAndOne(s) == Capacity - Used(s, writing.log) + 1

\* createLog gave the log all that is left of the area; writeLog refuses more.
Room(s) == Capacity - Used(s, writing.log)

\* One turn of the loop of flash_mailbox.
flashMailbox ==
    /\ At("flashMailbox")
    /\ \/ /\ mailbox = <<>>
          /\ Return
          /\ UNCHANGED <<mailbox, writing>>
       \/ /\ mailbox # <<>> /\ ~ToLog(Head(mailbox))
          /\ mailbox' = Tail(mailbox)
          /\ UNCHANGED <<todo, writing>>
       \/ /\ mailbox # <<>> /\ ToLog(Head(mailbox)) /\ powered
          /\ LET s == Head(mailbox)
             IN  /\ writing.wpos[s] < Room(s)
                 /\ writing' = [writing EXCEPT !.wpos[s] = @ + 1]
          /\ mailbox' = Tail(mailbox)
          /\ UNCHANGED todo
    /\ UNCHANGED <<working, setting, timer, flash, model, rest>>

\* Mutant: the mailbox is not emptied before the nested command.
storageFullUndrained ==
    /\ At("flashMailbox") /\ powered
    /\ mailbox # <<>> /\ ToLog(Head(mailbox))
    /\ writing.wpos[Head(mailbox)] >= Room(Head(mailbox))
    /\ todo' = <<setControlCommand("sensorShouldSleep"), Step("setDiskFull")>> \o todo
    /\ UNCHANGED <<working, setting, writing, timer, mailbox, flash, model, rest>>

\* The area is full.  The command flushes the mailbox too, which is why it is
\* emptied first; this loop goes on afterwards.
storageFull ==
    /\ At("flashMailbox") /\ powered
    /\ mailbox # <<>> /\ ToLog(Head(mailbox))
    /\ writing.wpos[Head(mailbox)] >= Room(Head(mailbox))
    /\ mailbox' = <<>>
    /\ todo' = <<setControlCommand("sensorShouldSleep"), Step("setDiskFull")>> \o todo
    /\ UNCHANGED <<working, setting, writing, timer, flash, model, rest>>

\* Mutant: a header without the start address of its log.
EndOfLogFromZero(s) == writing.wpos[s]

\* Where the log that is written ends so far.
EndOfLog(s) == Used(s, writing.log) + writing.wpos[s]

\* closeLog of log_controller.c; canWrite is never cleared, so a log may be
\* closed twice.  Programming the same header again leaves it as it is.
closeLog_ ==
    /\ At("closeLog") /\ powered
    /\ IF writing.log = NoLog
       THEN UNCHANGED header
       ELSE LET s == Head(todo).sensor
            IN  header' = [header EXCEPT ![s][writing.log] =
                    IF @ \in {Erased, EndOfLog(s)} THEN EndOfLog(s) ELSE Ruined]
    /\ Return
    /\ UNCHANGED <<formatted, meta, saved, model, sensors, rest>>

\* saveSensorSetting: the sector is erased, the magic word written, and then
\* the settings, one by one.
eraseSettings ==
    /\ At("eraseSettings") /\ powered
    /\ saved' = [magic |-> FALSE, setting |-> [s \in Sensors |-> Erased]]
    /\ Return
    /\ UNCHANGED <<formatted, meta, header, model, sensors, rest>>

markSettings ==
    /\ At("markSettings") /\ powered
    /\ saved' = [saved EXCEPT !.magic = TRUE]
    /\ Return
    /\ UNCHANGED <<formatted, meta, header, model, sensors, rest>>

saveSetting_ ==
    /\ At("saveSetting") /\ powered
    /\ LET s == Head(todo).sensor
       IN  saved' = [saved EXCEPT !.setting[s] = setting[s]]
    /\ Return
    /\ UNCHANGED <<formatted, meta, header, model, sensors, rest>>

\* What of the storage is still to be formatted after this step.
LeftUnfinished ==
    \E i \in DOMAIN Tail(todo) : Tail(todo)[i].call \in {"formatLog", "eraseMeta"}

formatLog_ ==
    /\ At("formatLog") /\ powered
    /\ header' = [header EXCEPT ![Head(todo).sensor] = [id \in LogIDs |-> Erased]]
    /\ unfinished' = LeftUnfinished
    /\ Return
    /\ UNCHANGED <<formatted, meta, saved, model, sensors, powered, led>>

-----------------------------------------------------------------------------
(* metadata_log_controller.c.                                              *)

\* The record is read and written back with is_closed_value cleared.
closeMeta_ ==
    /\ At("closeMeta") /\ powered
    /\ LET id == Head(todo).id
       IN  /\ meta' = [meta EXCEPT ![id] = IF @ = "open" THEN "closed" ELSE @]
           /\ diskFull' = (diskFull \/ id + 1 >= MaxNumOfLog)
    /\ Return
    /\ UNCHANGED <<formatted, header, saved, command, logCount, connected,
                   waitingForDFU, sensors, rest>>

\* metaDataLogWrite, and the ASSERT that the record has not been written.
writeMeta_ ==
    /\ At("writeMeta") /\ powered
    /\ LET id == Head(todo).id
       IN  \/ meta[id] # Erased /\ Restart
           \/ /\ meta[id] = Erased
              /\ meta' = [meta EXCEPT ![id] = "open"]
              /\ Return
              /\ UNCHANGED <<formatted, header, saved, model, sensors, rest>>

\* metaLogFormatStorage
eraseMeta ==
    /\ At("eraseMeta") /\ powered
    /\ formatted' = FALSE
    /\ meta' = [id \in LogIDs |-> Erased]
    /\ unfinished' = LeftUnfinished
    /\ Return
    /\ UNCHANGED <<header, saved, model, sensors, powered, led>>

markMeta ==
    /\ At("markMeta") /\ powered
    /\ formatted' = TRUE
    /\ Return
    /\ UNCHANGED <<meta, header, saved, model, sensors, rest>>

-----------------------------------------------------------------------------
(* main.c.                                                                 *)

boot ==
    /\ At("boot")
    /\ todo' = (IF formatted THEN <<>>
                ELSE <<Step("eraseMeta"), Step("markMeta"), stopSensors(FALSE)>>
                     \o ForEach(formatLog))
               \o <<Step("countLogs"), setControlCommand("sensorShouldSleep"),
                    setControlCommand("sensorShouldWork")>>
    /\ UNCHANGED <<flash, model, sensors, rest>>

\* Mutant: a record left open by a power cut is not noticed.
FullAtBootUnlessOpen(count) ==
    \/ count = MaxNumOfLog
    \/ count > 0 /\ \E s \in Sensors : IsAreaFull(s, count - 1)

\* No ID is left, the record after the last closed one was left open, or some
\* area is nearly full.
FullAtBoot(count) ==
    \/ count = MaxNumOfLog
    \/ count < MaxNumOfLog /\ meta[count] # Erased
    \/ count > 0 /\ \E s \in Sensors : IsAreaFull(s, count - 1)

\* The number of logs and whether the disk is full, from what flash holds.
countLogs ==
    /\ At("countLogs")
    /\ LET count == ClosedRecords
       IN  \/ /\ count > 0 /\ ~CanOpen(count - 1)
              /\ Restart
           \/ /\ count > 0 => CanOpen(count - 1)
              /\ logCount' = count
              /\ diskFull' = FullAtBoot(count)
              /\ Return
              /\ UNCHANGED <<command, connected, waitingForDFU, flash, sensors, rest>>

\* The button (the next log, sleep, format), the battery running empty and a
\* client's write to the control point.
Requests ==
    {<<setControlCommand("sensorShouldSleep"), setControlCommand("sensorShouldWork")>>,
     <<setControlCommand("shouldDeviceSleep")>>,
     <<setControlCommand("formattingStorage")>>}
    \cup (IF connected THEN {<<setControlCommand(c)>> : c \in Commands} ELSE {})

request ==
    /\ Quiet
    /\ todo' \in Requests
    /\ UNCHANGED <<flash, model, sensors, rest>>

\* A client connects: the device advertises while it is not asleep.
connect ==
    /\ Quiet /\ ~connected /\ powered
    /\ connected' = TRUE
    /\ UNCHANGED <<command, logCount, diskFull, waitingForDFU, flash, sensors,
                   rest, todo>>

\* senstick_setIsConnected(false)
disconnect ==
    /\ Quiet /\ connected
    /\ \/ waitingForDFU /\ RestartAfterDFU
       \/ /\ ~waitingForDFU
          /\ connected' = FALSE
          /\ powered' = (powered /\ command # "shouldDeviceSleep")
          /\ UNCHANGED <<command, logCount, diskFull, waitingForDFU, flash, sensors,
                         led, unfinished, todo>>

\* senstickSensorControllerWriteSetting
writeSetting(s, c) ==
    /\ Quiet /\ connected /\ ~working /\ s \in Available
    /\ [setting EXCEPT ![s] = c] \in ClientSettings
    /\ setting' = [setting EXCEPT ![s] = c]
    /\ UNCHANGED <<working, writing, timer, mailbox, flash, model, rest, todo>>

\* The scheduler runs sched_event_handler.
dequeue ==
    /\ Quiet /\ mailbox # <<>>
    /\ todo' = <<Step("flashMailbox")>>
    /\ UNCHANGED <<flash, model, sensors, rest>>

\* TIMER2_IRQHandler, one sensor's turn; a full mailbox is a checked error.
sample(s) ==
    /\ timer /\ IsActive(s)
    /\ \/ Len(mailbox) = MailboxSize /\ Restart
       \/ /\ Len(mailbox) < MailboxSize
          /\ mailbox' = Append(mailbox, s)
          /\ UNCHANGED <<working, setting, writing, timer, flash, model, rest, todo>>

powerCut == Restart

-----------------------------------------------------------------------------
(* The main loop, once an event has given it something to do.              *)

Proceed ==
    \/ boot \/ countLogs
    \/ refuseCommand \/ acceptCommand \/ finishCommand \/ setDiskFull
    \/ startSensors_ \/ stopSensors_ \/ sensorsStopped
    \/ flashMailbox \/ storageFull
    \/ closeLog_ \/ eraseSettings \/ markSettings \/ saveSetting_ \/ formatLog_
    \/ closeMeta_ \/ writeMeta_ \/ eraseMeta \/ markMeta
    \/ unanswered

Next ==
    \/ Proceed
    \/ request \/ connect \/ disconnect \/ dequeue
    \/ \E s \in Sensors, c \in Settings : writeSetting(s, c)
    \/ \E s \in Sensors : sample(s)
    \/ powerCut

Fairness == WF_vars(Proceed) /\ WF_vars(dequeue)

Spec == Init /\ [][Next]_vars /\ Fairness
-----------------------------------------------------------------------------
(* What the firmware promises to a client, across commands and resets.     *)

\* The log that the sensors are recording is the last one.
Recording(id) == working /\ id = logCount - 1 /\ writing.log = id

\* A record that says "closed" is never ahead of its log: whenever power is
\* lost, every sensor's header of it has been written, because the sensor
\* controller observes a command before the metadata log does
\* (senstick_data_model.c:209-211).
ClosedLogsComplete ==
    ~unfinished =>
        \A id \in LogIDs : meta[id] = "closed" =>
            \A s \in Sensors : header[s][id] # Erased

\* Logs are closed twice when the disk becomes full while a stop flushes the
\* mailbox, but never with another size: no header is programmed over
\* a different one (senstick_sensor_controller.c:259, log_controller.c:68).
NoHeaderRuined ==
    \A s \in Sensors, id \in LogIDs : header[s][id] # Ruined

\* The ASSERTs of createLog (log_controller.c:30), openLog
\* (log_controller.c:61) and metaDataLogWrite
\* (metadata_log_controller.c:56) hold wherever they are met, if no format
\* of the storage was cut short.
AssertionsHold ==
    ~unfinished =>
        /\ At("startSensors") /\ ~working /\ Head(todo).logging
              => CanCreate(Head(todo).id)
        /\ At("writeMeta") => meta[Head(todo).id] = Erased
        /\ At("countLogs") /\ ClosedRecords > 0 => CanOpen(ClosedRecords - 1)

\* Between two events the sensors work exactly when the control point says
\* so, the sampling timer runs exactly then, and they have power.
CommandAgrees ==
    Quiet => /\ working <=> command = "sensorShouldWork"
             /\ timer <=> working
             /\ working => powered

\* A log that nobody records any more, or the last log ID used up, shows as
\* a full disk, so that recording is refused until a format: also when a
\* power cut ended the log (main.c:338-352, senstick_data_model.c:175).
FullIsFlagged ==
    Quiet /\ ~diskFull =>
        /\ \A id \in LogIDs : meta[id] = "open" => Recording(id)
        /\ logCount = MaxNumOfLog => Recording(logCount - 1)

\* While a log is recorded it has the highest ID in use: its headers and
\* those after it are erased, the logs before it are closed.
RecordingIsLast ==
    Quiet /\ working /\ ~unfinished =>
        \A id \in LogIDs : meta[id] = "open" =>
            /\ Recording(id)
            /\ \A s \in Sensors, j \in LogIDs : header[s][j] = Erased <=> j >= id
            /\ \A j \in LogIDs : j < id => meta[j] = "closed"

\* Nothing but a format takes a record back: it goes from erased to open to
\* closed, and a closed log's header stays what it is.
HistoryStep ==
    /\ \A id \in LogIDs : meta'[id] # meta[id] =>
          At("eraseMeta") \/ <<meta[id], meta'[id]>> \in
                                {<<Erased, "open">>, <<"open", "closed">>}
    /\ \A s \in Sensors, id \in LogIDs :
          meta[id] = "closed" /\ header'[s][id] # header[s][id] =>
              At("formatLog")
HistoryKept == [][HistoryStep]_vars

\* What a client finds of closed logs: as long as a header is left, the
\* records that say so, and each sensor's header of them.
ClosedLogs == {id \in LogIDs : meta[id] = "closed"}
Archived ==
    IF \A id \in ClosedLogs, s \in Sensors : header[s][id] = Erased THEN <<>>
    ELSE [id \in ClosedLogs |-> [s \in Sensors |-> header[s][id]]]

Store == INSTANCE Archive WITH logs <- Archived, Gone <- Erased

\* Closed logs are kept, each with every sensor's samples and behind the logs
\* before it, through nested commands, a full disk, logs that are closed twice
\* and a power cut at any flash operation.  That a log ends where the next one
\* starts rests on the ASSERTs of createLog and on the order of the observers
\* (log_controller.c:22-58, senstick_data_model.c:209-211).
ClosedLogsKept == Store!Spec

\* Every command that takes the place of "sensorShouldWork" stops the
\* sensors, however the flush of the mailbox goes; a reset stops them too.
StopCompletes == command # "sensorShouldWork" ~> ~working

-----------------------------------------------------------------------------
(* What comments and ASSERTs of the source say, and the code does not do.  *)

\* The device is powered unless its command is to sleep: "device was
\* sleeping, so power on" (senstick_data_model.c:199-200).
AwakeUnlessAsleep ==
    Quiet /\ command # "shouldDeviceSleep" => powered

\* The ASSERT of openLog: a log that has a record has a header
\* (log_controller.c:61).
OpenLogFindsHeader ==
    At("countLogs") /\ ClosedRecords > 0 => CanOpen(ClosedRecords - 1)

\* Only valid settings are loaded from flash
\* (senstick_sensor_controller.c:96).
LoadedSettingsAreValid ==
    \A s \in Sensors : setting[s] # Erased
=============================================================================
