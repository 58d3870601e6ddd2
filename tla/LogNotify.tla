------------------------------ MODULE LogNotify ------------------------------
(***************************************************************************)
(* Reading logs back: the reading side of senstick_sensor_controller.c and *)
(* log_controller.c, sensor_service.c, the notification buffers and the    *)
(* event queue of the SoftDevice, and a client that reads as SenStickSDK   *)
(* does.                                                                   *)
(*                                                                         *)
(* Handlers run one after another in the main loop: each is one action.    *)
(* What they race with is the SoftDevice, which accepts writes, sends what *)
(* is buffered and loses the connection while events about it wait in its  *)
(* queue.  Positions and sizes are counted in samples, and what a packet   *)
(* carries is the log and the position its samples were read from.  The    *)
(* flash memory keeps what was written to it (LogStore), and headers of    *)
(* the logs below logCount are there (SenStickControl).                    *)
(***************************************************************************)
EXTENDS Integers, SequencesExt, FiniteSetsExt

CONSTANTS
    NumSensors,      \* NUM_OF_SENSORS (7); all of them are available
    MaxLogs,         \* bound: the logs that are recorded
    Capacity,        \* samples that the area of a sensor takes
    PerPacket,       \* samples in a notification of GATT_MAX_DATA_LENGTH
    TxSlots,         \* notifications the SoftDevice buffers (6 or 7)
    Starts,          \* the positions a client reads from
    Clients,         \* "SDK", "plain": how a client asks for a log
    Sessions,        \* "log", "notify": what the enabled sensors ask for
    StoredSizes      \* bound: sizes of a log found at boot

Sensors == 1 .. NumSensors
LogIDs  == 0 .. MaxLogs

ASSUME NotifyAssumption ==
    /\ {NumSensors, Capacity} \subseteq Nat
    /\ {MaxLogs, PerPacket, TxSlots} \subseteq Nat \ {0}
    /\ Starts \subseteq Nat /\ StoredSizes \subseteq 0 .. Capacity
    /\ Clients \subseteq {"SDK", "plain"}
    /\ Sessions \subseteq {"log", "notify"}

VARIABLES
    header,     \* per sensor and log ID, the flash memory: where the log ends
    logCount,   \* senstick_data_model.c: the next log ID
    diskFull,   \* senstick_data_model.c: is_disk_full
    session,    \* isSensorWorking: "none", or what the sensors work for
    writing,    \* writingLogContext[]
    reading,    \* readingLogContext[]
    pointer,    \* p_readingLogContext[]: "null", "writing" or "reading"
    notifying,  \* is_sensor_log_data_notifying of the sensor services
    linked,     \* SoftDevice: there is a connection,
    cccd,       \*   whose client has log data notifications on, per sensor,
    tx,         \*   what is to be sent, oldest first,
    events,     \*   and the events that the main loop has not handled
    ops, asked, \* client: its requests, and whether the first was sent
    view,       \* client: what it reads, as in LogRead
    up          \* the firmware has not stopped in APP_ERROR_CHECK

storage == <<header, logCount, session, diskFull>>
readers == <<writing, reading, pointer, notifying>>
client  == <<ops, asked, view>>
vars    == <<storage, readers, linked, cccd, tx, events, client, up>>

Context == [log : LogIDs, size : 0 .. Capacity, canWrite : BOOLEAN,
            ended : BOOLEAN, rpos : Nat, wpos : 0 .. Capacity]
Blank   == [log |-> 0, size |-> 0, canWrite |-> FALSE, ended |-> FALSE,
            rpos |-> 0, wpos |-> 0]
Idle    == [reading |-> FALSE, log |-> 0, next |-> 0, ended |-> FALSE]
Working == session # "none"

Op(kind, s) == [op |-> kind, sensor |-> s, log |-> 0, from |-> 0]
LogID(s, l, p) == [op |-> "logID", sensor |-> s, log |-> l, from |-> p]
Requests == {Op(k, s) : k \in {"on", "off"}, s \in Sensors}
            \cup {LogID(s, l, p) : s \in Sensors, l \in LogIDs, p \in Starts}

-----------------------------------------------------------------------------
(* Notifications.                                                          *)

Data(s, l, p, n) == [kind |-> "data", sensor |-> s, log |-> l, from |-> p,
                     count |-> n]
Other            == [kind |-> "other"]
Reply            == [kind |-> "reply"]

\* Answers to requests take no buffer of a notification.
Free(q) == TxSlots - Cardinality({i \in DOMAIN q : q[i] # Reply})

TypeOK ==
    /\ header \in [Sensors -> [LogIDs -> 0 .. Capacity]]
    /\ logCount \in 0 .. MaxLogs
    /\ session \in {"none", "log", "notify"}
    /\ {writing, reading} \subseteq [Sensors -> Context]
    /\ pointer \in [Sensors -> {"null", "writing", "reading"}]
    /\ {notifying, cccd} \subseteq [Sensors -> BOOLEAN]
    /\ {linked, asked, up, diskFull} \subseteq BOOLEAN
    /\ Free(tx) \in 0 .. TxSlots
    /\ ops \in Seq(Requests)
    /\ Range(events) \subseteq
         Requests \cup {Op("txComplete", 0), Op("disconnected", 0)}
    /\ view \in [Sensors -> [reading : BOOLEAN, log : LogIDs,
                             next : Nat \cup {-1}, ended : BOOLEAN]]

Limit(c) == IF c.canWrite THEN c.wpos ELSE c.size

\* What fillBLESensorData makes of a context until readLog finds nothing:
\* packets of up to PerPacket samples, and then, unless the log may still
\* grow, the end-of-data packet, which has none.
Packets(s, c) ==
    LET left == Max({0, Limit(c) - c.rpos})
        full == (left + PerPacket - 1) \div PerPacket
        done == IF c.canWrite THEN 0 ELSE 1
    IN  [i \in 1 .. full + done |->
            LET skipped == Min({left, (i - 1) * PerPacket})
            IN  Data(s, c.log, c.rpos + skipped,
                     Min({PerPacket, left - skipped}))]

\* The contexts, pointers and flags of the readers, and what is buffered.
Readers == [w |-> writing, r |-> reading, p |-> pointer, on |-> notifying,
            q |-> tx]
Become(d) ==
    /\ writing' = d.w /\ reading' = d.r /\ pointer' = d.p
    /\ notifying' = d.on /\ tx' = d.q

\* What a missing seekLog would make of a context.
AfterWithoutSeek(c, packets, n) ==
    LET p == packets[Min({n + 1, Len(packets)})]
    IN  [c EXCEPT !.rpos = p.from + p.count, !.ended = p.count = 0]

\* A context of which n packets were taken: what was read for the one that
\* sd_ble_gatts_hvx refuses is read again (seekLog).
After(c, packets, n) ==
    [c EXCEPT !.rpos  = packets[n].from + packets[n].count,
              !.ended = packets[n].count = 0]

\* notifyLogDataOfDevice and senstickSensorControllerNotifyLogData: the first
\* sensor that has something fills the buffers.
NotifyLogData(d) ==
    LET context(s) == IF d.p[s] = "writing" THEN d.w[s] ELSE d.r[s]
        packets(s) == IF d.on[s] /\ d.p[s] # "null" /\ ~context(s).ended
                         /\ linked /\ cccd[s]
                      THEN Packets(s, context(s)) ELSE <<>>
        taken(s)   == Min({Free(d.q), Len(packets(s))})
        able       == {s \in Sensors : taken(s) > 0}
        first      == Min(able)
        sent       == [d EXCEPT !.q = @ \o SubSeq(packets(first), 1, taken(first))]
        after      == After(context(first), packets(first), taken(first))
    IN  IF able = {} THEN d
        ELSE IF d.p[first] = "writing" THEN [sent EXCEPT !.w[first] = after]
        ELSE [sent EXCEPT !.r[first] = after]

\* setValueAndNotify of the control service: n values are notified to a
\* client that has these notifications on, as SenStickSDK has.
Status(d, n) ==
    IF linked
    THEN [d EXCEPT !.q = @ \o [i \in 1 .. Min({n, Free(@)}) |-> Other]]
    ELSE d

-----------------------------------------------------------------------------
(* The control commands, as far as they concern the readers.               *)

\* A log starts where the one before it ends (startAddress of its header).
LogStart(s, l) == IF l = 0 THEN 0 ELSE header[s][l - 1]
LogSize(s, l)  == header[s][l] - LogStart(s, l)

\* createLog: the new log takes the rest of the area.
NewContext(s) ==
    [Blank EXCEPT !.log = logCount, !.canWrite = TRUE,
                  !.size = Capacity - LogStart(s, logCount)]

\* sensorShouldWork: command and log count are notified.  Sensors that only
\* notify leave the writing contexts as they are.
Start(kind) ==
    /\ up /\ ~Working /\ ~diskFull
    /\ session' = kind
    /\ IF kind = "log"
       THEN /\ logCount < MaxLogs
            /\ logCount' = logCount + 1
            /\ Become(Status([Readers EXCEPT
                                !.w = [s \in Sensors |-> NewContext(s)]], 2))
       ELSE Become(Status(Readers, 1)) /\ UNCHANGED logCount
    /\ UNCHANGED <<header, diskFull, linked, cccd, events, client, up>>

\* What stopLogging would do if it forgot the readers.
StopWithoutReaders(d) ==
    [d EXCEPT !.w = [s \in Sensors |-> [d.w[s] EXCEPT !.size = d.w[s].wpos]]]

\* stopLogging: the logs are closed, canWrite stays set, and who reads a
\* writing context goes on with a copy of it (reOpenLog).
StopLogging(d) ==
    LET shut == [s \in Sensors |-> [d.w[s] EXCEPT !.size = d.w[s].wpos]]
    IN  [d EXCEPT
           !.w = shut,
           !.r = [s \in Sensors |-> IF d.p[s] = "writing"
                     THEN [shut[s] EXCEPT !.canWrite = FALSE] ELSE d.r[s]],
           !.p = [s \in Sensors |-> IF d.p[s] = "writing"
                     THEN "reading" ELSE d.p[s]]]

\* What stopping the sensors does, after d.
StopAfter(d) ==
    /\ session' = "none"
    /\ IF session = "log"
       THEN /\ Become(StopLogging(d))
            /\ header' = [s \in Sensors |->
                             [header[s] EXCEPT ![logCount - 1] =
                                 LogStart(s, logCount - 1) + d.w[s].wpos]]
       ELSE Become(d) /\ UNCHANGED header

\* sensorShouldSleep, and the other commands that stop the sensors.
Stop ==
    /\ up /\ Working
    /\ StopAfter(Status(Readers, 1))
    /\ UNCHANGED <<logCount, diskFull, linked, cccd, events, client, up>>

\* formattingStorage.  A client that reads gives up.  Bound: no request of
\* it is being answered.
Format ==
    /\ up /\ ~asked
    /\ header' = [s \in Sensors |-> [l \in LogIDs |-> 0]]
    /\ logCount' = 0 /\ session' = "none" /\ diskFull' = FALSE
    /\ Become(Status([Readers EXCEPT !.p = [s \in Sensors |-> "null"]], 4))
    /\ view' = [s \in Sensors |-> Idle]
    /\ UNCHANGED <<linked, cccd, events, ops, asked, up>>

\* writeLog finds room for a sample.
RoomOffByOne(c) == c.wpos <= c.size
RoomFor(c) == c.wpos < c.size

\* flash_mailbox takes a sample that is logged.  When the area is full the
\* sensors are stopped and the disk is flagged full.
Write(s) ==
    /\ up /\ session = "log"
    /\ IF RoomFor(writing[s])
       THEN /\ Become(NotifyLogData([Readers EXCEPT !.w[s].wpos = @ + 1]))
            /\ UNCHANGED <<header, session, diskFull>>
       ELSE /\ StopAfter(Status(NotifyLogData(Readers), 2))
            /\ diskFull' = TRUE
    /\ UNCHANGED <<logCount, linked, cccd, events, client, up>>

-----------------------------------------------------------------------------
(* The handlers of BLE events, in the main loop.                           *)

\* The first event is of one of these kinds, and is taken from the queue.
Handle(kinds) ==
    /\ up /\ events # <<>> /\ Head(events).op \in kinds
    /\ events' = Tail(events)

Kinds == {"on", "off", "logID", "txComplete", "disconnected"}

\* A checked SoftDevice call on a connection that is gone fails, and
\* APP_ERROR_CHECK resets the device.
Fail == up' = FALSE /\ UNCHANGED <<storage, readers, linked, cccd, tx, client>>

\* A write to a CCCD of log data.  The control service, which sees every
\* write, reads the value written first, in a checked call.
OnWrite ==
    /\ Handle({"on", "off"})
    /\ LET e == Head(events)
       IN  IF ~linked THEN Fail
           ELSE /\ Become(NotifyLogData(
                       [Readers EXCEPT !.on[e.sensor] = (e.op = "on")]))
                /\ UNCHANGED <<storage, linked, cccd, client, up>>

\* senstickSensorControllerWriteLogID.
WriteLogID(d, s, l, p) ==
    IF l >= logCount THEN [d EXCEPT !.p[s] = "null"]
    ELSE IF Working /\ d.w[s].log = l
    THEN [d EXCEPT !.p[s] = "writing", !.w[s].rpos = p]
    ELSE [d EXCEPT !.p[s] = "reading",
                   !.r[s] = [Blank EXCEPT !.log = l, !.size = LogSize(s, l),
                                          !.rpos = p]]

\* An authorised write is carried out and answered, and logs are notified.
OnRWAuthReq ==
    /\ Handle({"logID"})
    /\ LET e       == Head(events)
           written == WriteLogID(Readers, e.sensor, e.log, e.from)
       IN  IF ~linked THEN Fail
           ELSE /\ Become(NotifyLogData([written EXCEPT !.q = Append(@, Reply)]))
                /\ UNCHANGED <<storage, linked, cccd, client, up>>

OnTxComplete ==
    /\ Handle({"txComplete"})
    /\ Become(NotifyLogData(Readers))
    /\ UNCHANGED <<storage, linked, cccd, client, up>>

\* The services forget their flags; the pointers stay.
OnDisconnected ==
    /\ Handle({"disconnected"})
    /\ Become([Readers EXCEPT !.on = [s \in Sensors |-> FALSE]])
    /\ UNCHANGED <<storage, linked, cccd, client, up>>

-----------------------------------------------------------------------------
(* The client and the SoftDevice.                                          *)

\* writeLogID of SenStickSDK switches the notifications off, writes the log
\* ID, reads the metadata (which changes nothing) and switches them on;
\* another client may just write the ID.  Bound: earlier requests are
\* answered.  What comes of an earlier read is no longer of interest.
StartToReadLog(s, l, p) ==
    /\ linked /\ ops = <<>>
    /\ \/ /\ "SDK" \in Clients
          /\ ops' = <<Op("off", s), LogID(s, l, p), Op("on", s)>>
       \/ "plain" \in Clients /\ ops' = <<LogID(s, l, p)>>
    /\ view' = [view EXCEPT ![s] = Idle]
    /\ UNCHANGED <<storage, readers, linked, cccd, tx, events, asked, up>>

\* One request at a time is sent.  The SoftDevice sets and acknowledges a
\* CCCD itself; the others wait for the handler.
Send ==
    /\ linked /\ up /\ ops # <<>> /\ ~asked
    /\ asked' = TRUE
    /\ LET e == Head(ops)
       IN  /\ events' = Append(events, e)
           /\ IF e.op \in {"on", "off"}
              THEN cccd' = [cccd EXCEPT ![e.sensor] = (e.op = "on")]
                   /\ tx' = Append(tx, Reply)
              ELSE UNCHANGED <<cccd, tx>>
    /\ UNCHANGED <<storage, readers, linked, ops, view, up>>

\* What a client that reads makes of a packet of its sensor: anything but
\* the next samples, or an end it has not been told yet, loses it (-1).
Seen(v, p) ==
    IF ~v.reading THEN v
    ELSE IF v.ended \/ p.log # v.log
            \/ (p.count > 0 /\ p.from # v.next)
    THEN [v EXCEPT !.next = -1]
    ELSE IF p.count = 0 THEN [v EXCEPT !.ended = TRUE]
    ELSE [v EXCEPT !.next = @ + p.count]

\* The oldest packet reaches the client.  A notification frees its buffer,
\* of which the firmware is told.
Deliver ==
    /\ linked /\ up /\ tx # <<>>
    /\ tx' = Tail(tx)
    /\ LET p == Head(tx)
           done == Op("txComplete", 0)
       IN  /\ IF p = Reply
              THEN LET e == Head(ops)
                   IN  /\ ops' = Tail(ops) /\ asked' = FALSE
                       /\ view' = IF e.op # "logID" THEN view
                                  ELSE [view EXCEPT ![e.sensor] =
                                          [reading |-> TRUE, log |-> e.log,
                                           next |-> e.from, ended |-> FALSE]]
                       /\ UNCHANGED events
              ELSE /\ events' = IF done \in Range(events) THEN events
                                ELSE Append(events, done)
                   /\ view' = IF p = Other THEN view
                              ELSE [view EXCEPT ![p.sensor] = Seen(@, p)]
                   /\ UNCHANGED <<ops, asked>>
    /\ UNCHANGED <<storage, readers, linked, cccd, up>>

\* What was buffered is lost with the connection.
LoseLink ==
    /\ linked /\ up
    /\ linked' = FALSE /\ tx' = <<>>
    /\ cccd' = [s \in Sensors |-> FALSE]
    /\ events' = Append(events, Op("disconnected", 0))
    /\ ops' = <<>> /\ asked' = FALSE
    /\ view' = [s \in Sensors |-> Idle]
    /\ UNCHANGED <<storage, readers, up>>

\* The device advertises again when it has handled the disconnection, and
\* SenStickSDK switches the notifications on as it finds the services.
Connect ==
    /\ ~linked /\ up /\ events = <<>>
    /\ linked' = TRUE
    /\ ops' = [s \in Sensors |-> Op("on", s)]
    /\ UNCHANGED <<storage, readers, cccd, tx, events, asked, view, up>>

-----------------------------------------------------------------------------
Init ==
    /\ header \in {h \in [Sensors -> [LogIDs -> StoredSizes \cup {0}]] :
                     \A s \in Sensors, l \in LogIDs : l > 0 => h[s][l] = 0}
    /\ logCount \in {0, 1}
    /\ logCount = 0 => \A s \in Sensors : header[s][0] = 0
    /\ session = "none" /\ diskFull = FALSE
    /\ writing = [s \in Sensors |-> Blank] /\ reading = writing
    /\ pointer = [s \in Sensors |-> "null"]
    /\ notifying = [s \in Sensors |-> FALSE] /\ cccd = notifying
    /\ linked = FALSE /\ tx = <<>> /\ events = <<>>
    /\ ops = <<>> /\ asked = FALSE
    /\ view = [s \in Sensors |-> Idle]
    /\ up = TRUE

Handler == OnWrite \/ OnRWAuthReq \/ OnTxComplete \/ OnDisconnected

Next ==
    \/ \E kind \in Sessions : Start(kind)
    \/ Stop \/ Format
    \/ \E s \in Sensors : Write(s)
    \/ Handler
    \/ \E s \in Sensors, l \in LogIDs, p \in Starts : StartToReadLog(s, l, p)
    \/ Send \/ Deliver \/ LoseLink \/ Connect

\* The main loop handles its events, the radio sends what is buffered, and
\* the client goes on with the requests it has made.  Nothing else has to
\* happen: nobody has to record, to ask or to connect.
Spec == Init /\ [][Next]_vars /\ WF_events(Handle(Kinds))
             /\ WF_vars(Deliver) /\ WF_vars(Send)

-----------------------------------------------------------------------------
\* The samples of a log: those written so far, or what its header says.
SamplesOf(s, l) ==
    CASE l >= logCount                        -> 0
      [] session = "log" /\ l = logCount - 1 -> writing[s].wpos
      [] OTHER                                -> LogSize(s, l)

Reads == INSTANCE LogRead WITH
            recording <- session = "log",
            length    <- [s \in Sensors |-> [l \in LogIDs |-> SamplesOf(s, l)]],
            Positions <- Starts \cup 0 .. Capacity

\* Whatever the client, the buffers and the link do, and if the recording it
\* reads goes on, ends or fills the storage in between, a client gets the
\* samples of the log it has asked for, in order and each once, and the end
\* of data after the last of a closed log and only there: seekLog after a
\* notification that was not taken, didSendEndOfDataPacket and the change of
\* contexts in stopLogging (senstick_sensor_controller.c:158-213, 351-364).
ReadsAreFaithful == Reads!Spec

\* The client has asked for a log that exists and is not written any more,
\* and has not been told its end.
Waiting(s) ==
    /\ up /\ linked /\ pointer[s] # "null"
    /\ view[s].reading /\ ~view[s].ended
    /\ ~(session = "log" /\ view[s].log = logCount - 1)

\* Every read comes to its end: "the end of the data is always sent"
\* (SenStickSensorService.swift:223), also when the reader had caught up with
\* the recording before it was stopped, where only the completion of the
\* notified command makes the device look at its readers again.
ReadEnds == \A s \in Sensors : []<>~Waiting(s)

\* What SenStickSDK takes for the end of the data is sent where reading finds
\* nothing more in the log (senstick_sensor_controller.c:187).  Not so while
\* the sensors work without recording: the log that the writing context
\* happens to name, log 0 after a boot, is read from that context.
EndOfDataIsEnd == Reads!EndMeansAll
=============================================================================
