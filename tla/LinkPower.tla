------------------------------ MODULE LinkPower ------------------------------
(***************************************************************************)
(* Connection, advertising and power of the device: what                   *)
(* senstick_data_model.c, main.c, app_gap.c, advertising_manager.c and     *)
(* ble_advertising of the SDK do as the device is put to sleep, woken and  *)
(* sent to the bootloader, against a SoftDevice whose events wait in a     *)
(* queue until the main loop handles them.                                 *)
(*                                                                         *)
(* Each handler is one action, and an operator on the record dev for every *)
(* function it calls.  Of the commands only awake (sensors at work or not, *)
(* formatting), asleep (shouldDeviceSleep) and DFU matter here, and that   *)
(* the flush of a recording can find its storage full: it then commands    *)
(* sensorShouldSleep inside the command under way.  A failed               *)
(* APP_ERROR_CHECK resets the device.                                      *)
(***************************************************************************)
EXTENDS Integers, SequencesExt

CONSTANTS
    NRF52,       \* the nRF52 firmware; else the one of the nRF51
    MaxEvents    \* bound: events that wait as the SoftDevice adds another

ASSUME LinkAssumption == NRF52 \in BOOLEAN /\ MaxEvents \in Nat

VARIABLES
    dev,      \* the firmware:
              \*   command    context.command
              \*   connected  is_connected
              \*   waiting    is_waiting_disconnect_for_dfu
              \*   flash, twi whether they have power
              \*   mode       m_adv_mode_current
              \*   pending    m_advertising_start_pending
              \*   slave      m_current_slave_link_conn_handle is set
              \*   up         no APP_ERROR_CHECK has failed
              \*   overtaken  history: the last command to sleep shut the
              \*              power down for a nested one, of a device that
              \*              is awake
              \* and of the SoftDevice:
              \*   adv        it advertises
              \*   link       "none", "up", or "closing": to be disconnected
              \* and, kept over a reset:
              \*   dfu        GPREGRET: the bootloader is asked for
    events,   \* the events that the main loop has not handled
    writes,   \* operations on the chip's own flash memory that are under way
    boot      \* "firmware", "reset" or "bootloader"

vars == <<dev, events, writes, boot>>

Modes == {"idle", "directed", "directedSlow", "fast", "slow"}

\* One connection at most, and no advertising beside it.
CanAdvertiseLinked(d) == ~d.adv    \* a mutant: beside a connection too
CanAdvertise(d) == ~d.adv /\ d.link = "none"

TypeOK ==
    /\ dev \in [command : {"awake", "asleep", "DFU"},
                mode : Modes, link : {"none", "up", "closing"},
                connected : BOOLEAN, waiting : BOOLEAN, flash : BOOLEAN,
                twi : BOOLEAN, pending : BOOLEAN, slave : BOOLEAN,
                up : BOOLEAN, overtaken : BOOLEAN, adv : BOOLEAN,
                dfu : BOOLEAN]
    /\ dev.adv => dev.link = "none"
    /\ Range(events) \subseteq
         {"connected", "disconnected", "advTimeout", "gattsTimeout"}
    /\ writes \in 0 .. 2
    /\ boot \in {"firmware", "reset", "bootloader"}

-----------------------------------------------------------------------------
(* Advertising.                                                            *)

NextMode(m) ==
    CASE m = "idle" -> "directed" [] m = "directed" -> "directedSlow"
      [] m = "directedSlow" -> "fast" [] m = "fast" -> "slow"
      [] m = "slow" -> "idle"

\* Directed advertising is not enabled.
Available(m) == IF m \in {"directed", "directedSlow"} THEN "fast" ELSE m

\* ble_advertising_start of a mode, while w flash operations are under way:
\* then it is put off.  A SoftDevice that advertises or has its connection
\* refuses; checked: the caller's APP_ERROR_CHECK sees that.
AdvertiseIn(d, m, w, checked) ==
    IF w > 0 THEN [d EXCEPT !.pending = TRUE, !.mode = m]
    ELSE IF CanAdvertise(d) THEN [d EXCEPT !.adv = TRUE, !.mode = Available(m)]
    ELSE [d EXCEPT !.mode = Available(m), !.up = @ /\ ~checked]

\* When the modes are exhausted, on_advertising_event starts slow again.
Advertise(d, m, w, checked) ==
    IF w = 0 /\ Available(m) = "idle" THEN AdvertiseIn(d, "slow", w, TRUE)
    ELSE AdvertiseIn(d, m, w, checked)

stopAdvertising(d)  == [d EXCEPT !.adv = FALSE]
\* It initialises ble_advertising, which forgets the connection.
startAdvertising(d) == Advertise([d EXCEPT !.slave = FALSE], "fast", writes, TRUE)

-----------------------------------------------------------------------------
(* Power and connection.                                                   *)

PowerUp(d)   == [d EXCEPT !.flash = TRUE, !.twi = TRUE]
PowerDown(d) == [d EXCEPT !.flash = FALSE, !.twi = FALSE]

\* sd_ble_gap_disconnect, and whether it fails.
Disconnect(d)       == [d EXCEPT !.link = IF @ = "up" THEN "closing" ELSE @]
DisconnectFails(d)  == d.link # "up"
CheckedDisconnect(d) == [Disconnect(d) EXCEPT !.up = @ /\ ~DisconnectFails(d)]

\* NVIC_SystemReset, or sd_nvic_SystemReset after a failed check.
Become(d) ==
    /\ dev' = d
    /\ boot' = IF d.up THEN boot ELSE "reset"

\* Waking up restores the power, and advertises anew.
WakeWithoutFlash(d) ==    \* a mutant: flashMemoryReleasePowerDown left out
    IF d.command = "asleep"
    THEN startAdvertising(stopAdvertising([d EXCEPT !.twi = TRUE,
                                                    !.overtaken = FALSE]))
    ELSE d
Wake(d) ==
    IF d.command = "asleep"
    THEN startAdvertising(stopAdvertising(
             PowerUp([d EXCEPT !.overtaken = FALSE])))
    ELSE d

\* shouldDeviceSleep.  Who is connected is disconnected first.  The command
\* may be another by now: a nested one.
Sleep(d) ==
    IF d.connected THEN Disconnect(d)
    ELSE PowerDown(stopAdvertising([d EXCEPT !.overtaken = (d.command = "awake")]))

\* startDFU.  The nRF51 leaves for the bootloader at once.
StartDFU(d) ==
    IF NRF52 /\ d.connected
    THEN Disconnect([d EXCEPT !.dfu = TRUE, !.waiting = TRUE])
    ELSE [d EXCEPT !.dfu = TRUE, !.up = FALSE]

\* sensorShouldSleep, commanded by the flush of an observer while the device
\* is given the command of d: one to sleep is taken for a sleep that is over.
Nested(d) == [Wake(d) EXCEPT !.command = "awake"]

\* senstick_setControlCommand; full: the flush finds the storage full.
setControlCommand(d, command, full) ==
    LET begun    == [Wake(d) EXCEPT !.command = command]
        observed == IF full THEN Nested(begun) ELSE begun
    IN  IF command = d.command THEN d
        ELSE IF ~observed.up THEN observed
        ELSE IF command = "asleep" THEN Sleep(observed)
        ELSE IF command = "DFU" THEN StartDFU(observed)
        ELSE observed

\* senstick_setIsConnected.
\* Mutants of it: without the reset for the bootloader, or without the power-down.
SetIsConnectedNoReset(d, value) ==
    IF d.command = "asleep" /\ ~value THEN PowerDown([d EXCEPT !.connected = value])
    ELSE [d EXCEPT !.connected = value]
SetIsConnectedPowered(d, value) ==
    [d EXCEPT !.connected = value, !.up = ~(d.waiting /\ ~value)]
setIsConnected(d, value) ==
    LET c == [d EXCEPT !.connected = value]
    IN  IF c.waiting /\ ~value THEN [c EXCEPT !.up = FALSE]
        ELSE IF c.command = "asleep" /\ ~value THEN PowerDown(c)
        ELSE c

-----------------------------------------------------------------------------
(* The main loop.                                                          *)

\* The button or the battery, or a client, which alone can ask for DFU.  Only
\* a device that is awake can have a recording to flush.
Command(command) ==
    /\ boot = "firmware"
    /\ command = "DFU" => dev.connected /\ dev.link # "none"
    /\ command # dev.command
    /\ \E full \in BOOLEAN :
          /\ full => dev.command = "awake"
          /\ Become(setControlCommand(dev, command, full))
    /\ UNCHANGED <<events, writes>>

Handle(event) ==
    /\ boot = "firmware" /\ events # <<>> /\ Head(events) = event
    /\ events' = Tail(events)
    /\ UNCHANGED writes

OnConnected ==
    /\ Handle("connected")
    /\ Become(setIsConnected([dev EXCEPT !.slave = TRUE], TRUE))

\* ble_advertising starts to advertise after a connection that it knows.
AfterLink(d) == IF d.slave THEN Advertise(d, "directed", writes, FALSE) ELSE d

DisconnectedStopped(d) ==    \* a mutant: advertising is not started again
    stopAdvertising(setIsConnected(AfterLink(d), FALSE))

\* diposeBLEEvent stops that to start with the current name, or to sleep.
Disconnected(d) ==
    LET s == stopAdvertising(setIsConnected(AfterLink(d), FALSE))
    IN  IF ~s.up \/ s.command = "asleep" THEN s ELSE startAdvertising(s)
OnDisconnected == Handle("disconnected") /\ Become(Disconnected(dev))

OnAdvTimeout ==
    /\ Handle("advTimeout")
    /\ Become(Advertise(dev, NextMode(dev.mode), writes, FALSE))

\* app_gap.c disconnects a client that does not answer, and on the nRF52
\* diposeBLEEvent once more.
OnGattsTimeout ==
    /\ Handle("gattsTimeout")
    /\ Become(IF NRF52 THEN CheckedDisconnect(CheckedDisconnect(dev))
              ELSE CheckedDisconnect(dev))

\* A client writes a name: app_gap_set_device_name erases and stores.
WriteDeviceName ==
    /\ boot = "firmware" /\ dev.connected /\ dev.link # "none" /\ writes = 0
    /\ writes' = 2
    /\ UNCHANGED <<dev, events, boot>>

\* disposeSystemEvent: an operation is done, and advertising that was put off
\* is started.
FlashOperationDone ==
    /\ boot = "firmware" /\ writes > 0
    /\ writes' = writes - 1
    /\ Become(IF dev.pending
              THEN Advertise([dev EXCEPT !.pending = FALSE], dev.mode,
                             writes - 1, FALSE)
              ELSE dev)
    /\ UNCHANGED events

-----------------------------------------------------------------------------
(* The SoftDevice and the clients.                                         *)

Room == Len(events) <= MaxEvents

ClientConnects ==
    /\ boot = "firmware" /\ dev.adv /\ Room
    /\ dev' = [dev EXCEPT !.adv = FALSE, !.link = "up"]
    /\ events' = Append(events, "connected")
    /\ UNCHANGED <<writes, boot>>

AdvertisingTimesOut ==
    /\ boot = "firmware" /\ dev.adv /\ Room
    /\ dev' = [dev EXCEPT !.adv = FALSE]
    /\ events' = Append(events, "advTimeout")
    /\ UNCHANGED <<writes, boot>>

LinkEnds(states) ==
    /\ boot = "firmware" /\ dev.link \in states
    /\ dev' = [dev EXCEPT !.link = "none"]
    /\ events' = Append(events, "disconnected")
    /\ UNCHANGED <<writes, boot>>

\* A client does not answer in time, once in a connection.
GattsTimesOut ==
    /\ boot = "firmware" /\ dev.link = "up" /\ Room
    /\ "gattsTimeout" \notin Range(events)
    /\ events' = Append(events, "gattsTimeout")
    /\ UNCHANGED <<dev, writes, boot>>

-----------------------------------------------------------------------------
\* main: the device works and advertises.
Booted(dfu) ==
    [command |-> "awake", connected |-> FALSE, waiting |-> FALSE,
     flash |-> TRUE, twi |-> TRUE, mode |-> "fast", pending |-> FALSE,
     slave |-> FALSE, up |-> TRUE, overtaken |-> FALSE, adv |-> TRUE,
     link |-> "none", dfu |-> dfu]

Init ==
    /\ dev = Booted(FALSE) /\ events = <<>> /\ writes = 0
    /\ boot = "firmware"

\* After a reset the bootloader goes on to the firmware, unless it is asked
\* to stay.
Boot ==
    /\ boot = "reset"
    /\ events' = <<>> /\ writes' = 0
    /\ dev' = Booted(dev.dfu)
    /\ boot' = IF dev.dfu THEN "bootloader" ELSE "firmware"

Handler == OnConnected \/ OnDisconnected \/ OnAdvTimeout \/ OnGattsTimeout

Next ==
    \/ \E c \in {"awake", "asleep", "DFU"} : Command(c)
    \/ Handler \/ WriteDeviceName \/ FlashOperationDone
    \/ ClientConnects \/ AdvertisingTimesOut \/ GattsTimesOut
    \/ LinkEnds({"up", "closing"})
    \/ Boot

\* The main loop handles its events, flash operations end, a disconnection
\* that was asked for takes place, and a reset leads to a boot.  Nobody has
\* to connect or to give a command.
Spec ==
    /\ Init /\ [][Next]_vars
    /\ WF_vars(Handler) /\ WF_vars(FlashOperationDone)
    /\ WF_vars(LinkEnds({"closing"})) /\ WF_vars(Boot)

-----------------------------------------------------------------------------
\* Whatever waits in the queues when it is put to sleep or woken, a device
\* that is awake has its flash memory and sensors powered
\* (senstick_data_model.c:199-205, 362-365); unless its command to sleep was
\* overtaken by the nested one of a full storage, which the outer half then
\* powers down (:234-237).
AwakeIsPowered ==
    boot = "firmware" /\ dev.command # "asleep" /\ ~dev.overtaken
        => dev.flash /\ dev.twi

\* A device that was told to sleep comes to rest without power, also when a
\* client was connected, or connects just then: unless it is woken.
SleepCompletes ==
    []<>(boot # "firmware" \/ dev.command # "asleep" \/ ~(dev.flash \/ dev.twi))

\* A device that is awake can be reached: it is connected, or advertises, or
\* comes back to it, however the events of the SoftDevice, the restarts of
\* advertising and the flash operations that put them off fall
\* (main.c:140-151, advertising_manager.c:18); with the same exception, whose
\* advertising senstick_data_model.c:235 has stopped.
Reachable ==
    []<>(boot # "firmware" \/ dev.command # "awake" \/ dev.overtaken
         \/ dev.adv \/ dev.link # "none")

\* Who asks for the bootloader gets it, over the disconnection that
\* startDFU waits for or any reset (senstick_data_model.c:355-359).
DFUEntered == (dev.dfu ~> boot = "bootloader")

-----------------------------------------------------------------------------
\* "If it is connected, the power is shut down when the disconnection is
\* complete" (senstick_data_model.c:232): who is connected finds a device
\* with power.  Not so when CONNECTED waits in the queue as the device is
\* put to sleep.
ConnectedIsPowered == boot = "firmware" /\ dev.connected => dev.flash /\ dev.twi
=============================================================================
