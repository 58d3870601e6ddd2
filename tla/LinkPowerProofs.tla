--------------------------- MODULE LinkPowerProofs ---------------------------
(***************************************************************************)
(* Proofs about LinkPower: its types, and that a device that is awake has  *)
(* the power of its flash memory and its sensors, but for the one case     *)
(* that AwakeIsPowered names, for either firmware and any number of        *)
(* events that wait.                                                       *)
(***************************************************************************)
EXTENDS LinkPower, SequenceTheorems, TLAPS

Device ==
    [command : {"awake", "asleep", "DFU"},
     mode : Modes, link : {"none", "up", "closing"},
     connected : BOOLEAN, waiting : BOOLEAN, flash : BOOLEAN,
     twi : BOOLEAN, pending : BOOLEAN, slave : BOOLEAN, up : BOOLEAN,
     overtaken : BOOLEAN, adv : BOOLEAN, dfu : BOOLEAN]

\* A device whose advertising excludes a connection.
Sound(d) == d \in Device /\ (d.adv => d.link = "none")

EventKinds == {"connected", "disconnected", "advTimeout", "gattsTimeout"}

\* e is d but for its advertising, connection and failed checks.
SamePower(d, e) ==
    /\ e.command = d.command /\ e.overtaken = d.overtaken
    /\ e.flash = d.flash /\ e.twi = d.twi

Powered(d) == d.command # "asleep" /\ ~d.overtaken => d.flash /\ d.twi

\* The inductive invariant: also that the events are a sequence, which what
\* is appended and taken from it requires.
IInv ==
    /\ Sound(dev)
    /\ events \in Seq(EventKinds)
    /\ writes \in 0 .. 2
    /\ boot \in {"firmware", "reset", "bootloader"}
    /\ AwakeIsPowered

-----------------------------------------------------------------------------
LEMMA AdvertiseInSound ==
    ASSUME NEW d, Sound(d), NEW m \in Modes, NEW w, NEW checked \in BOOLEAN
    PROVE  Sound(AdvertiseIn(d, m, w, checked))
           /\ SamePower(d, AdvertiseIn(d, m, w, checked))
  <1>1. Available(m) \in Modes
    BY DEF Available, Modes
  <1>. QED
    BY <1>1, ZenonT(60)
       DEF AdvertiseIn, CanAdvertise, Sound, Device, SamePower

LEMMA AdvertiseSound ==
    ASSUME NEW d, Sound(d), NEW m \in Modes, NEW w, NEW checked \in BOOLEAN
    PROVE  Sound(Advertise(d, m, w, checked))
           /\ SamePower(d, Advertise(d, m, w, checked))
  <1>1. "slow" \in Modes
    BY DEF Modes
  <1>. QED
    BY <1>1, AdvertiseInSound DEF Advertise

LEMMA RestartSound ==
    ASSUME NEW d, Sound(d)
    PROVE  /\ Sound(stopAdvertising(d)) /\ SamePower(d, stopAdvertising(d))
           /\ Sound(startAdvertising(d)) /\ SamePower(d, startAdvertising(d))
  <1>1. "fast" \in Modes
    BY DEF Modes
  <1>2. Sound(stopAdvertising(d)) /\ SamePower(d, stopAdvertising(d))
    BY DEF stopAdvertising, Sound, Device, SamePower
  <1>. DEFINE e == [d EXCEPT !.slave = FALSE]
  <1>3. Sound(e) /\ SamePower(d, e)
    BY DEF Sound, Device, SamePower
  <1>. HIDE DEF e
  <1>4. Sound(Advertise(e, "fast", writes, TRUE))
        /\ SamePower(d, Advertise(e, "fast", writes, TRUE))
    BY <1>1, <1>3, AdvertiseSound, ZenonT(60) DEF SamePower
  <1>. QED
    BY <1>2, <1>4 DEF startAdvertising, e

LEMMA DisconnectSound ==
    ASSUME NEW d, Sound(d)
    PROVE  /\ Sound(Disconnect(d)) /\ SamePower(d, Disconnect(d))
           /\ Sound(CheckedDisconnect(d)) /\ SamePower(d, CheckedDisconnect(d))
  BY ZenonT(60) DEF Disconnect, CheckedDisconnect, DisconnectFails, Sound,
                    Device, SamePower

\* Waking up gives a device that sleeps its power back.
LEMMA WakeSound ==
    ASSUME NEW d, Sound(d), Powered(d)
    PROVE  Sound(Wake(d)) /\ (~Wake(d).overtaken => Wake(d).flash /\ Wake(d).twi)
  <1>1. CASE d.command = "asleep"
    <2>. DEFINE e == PowerUp([d EXCEPT !.overtaken = FALSE])
    <2>1. Sound(e) /\ e.flash /\ e.twi
      BY DEF PowerUp, Sound, Device
    <2>. HIDE DEF e
    <2>2. Sound(stopAdvertising(e)) /\ SamePower(e, stopAdvertising(e))
      BY <2>1, RestartSound
    <2>3. Sound(startAdvertising(stopAdvertising(e)))
          /\ SamePower(stopAdvertising(e), startAdvertising(stopAdvertising(e)))
      BY <2>2, RestartSound
    <2>4. Wake(d) = startAdvertising(stopAdvertising(e))
      BY <1>1 DEF Wake, e
    <2>. QED
      BY <2>1, <2>2, <2>3, <2>4 DEF SamePower
  <1>2. CASE d.command # "asleep"
    BY <1>2 DEF Wake, Powered
  <1>. QED
    BY <1>1, <1>2

\* Going to sleep powers down a device that is awake only when it is noted.
LEMMA SleepSound ==
    ASSUME NEW d, Sound(d), Powered(d), d.command # "DFU"
    PROVE  Sound(Sleep(d)) /\ Powered(Sleep(d))
  <1>1. CASE d.connected
    <2>1. Sound(Disconnect(d)) /\ SamePower(d, Disconnect(d))
      BY DisconnectSound
    <2>. QED
      BY <1>1, <2>1 DEF Sleep, SamePower, Powered
  <1>2. CASE ~d.connected
    <2>. DEFINE e == [d EXCEPT !.overtaken = (d.command = "awake")]
               t == stopAdvertising(e)
    <2>1. Sound(e) /\ (e.command # "asleep" => e.overtaken)
      BY DEF Sound, Device
    <2>2. Sound(t) /\ SamePower(e, t)
      BY <2>1, RestartSound
    <2>3. t \in Device /\ (t.adv => t.link = "none")
          /\ (t.command # "asleep" => t.overtaken)
      BY <2>1, <2>2 DEF SamePower, Sound
    <2>. HIDE DEF t
    <2>4. Sound(PowerDown(t)) /\ Powered(PowerDown(t))
      BY <2>3 DEF PowerDown, Sound, Device, Powered
    <2>. QED
      BY <1>2, <2>4 DEF Sleep, t
  <1>. QED
    BY <1>1, <1>2

LEMMA DFUSound ==
    ASSUME NEW d, Sound(d), Powered(d)
    PROVE  Sound(StartDFU(d)) /\ Powered(StartDFU(d))
  <1>. DEFINE asked == [d EXCEPT !.dfu = TRUE, !.waiting = TRUE]
             left  == [d EXCEPT !.dfu = TRUE, !.up = FALSE]
  <1>1. Sound(asked) /\ SamePower(d, asked)
    BY DEF Sound, Device, SamePower
  <1>2. Sound(Disconnect(asked)) /\ SamePower(asked, Disconnect(asked))
    BY <1>1, DisconnectSound
  <1>3. Sound(left) /\ SamePower(d, left)
    BY DEF Sound, Device, SamePower
  <1>. QED
    BY <1>1, <1>2, <1>3 DEF StartDFU, SamePower, Powered

LEMMA CommandSound ==
    ASSUME NEW d, Sound(d), Powered(d),
           NEW command \in {"awake", "asleep", "DFU"}, NEW full \in BOOLEAN
    PROVE  Sound(setControlCommand(d, command, full))
           /\ Powered(setControlCommand(d, command, full))
  <1>. DEFINE begun    == [Wake(d) EXCEPT !.command = command]
             observed == IF full THEN Nested(begun) ELSE begun
  <1>1. Sound(begun) /\ Powered(begun) /\ begun.command = command
    BY WakeSound DEF Sound, Device, Powered
  <1>2. Sound(Nested(begun)) /\ Powered(Nested(begun))
        /\ Nested(begun).command = "awake"
    <2>. HIDE DEF begun
    <2>. DEFINE woken == Wake(begun)
    <2>1. Sound(woken) /\ (~woken.overtaken => woken.flash /\ woken.twi)
      BY <1>1, WakeSound
    <2>. HIDE DEF woken
    <2>2. LET n == [woken EXCEPT !.command = "awake"]
          IN  Sound(n) /\ Powered(n) /\ n.command = "awake"
      BY <2>1 DEF Sound, Device, Powered
    <2>. QED
      BY <2>2 DEF Nested, woken
  <1>3. /\ Sound(observed) /\ Powered(observed)
        /\ observed.command \in {command, "awake"}
    BY <1>1, <1>2
  <1>. HIDE DEF observed
  <1>4. command = "asleep" => Sound(Sleep(observed)) /\ Powered(Sleep(observed))
    BY <1>3, SleepSound
  <1>5. Sound(StartDFU(observed)) /\ Powered(StartDFU(observed))
    BY <1>3, DFUSound
  <1>. QED
    BY <1>3, <1>4, <1>5 DEF setControlCommand, observed

LEMMA ConnectionSound ==
    ASSUME NEW d, Sound(d), Powered(d), NEW value \in BOOLEAN
    PROVE  Sound(setIsConnected(d, value)) /\ Powered(setIsConnected(d, value))
  BY DEF setIsConnected, PowerDown, Sound, Device, Powered

LEMMA DisconnectedSound ==
    ASSUME NEW d, Sound(d), Powered(d)
    PROVE  Sound(Disconnected(d)) /\ Powered(Disconnected(d))
  <1>. DEFINE a == AfterLink(d)
             c == setIsConnected(a, FALSE)
             s == stopAdvertising(c)
  <1>1. Sound(a) /\ Powered(a)
    <2>. DEFINE e == Advertise(d, "directed", writes, FALSE)
    <2>1. "directed" \in Modes
      BY DEF Modes
    <2>2. Sound(e) /\ SamePower(d, e)
      BY <2>1, AdvertiseSound
    <2>. QED
      BY <2>2 DEF AfterLink, SamePower, Powered
  <1>2. Sound(c) /\ Powered(c)
    BY <1>1, ConnectionSound
  <1>3. Sound(s) /\ Powered(s)
    BY <1>2, RestartSound DEF SamePower, Powered
  <1>4. Sound(startAdvertising(s)) /\ Powered(startAdvertising(s))
    BY <1>3, RestartSound DEF SamePower, Powered
  <1>. QED
    BY <1>3, <1>4 DEF Disconnected

\* What every handler ends in: the device is in order and stays or resets.
LEMMA BecomeKeeps ==
    ASSUME NEW d, Sound(d), Powered(d), Become(d),
           boot \in {"firmware", "reset", "bootloader"}
    PROVE  /\ Sound(dev)' /\ AwakeIsPowered'
           /\ boot' \in {"firmware", "reset", "bootloader"}
  BY DEF Become, AwakeIsPowered, Powered, Sound

LEMMA HandleKeeps ==
    ASSUME IInv, NEW e, Handle(e)
    PROVE  /\ events' \in Seq(EventKinds) /\ writes' \in 0 .. 2
           /\ boot = "firmware" /\ Powered(dev)
  BY HeadTailProperties DEF IInv, Handle, AwakeIsPowered, Powered

LEMMA AppendKeeps ==
    ASSUME IInv, NEW e \in EventKinds, events' = Append(events, e)
    PROVE  events' \in Seq(EventKinds)
  BY AppendProperties DEF IInv

-----------------------------------------------------------------------------
LEMMA InitIInv == Init => IInv
  BY EmptySeq DEF Init, Booted, IInv, Sound, Device, Modes, AwakeIsPowered

LEMMA StepIInv == IInv /\ [Next]_vars => IInv'
  <1>. SUFFICES ASSUME IInv, [Next]_vars PROVE IInv'
    OBVIOUS
  <1>. USE DEF IInv
  <1>1. ASSUME NEW c \in {"awake", "asleep", "DFU"}, Command(c) PROVE IInv'
    <2>1. Powered(dev)
      BY <1>1 DEF Command, AwakeIsPowered, Powered
    <2>2. PICK full \in BOOLEAN : Become(setControlCommand(dev, c, full))
      BY <1>1 DEF Command
    <2>3. Sound(setControlCommand(dev, c, full))
          /\ Powered(setControlCommand(dev, c, full))
      BY <2>1, CommandSound
    <2>. QED
      BY <1>1, <2>2, <2>3, BecomeKeeps DEF Command
  <1>2. CASE OnConnected
    <2>. DEFINE e == [dev EXCEPT !.slave = TRUE]
    <2>1. Sound(e) /\ Powered(e)
      BY <1>2, HandleKeeps DEF OnConnected, Sound, Device, Powered
    <2>2. Sound(setIsConnected(e, TRUE)) /\ Powered(setIsConnected(e, TRUE))
      BY <2>1, ConnectionSound
    <2>. QED
      BY <1>2, <2>2, HandleKeeps, BecomeKeeps DEF OnConnected
  <1>3. CASE OnDisconnected
    <2>1. Sound(Disconnected(dev)) /\ Powered(Disconnected(dev))
      BY <1>3, HandleKeeps, DisconnectedSound DEF OnDisconnected
    <2>. QED
      BY <1>3, <2>1, HandleKeeps, BecomeKeeps DEF OnDisconnected
  <1>4. CASE OnAdvTimeout
    <2>. DEFINE a == Advertise(dev, NextMode(dev.mode), writes, FALSE)
    <2>1. NextMode(dev.mode) \in Modes
      BY DEF NextMode, Modes, Sound, Device
    <2>2. Sound(a) /\ Powered(a)
      BY <1>4, <2>1, HandleKeeps, AdvertiseSound
         DEF OnAdvTimeout, SamePower, Powered
    <2>. QED
      BY <1>4, <2>2, HandleKeeps, BecomeKeeps DEF OnAdvTimeout
  <1>5. CASE OnGattsTimeout
    <2>. DEFINE once == CheckedDisconnect(dev)
               twice == CheckedDisconnect(once)
    <2>1. Powered(dev)
      BY <1>5, HandleKeeps DEF OnGattsTimeout
    <2>2. Sound(once) /\ Powered(once)
      BY <2>1, DisconnectSound DEF SamePower, Powered
    <2>3. Sound(twice) /\ Powered(twice)
      BY <2>2, DisconnectSound DEF SamePower, Powered
    <2>4. Become(once) \/ Become(twice)
      BY <1>5 DEF OnGattsTimeout
    <2>. QED
      BY <1>5, <2>2, <2>3, <2>4, HandleKeeps, BecomeKeeps DEF OnGattsTimeout
  <1>6. CASE WriteDeviceName
    BY <1>6 DEF WriteDeviceName, AwakeIsPowered, Sound
  <1>7. CASE FlashOperationDone
    <2>. DEFINE e == [dev EXCEPT !.pending = FALSE]
               a == Advertise(e, dev.mode, writes - 1, FALSE)
    <2>1. Powered(dev) /\ dev.mode \in Modes
      BY <1>7 DEF FlashOperationDone, AwakeIsPowered, Powered, Sound, Device
    <2>2. Sound(e) /\ Powered(e)
      BY <2>1 DEF Sound, Device, Powered
    <2>3. Sound(a) /\ Powered(a)
      BY <2>1, <2>2, AdvertiseSound DEF SamePower, Powered
    <2>4. Become(a) \/ Become(dev)
      BY <1>7 DEF FlashOperationDone
    <2>5. writes' \in 0 .. 2 /\ events' = events
      BY <1>7 DEF FlashOperationDone
    <2>. QED
      BY <2>1, <2>3, <2>4, <2>5, BecomeKeeps
  <1>8. CASE ClientConnects
    <2>1. events' \in Seq(EventKinds)
      BY <1>8, AppendKeeps DEF ClientConnects, EventKinds
    <2>. QED
      BY <1>8, <2>1 DEF ClientConnects, AwakeIsPowered, Sound, Device
  <1>9. CASE AdvertisingTimesOut
    <2>1. events' \in Seq(EventKinds)
      BY <1>9, AppendKeeps DEF AdvertisingTimesOut, EventKinds
    <2>. QED
      BY <1>9, <2>1 DEF AdvertisingTimesOut, AwakeIsPowered, Sound, Device
  <1>10. CASE GattsTimesOut
    <2>1. events' \in Seq(EventKinds)
      BY <1>10, AppendKeeps DEF GattsTimesOut, EventKinds
    <2>. QED
      BY <1>10, <2>1 DEF GattsTimesOut, AwakeIsPowered, Sound
  <1>11. CASE LinkEnds({"up", "closing"})
    <2>1. events' \in Seq(EventKinds)
      BY <1>11, AppendKeeps DEF LinkEnds, EventKinds
    <2>. QED
      BY <1>11, <2>1 DEF LinkEnds, AwakeIsPowered, Sound, Device
  <1>12. CASE Boot
    BY <1>12, EmptySeq
       DEF Boot, Booted, AwakeIsPowered, Sound, Device, Modes
  <1>13. CASE UNCHANGED vars
    BY <1>13 DEF vars, AwakeIsPowered, Sound
  <1>. QED
    BY <1>1, <1>2, <1>3, <1>4, <1>5, <1>6, <1>7, <1>8, <1>9, <1>10, <1>11,
       <1>12, <1>13 DEF Next, Handler

-----------------------------------------------------------------------------
\* The state of the firmware and of the SoftDevice keeps its types, and a
\* device that advertises has no connection, whichever of the three starts of
\* advertising comes when (advertising_manager.c:18-53, main.c:141-147).
THEOREM TypeCorrect == Spec => []TypeOK
  <1>1. IInv => TypeOK
    BY RangeOfSeq DEF IInv, TypeOK, Sound, Device, EventKinds, Range
  <1>. QED
    BY <1>1, InitIInv, StepIInv, PTL DEF Spec

\* However connections, timeouts, commands and resets fall, a device that is
\* awake has powered its flash memory and its sensors
\* (senstick_data_model.c:199-205, 362-365).  The only exception is a command
\* to sleep whose flush found the storage full: nothing else leads to it.
THEOREM PoweredWhileAwake == Spec => []AwakeIsPowered
  <1>1. IInv => AwakeIsPowered
    BY DEF IInv
  <1>. QED
    BY <1>1, InitIInv, StepIInv, PTL DEF Spec
=============================================================================
