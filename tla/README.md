# SenStick in TLA+

SenStick is a Bluetooth sensor logger: seven sensors, sampled by a timer
interrupt, whose samples are notified to a client and recorded in a 32 MB flash
memory. This directory holds TLA+ models of its firmware (`src/firmware`), the
TLC configurations that check them on small instances, and proofs for TLAPS.

The recording is what the device exists for, so the models begin there: what
keeps a log whole from the interrupt to the flash cell, across full areas,
commands that nest, and power cuts. From there they go outwards: how a client
reads a log back, the link and the power it hangs on, the button, the LED and
the clock.

## The system

| component | state | operations | hard because |
|---|---|---|---|
| log store (`log_controller.c`) | headers and data of each sensor's area; a writing context | formatLog, createLog, writeLog, closeLog, openLog, reOpenLog, readLog, seekLog | sectors are erased one ahead, while writing |
| flash driver (`spi_slave_mx25_flash_memory.c`) | the memory; powered down or not | writeFlash, readFlash, formatFlash, erase4kSector, power-down | page and sector arithmetic; cuts in the middle |
| control data model (`senstick_data_model.c`) | command, log count, disk-full flag, connection | setControlCommand and its observers, setButtonStatus, setIsConnected, startDFU | commands nest; order of the observers |
| sensor controller (`senstick_sensor_controller.c`) | settings, contexts, mailbox, flags | start and stop, flash_mailbox, the interrupt, settings, reading logs back | runs in an interrupt and in the main loop |
| metadata log (`metadata_log_controller.c`) | one record per log | write, close, count, format, read | has to agree with the sensors' headers after any cut |
| triggered sensors (`brightness_sensor_base.c`, `humidity_sensor_base.c`) | a phase | getSensorDataHandler | waits are counted from when a sample was due |
| BLE services and link (`*_service.c`, `main.c`, `advertising_manager.c`, `app_gap.c`) | handles, notification flags, advertising | writes, authorised reads, connect, disconnect, timeouts | events are queued behind commands |
| button and LED (`gpio_button_monitoring.c`, `gpio_led_driver.c`, the SDK's `app_button` and `app_timer`) | status of the press, blink pattern, timers | edges, debouncing, expiries | handlers wait in the scheduler while timers are stopped and pins change |
| clock (`senstick_rtc.c`) | seconds, the last reading of a 24-bit counter | set, get, a timer | the counter wraps, readings come at any time |
| battery service | level | a request to sleep | |
| motor service, TWI manager, sensor drivers | bus state | transfers | shared bus and power |
| bootloaders, iOS SDK and viewer | | | outside the firmware |

How they interact. Everything but one interrupt runs in the main loop, which
hands out BLE events, timer expiries, button events and scheduled tasks one
after another (`app_sched_execute`, `main.c:362-373`). A control command comes
from a client, from the button, from the battery at level 0, or from
`flash_mailbox` itself when an area is full, and then inside another command.
`senstick_setControlCommand` calls its observers in a fixed order: the sensor
controller (headers, settings), the metadata log (records), the LED. TIMER2's
interrupt reads the sensors, puts samples into a mailbox and adds a task that
empties it. A failing ASSERT or checked error restarts the device
(`main.c:67-92`), as does power loss; only the flash memory survives.

What makes each part correct:

- log store: what a closed log holds never changes; a write only programs
  erased cells; no area touches its neighbour.
- control, sensors and metadata: a record that says "closed" has all its
  headers; log IDs are used in order; a full disk is never forgotten, not even
  by a reboot; the sensors do what the command says.
- interrupt and mailbox: no sample is written to another recording's log or
  left behind; whoever reads the flag `isDequeueTaskRunning` can trust it.
- accumulators: a recording keeps its rate however long it goes on.
- mailbox size: enough for the erasures that fall together (it is not, on the
  nRF51).
- reading logs back: exactly the log's samples, in order, then one end packet,
  also when the log is closed, filled up or formatted under the reader.
- link and power: who is awake has power and can be reached (but for one nested
  command); who is told to sleep comes to rest; who asks for the bootloader
  gets it.
- button and LED: what the button settles in is reported, and no short press
  formats the storage; the LED shows who is awake (with the same exception).
- clock: never ahead, behind by fractions of a second only.

`PROJECT.json` lists every component, and every hazard at its line.

## Modules

| module | models | composes |
|---|---|---|
| `LogStore` | one sensor's area to the byte, through the flash driver | |
| `LogStoreProofs` | theorems about `LogStore` | |
| `Archive` | what becomes of closed logs: an abstract specification | |
| `SenStickControl` | commands, observers, headers, records, settings, boot, power cuts | implements `Archive` |
| `SenStickControlProofs` | theorems about `SenStickControl` | |
| `SamplingPipeline` | the interrupt against the steps of `flash_mailbox` | |
| `SamplingPipelineProofs` | theorems about `SamplingPipeline` | |
| `SamplingClock` | when a sensor is read: accumulators and phases | |
| `SamplingClockProofs` | theorems about `SamplingClock` | |
| `MailboxBudget` | the depth of the mailbox while the memory erases | `SamplingClock` |
| `LogRead` | what reading logs back promises: the abstract specification | |
| `LogNotify` | reading contexts, notification, the buffers and events of the SoftDevice, a client | implements `LogRead` |
| `LogNotifyProofs` | theorems about `LogNotify` | `LogRead` |
| `LinkPower` | connection, advertising, sleep, DFU, power, against queued events | |
| `LinkPowerProofs` | theorems about `LinkPower` | |
| `ButtonLED` | the button, the LED, their timers, the main loop that lags | |
| `ButtonLEDProofs` | theorems about `ButtonLED` | |
| `SenStickRTC` | the clock | |
| `SenStickRTCProofs` | theorems about `SenStickRTC` | |
| `MC...` | instances of these for TLC | |

Plausible errors of the code are kept next to the operator they are errors of
(`...Unflushed`, `...Overlapping`, ...); each is a definition that no
specification uses. `PROJECT.json` pairs each with the property it breaks: that
the property notices is the evidence that it says something.

### LogStore

One cell is one byte. An area is a header sector, data sectors, and the gap
sector before the next area (`senstick_flash_address_definition.h`). `ctx` is
the `log_context_t` being written; `op` is the flash operation under way:
`writeFlash` is split into the page programs and sector erasures its loop
makes, `formatLog` into its two sectors, and a power cut may come inside any of
them and leave junk in the cells the operation was changing. A cell holds which
byte of which log it is, so that "reads back what was written" is a statement
about cells. `createLog` has its ASSERTs and its caller's promise (a recording
that was cut short is followed by no other before a format) as guards;
`SenStickControl` models the callers and checks the promise, as `FullIsFlagged`
and `AssertionsHold`.

### SenStickControl

`todo` is the call stack: the steps that the handler under way has still to
take. A call pushes the called function's steps, so the command that
`flash_mailbox` issues runs between the right two steps of the command around
it. A step ends at each flash operation, since there a power cut makes a
difference. `Proceed` is the main loop inside a handler; requests arrive when
`todo` is empty, the sampling interrupt at any time.

Choices: a failing ASSERT or checked error is a restart, as in the nRF51 build
(`DEBUG_NRF_USER`); the nRF52 build compiles ASSERTs out and would go on, for
example programming a header over another. DFU waits for the disconnection, as
the nRF52 build does. A request while the memory is powered down runs into
`waitFlashReady`'s time-out, a restart. Addresses are counted in samples from
the start of an area; of a header only its start and size together matter, so
`header` keeps where the log ends, which is what `createLog` takes of the header
before. Reading contexts, advertising and the LED's pattern are left out.

`Archived` is what a client could find of closed logs: where each of them ends
in each area, as long as any header is left. It is the `logs` of `Archive`,
which knows nothing of commands: a log is added as a whole and behind the
others, a format takes the logs of one sensor or all of them, and nothing else
happens. After a format that was cut short, what is left gets no further log;
that the device does not even boot then is the finding `format_cut`.

### SamplingPipeline

The interrupt comes between any two steps of `flash_mailbox`: `get` takes a
sample, `write` writes it or finds the area full, `drain` empties the mailbox
for the nested command, `clear` clears the flag. `callers` says what
`flash_mailbox` returns to. Samples are marked with their recording (a bit is
enough, since consecutive recordings have to be told apart), which makes "its
own log" a statement. `AtMostOneInTheWindow` states the one assumption on
time: of two interrupts, 10 ms apart, at most one falls into the few
instructions between leaving the loop and clearing the flag.

### SamplingClock and MailboxBudget

`SamplingClock` has the 16-bit accumulators of the interrupt and the phases of
the triggered sensors. Time is counted in ticks of 10 ms; conversions are
compared with the time since their trigger (`waited`). `TimesAssumption` says
how the waits, the conversions and the shortest period of a sensor go together.
TLC evaluates it for the brightness sensor and for sensors without phases; that
the humidity sensor's times satisfy it (waits of 20 and
32 ms for conversions of 15 and 11, periods of 200 ms and more) has been checked by hand.

`MailboxBudget` lets nothing but erasures take time: page programs, waiting for
them, SPI transfers and BLE work are free. So its depths are lower bounds of the
device's, and it is there to refute, not to show that a size suffices: an
overflow in it is an overflow in the device. It starts a recording on logs of
which `Recorded` milliseconds are in the flash memory already, with the
accumulators at 0 as a stop right after a sample of every sensor leaves them.
That is one of many possible starts, which is enough for a counterexample.

`NoDrift` allows a sample that is late for the sake of its phases: then the
accumulator has lost a period and gained at most one tick per phase since the
start or the last sample. At a period of 10 ms a sensor without phases is read
at every tick, and keeps what it is behind; it never falls further behind.

### LogRead and LogNotify

`LogRead` says what a client may count on: per sensor, `view` is the log it
reads, the position it has come to and whether it was told the end. `Receive`
only ever advances by samples that are in the log, in order; `End` only comes
when the log is closed and the position at its end.

`LogNotify` has the code's side of it: the two `log_context_t` of each sensor
and the pointer to one of them, `didSendEndOfDataPacket`, the notification flag
of each service, `isNotificationRunning` (within one action), and of the
SoftDevice the buffers (`tx`), the CCCDs and the queue of events. One action is
one handler, with everything it calls: `NotifyLogData` fills the buffers from
the first sensor that has something, and what `sd_ble_gatts_hvx` refuses is
read again. Between two handlers packets arrive, requests come in, and the
link is lost with events about it still queued. The client asks as
`SenStickSDK`'s `writeLogID` does, or just writes the ID. What it makes of the
packets (`Seen`) is the `view` of the refinement: a packet out of order, of
another log, or after the end sets the position to -1, which `LogRead` never
does. `header` keeps where a log ends, as in `SenStickControl`; `Reads` maps
`length` to the samples written so far to the open log, and the size that the
headers give to the others, and `Positions` to the places of an area and those
that clients ask for.

Left out: real-time notifications, other services, the metadata that the client
reads. Writing past the end of the area cannot be asked for; positions beyond
the end can.

### LinkPower

The record `dev` is what the firmware and the SoftDevice know; each function of
the code is an operator on it, and each handler an action that composes them in
the code's order, so that `Disconnected` really stops what `AfterLink` has
started a moment before. `setControlCommand` has the command that the flush of
an observer may nest in it (`Nested`, `full`): inside the command to sleep it
wakes the device, and then `Sleep`, the outer half, stops advertising and takes
the power. `overtaken` remembers that until the next sleep or boot.
`AwakeIsPowered` and `Reachable` except it, since the code breaks both there: the
device stays awake by its command, without power and without advertising, until
it is told to sleep and woken. Without the exception TLC refutes both. A checked
call that fails sets `up` to FALSE, and the device boots anew. `writes` counts operations on the chip's own flash, during
which `ble_advertising_start` puts itself off. One reset leads to the bootloader
if GPREGRET asks for it; the bootloader does not come back.

Of the commands only awake, asleep and DFU are told apart. `sd_ble_gap_adv_stop`
is unchecked, `sd_ble_gap_adv_start` fails beside an advertiser or the one
connection. `NRF52` chooses the second disconnect of a GATTS timeout; the run
has it, and passes without it too. With `NRF52` FALSE `StartDFU` leaves for the
bootloader at once, as the nRF51 does.

### ButtonLED

Time is counted in ticks. A timer that expires puts its handler into the
scheduler's queue, which stopping the timer does not empty; `mainLoop` takes
handlers out one at a time, and may lag by `Latency` ticks. `Edge` is the
interrupt of `app_button`: a second edge before the first is reported takes the
first back. It comes also between the steps of `app_button`'s own handler:
`detection_delay_timeout_handler` clears the transition, `readPin` reads the
level, and `report` compares and reports (`handler` is how far it is).
`EdgeUnstopped` and `EdgeUnstarted` are the returns on a full queue of
`app_timer`. A device may be started with the button down.

Ghosts: `since` is the time since the press that is taken up began, `held` that
since the last edge, `steady` whether the level before that edge had stood as
long as debouncing and the main loop take. `HeldIsReported` speaks of a level that
has stood for that long after another that had: less will not do, because an
edge between `app_button.c:53` and `:54` is reported at once in place of the one
before, and the next one takes it back, so that the button's state is the
opposite of the pin's until the next press. Nothing is said of an edge at which
`app_timer` failed and of the one after it ("losing a button press", as the
comment there has it).

The commands of a press are `CommandsOf`; which of them the state of the
recording permits is `SenStickControl`'s matter. `setControlCommand` has the
nested command, as in `LinkPower`: the LED hears of sensorShouldSleep first and
of shouldDeviceSleep afterwards, and is dark although the device is awake.
`SignOfLife` excepts that (`overtaken`); without the exception TLC refutes it.

### SenStickRTC

`now` is the true time in ticks of the counter; `readAt`, `setAt`, `date` and
`readings` are ghosts from which the properties measure the clock. The timer's
handler is late by at most `Latency`. `mktime` and `localtime` are the C
library's, without leap days; what the code does with the months is in
`mktime` and `localtime` as they are called.

## Runs

| run | shows | bounds |
|---|---|---|
| `log_store` | closed and open logs read back, writes meet erased cells, through every cut | 2 data sectors of 2 pages of 2 bytes, 3 logs, writes of up to 3 bytes: a write may start, end or step over each kind of boundary |
| `control` | logs, records, flags and settings agree through nested commands and reboots; `SenStickControl` implements `Archive` | 2 sensors with room for 2 samples, 2 logs, a mailbox of 1: the area and the log IDs run out in either order |
| `control_liveness` | commands that end a recording do stop the sensors | 1 of 2 sensors available, a mailbox of 2, so that the drain has something to drain |
| `format_cut` | violated: a cut inside the format command makes every later boot fail | as `control` |
| `nested_sleep` | violated: the command nested in the one to sleep leaves a device awake without power | as `control`, a mailbox of 1 |
| `pipeline` | samples reach their own recording; the flag means a task; no sample is forgotten | 2 sensors, mailbox for 2 interrupts, a scheduler queue of 3 that other events can fill |
| `sampling_clock` | the brightness sensor never falls behind and is read early only if it was late | the real times; periods 100 (refused), 200, 215 and 500 ms |
| `log_read` | `LogNotify` implements `LogRead`; every read of a closed log ends | 1 sensor, area of 2 samples, 1 sample per packet, 1 buffer, 2 logs, one of them found at boot or not, both kinds of client: a reader can be ahead of, level with and behind the recording, and every packet can be refused |
| `notify_read` | violated: while the sensors only notify, log 0 is read from the blank writing context | the same with a log of 2 samples found at boot |
| `rtc` | the clock is never ahead and loses fractions only | a counter of 16 ticks, 4 to a second, a timer of half a turn that is up to 7 ticks late (one less than the limit), 3 turns |
| `link` | power, reachability, sleep, DFU | up to 5 queued events (`MaxEvents` = 4 when one is added), up to 2 flash operations |
| `button` | levels that stand are reported; short presses do not format; the LED goes on blinking | debouncing 1 tick, long press 3, very long 2 more, LED and pause 2 and 1, a lag of 1: as long as the debouncing, so that handlers of a press wait for the next one (TLC refutes `HeldLongEnough` at these numbers too) |

Two sensors are enough wherever sensors only differ in being first or second in
a loop, full or not, available or not. Two logs are enough to have one before
and one after; two recordings differ by a bit. `MaxLate` bounds `SamplingClock`:
stopping a recording in the middle of a conversion lets `sensorSampling` grow
with every restart, and no start is made above the bound. `ClientSettings`
bounds the settings a client writes.

Fairness. `SenStickControl` assumes weak fairness of `Proceed` (the main loop
goes on with the handler it is in) and of `dequeue` (`app_sched_execute` runs
after every event). `SamplingPipeline` assumes the same of `mainLoop`, and that
TIMER2 goes on interrupting while it runs. `LogNotify` assumes it of the event
handlers, of the radio that sends what is buffered while there is a link, and of
the client's sending of requests it has made; `LinkPower` of the handlers, of
the chip's flash operations, of a disconnection that was asked for, and of the
boot after a reset; `ButtonLED` of time, of timers that expire and of the main
loop. No fairness is assumed of commands, clients that might ask, presses,
power or full areas.

Three statements depend on time. The erasure of a sector takes 30 ms typically
and 120 ms at 85 degrees
(`src/docs/注意書き_センサーサンプリング周期について.txt`).

- `NoOverflow` is refuted with the latter (`MCBudgetNotes.cfg`).
- `HeldLongEnough` is refuted as soon as the main loop is held up for as long as
  the debouncing takes, 50 ms (`MCShortPress.cfg`): one erasure of 120 ms does, or
  two of 30 ms in a row, as every format and many a stop have them. It is no
  rare case.
- `FormatIsHeld` is true, and proved, while the main loop is held up for less than
  the timers of a press run, 2 s. The longest work of one handler is a format
  that stops a recording, of seventeen sectors: 0.5 s typically, 2.04 s if every
  erasure takes 120 ms. In that extreme the statement is not shown.

`HeldIsReported` is true of any lag, and measures time in it.

## Findings

Three have a violation run, and the line it contradicts in `PROJECT.json`:

1. `format_cut`: a power cut inside the format command leaves records without
   headers, and the boot sequence stops at an ASSERT each time (the cut in the
   format of the first boot, `main.c:333`, does the same to createLog's ASSERT);
2. `notify_read`: while the sensors work without recording,
   `senstick_sensor_controller.c:663` compares the ID of the log to be read with
   that of a writing context nobody writes. After a boot it is blank and names
   log 0, which then reads as empty;
3. `nested_sleep`: shouldDeviceSleep stops the recording, the flush of the mailbox
   finds an area full, and `sensor_controller.c:267` commands sensorShouldSleep.
   The inner call takes it for a wake-up; the outer one then stops the LED's timer
   (`senstick_data_model.c:212`) and, when nobody is connected, advertising (:235),
   the bus and the flash memory (:236-237). The device is awake by its command,
   dark, silent and without power; a recording started by the button runs into the
   time-out of `waitFlashReady`, which restarts it.

The others are kept as configurations beside the runs; TLC finds a
counterexample with each (`tlc -config X.cfg MCModule`):

| configuration | module | refutes | what happens |
|---|---|---|---|
| `MCSettingsCut.cfg` | `MCSenStickControl` | `LoadedSettingsAreValid` | a power cut inside saveSensorSetting makes erased bytes settings |
| `MCLogGap.cfg` | `MCSamplingPipeline` | `NoGapInLog` | a sensor with room loses drained samples and records the next one, although the notes promise that none is lost |
| `MCEarlyRead.cfg` | `MCSamplingClock` | `ConversionWaited` | a conversion that was to be waited for 150 ms is read 20 ms after its trigger when the recording before was stopped in mid-conversion and the period shortened |
| `MCBudgetNotes.cfg` | `MCMailboxBudget` | `NoOverflow` | the notes (line 24) allow periods of 40 ms at erasures of 120 ms, and `senstick_sensor_controller.c:38` and :619-621 reckon with three sensors: five (three at 40 ms, two at 200 ms) whose sectors end together need more than the 40 places of the nRF51's mailbox, and the device restarts in the middle of the recording |
| `MCConnectedIsPowered.cfg` | `MCLinkPower` | `ConnectedIsPowered` | CONNECTED is queued as the device is put to sleep: the client stays connected to a device whose flash memory and bus are powered down |
| `MCShortPress.cfg` | `MCButtonLED` | `HeldLongEnough` | while the main loop erases, the handlers of a taken-back edge and of the last press's timer wait together: the next press is a long one as soon as it begins (2 s in `gpio_button_monitoring.c:18-19`), and its release puts the device to sleep |
| `MCAsleepIsDark.cfg` | `MCButtonLED` | `AsleepIsDark` | the LED's handler is queued as its timer is stopped: the LED stays lit for the whole sleep |
| `MCDateIsRead.cfg` | `MCSenStickRTC` | `DateIsRead` | months are not converted between BLE's 1 to 12 and tm_mon's 0 to 11: 31 January is read back as a day in month 2 |

Seen and without a configuration: the period 32767 that the settings take is
never reached by the 16-bit accumulator; the error of `app_sched_event_put` in
the interrupt is dropped, after which the flag stands for no task
(`FlagMeansTask` has the exception); an authorised write or a CCCD write that
is handled after its connection is gone fails a checked call and restarts the
device, in the middle of a recording too (`Fail` of `LogNotify`).

## Proofs

An inductive invariant stands in the module of its proof. The configurations
`MCLogStoreIInv.cfg`, `MCControlIInv.cfg` and `MCClockIInv.cfg` (of the modules of
these names) have TLC check three of them, which says nothing that the proofs do
not, but says it before a proof is tried.

`LogStoreProofs` proves for every sector size, page size, area size, number of
logs and write length that satisfy `SizeAssumption` and `MarkAssumption`:
`Spec => []IInv`, and from it `TypeOK`, `ClosedLogsIntact`, `OpenLogReadable`,
`LogsTile`, `NeighbourUntouched`, and the action properties
`ProgramsErasedCellsOnly` and `HeadersAreFinal`.

Why the invariant is what it is: `ClosedLogsIntact` alone is not inductive,
because an erasure could reach a closed log. `LogsOrdered` and `OpenLogLast`
place the closed logs before the cursor of the open one; `ErasedFrom(Cursor)`
says that the rest of the cursor's sector is erased, which is what erasing ahead
keeps true, and `ErasedAhead` says the same of the place where the next log will
start, which is what carries it across the end of a recording. `OperationFits`
ties the flash operation under way to the session. The arithmetic (a page does
not cross a sector, a chunk does not cross a page) is in the lemmas at the top.

`SamplingPipelineProofs` proves for every number of sensors, mailbox and queue
size that satisfy `PipelineAssumption`: `Spec => []IInv`, and from it `TypeOK`,
`OwnRecording`, `StoppedIsDrained` and `FlagMeansTask`. `OwnRecording` needs
`MailboxIsCurrent` (what is taken belongs to the recording), and that needs
`StoppedIsDrained` when a recording starts. `StoppedIsDrained` is kept by the
last step of `flash_mailbox` because of `StopsAreQuiet`: whoever stops the
sensors has shut the timer down before, so a mailbox found empty has stayed
empty. `CallsFit` bounds the nesting: the nested stop sets the command that keeps
`flash_mailbox` from nesting again. `WritesASample` gives the sensor of the sample
under way its type.

`SenStickRTCProofs` proves for every frequency, counter width, timer period and
delay that satisfy `RTCAssumption` (period and delay together stay below a
turn): `TypeOK`, `NeverAhead`, `LosesFractionsOnly` and `EveryTurnSeen`. The
invariant ties the counter to the time (`previous_rtc_value` is `readAt` modulo
the turn) and the last reading to the timer (`due` is at most a period later);
then what `updateCurrentTime` computes modulo the turn is the true difference.
The calendar does not matter to it: `mktime` stays unexpanded.

`LinkPowerProofs` proves `TypeOK` and `AwakeIsPowered` for both chips and any
number of queued events, with the nested command in the model: power goes only
under the command to sleep, or in `Sleep` under another, which sets `overtaken`
(`SleepSound`); the next wake-up gives it back. Its lemmas follow the code's
functions: what each operator does to power, command and advertising, once,
from which every handler follows. The advertising part of `TypeOK` (never beside
a connection) is kept because `CanAdvertise` guards the only place that starts
it.

`ButtonLEDProofs` proves `TypeOK` and `HeldIsReported` for every delay, period
and latency, with edges between the steps of the handler and a failing
`app_timer`. The invariant: an edge to be reported has its timer running or its
handler waiting, and how long each may still take (`EdgesAreTimed`); so the
handler is not at work on a button that has settled (`HandlerIsTimely`), an edge
of a settled button is noted as what it is, and the handler that comes to it
finds the pin as it was noted (`EdgeIsReported`).

It proves `FormatIsHeld` for every delay and period that exceeds the latency
(`Latency < LongPush`, `Latency < VeryLongPush`; see above for what that means).
The push timer's handler waits at most once (`PushTimer`): the timer would have to
run out while the last expiry waits. A press lacks at most what its timer has
left (`PushIsHeld`), and a handler that waits when the press has become a long
one is that press's own (`LongIsHeld`). What waits while the press is short may be
the last press's, which is how the counterexample of `MCShortPress.cfg` comes
about.

`SenStickControlProofs` proves for every number of sensors, logs and available
sensors, every size of areas and mailbox and any settings a client may choose
(`ControlAssumption`) every safety property of the run `control`: `TypeOK`,
`ClosedLogsComplete`, `NoHeaderRuined`, `CommandAgrees`, `AssertionsHold`,
`FullIsFlagged`, `RecordingIsLast`, the action property `HistoryKept`, and that
`SenStickControl` implements `Archive` (`ClosedLogsKept`). The
properties are not inductive alone, because what each says of a quiet device
depends on what the handler under way has still to do:

- `InOrder(todo)`: which step may come before which on the call stack, so that a
  step pushed by a nested command is done before those of the command around it;
- `Due`: what holds as long as a step is pending, for example that a
  `startSensors` still to come means sensors that do not work yet and, if they
  are to log, a record still to be written;
- `HeadersBeforeClose`: as long as a record is still to be closed, each header of
  its log is there, or is about to be written by a step before; `ClosedLogsComplete`
  rests on it, and a power cut at any step leaves it at that;
- `RecordsInOrder`, `HeadersHaveRecords`, `LogsCounted`: records, headers and
  `logCount` agree up to the one log that a step pending is about;
- `WritingFits`: the writing context has room, and is that of a log without
  headers or with those it would write again, which is why the second close of a
  log does no harm (`NoHeaderRuined`);
- `SensorsFollow`, `PowerFits`, `NestedForFullDisk`: how far sensors and power are
  behind the command, and that only a full disk nests one command in another;
- `FormatFits`: how far a format has come.

The proof goes through the actions one by one; the lemmas before them say what
pushing and taking steps does to `InOrder`, `Has` and `Due`.

The refinement needs more than `IInv`: that the headers of an area are there one
after the other and in rising order (`HeadersInRow`). A close writes a header
behind that of the log before only if that one exists, and it does because a log
is begun only where createLog's ASSERT has found it (`LogFollows`). Both are
`RowInv`, which is inductive given `IInv`. Then `closeMeta` adds a whole log to
`Archived`, or finds all headers erased because it is part of a format
(`FormatFits`); the second close of a log changes nothing; every other step
leaves `Archived` alone or takes logs away.

`SamplingClockProofs` proves for any sensors whose times satisfy
`TimesAssumption`, any 16-bit periods and any `MaxLate` the two properties of the
run `sampling_clock`: `NoDrift` and `EarlyOnlyWhenLate`. Its invariant bounds the
accumulator from above only: `Paced` says how far a sensor can have come since
its last sample in the phase it is in, `Waited` that the time since the trigger
of a conversion is no less than what the accumulator tells. So a wrap-around,
which lowers the accumulator by 65536, does no harm to either property (it makes
a sensor read too rarely, see Findings).

`LogNotifyProofs` proves for every number of sensors, logs and buffers, every
size of areas and packets, any starting positions and both kinds of clients that
`LogNotify` keeps its types, and that it implements `LogRead`
(`ReadsAreFaithful`, the property of the run `log_read`), step by step: each
action is a step of `LogRead` or none. From the steps of `LogRead` it follows
that no client is told an end that is not (`EndOfDataIsEnd`): a client told the
end has all of a log, and that log is not the open one (`EndInv`).

The last two assume `Sessions \subseteq {"log"}`: the sensors that are started do
record. This is a restriction of what is proved, and a necessary one; where
they only notify, `notify_read` refutes both. `TypeOK` needs no such hypothesis.
`MaxLogs` is at least 1 because the device may find a log at boot.

The invariant for the types, `TypeInv`, has `AreasFit` (each log ends within its
area and after the one before), `WritersFit` and `RequestsFit` (of the requests
answered in turn at most one waits for its answer). That of the refinement,
`ReadInv`, adds for each sensor
`Fits`, that a context which is read from is that of a log there is, with its
limit (only the open log is read from a writing context), and `Foreseen`: if the
client takes in what is buffered, packet after packet, each is the one it waits
for (`Follows`), and then it is where the context is that the next packet is made
of (`Meets`). So a refused packet is read again (`seekLog`), an end packet is
sent once (`didSendEndOfDataPacket`), and a log that is closed, or formatted,
with packets of it under way, does not mislead its client. `PacketsInOrder` is the
lemma that what one call of `notifyLogDataOfDevice` makes continues where the
context is; `FollowsBatch` that this carries the client to where `After` puts
the context.

What stays with TLC: liveness under fairness (`StopCompletes`, `MailboxServed`,
`ReadEnds`, `SleepCompletes`, `Reachable`, `DFUEntered`, `SignOfLife`), which is
out of the prover's reach.

Not settled: whether the mailbox of 255 suffices on the nRF52. With erasures
alone, 272 places are needed if the sector ends of all seven sensors coincide at
periods of 10 ms; which alignments a device can reach, and what page programs,
the SPI bus and BLE add, would have to be known.

## Not modelled

Still worth modelling: an authorised request to a sensor that is not available,
which nobody answers, and the metadata that is read back (the remaining storage
during a recording, the date of the record after the last).

Left out for good: registers, scaling and bus transfers of the sensors, byte
order, the motor service (a write passed on to the bus), the manual flash test,
the SPI commands, bonding, the vendor's stack, examples and bootloaders (most
of `src/nRF5_SDK_12` and the other SDK copies are not part of this firmware),
the apps. They are I/O or data without state of their own, or not built into
the device.
