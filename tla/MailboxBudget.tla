--------------------------- MODULE MailboxBudget ----------------------------
(***************************************************************************)
(* How deep the mailbox gets while the flash memory is busy erasing.       *)
(*                                                                         *)
(* TIMER2_IRQHandler puts the samples of SamplingClock into the mailbox    *)
(* (senstick_sensor_controller.c); flash_mailbox takes one after the other *)
(* and writes it to its sensor's log.  A write that fills a sector starts  *)
(* the erasure of the next one (writeFlash, erase4kSector), and the next   *)
(* write waits until the memory is ready (waitFlashReady).  Everything     *)
(* else is taken to need no time, page programs and the bus too: what      *)
(* overflows here overflows in the device, while a mailbox that suffices   *)
(* here may still be too small.                                            *)
(***************************************************************************)
EXTENDS SamplingClock

CONSTANTS
    SampleSize,    \* per sensor, the bytes of a sample
    SectorSize,    \* SECTOR_SIZE
    MailboxSize,   \* MAILBOX_QUEUE_SIZE
    EraseTicks,    \* how many ticks an erasure takes
    Recorded       \* milliseconds of the recording before this one, a multiple
                   \* of every period

VARIABLES
    mailbox,     \* the sensors whose samples are in the mailbox, oldest first
    held,        \* the sensor whose sample flash_mailbox is writing, or 0
    filled,      \* the bytes that are in the sector a log's end is in
    busy,        \* ticks until the memory is ready
    overflowed   \* a put found the mailbox full: the device restarts

budgetVars == <<mailbox, held, filled, busy, overflowed>>
vars == <<clockVars, budgetVars>>

\* A recording has just been started, with the periods that were written.
\* The one before it was the first on formatted memory, and its logs are
\* followed by those of this one.  It was stopped right after a sample of
\* every sensor, so that sensorSampling, which it left, is 0.
BudgetInit ==
    /\ working = TRUE
    /\ period \in {p \in [Sensors -> UNION {Periods[s] : s \in Sensors}] :
                      \A s \in Sensors : p[s] \in Periods[s] /\ p[s] >= Shortest[s]}
    /\ sampling = [s \in Sensors |-> 0]
    /\ state = [s \in Sensors |-> 0]
    /\ early = {}
    /\ waited = [s \in Sensors |-> 0]
    /\ carried = [s \in Sensors |-> 0]
    /\ mailbox = <<>>
    /\ held = 0
    /\ filled = [s \in Sensors |->
                   ((Recorded \div period[s]) * SampleSize[s]) % SectorSize]
    /\ busy = 0
    /\ overflowed = FALSE

-----------------------------------------------------------------------------

\* What the interrupt puts, in the order of the sensors.
Samples == SelectSeq([s \in Sensors |-> s], HasData)

\* TIMER2_IRQHandler; the main loop has come to a stop before it.
interrupt ==
    /\ ~overflowed
    /\ busy > 0 \/ (mailbox = <<>> /\ held = 0)
    /\ tick
    /\ busy' = IF busy > 0 THEN busy - 1 ELSE 0
    /\ IF Len(mailbox) + Len(Samples) > MailboxSize
       THEN overflowed' = TRUE /\ UNCHANGED mailbox
       ELSE mailbox' = mailbox \o Samples /\ UNCHANGED overflowed
    /\ UNCHANGED <<held, filled>>

\* flash_mailbox: app_mailbox_get.
take ==
    /\ ~overflowed /\ held = 0 /\ mailbox # <<>>
    /\ held' = Head(mailbox)
    /\ mailbox' = Tail(mailbox)
    /\ UNCHANGED <<clockVars, filled, busy, overflowed>>

\* flash_mailbox: writeLog, once the memory is ready.
write ==
    /\ held # 0 /\ busy = 0
    /\ LET end == filled[held] + SampleSize[held]
       IN  /\ filled' = [filled EXCEPT ![held] = end % SectorSize]
           /\ busy' = IF end >= SectorSize THEN EraseTicks ELSE 0
    /\ held' = 0
    /\ UNCHANGED <<clockVars, mailbox, overflowed>>

BudgetNext == interrupt \/ take \/ write

BudgetSpec == BudgetInit /\ [][BudgetNext]_vars

-----------------------------------------------------------------------------
\* At periods of 40 ms and more no sample finds the mailbox full, even when an
\* erasure takes 120 ms (the notes on sampling periods in src/docs, line 24).
\* Not so when the sectors of five logs end together: the failed check of
\* app_mailbox_put in TIMER2_IRQHandler restarts the device in the middle of
\* the recording.
NoOverflow == ~overflowed
=============================================================================
