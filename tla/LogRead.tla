------------------------------- MODULE LogRead -------------------------------
(***************************************************************************)
(* What reading logs back promises to a client, whatever buffers, events   *)
(* and contexts lie in between.  A client asks a sensor for a log from a   *)
(* position on.  It gets the samples of that log from there, in order and  *)
(* each once, also those that are recorded meanwhile, and then one         *)
(* end-of-data packet: never before the log is closed, never before the    *)
(* last sample, and nothing after it.  LogNotify implements this.          *)
(***************************************************************************)
EXTENDS Naturals

CONSTANTS
    Sensors,
    LogIDs,      \* what a log may be called
    Positions    \* where a client may start to read, and come to

VARIABLES
    logCount,   \* the logs there are: 0 .. logCount - 1
    recording,  \* the last of them is still being written
    length,     \* per sensor and log: its samples
    view        \* per sensor: the log a client reads, the position it has
                \* come to, and whether it was told that this was all

vars == <<logCount, recording, length, view>>

Logs    == 0 .. logCount - 1
Open(l) == recording /\ l = logCount - 1
Idle    == [reading |-> FALSE, log |-> 0, next |-> 0, ended |-> FALSE]

Init ==
    /\ logCount \in Nat /\ Logs \subseteq LogIDs
    /\ recording = FALSE
    /\ length \in [Sensors -> [LogIDs -> Nat]]
    /\ view = [s \in Sensors |-> Idle]

Begin ==
    /\ ~recording
    /\ recording' = TRUE
    /\ logCount \in LogIDs
    /\ logCount' = logCount + 1
    /\ length' = [s \in Sensors |-> [length[s] EXCEPT ![logCount] = 0]]
    /\ UNCHANGED view

Record(s) ==
    /\ recording
    /\ length' = [length EXCEPT ![s][logCount - 1] = @ + 1]
    /\ UNCHANGED <<logCount, recording, view>>

Close ==
    /\ recording
    /\ recording' = FALSE
    /\ UNCHANGED <<logCount, length, view>>

\* Formatting ends every read.
Format ==
    /\ logCount' = 0
    /\ recording' = FALSE
    /\ view' = [s \in Sensors |-> Idle]
    /\ length' = [s \in Sensors |-> [l \in LogIDs |-> 0]]

\* The client's request is answered, whatever log it names.
Ask(s) ==
    /\ \E l \in LogIDs, p \in Positions :
        view' = [view EXCEPT ![s] = [reading |-> TRUE, log |-> l,
                                     next |-> p, ended |-> FALSE]]
    /\ UNCHANGED <<logCount, recording, length>>

CanReceive(s) == view[s].reading /\ ~view[s].ended /\ view[s].log \in Logs

\* The next n samples arrive.
Receive(s, n) ==
    /\ CanReceive(s)
    /\ view[s].next + n <= length[s][view[s].log]
    /\ view' = [view EXCEPT ![s].next = @ + n]
    /\ UNCHANGED <<logCount, recording, length>>

End(s) ==
    /\ CanReceive(s)
    /\ ~Open(view[s].log)
    /\ view[s].next >= length[s][view[s].log]
    /\ view' = [view EXCEPT ![s].ended = TRUE]
    /\ UNCHANGED <<logCount, recording, length>>

\* The client gives up some reads, or loses them with the connection.
Leave(S) ==
    /\ view' = [s \in Sensors |-> IF s \in S THEN Idle ELSE view[s]]
    /\ UNCHANGED <<logCount, recording, length>>

Next ==
    \/ Begin \/ Close \/ Format
    \/ \E s \in Sensors : Record(s) \/ Ask(s) \/ End(s)
    \/ \E s \in Sensors, n \in Positions : n > 0 /\ Receive(s, n)
    \/ \E S \in SUBSET Sensors : Leave(S)

Spec == Init /\ [][Next]_vars

-----------------------------------------------------------------------------
\* A client that was told the end of a log has come to its end, and the log
\* does not grow any more.
EndMeansAll ==
    \A s \in Sensors :
        view[s].ended /\ view[s].log \in Logs =>
            ~Open(view[s].log) /\ view[s].next >= length[s][view[s].log]
=============================================================================
