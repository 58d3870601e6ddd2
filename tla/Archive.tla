------------------------------- MODULE Archive -------------------------------
(***************************************************************************)
(* What SenStick promises about the logs it has closed, however commands   *)
(* nest and wherever power is lost.  A log is closed once it is there for  *)
(* every sensor, after those closed before, and stays what it is.  Only a  *)
(* format takes logs away, one sensor's after the other or all at once;    *)
(* what is left of one that was cut short gets no further log.             *)
(* SenStickControl implements this.                                        *)
(***************************************************************************)
EXTENDS Integers

CONSTANTS
    Sensors,
    LogIDs,
    Capacity,   \* samples that the area of a sensor takes
    Gone        \* what a sensor's part of a log is after its area was wiped

VARIABLE logs   \* per closed log and sensor: where in its area the log ends

Init == logs = <<>>

Close ==
    \E id \in LogIDs, ends \in [Sensors -> 0 .. Capacity] :
        /\ DOMAIN logs = 0 .. id - 1
        /\ id > 0 => \A s \in Sensors : logs[id - 1][s] \in 0 .. ends[s]
        /\ logs' = [i \in 0 .. id |-> IF i = id THEN ends ELSE logs[i]]

Wipe(s) == logs' = [id \in DOMAIN logs |-> [logs[id] EXCEPT ![s] = Gone]]

Clear == logs' = <<>>

Next == Close \/ Clear \/ \E s \in Sensors : Wipe(s)

Spec == Init /\ [][Next]_logs
=============================================================================
