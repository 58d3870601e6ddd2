---------------------------- MODULE MCSenStickRTC ----------------------------
EXTENDS SenStickRTC

\* A day in spring, and the last day of a month before a shorter one.
MCDates == {[year |-> 2016, month |-> 4, day |-> 12, time |-> 300],
            [year |-> 2016, month |-> 1, day |-> 31, time |-> 0]}
=============================================================================
