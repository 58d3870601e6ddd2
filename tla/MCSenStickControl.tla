-------------------------- MODULE MCSenStickControl --------------------------
(***************************************************************************)
(* Two sensors with room for two samples, and two logs: a log may fill an  *)
(* area, the log IDs may run out, and either may happen in the other's     *)
(* course.                                                                 *)
(***************************************************************************)
EXTENDS SenStickControl

\* Nothing active, sensing only, one sensor logging, and both.
MCClientSettings ==
    {<<"stop", "stop">>, <<"sensing", "stop">>, <<"logging", "stop">>,
     <<"logging", "logging">>}
=============================================================================
