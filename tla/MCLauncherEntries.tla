-------------------------- MODULE MCLauncherEntries --------------------------
(***************************************************************************)
(* Small instances of LauncherEntries for TLC.                             *)
(***************************************************************************)
EXTENDS LauncherEntries, TLC

\* Calm sessions with everything that can fail, and racing ones without.
MCWorlds ==
    [racing : {FALSE}, untick : {FALSE},
     faults : {{}, {"kill"}, {"copyFails"}, {"kill", "copyFails", "writeFails"}}]
    \cup [racing : {FALSE}, untick : {TRUE}, faults : {{}}]
    \cup [racing : {TRUE}, untick : {TRUE}, faults : {{}}]

=============================================================================
