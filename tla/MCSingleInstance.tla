--------------------------- MODULE MCSingleInstance ---------------------------
(***************************************************************************)
(* Small instances of SingleInstance for TLC.                              *)
(***************************************************************************)
EXTENDS SingleInstance, TLC

\* Three launches race on a quiet, faultless desktop; one after the other they
\* meet everything the surroundings can do.
MCWorlds ==
    [serial : {FALSE}, leftover : {FALSE}, faults : {{}, {"slow"}, {"listenFails"}}]
    \cup
    [serial : {FALSE}, leftover : {TRUE}, faults : {{}}]
    \cup
    [serial : {TRUE}, leftover : {TRUE},
     faults : {{}, {"crash", "slow", "listenFails", "loadFails", "quit"}}]

\* Two launches of one build find the socket file of a killed process.
MCStaleWorlds == [serial : {FALSE}, leftover : {TRUE}, faults : {{}}]

=============================================================================
