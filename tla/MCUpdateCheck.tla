--------------------------- MODULE MCUpdateCheck ----------------------------
(* Instances of UpdateCheck for TLC. *)
EXTENDS UpdateCheck

Tag(a, b, c, s) == [core |-> <<a, b, c>>, scope |-> s]

MCFirst == Tag(0, 9, 1, "both")
\* 0.10.0 is above 0.9.2 by its numbers; 0.11.0 is for the other platform.
MCReleases == {Tag(0, 9, 2, "both"), Tag(0, 10, 0, "plasma"), Tag(0, 11, 0, "standalone")}
=============================================================================
