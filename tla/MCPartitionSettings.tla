------------------------- MODULE MCPartitionSettings -------------------------
(***************************************************************************)
(* The settings page for TLC: the home filesystem and two others.          *)
(***************************************************************************)
EXTENDS PartitionSettings, TLC

CONSTANTS home, a, b

\* The two others are interchangeable.
Sym == Permutations({a, b})

=============================================================================
