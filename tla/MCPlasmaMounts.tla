---------------------------- MODULE MCPlasmaMounts ----------------------------
(***************************************************************************)
(* The Plasma disk rings for TLC: one fixed filesystem and one key, which  *)
(* the user may have checked by hand.  Three changes let a key be pulled   *)
(* out while the disk ring is disabled, and the ring enabled again.        *)
(***************************************************************************)
EXTENDS PlasmaMounts

CONSTANTS root, k1

MCSelections == {{root}, {root, k1}}

=============================================================================
