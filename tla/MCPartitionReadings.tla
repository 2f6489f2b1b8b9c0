------------------------- MODULE MCPartitionReadings -------------------------
(***************************************************************************)
(* A small instance of PartitionReadings for TLC.                          *)
(***************************************************************************)
EXTENDS PartitionReadings, TLC

CONSTANTS root, media

MCRank == root :> 1 @@ media :> 2

=============================================================================
