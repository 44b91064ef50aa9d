------------------------------- MODULE MCWAL --------------------------------
(***************************************************************************)
(* WAL on a small instance: four records, of which two small ones fit      *)
(* into a segment and one is larger than a segment.                        *)
(***************************************************************************)
EXTENDS WAL

MCSize == <<2, 5, 2, 2>>
=============================================================================
