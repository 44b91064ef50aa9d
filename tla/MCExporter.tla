----------------------------- MODULE MCExporter -----------------------------
(***************************************************************************)
(* Exporter on a small instance: one call to two backends.                 *)
(***************************************************************************)
EXTENDS Exporter
-----------------------------------------------------------------------------
\* Every call returns.
CallsReturn == \A c \in Calls : pc[c] # "new" ~> pc[c] = "done"
=============================================================================
