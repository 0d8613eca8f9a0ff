------------------------- MODULE MCVNodeMaintenance -------------------------
(***************************************************************************)
(* The instances of MCVNodeServer with the web UI's maintenance actions.   *)
(***************************************************************************)
EXTENDS MCVNodeServer, VNodeMaintenance
=============================================================================
