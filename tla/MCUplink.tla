------------------------------- MODULE MCUplink -------------------------------
(* Uplink on a small instance: see MCUplink.cfg and MCFreshSession.cfg. *)
EXTENDS Uplink
=============================================================================
