----------------------------- MODULE MCSbBridge -----------------------------
(* A bridge with one poller and the fewest slots that suffice; the bounds  *)
(* let both arrays wrap.                                                   *)
EXTENDS SbBridge
=============================================================================
