--------------------------- MODULE MCHeartbeatLink ---------------------------
(***************************************************************************)
(* HeartbeatLink on short timers.  The timeout is the shortest one that    *)
(* fits the widest skew of a three-cycle heartbeat period: one tick more   *)
(* than period and skew together, so that a single lost frame can already  *)
(* cause a timeout.                                                        *)
(***************************************************************************)
EXTENDS HeartbeatLink

ASSUME TimingFits
=============================================================================
