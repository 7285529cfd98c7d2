--------------------------- MODULE MCVehicleState ---------------------------
(***************************************************************************)
(* VehicleState with short counters.  The unlatch time exceeds the         *)
(* recovery time, as in Cvc_Cfg.h, and the grace is that of a simulation   *)
(* build.                                                                  *)
(***************************************************************************)
EXTENDS VehicleState
=============================================================================
