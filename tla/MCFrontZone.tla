----------------------------- MODULE MCFrontZone -----------------------------
(***************************************************************************)
(* FrontZone with short counters and few angles and brake positions.  The  *)
(* orders between the constants are those of the configuration: debounce   *)
(* times below the latch times, these below the watchdog's time-out, and   *)
(* the cutoff frames several times within a latch.                         *)
(***************************************************************************)
EXTENDS FrontZone

OneAtATime == {{"brake"}, {"steering"}, {"state", "can"}}
=============================================================================
