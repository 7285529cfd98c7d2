----------------------------- MODULE MCRearZone -----------------------------
(***************************************************************************)
(* RearZone with short counters, two or three readings of each kind and    *)
(* torques of both signs.  The periods keep their order: several readings  *)
(* of the current per run of the motor, several runs of the motor per run  *)
(* of the safety monitor.                                                  *)
(***************************************************************************)
EXTENDS RearZone

SomeTorques == {-40, 0, 40, 60}
SomeTemps == {25, 65, 85, 105, 160}
OneAtATime == {{"commands"}, {"current"}, {"temperature"}, {"motion", "can"}}
=============================================================================
