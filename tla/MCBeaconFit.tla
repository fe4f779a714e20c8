---------------------------- MODULE MCBeaconFit ----------------------------
(* Conversations of up to MaxGaps + 1 flows, with gaps of zero to six      *)
(* Units: flows that start together, one schedule with one to five misses  *)
(* in a row, two schedules mixed, and gaps no period explains.             *)
EXTENDS BeaconFit

MCGaps == 0..6
=============================================================================
