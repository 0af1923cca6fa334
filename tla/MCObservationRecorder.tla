------------------------ MODULE MCObservationRecorder -----------------------
(***************************************************************************)
(* Stations at and beyond the bounds of a profile of the game and of a     *)
(* profile wider than the recorder accepts, a profile whose volume bounds  *)
(* coincide and one with an address missing; six frames, thresholds        *)
(* below, at and above the largest, which is three here.  What a capture   *)
(* promises is checked for every world and every failing read.             *)
(***************************************************************************)
EXTENDS ObservationRecorder

MCStations == {-1, 0, 9, 256}
MCVolumes == 0 .. 3
Classic == [complete |-> TRUE, minStation |-> 0, maxStation |-> 9, minVolume |-> 1, maxVolume |-> 2]
MCProfiles ==
  {Classic, [Classic EXCEPT !.minStation = -1, !.maxStation = 256, !.maxVolume = 1],
   [Classic EXCEPT !.complete = FALSE]}
MCStableSettings == {0, 1, 3, 4}
MCMaximumSettings == {0, 1, 3}

ASSUME CapturesChecked ==
  /\ CapturesExact
  /\ \A p \in MCProfiles, b \in BOOLEAN, w \in World :
       /\ FaultContained(p, b, w)
       /\ \A faults \in {{}} \cup {{r} : r \in Reads} :
            /\ CallsOnlyWhenLoaded(p, b, w, faults)
            /\ VolumeIsFraction(Capture(p, b, w, faults))

=============================================================================
