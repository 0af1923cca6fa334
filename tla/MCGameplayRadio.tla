-------------------------- MODULE MCGameplayRadio --------------------------
(***************************************************************************)
(* Values for the constants of GameplayRadio: two configured stations, one *)
(* bound by raw value and one by identity, and the frames that make the    *)
(* engine produce every action.                                            *)
(***************************************************************************)
EXTENDS GameplayRadio, TLC

MCStations == {1, 2}
MCUnsafeKeys == {2}
MCIdentities == {"headRadio", "riseFm"}

Station(url, allowHttp, raw, identity) ==
  [enabled |-> TRUE, url |-> url, allowHttp |-> allowHttp, raw |-> raw,
   identity |-> identity]

Configured(second, multiplier) ==
  [enabled |-> TRUE, controllerEnabled |-> TRUE, controllerDryRun |-> TRUE,
   volumeMultiplier |-> multiplier,
   stations |-> (1 :> Station("http", TRUE, 1, None) @@ 2 :> second),
   profileMap |-> (2 :> "riseFm")]

\* The second station is usable in one configuration, refused in the other; there
\* the multiplier takes every volume to the clamp.
MCConfigurations ==
  {Configured(Station("https", FALSE, None, "riseFm"), 100),
   Configured(Station("http", FALSE, None, "riseFm"), 200)}

Driving(raw, volume, pauseMenu) ==
  [sequence |-> 0, observerAvailable |-> TRUE, gameReady |-> TRUE,
   pauseMenuActive |-> pauseMenu, playerInVehicle |-> "yes",
   radioStationRaw |-> raw, radioVolume |-> volume]

OnFoot == [Driving(1, 50, "no") EXCEPT !.playerInVehicle = "no"]

\* 51 is within the tolerance of 50 and of 52, which are not within each other's.
MCSnapshots ==
  {Driving(1, 50, "no"), Driving(1, 51, "no"), Driving(1, 52, "no"),
   Driving(1, 52, "yes"), Driving(2, 50, "no"), Driving(2, 50, "yes"), OnFoot}

\* "Stream [...] failures stop playback and restore before remaining failed
\* closed" (ORIGINAL_RADIO_SUPPRESSION.md).  A stream that dies after it has been
\* opened is never looked at again: frames leave the original radio muted.
DeadStreamRestores ==
  [][/\ gamePc = "submit" /\ gamePc' = "readback"
     /\ stream.media # None /\ ~stream.alive
     => ~(original'.muted /\ sinkState'.active)]_vars

=============================================================================
