---------------------------- MODULE AudioBackend ----------------------------
(***************************************************************************)
(* The two audio backends, as operators on a "device": the fields of       *)
(* LibVlcAudioBackend::Impl (NullAudioBackend uses two of them) with the   *)
(* native libVLC player it drives.  Every operation of the backend yields  *)
(* the set of its outcomes [ok, device]; libVLC decides which one happens. *)
(*                                                                         *)
(* Volumes are percentages.  "error" says whether lastError holds a text.  *)
(***************************************************************************)
EXTENDS Integers

CONSTANTS
  Urls,      \* every URL a caller may pass
  Supported, \* those that are absolute HTTP(S) URLs
  Volumes,   \* the volumes callers ask for
  None       \* no URL, no volume

ASSUME AudioBackendAssumption ==
  /\ Urls # {} /\ Supported \subseteq Urls
  /\ None \notin Urls
  /\ Volumes \subseteq Int
  /\ None \notin Int

FullVolume == 100

AudioStates == {"stopped", "opening", "playing", "paused", "error"}
PlayerStates == {"NothingSpecial", "Opening", "Buffering", "Playing", "Paused", "Stopped",
                 "Ended", "Error"}
BufferSizes == {"zero", "fits", "tooLarge"}  \* 0, 1 .. INT_MAX, above INT_MAX

Player == [media : Urls \cup {None}, state : PlayerStates,
           volume : 0 .. FullVolume \cup {None}]

Device == [kind : {"libVLC", "null"}, hasMedia : BOOLEAN, observed : AudioStates,
           pauseRequested : BOOLEAN, volumePending : BOOLEAN, volume : 0 .. FullVolume,
           error : BOOLEAN, player : Player]

-----------------------------------------------------------------------------
(* The native player, modelled from how the backend uses it.               *)

\* libvlc_media_player_set_media: a fresh media has no volume of ours yet.
WithMedia(url) == [media |-> url, state |-> "NothingSpecial", volume |-> None]

\* libvlc_media_player_play starts or restarts the media, or continues it.
PlayPlayer(player) ==
  [player EXCEPT !.state = IF @ \in {"NothingSpecial", "Stopped", "Ended", "Error"} THEN "Opening"
                           ELSE IF @ = "Paused" THEN "Playing" ELSE @]

\* libvlc_media_player_set_pause returns nothing: a pause may be ignored.
PausePlayer(player) ==
  IF player.state \in {"Opening", "Buffering", "Playing"}
    THEN {player, [player EXCEPT !.state = "Paused"]} ELSE {player}

UnpausePlayer(player) ==
  [player EXCEPT !.state = IF @ = "Paused" THEN "Playing" ELSE @]

\* What the player does on its own, on libVLC's threads.
PlayerSteps(player) ==
  LET next == CASE player.state = "Opening" -> {"Buffering", "Playing", "Ended", "Error"}
                [] player.state = "Buffering" -> {"Playing", "Ended", "Error"}
                [] player.state = "Playing" -> {"Buffering", "Ended", "Error"}
                [] player.state = "Paused" -> {"Ended", "Error"}
                [] OTHER -> {}
  IN  {[player EXCEPT !.state = state] : state \in next}

\* The player has been told to play its media and has not come to its end.
Alive(player) == player.state \in {"Opening", "Buffering", "Playing", "Paused"}

MapState(state) ==
  CASE state \in {"Opening", "Buffering"} -> "opening"
    [] state = "Playing" -> "playing"
    [] state = "Paused" -> "paused"
    [] state = "Error" -> "error"
    [] OTHER -> "stopped"

-----------------------------------------------------------------------------
(* The factory and the operations                                          *)

\* LibVlcAudioBackend::tryCreate finds, loads and starts a runtime, or does not;
\* whatever it had loaded is released again when it fails.
TryCreate == BOOLEAN

\* createConfiguredAudioBackend falls back to the null backend.
BackendKind(requested, created) ==
  IF requested # "null" /\ created THEN "libVLC" ELSE "null"

NewDevice(kind) ==
  [kind |-> kind, hasMedia |-> FALSE, observed |-> "stopped", pauseRequested |-> FALSE,
   volumePending |-> TRUE, volume |-> FullVolume, error |-> FALSE, player |-> WithMedia(None)]

Done(device) == {[ok |-> TRUE, device |-> device]}

Refused(device) ==
  {[ok |-> FALSE, device |-> [device EXCEPT !.observed = "error", !.error = TRUE]]}

IsNull(device) == device.kind = "null"

Close(device) ==
  IF device.hasMedia THEN [device EXCEPT !.hasMedia = FALSE, !.player = WithMedia(None)]
  ELSE device

\* An unsupported URL is refused before the open media is touched.
Open(device, url) ==
  IF IsNull(device) \/ url \notin Supported THEN Refused(device)
  ELSE LET closed == [Close(device) EXCEPT !.pauseRequested = FALSE]
       IN  Refused(closed) \cup
           Done([closed EXCEPT !.hasMedia = TRUE, !.volumePending = TRUE, !.error = FALSE,
                               !.observed = "opening", !.player = WithMedia(url)])

Play(device) ==
  LET started(player) == [device EXCEPT !.pauseRequested = FALSE, !.error = FALSE,
                                        !.observed = "opening", !.player = player]
  IN  IF ~device.hasMedia THEN Refused(device)
      ELSE IF device.pauseRequested THEN Done(started(UnpausePlayer(device.player)))
      ELSE Refused(device) \cup Done(started(PlayPlayer(device.player)))

Pause(device) ==
  IF ~device.hasMedia \/ device.observed \notin {"playing", "opening"} THEN Refused(device)
  ELSE UNION {Done([device EXCEPT !.pauseRequested = TRUE, !.error = FALSE,
                                  !.observed = "paused", !.player = player]) :
                player \in PausePlayer(device.player)}

Stop(device) ==
  [Close(device) EXCEPT !.pauseRequested = FALSE, !.volumePending = TRUE, !.error = FALSE,
                        !.observed = "stopped"]

\* Mutant: the volume counts as applied whether or not there is an output.
SetVolumeNeverPending(device, volume) ==
  IF volume \notin 0 .. FullVolume THEN Refused(device)
  ELSE Done([device EXCEPT !.volume = volume, !.error = FALSE,
                           !.volumePending = IsNull(device)])

\* libVLC is given the volume only in a state in which it has an output, and
\* may refuse it; a refused volume stays pending.
SetVolume(device, volume) ==
  LET wanted == [device EXCEPT !.volume = volume, !.volumePending = TRUE]
  IN  IF volume \notin 0 .. FullVolume THEN Refused(device)
      ELSE IF IsNull(device) THEN Done(device)
      ELSE IF device.hasMedia /\ device.observed \in {"playing", "paused"}
        THEN Refused(wanted) \cup
             Done([wanted EXCEPT !.player.volume = volume, !.volumePending = FALSE,
                                 !.error = FALSE])
      ELSE Done([wanted EXCEPT !.error = FALSE])

SetBufferMilliseconds(device, size) ==
  IF size = "zero" \/ (size = "tooLarge" /\ ~IsNull(device)) THEN Refused(device)
  ELSE Done(IF IsNull(device) THEN device ELSE [device EXCEPT !.error = FALSE])

\* Mutant: the state of a paused stream is not asked for.
StatePausedStays(device) ==
  IF ~device.hasMedia THEN {[state |-> device.observed, device |-> device]}
  ELSE IF device.pauseRequested THEN {[state |-> "paused", device |-> device]}
  ELSE {[state |-> MapState(device.player.state),
         device |-> [device EXCEPT !.observed = MapState(device.player.state)]]}

\* state() polls the player, and applies a pending volume when it plays.
State(device) ==
  LET native == device.player.state
      mapped == MapState(native)
      over == native \in {"Stopped", "Ended"}
      observing(error) == [device EXCEPT !.observed = mapped, !.error = error \/ @]
  IN  IF ~device.hasMedia THEN {[state |-> device.observed, device |-> device]}
      ELSE IF device.pauseRequested /\ native # "Error" /\ ~over
        THEN {[state |-> "paused", device |-> device]}
      ELSE IF native = "NothingSpecial" /\ device.observed = "opening"
        THEN {[state |-> "opening", device |-> device]}
      ELSE IF over /\ device.observed = "opening"
        THEN {[state |-> "error",
               device |-> [device EXCEPT !.observed = "error", !.error = TRUE]]}
      ELSE {[state |-> mapped, device |-> observing(native = "Error")]} \cup
           (IF native = "Playing" /\ device.volumePending
              THEN {[state |-> mapped,
                     device |-> [observing(FALSE) EXCEPT !.player.volume = device.volume,
                                                         !.volumePending = FALSE]]}
              ELSE {})
=============================================================================
