--------------------------- MODULE StreamManager ----------------------------
(***************************************************************************)
(* StreamManager over one audio backend and an optional playlist resolver. *)
(* Its mutex makes every public operation one step; between two of them    *)
(* the native player moves on its own.                                     *)
(***************************************************************************)
EXTENDS AudioBackend

VARIABLES
  manager, \* the fields of StreamManager
  device,  \* the backend and its player
  call,    \* the last call and what it asked for
  reply    \* the answer to it

vars == <<manager, device, call, reply>>

Manager == [resolver : BOOLEAN, currentUrl : Urls \cup {None},
            configuredUrl : Urls \cup {None}, lastResolution : Urls \cup {None},
            volume : 0 .. FullVolume, error : BOOLEAN]

\* A call, and what its caller has asked for.
Asked(operation, media, volume) ==
  [operation |-> operation, media |-> media, volume |-> volume]

TypeOK ==
  /\ manager \in Manager
  /\ device \in Device
  /\ call \in [operation : {"none", "start", "reconnect", "pause", "resume", "setVolume",
                            "setBuffer", "stop"},
               media : Urls \cup {None}, volume : Volumes \cup {None}]
  /\ reply \in {"ok", "failed"}

Init ==
  /\ \E resolver \in BOOLEAN :
       manager = [resolver |-> resolver, currentUrl |-> None, configuredUrl |-> None,
                  lastResolution |-> None, volume |-> FullVolume, error |-> FALSE]
  /\ \E requested \in {"automatic", "null", "libVLC"}, created \in TryCreate :
       device = NewDevice(BackendKind(requested, created))
  /\ call = Asked("none", None, None)
  /\ reply = "ok"

Clamp(volume) == IF volume > FullVolume THEN FullVolume ELSE IF volume < 0 THEN 0 ELSE volume

\* A refused call: the manager keeps an error text.
Fail(failed) == reply' = "failed" /\ manager' = [failed EXCEPT !.error = TRUE]

Reply(ok) == reply' = IF ok THEN "ok" ELSE "failed"

\* The backend refused: its error text becomes the manager's.
BackendRefused(refused) ==
  manager' = [manager EXCEPT !.error = refused.error]

-----------------------------------------------------------------------------

\* setBufferMilliseconds, open, setVolume, play: the device after the first one
\* that fails, or after all four.  The buffer was accepted before.
StartOutcomes(from, url, volume) ==
  LET opened == UNION {Open(b.device, url) : b \in SetBufferMilliseconds(from, "fits")}
      loud == UNION {IF o.ok THEN SetVolume(o.device, volume) ELSE {o} : o \in opened}
  IN  UNION {IF l.ok THEN Play(l.device) ELSE {l} : l \in loud}

\* Mutant: a failed start leaves the backend as it is.
StartMediaUnstopped(starting, from, url, keepsResolution) ==
  \E started \in StartOutcomes(from, url, starting.volume) :
    /\ Reply(started.ok)
    /\ device' = started.device
    /\ manager' = IF started.ok THEN [starting EXCEPT !.currentUrl = url, !.error = FALSE]
                  ELSE [starting EXCEPT !.error = started.device.error]

\* startMediaLocked; "starting" is the manager as its caller has prepared it,
\* and keepsResolution says whether that caller keeps its resolution on failure.
StartMedia(starting, from, url, keepsResolution) ==
  \E started \in StartOutcomes(from, url, starting.volume) :
    /\ Reply(started.ok)
    /\ IF started.ok
         THEN /\ manager' = [starting EXCEPT !.currentUrl = url, !.error = FALSE]
              /\ device' = started.device
         ELSE /\ manager' = [starting EXCEPT !.error = started.device.error,
                                             !.lastResolution =
                                               IF keepsResolution THEN @ ELSE None]
              /\ device' = Stop(started.device)

\* The manager a new start begins with.
Cleared(configuredUrl, volume) ==
  [manager EXCEPT !.currentUrl = None, !.configuredUrl = configuredUrl,
                  !.lastResolution = None, !.error = FALSE, !.volume = Clamp(volume)]

Start(url, volume) ==
  /\ call' = Asked("start", url, volume)
  /\ StartMedia(Cleared(None, volume), Stop(device), url, FALSE)

\* The resolver fails, or selects a media URL, which is always a supported one.
StartConfiguredUrl(configuredUrl, volume) ==
  LET cleared == Cleared(configuredUrl, volume)
  IN  /\ call' = Asked("start", configuredUrl, volume)
      /\ \/ /\ Fail(cleared)
            /\ device' = Stop(device)
         \/ /\ manager.resolver
            /\ \E media \in Supported :
                 StartMedia([cleared EXCEPT !.lastResolution = media], Stop(device), media, FALSE)

PauseStream ==
  \E paused \in Pause(device) :
    /\ call' = Asked("pause", None, None)
    /\ device' = paused.device
    /\ Reply(paused.ok)
    /\ IF paused.ok THEN UNCHANGED manager ELSE BackendRefused(paused.device)

ResumeStream ==
  \E resumed \in Play(device) :
    /\ call' = Asked("resume", None, None)
    /\ device' = resumed.device
    /\ Reply(resumed.ok)
    /\ IF resumed.ok THEN UNCHANGED manager ELSE BackendRefused(resumed.device)

StopStream ==
  /\ call' = Asked("stop", None, None)
  /\ device' = Stop(device)
  /\ manager' = [manager EXCEPT !.currentUrl = None, !.configuredUrl = None,
                                !.lastResolution = None, !.error = FALSE]
  /\ reply' = "ok"

SetStreamVolume(volume) ==
  \E set \in SetVolume(device, Clamp(volume)) :
    /\ call' = Asked("setVolume", None, volume)
    /\ device' = set.device
    /\ Reply(set.ok)
    /\ IF set.ok THEN manager' = [manager EXCEPT !.volume = Clamp(volume), !.error = FALSE]
       ELSE BackendRefused(set.device)

SetBuffer(size) ==
  \E set \in (IF size = "zero" THEN {[ok |-> FALSE, device |-> device]}
              ELSE SetBufferMilliseconds(device, size)) :
    /\ call' = Asked("setBuffer", None, None)
    /\ device' = set.device
    /\ Reply(set.ok)
    /\ manager' = [manager EXCEPT !.error = ~set.ok]

-----------------------------------------------------------------------------

NothingToReconnect == manager.currentUrl = None /\ manager.configuredUrl = None

\* Mutant: the old selection is opened again and the fresh one only recorded.
ReconnectStale(stopped, media) ==
  StartMedia([stopped EXCEPT !.lastResolution = media], Stop(device),
             IF manager.currentUrl = None THEN media ELSE manager.currentUrl, TRUE)

\* What is resolved is opened; it stays the last resolution if that fails.
ReopenResolved(stopped, media) ==
  StartMedia([stopped EXCEPT !.lastResolution = media], Stop(device), media, TRUE)

\* reconnect resolves a configured URL afresh and reopens a direct one.  Without
\* a resolver the old resolution stays.
Reconnect ==
  LET stopped == [manager EXCEPT !.currentUrl = None]
  IN  /\ call' = Asked("reconnect", None, None)
      /\ \/ NothingToReconnect /\ Fail(manager) /\ UNCHANGED device
         \/ /\ ~NothingToReconnect
            /\ manager.configuredUrl = None
            /\ StartMedia(stopped, Stop(device), manager.currentUrl, TRUE)
         \/ /\ manager.configuredUrl # None
            /\ Fail(IF manager.resolver THEN [stopped EXCEPT !.lastResolution = None]
                    ELSE stopped)
            /\ device' = Stop(device)
         \/ /\ manager.configuredUrl # None
            /\ manager.resolver
            /\ \E media \in Supported : ReopenResolved(stopped, media)

\* state(), which the gameplay executor never calls.
PollState ==
  /\ \E polled \in State(device) : device' = polled.device
  /\ UNCHANGED <<manager, call, reply>>

PlayerMoves ==
  /\ device.hasMedia
  /\ \E player \in PlayerSteps(device.player) : device' = [device EXCEPT !.player = player]
  /\ UNCHANGED <<manager, call, reply>>

\* What the gameplay executor calls.
GameplayCall ==
  \/ \E url \in Urls, volume \in Volumes : Start(url, volume) \/ StartConfiguredUrl(url, volume)
  \/ PauseStream \/ ResumeStream \/ StopStream
  \/ \E volume \in Volumes : SetStreamVolume(volume)
  \/ \E size \in BufferSizes : SetBuffer(size)

Next == GameplayCall \/ Reconnect \/ PollState \/ PlayerMoves

Spec == Init /\ [][Next]_vars

GameplaySpec == Init /\ [][GameplayCall \/ PlayerMoves]_vars

-----------------------------------------------------------------------------
(* Properties                                                              *)

\* A stream of a configured resource plays what the last resolution selected.
PlaysLastResolution ==
  (manager.configuredUrl # None /\ manager.currentUrl # None) =>
    manager.lastResolution = manager.currentUrl

\* A volume no longer pending is the one the player has: across a reopened
\* media, a pause, a refused change and an output that does not exist yet.
VolumeSettled ==
  device.hasMedia /\ ~device.volumePending => device.player.volume = device.volume

\* A stream that is over is not reported as alive, not even while it is paused
\* and not even when it never began to play.
DeadStreamReported ==
  \A polled \in State(device) :
    device.hasMedia /\ device.player.state \in {"Stopped", "Ended", "Error"} =>
      polled.state \in {"stopped", "error"}

\* What was asked for: a URL that is resolved stands for what the resolution selected.
Believed ==
  IF manager.currentUrl = None
    THEN [media |-> None, mode |-> "stopped", volume |-> None, alive |-> Alive(device.player)]
    ELSE [media |-> IF manager.configuredUrl # None THEN manager.configuredUrl
                    ELSE manager.currentUrl,
          mode |-> IF device.pauseRequested THEN "paused" ELSE "playing",
          volume |-> manager.volume,
          alive |-> Alive(device.player)]

\* The manager keeps the promise its callers rely on: every answer is one of those that
\* GameplayRadio takes into account, and the stream it leaves the one that was asked for.
Contract == INSTANCE StreamContract WITH stream <- Believed

ContractSpec == Contract!Spec

\* The documented promise that a volume change is mapped to a real playback
\* operation: an accepted change of a stream that is playing reaches the player.
VolumeChangeIsReal ==
  [][\A volume \in Volumes :
       SetStreamVolume(volume) /\ reply' = "ok" /\ device.player.state = "Playing" =>
         device'.player.volume = manager'.volume]_vars
=============================================================================
