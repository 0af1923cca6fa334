------------------------ MODULE StreamManager_proofs ------------------------
(***************************************************************************)
(* StreamManager over either backend keeps its promises for every set of   *)
(* URLs and volumes: its own fields, the device and the player stay in     *)
(* step, and it implements StreamContract.                                 *)
(*                                                                         *)
(* Each operation of the backend has a lemma that says what its outcomes   *)
(* leave of the device; the manager's steps are then taken one by one.     *)
(* The probe is a client of the manager: its steps are calls of it, so     *)
(* what holds of the manager holds under the probe, and the program        *)
(* counter says what the probe has seen.                                   *)
(***************************************************************************)
EXTENDS StreamProbe, TLAPS

\* A device at rest between two calls: without a media its player has none, and a volume
\* that is not pending is the player's.
DeviceInv(d) ==
  /\ d \in Device
  /\ ~d.hasMedia => d.player = WithMedia(None)
  /\ d.hasMedia /\ ~d.volumePending => d.player.volume = d.volume

\* Two devices that callers cannot tell apart.
SameStream(d, e) ==
  /\ e.hasMedia = d.hasMedia
  /\ e.pauseRequested = d.pauseRequested
  /\ e.player.state = d.player.state

LEMMA DeviceFields ==
  ASSUME NEW d \in Device
  PROVE  /\ d.kind \in {"libVLC", "null"} /\ d.hasMedia \in BOOLEAN
         /\ d.observed \in AudioStates /\ d.pauseRequested \in BOOLEAN
         /\ d.volumePending \in BOOLEAN /\ d.volume \in 0 .. FullVolume
         /\ d.error \in BOOLEAN /\ d.player \in Player
         /\ d.player.media \in Urls \cup {None} /\ d.player.state \in PlayerStates
         /\ d.player.volume \in 0 .. FullVolume \cup {None}
BY DEF Device, Player

LEMMA FreshMedia ==
  ASSUME NEW url \in Urls \cup {None}
  PROVE  /\ WithMedia(url) \in Player /\ WithMedia(url).state = "NothingSpecial"
         /\ ~Alive(WithMedia(url))
BY DEF WithMedia, Player, PlayerStates, Alive

LEMMA CloseKeeps ==
  ASSUME NEW d, DeviceInv(d)
  PROVE  DeviceInv(Close(d)) /\ ~Close(d).hasMedia
<1>1. CASE d.hasMedia
  <2>1. Close(d) = [d EXCEPT !.hasMedia = FALSE, !.player = WithMedia(None)]
    BY <1>1 DEF Close
  <2>2. WithMedia(None) \in Player
    BY FreshMedia
  <2> QED BY <2>1, <2>2 DEF DeviceInv, Device
<1>2. CASE ~d.hasMedia
  BY <1>2 DEF Close, DeviceInv
<1> QED BY <1>1, <1>2 DEF DeviceInv, Device

LEMMA StopKeeps ==
  ASSUME NEW d, DeviceInv(d)
  PROVE  DeviceInv(Stop(d)) /\ ~Stop(d).hasMedia
<1> DEFINE c == Close(d)
<1>1. DeviceInv(c) /\ ~c.hasMedia
  BY CloseKeeps
<1>2. Stop(d) = [c EXCEPT !.pauseRequested = FALSE, !.volumePending = TRUE, !.error = FALSE,
                          !.observed = "stopped"]
  BY DEF Stop
<1> HIDE DEF c
<1> QED BY <1>1, <1>2 DEF DeviceInv, Device, AudioStates

LEMMA RefusedKeeps ==
  ASSUME NEW d, DeviceInv(d), NEW o \in Refused(d)
  PROVE  DeviceInv(o.device) /\ o.ok = FALSE /\ SameStream(d, o.device)
<1>1. o.ok = FALSE /\ o.device = [d EXCEPT !.observed = "error", !.error = TRUE]
  BY DEF Refused
<1> QED BY <1>1 DEF DeviceInv, Device, AudioStates, SameStream

LEMMA BufferKeeps ==
  ASSUME NEW d, DeviceInv(d), NEW size, NEW o \in SetBufferMilliseconds(d, size)
  PROVE  DeviceInv(o.device) /\ o.ok \in BOOLEAN /\ SameStream(d, o.device)
<1>1. CASE o \in Refused(d)
  BY <1>1, RefusedKeeps
<1>2. CASE o.ok = TRUE /\ o.device \in {d, [d EXCEPT !.error = FALSE]}
  BY <1>2 DEF DeviceInv, Device, SameStream
<1>3. \/ o \in Refused(d)
      \/ o \in Done(IF IsNull(d) THEN d ELSE [d EXCEPT !.error = FALSE])
  BY DEF SetBufferMilliseconds
<1>4. o \in Refused(d) \/ (o.ok = TRUE /\ o.device \in {d, [d EXCEPT !.error = FALSE]})
  BY <1>3 DEF Done
<1> QED BY <1>1, <1>2, <1>4

LEMMA OpenKeeps ==
  ASSUME NEW d, DeviceInv(d), NEW url \in Urls, NEW o \in Open(d, url)
  PROVE  /\ DeviceInv(o.device) /\ o.ok \in BOOLEAN
         /\ o.ok => /\ o.device.hasMedia /\ ~o.device.pauseRequested
                    /\ o.device.player.state = "NothingSpecial"
<1> DEFINE closed == [Close(d) EXCEPT !.pauseRequested = FALSE]
           opened == [closed EXCEPT !.hasMedia = TRUE, !.volumePending = TRUE, !.error = FALSE,
                                    !.observed = "opening", !.player = WithMedia(url)]
<1>1. DeviceInv(closed)
  BY CloseKeeps DEF DeviceInv, Device
<1>2. CASE o \in Refused(d)
  BY <1>2, RefusedKeeps
<1>3. CASE o \in Refused(closed)
  BY <1>1, <1>3, RefusedKeeps
<1>4. CASE o \in Done(opened)
  <2>1. o.ok = TRUE /\ o.device = opened
    BY <1>4 DEF Done
  <2>2. WithMedia(url) \in Player /\ WithMedia(url).state = "NothingSpecial"
    BY FreshMedia
  <2>3. closed \in Device
    BY <1>1 DEF DeviceInv
  <2>4. ~closed.pauseRequested
    BY CloseKeeps DEF DeviceInv, Device
  <2> HIDE DEF closed
  <2>5. opened \in Device /\ opened.hasMedia /\ opened.volumePending /\ ~opened.pauseRequested
        /\ opened.player = WithMedia(url)
    BY <2>2, <2>3, <2>4 DEF Device, AudioStates
  <2> QED BY <2>1, <2>2, <2>5 DEF DeviceInv
<1> QED BY <1>2, <1>3, <1>4 DEF Open

LEMMA VolumeKeeps ==
  ASSUME NEW d, DeviceInv(d), NEW volume \in 0 .. FullVolume, NEW o \in SetVolume(d, volume)
  PROVE  DeviceInv(o.device) /\ o.ok \in BOOLEAN /\ SameStream(d, o.device)
<1> DEFINE wanted == [d EXCEPT !.volume = volume, !.volumePending = TRUE]
           applied == [wanted EXCEPT !.player.volume = volume, !.volumePending = FALSE,
                                     !.error = FALSE]
           pending == [wanted EXCEPT !.error = FALSE]
<1>1. DeviceInv(wanted) /\ SameStream(d, wanted)
  BY DEF DeviceInv, Device, SameStream
<1>2. CASE o \in Refused(wanted)
  BY <1>1, <1>2, RefusedKeeps DEF SameStream
<1>3. CASE o \in Done(applied) /\ d.hasMedia
  <2>1. o.ok = TRUE /\ o.device = applied
    BY <1>3 DEF Done
  <2>2. d.player \in Player /\ d \in Device
    BY DeviceFields DEF DeviceInv
  <2>3. applied.player = [d.player EXCEPT !.volume = volume]
    BY <2>2 DEF Device
  <2>4. applied.player \in Player /\ applied.player.volume = volume
        /\ applied.player.state = d.player.state
    BY <2>2, <2>3 DEF Player
  <2>5. applied \in Device /\ applied.volume = volume /\ applied.hasMedia = d.hasMedia
        /\ applied.pauseRequested = d.pauseRequested
    BY <2>2, <2>3, <2>4 DEF Device
  <2> HIDE DEF applied
  <2> QED BY <1>3, <2>1, <2>4, <2>5 DEF DeviceInv, SameStream
<1>4. CASE o \in Done(pending)
  <2>1. o.ok = TRUE /\ o.device = pending
    BY <1>4 DEF Done
  <2> HIDE DEF wanted
  <2> QED BY <1>1, <2>1 DEF DeviceInv, Device, SameStream
<1>5. CASE o \in Done(d)
  <2>1. o.ok = TRUE /\ o.device = d
    BY <1>5 DEF Done
  <2> QED BY <2>1 DEF SameStream
<1> QED BY <1>2, <1>3, <1>4, <1>5 DEF SetVolume

\* A stream that was paused is as alive as before, any other one is started.
LEMMA PlayKeeps ==
  ASSUME NEW d, DeviceInv(d), NEW o \in Play(d)
  PROVE  /\ DeviceInv(o.device) /\ o.ok \in BOOLEAN
         /\ ~o.ok => SameStream(d, o.device)
         /\ o.ok => /\ d.hasMedia /\ o.device.hasMedia /\ ~o.device.pauseRequested
                    /\ Alive(o.device.player) = (Alive(d.player) \/ ~d.pauseRequested)
<1> DEFINE started(player) == [d EXCEPT !.pauseRequested = FALSE, !.error = FALSE,
                                        !.observed = "opening", !.player = player]
<1>1. d \in Device /\ d.player \in Player /\ d.player.state \in PlayerStates
  BY DeviceFields DEF DeviceInv
<1>2. CASE o \in Refused(d)
  BY <1>2, RefusedKeeps
<1>3. ASSUME NEW player \in Player, player.volume = d.player.volume, d.hasMedia,
             o \in Done(started(player))
      PROVE  /\ DeviceInv(o.device) /\ o.ok = TRUE
             /\ o.device.hasMedia /\ ~o.device.pauseRequested /\ o.device.player = player
  <2>1. o.ok = TRUE /\ o.device = started(player)
    BY <1>3 DEF Done
  <2> DEFINE e == started(player)
  <2>2. /\ e.hasMedia = d.hasMedia /\ e.pauseRequested = FALSE /\ e.player = player
        /\ e.volumePending = d.volumePending /\ e.volume = d.volume
    BY <1>1 DEF Device
  <2>3. "opening" \in AudioStates
    BY DEF AudioStates
  <2>4. e \in Device
    BY <1>1, <1>3, <2>3 DEF Device
  <2> HIDE DEF e
  <2> QED BY <1>3, <2>1, <2>2, <2>4 DEF DeviceInv, e
<1>4. CASE o \in Done(started(UnpausePlayer(d.player))) /\ d.hasMedia /\ d.pauseRequested
  <2>1. /\ UnpausePlayer(d.player) \in Player
        /\ UnpausePlayer(d.player).volume = d.player.volume
        /\ Alive(UnpausePlayer(d.player)) = Alive(d.player)
        /\ Alive(d.player) \in BOOLEAN
    BY <1>1 DEF UnpausePlayer, Player, PlayerStates, Alive
  <2> HIDE DEF started
  <2>2. /\ DeviceInv(o.device) /\ o.ok = TRUE
        /\ o.device.hasMedia /\ ~o.device.pauseRequested
        /\ o.device.player = UnpausePlayer(d.player)
    BY <1>3, <1>4, <2>1
  <2> QED BY <1>4, <2>1, <2>2
<1>5. CASE o \in Done(started(PlayPlayer(d.player))) /\ d.hasMedia /\ ~d.pauseRequested
  <2>1. /\ PlayPlayer(d.player) \in Player
        /\ PlayPlayer(d.player).volume = d.player.volume
        /\ Alive(PlayPlayer(d.player)) = TRUE
    BY <1>1 DEF PlayPlayer, Player, PlayerStates, Alive
  <2> QED BY <1>3, <1>5, <2>1
<1> QED BY <1>2, <1>4, <1>5 DEF Play

LEMMA PauseKeeps ==
  ASSUME NEW d, DeviceInv(d), NEW o \in Pause(d)
  PROVE  /\ DeviceInv(o.device) /\ o.ok \in BOOLEAN
         /\ ~o.ok => SameStream(d, o.device)
         /\ o.ok => /\ d.hasMedia /\ o.device.hasMedia /\ o.device.pauseRequested
                    /\ Alive(o.device.player) = Alive(d.player)
<1>1. d \in Device /\ d.player \in Player /\ d.player.state \in PlayerStates
  BY DeviceFields DEF DeviceInv
<1>2. CASE o \in Refused(d)
  BY <1>2, RefusedKeeps
<1>3. ASSUME NEW player \in PausePlayer(d.player), d.hasMedia, o.ok = TRUE,
             o.device = [d EXCEPT !.pauseRequested = TRUE, !.error = FALSE,
                                  !.observed = "paused", !.player = player]
      PROVE  /\ DeviceInv(o.device) /\ o.device.hasMedia /\ o.device.pauseRequested
             /\ Alive(o.device.player) = Alive(d.player)
  <2>1. player \in Player /\ player.volume = d.player.volume /\ Alive(player) = Alive(d.player)
    BY <1>1 DEF PausePlayer, Player, PlayerStates, Alive
  <2>2. o.device \in Device /\ o.device.player = player /\ o.device.hasMedia = d.hasMedia
        /\ o.device.pauseRequested = TRUE /\ o.device.volume = d.volume
        /\ o.device.volumePending = d.volumePending
    BY <1>1, <1>3, <2>1 DEF Device, AudioStates
  <2> QED BY <1>3, <2>1, <2>2 DEF DeviceInv
<1>4. CASE d.hasMedia /\ o \notin Refused(d)
  <2>1. PICK player \in PausePlayer(d.player) :
               o \in Done([d EXCEPT !.pauseRequested = TRUE, !.error = FALSE,
                                    !.observed = "paused", !.player = player])
    BY <1>4 DEF Pause
  <2>2. o.ok = TRUE /\ o.device = [d EXCEPT !.pauseRequested = TRUE, !.error = FALSE,
                                            !.observed = "paused", !.player = player]
    BY <2>1 DEF Done
  <2> QED BY <1>3, <1>4, <2>2
<1> QED BY <1>2, <1>4 DEF Pause

LEMMA StateKeeps ==
  ASSUME NEW d, DeviceInv(d), NEW polled \in State(d)
  PROVE  DeviceInv(polled.device) /\ SameStream(d, polled.device)
<1> DEFINE mapped == MapState(d.player.state)
           observing(error) == [d EXCEPT !.observed = mapped, !.error = error \/ @]
           loud == [observing(FALSE) EXCEPT !.player.volume = d.volume, !.volumePending = FALSE]
           failed == [d EXCEPT !.observed = "error", !.error = TRUE]
<1>1. d \in Device /\ d.player \in Player /\ d.volume \in 0 .. FullVolume
  BY DeviceFields DEF DeviceInv
<1>2. mapped \in AudioStates
  BY DEF MapState, AudioStates
<1>3. CASE polled.device = d
  BY <1>3 DEF SameStream
<1>4. CASE polled.device = failed
  BY <1>4 DEF SameStream, DeviceInv, Device, AudioStates
<1> HIDE DEF mapped
<1>5. \A error \in BOOLEAN : DeviceInv(observing(error)) /\ SameStream(d, observing(error))
  BY <1>2 DEF SameStream, DeviceInv, Device
<1>6. CASE polled.device = loud /\ d.hasMedia
  <2>1. loud.player = [d.player EXCEPT !.volume = d.volume]
    BY <1>1 DEF Device
  <2>2. loud.player \in Player /\ loud.player.volume = d.volume
        /\ loud.player.state = d.player.state
    BY <1>1, <2>1 DEF Player
  <2>3. loud \in Device /\ loud.hasMedia = d.hasMedia /\ loud.volume = d.volume
        /\ loud.pauseRequested = d.pauseRequested
    BY <1>1, <1>2, <2>1, <2>2 DEF Device
  <2> HIDE DEF loud
  <2> QED BY <1>6, <2>2, <2>3 DEF SameStream, DeviceInv
<1>7. \/ polled.device = d \/ polled.device = failed
      \/ polled.device = observing(d.player.state = "Error")
      \/ polled.device = loud /\ d.hasMedia
  BY DEF State, mapped
<1>8. (d.player.state = "Error") \in BOOLEAN
  OBVIOUS
<1> QED BY <1>3, <1>4, <1>5, <1>6, <1>7, <1>8

-----------------------------------------------------------------------------
(* The manager                                                             *)

LEMMA StartKeeps ==
  ASSUME NEW d, DeviceInv(d), NEW url \in Urls, NEW volume \in 0 .. FullVolume,
         NEW o \in StartOutcomes(d, url, volume)
  PROVE  /\ DeviceInv(o.device) /\ o.ok \in BOOLEAN
         /\ o.ok => /\ o.device.hasMedia /\ ~o.device.pauseRequested
                    /\ Alive(o.device.player)
<1>1. PICK b \in SetBufferMilliseconds(d, "fits") :
        \E p \in Open(b.device, url) :
          \E l \in (IF p.ok THEN SetVolume(p.device, volume) ELSE {p}) :
            o \in (IF l.ok THEN Play(l.device) ELSE {l})
  BY DEF StartOutcomes
<1> PICK p \in Open(b.device, url) :
      \E l \in (IF p.ok THEN SetVolume(p.device, volume) ELSE {p}) :
        o \in (IF l.ok THEN Play(l.device) ELSE {l})
  BY <1>1
<1> PICK l \in (IF p.ok THEN SetVolume(p.device, volume) ELSE {p}) :
      o \in (IF l.ok THEN Play(l.device) ELSE {l})
  OBVIOUS
<1>2. DeviceInv(b.device)
  BY BufferKeeps
<1>3. /\ DeviceInv(p.device) /\ p.ok \in BOOLEAN
      /\ p.ok => p.device.hasMedia /\ ~p.device.pauseRequested
  BY <1>2, OpenKeeps
<1>4. CASE ~p.ok
  <2>1. l = p
    BY <1>4
  <2>2. o = p
    BY <1>4, <2>1
  <2> QED BY <1>3, <1>4, <2>2
<1>5. CASE p.ok
  <2>1. l \in SetVolume(p.device, volume)
    BY <1>5
  <2>2. DeviceInv(l.device) /\ l.ok \in BOOLEAN /\ SameStream(p.device, l.device)
    BY <1>3, <2>1, VolumeKeeps
  <2>3. ~l.device.pauseRequested
    BY <1>3, <1>5, <2>2 DEF SameStream
  <2>4. CASE ~l.ok
    <3>1. o = l
      BY <2>4
    <3> QED BY <2>2, <2>4, <3>1
  <2>5. CASE l.ok
    <3>1. o \in Play(l.device)
      BY <2>5
    <3> QED BY <2>2, <2>3, <3>1, PlayKeeps
  <2> QED BY <2>2, <2>4, <2>5
<1> QED BY <1>3, <1>4, <1>5

\* The volumes a manager may be set to.
Settings == {Clamp(v) : v \in Volumes} \cup {FullVolume}

\* The manager believes in a media exactly while the device has one.
MInv ==
  /\ manager \in Manager
  /\ DeviceInv(device)
  /\ device.hasMedia <=> manager.currentUrl # None
  /\ manager.volume \in Settings
  /\ PlaysLastResolution

Inv == TypeOK /\ MInv

LEMMA ClampInRange ==
  ASSUME NEW v \in Volumes
  PROVE  Clamp(v) \in 0 .. FullVolume /\ Clamp(v) \in Settings
BY AudioBackendAssumption DEF Clamp, FullVolume, Settings

LEMMA ManagerFields ==
  ASSUME NEW m \in Manager
  PROVE  /\ m.resolver \in BOOLEAN /\ m.currentUrl \in Urls \cup {None}
         /\ m.configuredUrl \in Urls \cup {None} /\ m.lastResolution \in Urls \cup {None}
         /\ m.volume \in 0 .. FullVolume /\ m.error \in BOOLEAN
BY DEF Manager

\* A manager without a media offers no stream.
LEMMA NothingBelieved ==
  ASSUME MInv, manager.currentUrl = None
  PROVE  Believed = Contract!NoStream
<1>1. ~Alive(device.player)
  BY FreshMedia DEF MInv, DeviceInv
<1>2. Alive(device.player) = FALSE
  BY <1>1 DEF Alive
<1> QED BY <1>2 DEF Believed, Contract!NoStream

LEMMA NothingBelievedNext ==
  ASSUME DeviceInv(device'), ~device'.hasMedia, manager'.currentUrl = None
  PROVE  Believed' = Contract!NoStream
<1>1. ~Alive(device.player)'
  BY FreshMedia DEF DeviceInv
<1>2. Alive(device.player)' = FALSE
  BY <1>1 DEF Alive
<1> QED BY <1>2 DEF Believed, Contract!NoStream

\* Whatever a start comes to, it leaves what was asked for or nothing.
LEMMA StartMediaStep ==
  ASSUME MInv, NEW starting \in Manager, starting.currentUrl = None,
         starting.volume \in Settings, NEW url \in Urls, NEW keeps \in BOOLEAN,
         starting.configuredUrl # None => starting.lastResolution = url,
         StartMedia(starting, Stop(device), url, keeps)
  PROVE  /\ MInv'
         /\ \/ /\ reply' = "ok"
               /\ Believed' = Contract!Playing(IF starting.configuredUrl # None
                                                THEN starting.configuredUrl ELSE url,
                                               starting.volume)
            \/ reply' = "failed" /\ Believed' = Contract!NoStream
<1>1. DeviceInv(Stop(device))
  BY StopKeeps DEF MInv
<1>2. PICK o \in StartOutcomes(Stop(device), url, starting.volume) :
        /\ Reply(o.ok)
        /\ IF o.ok
             THEN /\ manager' = [starting EXCEPT !.currentUrl = url, !.error = FALSE]
                  /\ device' = o.device
             ELSE /\ manager' = [starting EXCEPT !.error = o.device.error,
                                     !.lastResolution = IF keeps THEN @ ELSE None]
                  /\ device' = Stop(o.device)
  BY DEF StartMedia
<1>3. /\ DeviceInv(o.device) /\ o.ok \in BOOLEAN
      /\ o.ok => o.device.hasMedia /\ ~o.device.pauseRequested /\ Alive(o.device.player)
  BY <1>1, StartKeeps, ManagerFields
<1>4. url # None
  BY AudioBackendAssumption
<1>5. CASE o.ok
  <2>1. manager' = [starting EXCEPT !.currentUrl = url, !.error = FALSE] /\ device' = o.device
        /\ reply' = "ok"
    BY <1>2, <1>5 DEF Reply
  <2>2. manager' \in Manager /\ manager'.currentUrl = url
        /\ manager'.configuredUrl = starting.configuredUrl
        /\ manager'.lastResolution = starting.lastResolution
        /\ manager'.volume = starting.volume
    BY <2>1 DEF Manager
  <2>3. MInv'
    BY <1>3, <1>4, <1>5, <2>1, <2>2 DEF MInv, PlaysLastResolution
  <2>4. Believed' = Contract!Playing(IF starting.configuredUrl # None
                                      THEN starting.configuredUrl ELSE url, starting.volume)
    BY <1>3, <1>4, <1>5, <2>1, <2>2 DEF Believed, Contract!Playing, Alive
  <2> QED BY <2>1, <2>3, <2>4
<1>6. CASE ~o.ok
  <2>1. /\ manager' = [starting EXCEPT !.error = o.device.error,
                          !.lastResolution = IF keeps THEN @ ELSE None]
        /\ device' = Stop(o.device)
        /\ reply' = "failed"
    BY <1>2, <1>6 DEF Reply
  <2>2. o.device.error \in BOOLEAN
    BY <1>3, DeviceFields DEF DeviceInv
  <2>3. manager' \in Manager /\ manager'.currentUrl = None /\ manager'.volume = starting.volume
    BY <2>1, <2>2 DEF Manager
  <2>4. DeviceInv(device') /\ ~device'.hasMedia
    BY <1>3, <2>1, StopKeeps
  <2>5. MInv'
    BY <2>3, <2>4 DEF MInv, PlaysLastResolution
  <2>6. Believed' = Contract!NoStream
    BY <2>3, <2>4, NothingBelievedNext
  <2> QED BY <2>1, <2>5, <2>6
<1> QED BY <1>3, <1>5, <1>6

\* A step that leaves the URLs alone, and the device its media, keeps the manager in order.
LEMMA KeepsMedia ==
  ASSUME MInv, DeviceInv(device'), device'.hasMedia = device.hasMedia, manager' \in Manager,
         manager'.currentUrl = manager.currentUrl,
         manager'.configuredUrl = manager.configuredUrl,
         manager'.lastResolution = manager.lastResolution, manager'.volume \in Settings
  PROVE  MInv'
BY DEF MInv, PlaysLastResolution

\* If callers cannot tell the devices apart either, they believe in the same stream.
LEMMA KeepsStream ==
  ASSUME SameStream(device, device'), manager'.currentUrl = manager.currentUrl,
         manager'.configuredUrl = manager.configuredUrl, manager'.volume = manager.volume
  PROVE  Believed' = Believed
BY DEF SameStream, Believed, Alive

\* A refusal by the backend changes the error text of the manager alone.
LEMMA RefusalKeeps ==
  ASSUME MInv, DeviceInv(device'), SameStream(device, device'), BackendRefused(device')
  PROVE  MInv' /\ Believed' = Believed
<1>1. manager' = [manager EXCEPT !.error = device'.error] /\ device'.error \in BOOLEAN
  BY DeviceFields DEF DeviceInv, BackendRefused
<1>2. /\ manager' \in Manager /\ manager'.currentUrl = manager.currentUrl
      /\ manager'.configuredUrl = manager.configuredUrl
      /\ manager'.lastResolution = manager.lastResolution /\ manager'.volume = manager.volume
  BY <1>1 DEF MInv, Manager
<1>3. MInv'
  BY <1>2, KeepsMedia DEF SameStream, MInv
<1> QED BY <1>2, <1>3, KeepsStream

LEMMA SameClamp == ASSUME NEW v PROVE Contract!Clamp(v) = Clamp(v)
BY DEF Contract!Clamp, Clamp, FullVolume

\* A stream there is, in the words of the contract.
LEMMA BelievedFields ==
  ASSUME MInv
  PROVE  /\ Believed.media = None <=> manager.currentUrl = None
         /\ manager.currentUrl # None =>
              /\ Believed.media = IF manager.configuredUrl # None THEN manager.configuredUrl
                                  ELSE manager.currentUrl
              /\ Believed.volume = manager.volume
BY ManagerFields, AudioBackendAssumption DEF MInv, Believed

LEMMA ClearedKeeps ==
  ASSUME MInv, NEW url \in Urls \cup {None}, NEW volume \in Volumes
  PROVE  /\ Cleared(url, volume) \in Manager
         /\ Cleared(url, volume).currentUrl = None
         /\ Cleared(url, volume).configuredUrl = url
         /\ Cleared(url, volume).volume = Clamp(volume)
BY ClampInRange DEF MInv, Cleared, Manager

LEMMA StartStep ==
  ASSUME MInv, NEW url \in Urls, NEW volume \in Volumes, Start(url, volume)
  PROVE  MInv' /\ reply' \in {"ok", "failed"} /\ Contract!Start(url, volume)
<1> DEFINE cleared == Cleared(None, volume)
<1>1. /\ cleared \in Manager /\ cleared.currentUrl = None /\ cleared.configuredUrl = None
      /\ cleared.volume = Clamp(volume)
  BY ClearedKeeps
<1>2. StartMedia(cleared, Stop(device), url, FALSE) /\ call' = Asked("start", url, volume)
  BY DEF Start
<1> HIDE DEF cleared
<1>3. /\ MInv'
      /\ \/ reply' = "ok" /\ Believed' = Contract!Playing(url, Clamp(volume))
         \/ reply' = "failed" /\ Believed' = Contract!NoStream
  BY <1>1, <1>2, ClampInRange, StartMediaStep
<1> QED BY <1>2, <1>3, SameClamp DEF Contract!Start, Contract!Answer, Contract!StartReplies,
                                    Contract!Outcome, Contract!Asked, Asked

LEMMA StartConfiguredStep ==
  ASSUME MInv, NEW url \in Urls, NEW volume \in Volumes, StartConfiguredUrl(url, volume)
  PROVE  MInv' /\ reply' \in {"ok", "failed"} /\ Contract!Start(url, volume)
<1> DEFINE cleared == Cleared(url, volume)
<1>1. /\ cleared \in Manager /\ cleared.currentUrl = None /\ cleared.configuredUrl = url
      /\ cleared.volume = Clamp(volume) /\ url # None
  BY ClearedKeeps, AudioBackendAssumption
<1>2. /\ call' = Asked("start", url, volume)
      /\ \/ Fail(cleared) /\ device' = Stop(device)
         \/ \E media \in Supported :
              StartMedia([cleared EXCEPT !.lastResolution = media], Stop(device), media, FALSE)
  BY DEF StartConfiguredUrl
<1> HIDE DEF cleared
<1>3. /\ MInv'
      /\ \/ reply' = "ok" /\ Believed' = Contract!Playing(url, Clamp(volume))
         \/ reply' = "failed" /\ Believed' = Contract!NoStream
  <2>1. CASE Fail(cleared) /\ device' = Stop(device)
    <3>1. DeviceInv(device') /\ ~device'.hasMedia
      BY <2>1, StopKeeps DEF MInv
    <3>2. manager' = [cleared EXCEPT !.error = TRUE] /\ reply' = "failed"
      BY <2>1 DEF Fail
    <3>3. /\ manager' \in Manager /\ manager'.currentUrl = None
          /\ manager'.volume = Clamp(volume)
      BY <1>1, <3>2 DEF Manager
    <3>4. manager'.volume \in Settings
      BY <3>3, ClampInRange
    <3>5. MInv'
      BY <3>1, <3>3, <3>4 DEF MInv, PlaysLastResolution
    <3> QED BY <3>1, <3>2, <3>3, <3>5, NothingBelievedNext
  <2>2. ASSUME NEW media \in Supported,
               StartMedia([cleared EXCEPT !.lastResolution = media], Stop(device), media, FALSE)
        PROVE  /\ MInv'
               /\ \/ reply' = "ok" /\ Believed' = Contract!Playing(url, Clamp(volume))
                  \/ reply' = "failed" /\ Believed' = Contract!NoStream
    <3> DEFINE starting == [cleared EXCEPT !.lastResolution = media]
    <3>1. media \in Urls
      BY AudioBackendAssumption
    <3>2. /\ starting \in Manager /\ starting.currentUrl = None /\ starting.configuredUrl = url
          /\ starting.lastResolution = media /\ starting.volume = Clamp(volume)
      BY <1>1, <3>1 DEF Manager
    <3>3. StartMedia(starting, Stop(device), media, FALSE)
      BY <2>2
    <3>4. starting.volume \in Settings
      BY <3>2, ClampInRange
    <3> HIDE DEF starting
    <3> QED BY <1>1, <3>1, <3>2, <3>3, <3>4, StartMediaStep
  <2> QED BY <1>2, <2>1, <2>2
<1> QED BY <1>2, <1>3, SameClamp DEF Contract!Start, Contract!Answer, Contract!StartReplies,
                                    Contract!Outcome, Contract!Asked, Asked

\* An answer that is among the outcomes.
LEMMA Answered ==
  ASSUME NEW operation, NEW media, NEW volume, NEW outcomes, NEW result, NEW current,
         Contract!Outcome(result, current) \in outcomes,
         call' = Asked(operation, media, volume), reply' = result, Believed' = current
  PROVE  Contract!Answer(operation, media, volume, outcomes)
BY DEF Contract!Answer, Contract!Outcome, Contract!Asked, Asked

\* A refusal is always among them.
LEMMA MayRefuse ==
  ASSUME NEW current, NEW outcomes
  PROVE  Contract!Outcome("failed", current) \in Contract!OrRefused(current, outcomes)
BY DEF Contract!OrRefused

LEMMA PauseStep ==
  ASSUME MInv, PauseStream
  PROVE  MInv' /\ reply' \in {"ok", "failed"} /\ Contract!Pause
<1>1. PICK o \in Pause(device) :
        /\ call' = Asked("pause", None, None) /\ device' = o.device /\ Reply(o.ok)
        /\ IF o.ok THEN UNCHANGED manager ELSE BackendRefused(o.device)
  BY DEF PauseStream
<1>2. /\ DeviceInv(o.device) /\ o.ok \in BOOLEAN
      /\ ~o.ok => SameStream(device, o.device)
      /\ o.ok => /\ device.hasMedia /\ o.device.hasMedia /\ o.device.pauseRequested
                 /\ Alive(o.device.player) = Alive(device.player)
  BY PauseKeeps DEF MInv
<1>3. CASE ~o.ok
  <2>1. MInv' /\ Believed' = Believed
    BY <1>1, <1>2, <1>3, RefusalKeeps
  <2>2. reply' = "failed"
    BY <1>1, <1>3 DEF Reply
  <2>3. Contract!Outcome("failed", Believed)
          \in Contract!ModeReplies(Believed, Contract!Paused(Believed))
    BY MayRefuse DEF Contract!ModeReplies
  <2> QED BY <1>1, <2>1, <2>2, <2>3, Answered DEF Contract!Pause
<1>4. CASE o.ok
  <2>1. manager' = manager /\ reply' = "ok" /\ device' = o.device
    BY <1>1, <1>4 DEF Reply
  <2>2. MInv'
    BY <1>2, <1>4, <2>1, KeepsMedia DEF MInv
  <2>3. manager.currentUrl # None
    BY <1>2, <1>4 DEF MInv
  <2>4. Believed' = Contract!Paused(Believed) /\ Believed.media # None
    BY <1>2, <1>4, <2>1, <2>3, BelievedFields DEF Believed, Contract!Paused
  <2>5. Contract!Outcome("ok", Contract!Paused(Believed))
          \in Contract!ModeReplies(Believed, Contract!Paused(Believed))
    BY <2>4 DEF Contract!ModeReplies, Contract!OrRefused
  <2> QED BY <1>1, <2>1, <2>2, <2>4, <2>5, Answered DEF Contract!Pause
<1> QED BY <1>2, <1>3, <1>4

LEMMA ModeOverwritten ==
  ASSUME NEW media, NEW mode, NEW volume, NEW alive, NEW resumed, NEW stream,
         stream = [media |-> media, mode |-> mode, volume |-> volume, alive |-> alive]
  PROVE  [stream EXCEPT !.mode = "playing", !.alive = resumed]
           = [media |-> media, mode |-> "playing", volume |-> volume, alive |-> resumed]
<1>1. [stream EXCEPT !.mode = "playing"]
        = [media |-> media, mode |-> "playing", volume |-> volume, alive |-> alive]
  OBVIOUS
<1>2. [[media |-> media, mode |-> "playing", volume |-> volume, alive |-> alive]
         EXCEPT !.alive = resumed]
        = [media |-> media, mode |-> "playing", volume |-> volume, alive |-> resumed]
  OBVIOUS
<1> QED BY <1>1, <1>2

LEMMA ResumedFields ==
  ASSUME NEW media, NEW mode, NEW volume, NEW alive, NEW stream, NEW resumed,
         stream = [media |-> media, mode |-> mode, volume |-> volume, alive |-> alive],
         resumed = (stream.alive \/ stream.mode = "playing")
  PROVE  Contract!Resumed(stream) = [media |-> media, mode |-> "playing", volume |-> volume,
                                     alive |-> resumed]
<1>1. Contract!Resumed(stream) = [stream EXCEPT !.mode = "playing", !.alive = resumed]
  BY DEF Contract!Resumed
<1> QED BY <1>1, ModeOverwritten

LEMMA ResumeStep ==
  ASSUME MInv, ResumeStream
  PROVE  MInv' /\ reply' \in {"ok", "failed"} /\ Contract!Resume
<1>1. PICK o \in Play(device) :
        /\ call' = Asked("resume", None, None) /\ device' = o.device /\ Reply(o.ok)
        /\ IF o.ok THEN UNCHANGED manager ELSE BackendRefused(o.device)
  BY DEF ResumeStream
<1>2. /\ DeviceInv(o.device) /\ o.ok \in BOOLEAN
      /\ ~o.ok => SameStream(device, o.device)
      /\ o.ok => /\ device.hasMedia /\ o.device.hasMedia /\ ~o.device.pauseRequested
                 /\ Alive(o.device.player) = (Alive(device.player) \/ ~device.pauseRequested)
  BY PlayKeeps DEF MInv
<1>3. CASE ~o.ok
  <2>1. MInv' /\ Believed' = Believed
    BY <1>1, <1>2, <1>3, RefusalKeeps
  <2>2. reply' = "failed"
    BY <1>1, <1>3 DEF Reply
  <2>3. Contract!Outcome("failed", Believed)
          \in Contract!ModeReplies(Believed, Contract!Resumed(Believed))
    BY MayRefuse DEF Contract!ModeReplies
  <2> QED BY <1>1, <2>1, <2>2, <2>3, Answered DEF Contract!Resume
<1>4. CASE o.ok
  <2>1. manager' = manager /\ reply' = "ok" /\ device' = o.device
    BY <1>1, <1>4 DEF Reply
  <2>2. MInv'
    BY <1>2, <1>4, <2>1, KeepsMedia DEF MInv
  <2>3. manager.currentUrl # None
    BY <1>2, <1>4 DEF MInv
  <2>4. Believed.media # None
    BY <2>3, BelievedFields
  <2>5. (Believed.mode = "playing") = ~device.pauseRequested
    BY <2>3, DeviceFields DEF Believed, MInv, DeviceInv
  <2>6. Believed' = Contract!Resumed(Believed)
    <3> DEFINE media == IF manager.configuredUrl # None THEN manager.configuredUrl
                        ELSE manager.currentUrl
               mode == IF device.pauseRequested THEN "paused" ELSE "playing"
               alive == Alive(device.player)
    <3>1. Believed = [media |-> media, mode |-> mode, volume |-> manager.volume,
                      alive |-> alive]
      BY <2>3 DEF Believed
    <3>2. Believed' = [media |-> media', mode |-> mode', volume |-> manager'.volume,
                       alive |-> alive']
      BY <2>1, <2>3 DEF Believed
    <3>3. media' = media /\ mode' = "playing" /\ manager'.volume = manager.volume
      BY <1>2, <1>4, <2>1
    <3>4. alive' = (Believed.alive \/ Believed.mode = "playing")
      BY <1>2, <1>4, <2>1, <2>3, <2>5 DEF Believed, Alive
    <3> HIDE DEF media, mode, alive
    <3>5. Believed' = [media |-> media, mode |-> "playing", volume |-> manager.volume,
                       alive |-> alive']
      BY <3>2, <3>3
    <3>6. Contract!Resumed(Believed) = [media |-> media, mode |-> "playing",
                                        volume |-> manager.volume, alive |-> alive']
      BY <3>1, <3>4, ResumedFields
    <3> QED BY <3>5, <3>6
  <2>7. Contract!Outcome("ok", Contract!Resumed(Believed))
          \in Contract!ModeReplies(Believed, Contract!Resumed(Believed))
    BY <2>4 DEF Contract!ModeReplies, Contract!OrRefused
  <2> QED BY <1>1, <2>1, <2>2, <2>6, <2>7, Answered DEF Contract!Resume
<1> QED BY <1>2, <1>3, <1>4

LEMMA StopStep ==
  ASSUME MInv, StopStream
  PROVE  MInv' /\ reply' \in {"ok", "failed"} /\ Contract!Stop
<1>1. DeviceInv(device') /\ ~device'.hasMedia
  BY StopKeeps DEF MInv, StopStream
<1>2. /\ manager' \in Manager /\ manager'.currentUrl = None /\ manager'.volume = manager.volume
  BY DEF StopStream, MInv, Manager
<1>3. MInv'
  BY <1>1, <1>2 DEF MInv, PlaysLastResolution
<1>4. Believed' = Contract!NoStream
  BY <1>1, <1>2, NothingBelievedNext
<1> QED BY <1>3, <1>4 DEF StopStream, Contract!Stop, Contract!Answer, Contract!Outcome,
                          Contract!Asked, Asked

LEMMA VolumeStep ==
  ASSUME MInv, NEW volume \in Volumes, SetStreamVolume(volume)
  PROVE  MInv' /\ reply' \in {"ok", "failed"} /\ Contract!SetVolume(volume)
<1>1. PICK o \in SetVolume(device, Clamp(volume)) :
        /\ call' = Asked("setVolume", None, volume) /\ device' = o.device /\ Reply(o.ok)
        /\ IF o.ok THEN manager' = [manager EXCEPT !.volume = Clamp(volume), !.error = FALSE]
           ELSE BackendRefused(o.device)
  BY DEF SetStreamVolume
<1>2. DeviceInv(o.device) /\ o.ok \in BOOLEAN /\ SameStream(device, o.device)
  BY VolumeKeeps, ClampInRange DEF MInv
<1>3. CASE ~o.ok
  <2>1. MInv' /\ Believed' = Believed
    BY <1>1, <1>2, <1>3, RefusalKeeps
  <2>2. reply' = "failed"
    BY <1>1, <1>3 DEF Reply
  <2>3. Contract!Outcome("failed", Believed)
          \in Contract!VolumeReplies(Believed, Contract!Clamp(volume))
    BY MayRefuse DEF Contract!VolumeReplies
  <2> QED BY <1>1, <2>1, <2>2, <2>3, Answered DEF Contract!SetVolume
<1>4. CASE o.ok
  <2>1. /\ manager' = [manager EXCEPT !.volume = Clamp(volume), !.error = FALSE]
        /\ reply' = "ok" /\ device' = o.device
    BY <1>1, <1>4 DEF Reply
  <2>2. Clamp(volume) \in 0 .. FullVolume /\ Clamp(volume) \in Settings
    BY ClampInRange
  <2>3. /\ manager' \in Manager /\ manager'.currentUrl = manager.currentUrl
        /\ manager'.configuredUrl = manager.configuredUrl
        /\ manager'.lastResolution = manager.lastResolution
        /\ manager'.volume = Clamp(volume)
    BY <2>1, <2>2 DEF MInv, Manager
  <2>4. MInv'
    BY <1>2, <2>1, <2>2, <2>3, KeepsMedia DEF SameStream
  <2>5. Believed' = Contract!WithVolume(Believed, Contract!Clamp(volume))
    <3>1. CASE manager.currentUrl = None
      BY <1>2, <2>1, <2>3, <3>1 DEF Believed, SameStream, Alive, Contract!WithVolume
    <3>2. CASE manager.currentUrl # None
      <4>1. Believed.media # None
        BY <3>2, BelievedFields
      <4>2. Alive(device.player)' = Alive(device.player)
            /\ device'.pauseRequested = device.pauseRequested
        BY <1>2, <2>1 DEF SameStream, Alive
      <4> QED BY <2>3, <3>2, <4>1, <4>2, SameClamp DEF Believed, Contract!WithVolume
    <3> QED BY <3>1, <3>2
  <2>6. Contract!Outcome("ok", Contract!WithVolume(Believed, Contract!Clamp(volume)))
          \in Contract!VolumeReplies(Believed, Contract!Clamp(volume))
    BY DEF Contract!VolumeReplies, Contract!OrRefused
  <2> QED BY <1>1, <2>1, <2>4, <2>5, <2>6, Answered DEF Contract!SetVolume
<1> QED BY <1>2, <1>3, <1>4

LEMMA BufferStep ==
  ASSUME MInv, NEW size, SetBuffer(size)
  PROVE  MInv' /\ reply' \in {"ok", "failed"} /\ Contract!SetBuffer
<1>1. PICK o \in (IF size = "zero" THEN {[ok |-> FALSE, device |-> device]}
                  ELSE SetBufferMilliseconds(device, size)) :
        /\ call' = Asked("setBuffer", None, None) /\ device' = o.device /\ Reply(o.ok)
        /\ manager' = [manager EXCEPT !.error = ~o.ok]
  BY DEF SetBuffer
<1>2. DeviceInv(o.device) /\ o.ok \in BOOLEAN /\ SameStream(device, o.device)
  <2>1. CASE size = "zero"
    <3>1. o = [ok |-> FALSE, device |-> device]
      BY <2>1
    <3> QED BY <3>1 DEF MInv, SameStream
  <2>2. CASE size # "zero"
    BY <2>2, BufferKeeps DEF MInv
  <2> QED BY <2>1, <2>2
<1>3. /\ manager' \in Manager /\ manager'.currentUrl = manager.currentUrl
      /\ manager'.configuredUrl = manager.configuredUrl
      /\ manager'.lastResolution = manager.lastResolution /\ manager'.volume = manager.volume
  BY <1>1 DEF MInv, Manager
<1>4. MInv'
  BY <1>1, <1>2, <1>3, KeepsMedia DEF SameStream, MInv
<1>5. Believed' = Believed
  BY <1>1, <1>2, <1>3, KeepsStream
<1>6. reply' \in {"ok", "failed"}
  BY <1>1 DEF Reply
<1>7. \A result \in {"ok", "failed"} :
        Contract!Outcome(result, Believed) \in Contract!BufferReplies(Believed)
  BY DEF Contract!BufferReplies, Contract!OrRefused
<1> QED BY <1>1, <1>4, <1>5, <1>6, <1>7, Answered DEF Contract!SetBuffer

\* A direct URL is opened again, a configured one resolved afresh; where there is neither,
\* nothing is to come back.
LEMMA ReconnectStep ==
  ASSUME MInv, Reconnect
  PROVE  MInv' /\ reply' \in {"ok", "failed"} /\ Contract!Reconnect
<1> DEFINE stopped == [manager EXCEPT !.currentUrl = None]
           asked == IF manager.configuredUrl # None THEN manager.configuredUrl
                    ELSE manager.currentUrl
<1>1. /\ stopped \in Manager /\ stopped.currentUrl = None
      /\ stopped.configuredUrl = manager.configuredUrl /\ stopped.volume = manager.volume
      /\ stopped.volume \in Settings
  BY DEF MInv, Manager
<1>2. /\ call' = Asked("reconnect", None, None)
      /\ \/ NothingToReconnect /\ Fail(manager) /\ UNCHANGED device
         \/ /\ ~NothingToReconnect /\ manager.configuredUrl = None
            /\ StartMedia(stopped, Stop(device), manager.currentUrl, TRUE)
         \/ /\ manager.configuredUrl # None
            /\ Fail(IF manager.resolver THEN [stopped EXCEPT !.lastResolution = None]
                    ELSE stopped)
            /\ device' = Stop(device)
         \/ /\ manager.configuredUrl # None
            /\ \E media \in Supported : ReopenResolved(stopped, media)
  BY DEF Reconnect
<1> HIDE DEF stopped
<1>3. CASE NothingToReconnect /\ Fail(manager) /\ UNCHANGED device
  <2>1. manager' = [manager EXCEPT !.error = TRUE] /\ reply' = "failed" /\ device' = device
    BY <1>3 DEF Fail
  <2>2. /\ manager' \in Manager /\ manager'.currentUrl = manager.currentUrl
        /\ manager'.configuredUrl = manager.configuredUrl
        /\ manager'.lastResolution = manager.lastResolution /\ manager'.volume = manager.volume
    BY <2>1 DEF MInv, Manager
  <2>3. MInv'
    BY <2>1, <2>2, KeepsMedia DEF MInv
  <2>4. Believed = Contract!NoStream
    BY <1>3, NothingBelieved DEF NothingToReconnect
  <2>5. Believed' = Contract!NoStream
    BY <2>1, <2>2, <2>4, KeepsStream DEF SameStream
  <2>6. PICK url \in Urls : TRUE
    BY AudioBackendAssumption
  <2>7. \A volume : Contract!Answer("reconnect", None, None, Contract!StartReplies(url, volume))
    BY <1>2, <2>1, <2>5, Answered DEF Contract!StartReplies
  <2>8. 100 \in {Contract!Clamp(v) : v \in Volumes} \cup {100}
    OBVIOUS
  <2>9. ~(Believed.media # None)
    BY <2>4 DEF Contract!NoStream
  <2>10. Contract!Reconnect
    BY <2>6, <2>7, <2>8, <2>9 DEF Contract!Reconnect
  <2> QED BY <2>1, <2>3, <2>10
<1>4. ASSUME ~NothingToReconnect, MInv',
             \/ reply' = "ok" /\ Believed' = Contract!Playing(asked, manager.volume)
             \/ reply' = "failed" /\ Believed' = Contract!NoStream
      PROVE  MInv' /\ reply' \in {"ok", "failed"} /\ Contract!Reconnect
  <2>1. asked \in Urls
    BY <1>4, ManagerFields DEF NothingToReconnect, MInv
  <2>2. manager.volume \in {Contract!Clamp(v) : v \in Volumes} \cup {100}
    BY SameClamp DEF MInv, Settings, FullVolume
  <2>3. Believed.media # None => asked = Believed.media /\ manager.volume = Believed.volume
    BY BelievedFields
  <2> HIDE DEF asked
  <2>4. \/ reply' = "ok" /\ Contract!Outcome("ok", Contract!Playing(asked, manager.volume))
                            \in Contract!StartReplies(asked, manager.volume)
        \/ reply' = "failed" /\ Contract!Outcome("failed", Contract!NoStream)
                            \in Contract!StartReplies(asked, manager.volume)
    BY <1>4 DEF Contract!StartReplies
  <2>5. Contract!Answer("reconnect", None, None, Contract!StartReplies(asked, manager.volume))
    BY <1>2, <1>4, <2>4, Answered DEF Contract!StartReplies
  <2>6. Contract!Reconnect
    BY <2>1, <2>2, <2>3, <2>5 DEF Contract!Reconnect
  <2> QED BY <1>4, <2>6
<1>5. CASE /\ ~NothingToReconnect /\ manager.configuredUrl = None
           /\ StartMedia(stopped, Stop(device), manager.currentUrl, TRUE)
  <2>1. manager.currentUrl \in Urls
    BY <1>5, ManagerFields DEF NothingToReconnect, MInv
  <2>2. /\ MInv'
        /\ \/ /\ reply' = "ok"
              /\ Believed' = Contract!Playing(IF stopped.configuredUrl # None
                                                THEN stopped.configuredUrl ELSE manager.currentUrl,
                                              stopped.volume)
           \/ reply' = "failed" /\ Believed' = Contract!NoStream
    BY <1>1, <1>5, <2>1, StartMediaStep
  <2> QED BY <1>1, <1>4, <1>5, <2>2
<1>6. CASE /\ manager.configuredUrl # None /\ device' = Stop(device)
           /\ Fail(IF manager.resolver THEN [stopped EXCEPT !.lastResolution = None] ELSE stopped)
  <2>1. DeviceInv(device') /\ ~device'.hasMedia
    BY <1>6, StopKeeps DEF MInv
  <2>2. /\ manager' \in Manager /\ manager'.currentUrl = None
        /\ manager'.volume = manager.volume /\ reply' = "failed"
    BY <1>1, <1>6 DEF Fail, Manager
  <2>3. MInv'
    BY <2>1, <2>2 DEF MInv, PlaysLastResolution
  <2>4. ~NothingToReconnect /\ Believed' = Contract!NoStream
    BY <1>6, <2>1, <2>2, NothingBelievedNext DEF NothingToReconnect
  <2> QED BY <1>4, <2>2, <2>3, <2>4
<1>7. CASE manager.configuredUrl # None /\ \E media \in Supported : ReopenResolved(stopped, media)
  <2>1. PICK media \in Supported : ReopenResolved(stopped, media)
    BY <1>7
  <2> DEFINE starting == [stopped EXCEPT !.lastResolution = media]
  <2>2. media \in Urls
    BY AudioBackendAssumption
  <2>3. /\ starting \in Manager /\ starting.currentUrl = None
        /\ starting.configuredUrl = manager.configuredUrl
        /\ starting.lastResolution = media /\ starting.volume = manager.volume
        /\ starting.volume \in Settings
    BY <1>1, <2>2 DEF Manager
  <2>4. StartMedia(starting, Stop(device), media, TRUE)
    BY <2>1 DEF ReopenResolved
  <2> HIDE DEF starting
  <2>5. /\ MInv'
        /\ \/ /\ reply' = "ok"
              /\ Believed' = Contract!Playing(IF starting.configuredUrl # None
                                                THEN starting.configuredUrl ELSE media,
                                              starting.volume)
           \/ reply' = "failed" /\ Believed' = Contract!NoStream
    BY <2>2, <2>3, <2>4, StartMediaStep
  <2>6. ~NothingToReconnect
    BY <1>7 DEF NothingToReconnect
  <2> QED BY <1>4, <1>7, <2>3, <2>5, <2>6
<1> HIDE DEF asked
<1> QED BY <1>2, <1>3, <1>5, <1>6, <1>7

LEMMA PollStep ==
  ASSUME MInv, PollState
  PROVE  MInv' /\ Believed' = Believed
<1>1. PICK polled \in State(device) : device' = polled.device
  BY DEF PollState
<1>2. DeviceInv(device') /\ SameStream(device, device') /\ manager' = manager
  BY <1>1, StateKeeps DEF MInv, PollState
<1>3. MInv'
  BY <1>2, KeepsMedia DEF MInv, SameStream
<1> QED BY <1>2, <1>3, KeepsStream

\* The player moves on: its stream stays as it is, or dies; it never comes to life by itself.
LEMMA PlayerStep ==
  ASSUME MInv, PlayerMoves
  PROVE  MInv' /\ (Believed' = Believed \/ Contract!Die)
<1>1. PICK player \in PlayerSteps(device.player) : device' = [device EXCEPT !.player = player]
  BY DEF PlayerMoves
<1>2. device.hasMedia /\ manager' = manager /\ call' = call /\ reply' = reply
      /\ device \in Device /\ device.player \in Player
  BY DeviceFields DEF PlayerMoves, MInv, DeviceInv
<1>3. PICK state \in PlayerStates : player = [device.player EXCEPT !.state = state]
  BY DEF PlayerSteps, PlayerStates
<1>4. player \in Player /\ player.volume = device.player.volume /\ player.state = state
  BY <1>2, <1>3 DEF Player
<1>5. /\ device' \in Device /\ device'.player = player /\ device'.hasMedia = device.hasMedia
      /\ device'.volume = device.volume /\ device'.volumePending = device.volumePending
      /\ device'.pauseRequested = device.pauseRequested
  BY <1>1, <1>2, <1>4 DEF Device
<1>6. DeviceInv(device')
  BY <1>2, <1>4, <1>5 DEF DeviceInv, MInv
<1>7. MInv'
  BY <1>2, <1>5, <1>6, KeepsMedia DEF MInv
<1>8. Alive(device.player)
  BY <1>1, <1>2 DEF PlayerSteps, Alive, Player, PlayerStates
<1>9. manager.currentUrl # None
  BY <1>2 DEF MInv
<1>10. CASE Alive(device.player)'
  <2>1. Alive(device.player)' = Alive(device.player)
    BY <1>8, <1>10 DEF Alive
  <2> QED BY <1>2, <1>5, <1>7, <2>1 DEF Believed
<1>11. CASE ~Alive(device.player)'
  <2> DEFINE alive == Alive(device.player)
  <2>1. alive' = FALSE /\ alive = TRUE
    BY <1>8, <1>11 DEF Alive
  <2> HIDE DEF alive
  <2>2. Believed.alive = alive
    BY <1>9 DEF Believed, alive
  <2>3. Believed' = [Believed EXCEPT !.alive = alive']
    BY <1>2, <1>5, <1>9 DEF Believed, alive
  <2> QED BY <1>2, <1>7, <2>1, <2>2, <2>3 DEF Contract!Die
<1> QED BY <1>10, <1>11

LEMMA InitHolds ==
  ASSUME Init
  PROVE  Inv /\ Contract!Init
<1>1. PICK kind \in {"libVLC", "null"} : device = NewDevice(kind)
  BY DEF Init, BackendKind
<1>2. device \in Device /\ ~device.hasMedia /\ device.player = WithMedia(None)
  BY <1>1, FreshMedia DEF NewDevice, Device, AudioStates, FullVolume
<1>3. manager \in Manager /\ manager.currentUrl = None /\ manager.volume = FullVolume
  BY DEF Init, Manager, FullVolume
<1>4. MInv
  BY <1>2, <1>3 DEF MInv, DeviceInv, Settings, PlaysLastResolution
<1>5. Believed = Contract!NoStream
  BY <1>3, <1>4, NothingBelieved
<1>6. TypeOK
  BY <1>2, <1>3 DEF Init, TypeOK, Asked
<1> QED BY <1>4, <1>5, <1>6 DEF Inv, Init, Contract!Init, Contract!Asked, Asked

\* Every step keeps the manager in order, and is a step of the contract or hidden from it.
LEMMA NextStep ==
  ASSUME MInv, Next
  PROVE  /\ MInv'
         /\ \/ reply' \in {"ok", "failed"} /\ Contract!Next
            \/ UNCHANGED <<call, reply>> /\ (Contract!Next \/ Believed' = Believed)
<1>1. ASSUME NEW url \in Urls, NEW volume \in Volumes,
             Start(url, volume) \/ StartConfiguredUrl(url, volume)
      PROVE  MInv' /\ reply' \in {"ok", "failed"} /\ Contract!Next
  BY <1>1, StartStep, StartConfiguredStep DEF Contract!Next
<1>2. CASE PauseStream
  BY <1>2, PauseStep DEF Contract!Next
<1>3. CASE ResumeStream
  BY <1>3, ResumeStep DEF Contract!Next
<1>4. CASE StopStream
  BY <1>4, StopStep DEF Contract!Next
<1>5. ASSUME NEW volume \in Volumes, SetStreamVolume(volume)
      PROVE  MInv' /\ reply' \in {"ok", "failed"} /\ Contract!Next
  BY <1>5, VolumeStep DEF Contract!Next
<1>6. ASSUME NEW size \in BufferSizes, SetBuffer(size)
      PROVE  MInv' /\ reply' \in {"ok", "failed"} /\ Contract!Next
  BY <1>6, BufferStep DEF Contract!Next
<1>7. CASE Reconnect
  BY <1>7, ReconnectStep DEF Contract!Next
<1>8. CASE PollState
  BY <1>8, PollStep DEF PollState
<1>9. CASE PlayerMoves
  BY <1>9, PlayerStep DEF PlayerMoves, Contract!Next
<1> QED BY <1>1, <1>2, <1>3, <1>4, <1>5, <1>6, <1>7, <1>8, <1>9 DEF Next, GameplayCall

LEMMA CallTyped ==
  ASSUME TypeOK, Next
  PROVE  call' \in [operation : {"none", "start", "reconnect", "pause", "resume", "setVolume",
                                "setBuffer", "stop"},
                    media : Urls \cup {None}, volume : Volumes \cup {None}]
<1>1. ASSUME NEW url \in Urls, NEW volume \in Volumes,
             Start(url, volume) \/ StartConfiguredUrl(url, volume)
      PROVE  call' = Asked("start", url, volume)
  BY <1>1 DEF Start, StartConfiguredUrl
<1>2. CASE PauseStream
  BY <1>2 DEF PauseStream, Asked
<1>3. CASE ResumeStream
  BY <1>3 DEF ResumeStream, Asked
<1>4. CASE StopStream
  BY <1>4 DEF StopStream, Asked
<1>5. ASSUME NEW volume \in Volumes, SetStreamVolume(volume)
      PROVE  call' = Asked("setVolume", None, volume)
  BY <1>5 DEF SetStreamVolume
<1>6. ASSUME NEW size \in BufferSizes, SetBuffer(size)
      PROVE  call' = Asked("setBuffer", None, None)
  BY <1>6 DEF SetBuffer
<1>7. CASE Reconnect
  BY <1>7 DEF Reconnect, Asked
<1>8. CASE PollState \/ PlayerMoves
  BY <1>8 DEF PollState, PlayerMoves, TypeOK
<1> QED BY <1>1, <1>2, <1>3, <1>4, <1>5, <1>6, <1>7, <1>8 DEF Next, GameplayCall, Asked

LEMMA Invariance == Spec => []Inv
<1>1. Init => Inv
  BY InitHolds
<1>2. Inv /\ [Next]_vars => Inv'
  <2>1. ASSUME Inv, Next PROVE Inv'
    <3>1. MInv' /\ reply' \in {"ok", "failed"}
      BY <2>1, NextStep DEF Inv, TypeOK
    <3> QED BY <2>1, <3>1, CallTyped DEF Inv, TypeOK, MInv, DeviceInv
  <2>2. ASSUME Inv, UNCHANGED vars PROVE Inv'
    BY <2>2 DEF Inv, TypeOK, MInv, DeviceInv, PlaysLastResolution, vars
  <2> QED BY <2>1, <2>2
<1> QED BY <1>1, <1>2, PTL DEF Spec

-----------------------------------------------------------------------------
(* The theorems                                                            *)

\* Every variable has its type, over either backend and with every outcome of libVLC.
THEOREM TypeCorrect == Spec => []TypeOK
BY Invariance, PTL DEF Inv

\* A configured stream plays what its last resolution selected: a failed start, a failed
\* reconnect or a resolver that is not there never leaves another resolution on record.
THEOREM ResolutionPlayed == Spec => []PlaysLastResolution
<1>1. Inv => PlaysLastResolution
  BY DEF Inv, MInv
<1> QED BY <1>1, Invariance, PTL

\* A volume that is not pending is the one the player has.
THEOREM VolumeIsSettled == Spec => []VolumeSettled
<1>1. Inv => VolumeSettled
  BY DEF Inv, MInv, DeviceInv, VolumeSettled
<1> QED BY <1>1, Invariance, PTL

\* A player that came to its end is reported, whatever the backend believed before.
THEOREM DeadStreamIsReported == Spec => []DeadStreamReported
<1>1. DeadStreamReported
  BY DEF DeadStreamReported, State, MapState
<1> QED BY <1>1, PTL

\* The manager over its backend and player, the moves of the player included, does what
\* StreamContract promises, for all URLs and volumes.
THEOREM ImplementsContract == Spec => ContractSpec
<1>1. Init => Contract!Init
  BY InitHolds
<1>2. Inv /\ [Next]_vars => [Contract!Next]_(Contract!vars)
  <2>1. ASSUME Inv, Next PROVE Contract!Next \/ UNCHANGED Contract!vars
    BY <2>1, NextStep DEF Inv, Contract!vars
  <2>2. ASSUME UNCHANGED vars PROVE UNCHANGED Contract!vars
    BY <2>2 DEF vars, Contract!vars, Believed, Alive
  <2> QED BY <2>1, <2>2
<1> QED BY <1>1, <1>2, Invariance, PTL DEF Spec, ContractSpec, Contract!Spec
-----------------------------------------------------------------------------
(* The probe                                                               *)

Watching == {"loop", "poll", "reconnect", "pause", "paused", "sleep", "resume", "end", "stop"}

Leaving == {"leaving", "returned", "exited"}

\* Where the main thread is says what it has seen: inside the playback loop the stream has
\* been seen to play, an exit code is there from the moment the thread leaves, and it
\* returns only after the streams are gone.
ProbeSteps ==
  /\ pc \in Watching => confirmed
  /\ pc = "resolveOnly" => options.resolveOnly
  /\ exitCode = None <=> pc \notin Leaving
  /\ exitCode = 0 => options.resolveOnly \/ confirmed
  /\ pc \in {"returned", "exited"} => ~device.hasMedia
  /\ completed => pc = "exited"

ProbeInv == ProbeTypeOK /\ MInv /\ ProbeSteps

\* The variables of the probe alone have their types.
ControlOK ==
  /\ options \in Options
  /\ pc \in Pcs
  /\ waitingFor \in {"open", "resume", "reconnect"}
  /\ clock \subseteq Deadlines
  /\ elapsed \subseteq Deadlines
  /\ done \subseteq {"pause", "reconnect"}
  /\ exitCode \in {None, 0, 2, 3, 130}
  /\ stopRequested \in BOOLEAN
  /\ completed \in BOOLEAN
  /\ closeChecks \in {None} \cup 0 .. CompletionChecks
  /\ sawStop \in BOOLEAN
  /\ confirmed \in BOOLEAN

\* Every step of the probe is one call to its manager, a move of the player, or none of both,
\* until the manager goes.
LEMMA ProbeCalls ==
  ASSUME options \in Options, ProbeNext
  PROVE  Next \/ UNCHANGED vars \/ DestroyStreams
<1> USE DEF streamVars, vars
<1>1. CASE Begin \/ ResolveOnly \/ Failed \/ WaitGivesUp \/ Loop \/ Sleep \/ End \/ Return
  BY <1>1 DEF Begin, ResolveOnly, Failed, WaitGivesUp, Loop, Sleep, End, Return
<1>2. CASE Buffer
  <2>1. SetBuffer(options.buffer) /\ options.buffer \in BufferSizes
    BY <1>2 DEF Buffer, Options, BufferSizes
  <2> QED BY <2>1 DEF Next, GameplayCall
<1>3. CASE OpenStream
  <2>1. options.url \in Urls /\ options.volume \in Volumes
    BY DEF Options
  <2>2. \/ StartConfiguredUrl(options.url, options.volume)
        \/ Start(options.url, options.volume)
    BY <1>3 DEF OpenStream
  <2> QED BY <2>1, <2>2 DEF Next, GameplayCall
<1>4. CASE ReconnectStream \/ ResumePlayback \/ PausePlayback \/ StopPlayback
  BY <1>4 DEF ReconnectStream, ResumePlayback, PausePlayback, StopPlayback, Next, GameplayCall
<1>5. CASE WaitPolls \/ ReportPaused \/ PollPlayback
  <2>1. PollState
    BY <1>5 DEF WaitPolls, ReportPaused, PollPlayback, PollState
  <2> QED BY <2>1 DEF Next
<1>6. CASE ConsoleEvent \/ CheckCompletion \/ ClockMoves
  BY <1>6 DEF ConsoleEvent, CheckCompletion, ClockMoves, DeadlinePasses
<1>7. CASE PlayerRuns
  BY <1>7 DEF PlayerRuns, Next
<1> QED BY <1>1, <1>2, <1>3, <1>4, <1>5, <1>6, <1>7 DEF ProbeNext, MainThread

LEMMA ManagerGone ==
  ASSUME TypeOK, MInv, DestroyStreams
  PROVE  TypeOK' /\ MInv' /\ ~device'.hasMedia
<1>1. device' = Close(device) /\ manager' = [manager EXCEPT !.currentUrl = None]
      /\ UNCHANGED <<call, reply>>
  BY DEF DestroyStreams
<1>2. DeviceInv(device') /\ ~device'.hasMedia
  BY <1>1, CloseKeeps DEF MInv
<1>3. manager' \in Manager /\ manager'.currentUrl = None /\ manager'.volume = manager.volume
  BY <1>1 DEF MInv, Manager
<1>4. MInv'
  BY <1>2, <1>3 DEF MInv, PlaysLastResolution
<1> QED BY <1>1, <1>2, <1>3, <1>4 DEF TypeOK, DeviceInv

LEMMA ProbeStream ==
  ASSUME ProbeInv, ProbeNext
  PROVE  TypeOK' /\ MInv'
<1>1. CASE Next
  <2>1. TypeOK /\ MInv
    BY DEF ProbeInv, ProbeTypeOK
  <2>2. MInv' /\ reply' \in {"ok", "failed"}
    BY <1>1, <2>1, NextStep DEF TypeOK
  <2> QED BY <1>1, <2>1, <2>2, CallTyped DEF TypeOK, MInv, DeviceInv
<1>2. CASE UNCHANGED vars
  BY <1>2 DEF ProbeInv, ProbeTypeOK, TypeOK, MInv, DeviceInv, PlaysLastResolution, vars
<1>3. CASE DestroyStreams
  BY <1>3, ManagerGone DEF ProbeInv, ProbeTypeOK
<1> QED BY <1>1, <1>2, <1>3, ProbeCalls DEF ProbeInv, ProbeTypeOK

LEMMA Codes == None # 0 /\ None # 2 /\ None # 3 /\ None # 130
BY AudioBackendAssumption

\* A call of the main thread: it is waited for, or has failed.
LEMMA AwaitStep ==
  ASSUME ControlOK, ProbeSteps, NEW caller \in {"open", "resume", "reconnect"},
         pc \in {"open", "resume", "reconnect"}, AwaitPlayback(caller)
  PROVE  ControlOK' /\ ProbeSteps'
<1>1. /\ pc' \in {"wait", "failed"} /\ exitCode' = exitCode /\ waitingFor' = caller
      /\ confirmed' = FALSE /\ clock' \subseteq Deadlines
      /\ UNCHANGED <<options, elapsed, done, stopRequested, closeChecks, completed, sawStop>>
  BY DEF AwaitPlayback, Goto, handlerVars, ControlOK
<1>2. ControlOK'
  BY <1>1 DEF ControlOK, Pcs
<1>3. ProbeSteps'
  BY <1>1, Codes DEF ProbeSteps, Watching, Leaving
<1> QED BY <1>2, <1>3

\* A step of the main thread that changes little but its place.
LEMMA MovesOn ==
  ASSUME ControlOK, ProbeSteps, pc \notin Leaving,
         UNCHANGED <<options, waitingFor, clock, handlerVars, completed, confirmed>>,
         elapsed' \subseteq Deadlines, done' = done, sawStop' \in BOOLEAN,
         \/ Goto(pc') /\ pc' \in Pcs \ Leaving
         \/ \E code \in {0, 2, 3, 130} : Leave(code) /\ (code = 0 => options.resolveOnly \/ confirmed),
         pc' \in Watching => confirmed,
         pc' = "resolveOnly" => options.resolveOnly
  PROVE  ControlOK' /\ ProbeSteps'
<1>1. ControlOK'
  BY DEF ControlOK, Goto, Leave, Pcs, handlerVars, Leaving
<1>2. CASE Goto(pc') /\ pc' \in Pcs \ Leaving
  BY <1>1, <1>2, Codes DEF ProbeSteps, Goto, Leaving, handlerVars
<1>3. ASSUME NEW code \in {0, 2, 3, 130}, Leave(code), code = 0 => options.resolveOnly \/ confirmed
      PROVE  ProbeSteps'
  BY <1>3, Codes DEF ProbeSteps, Leave, Leaving, Watching, handlerVars
<1> QED BY <1>1, <1>2, <1>3

\* The steps that look for the stream to play.
LEMMA WaitPollsStep ==
  ASSUME ControlOK, ProbeSteps, WaitPolls
  PROVE  ControlOK' /\ ProbeSteps'
<1>1. PICK polled \in State(device) :
        /\ confirmed' = (polled.state = "playing")
        /\ CASE polled.state = "playing" -> Goto(Continuation) /\ done' = done \cup Finished
             [] polled.state \in {"error", "stopped"} -> Goto("failed") /\ UNCHANGED done
             [] OTHER -> Goto("wait") /\ UNCHANGED done
  BY DEF WaitPolls
<1>2. /\ UNCHANGED <<options, waitingFor, clock, elapsed, stopRequested, closeChecks, completed,
                     sawStop>>
      /\ pc = "wait" /\ exitCode' = exitCode
  BY <1>1 DEF WaitPolls, handlerVars, Goto
<1>3. Continuation \in {"loop", "poll", "reconnect"} /\ Finished \subseteq {"pause", "reconnect"}
  BY DEF Continuation, Finished, ControlOK
<1>4. \/ pc' \in {"loop", "poll", "reconnect"} /\ polled.state = "playing"
      \/ pc' \in {"failed", "wait"}
  BY <1>1, <1>3 DEF Goto
<1>5. done' \subseteq {"pause", "reconnect"}
  BY <1>1, <1>3 DEF ControlOK
<1>6. confirmed' \in BOOLEAN /\ (pc' \in Watching => confirmed')
  BY <1>1, <1>4 DEF Watching
<1>7. ControlOK'
  BY <1>2, <1>4, <1>5, <1>6 DEF ControlOK, Pcs
<1>8. ProbeSteps'
  BY <1>2, <1>4, <1>6, Codes DEF ProbeSteps, Leaving
<1> QED BY <1>7, <1>8

LEMMA MainThreadStep ==
  ASSUME ControlOK, ProbeSteps, MInv, MainThread
  PROVE  ControlOK' /\ ProbeSteps'
<1>1. CASE Begin
  BY <1>1, MovesOn DEF Begin, Leaving, Goto, Leave, Pcs, Watching, ControlOK
<1>2. CASE ResolveOnly
  <2>1. options.resolveOnly /\ sawStop' \in BOOLEAN
    BY <1>2 DEF ResolveOnly, ProbeSteps, ControlOK
  <2> QED BY <1>2, <2>1, MovesOn DEF ResolveOnly, Leaving, Leave, Watching, ControlOK
<1>3. CASE Buffer
  BY <1>3, MovesOn DEF Buffer, Leaving, Goto, Leave, Pcs, Watching, ControlOK
<1>4. CASE OpenStream
  BY <1>4, AwaitStep DEF OpenStream
<1>5. CASE ReconnectStream
  BY <1>5, AwaitStep DEF ReconnectStream
<1>6. CASE ResumePlayback
  BY <1>6, AwaitStep DEF ResumePlayback
<1>7. CASE Failed
  <2>1. sawStop' \in BOOLEAN
    BY <1>7 DEF Failed, ControlOK
  <2> QED BY <1>7, <2>1, MovesOn DEF Failed, Leaving, Goto, Leave, Pcs, Watching, ControlOK
<1>8. CASE WaitGivesUp
  <2>1. sawStop' \in BOOLEAN
    BY <1>8 DEF WaitGivesUp, ControlOK
  <2> QED BY <1>8, <2>1, MovesOn DEF WaitGivesUp, Leaving, Goto, Pcs, Watching, ControlOK
<1>9. CASE WaitPolls
  BY <1>9, WaitPollsStep
<1>10. CASE Loop
  <2>1. pc' \in {"end", "pause", "reconnect", "poll"} /\ Goto(pc') /\ elapsed' \subseteq Deadlines
    BY <1>10 DEF Loop, Goto, ControlOK
  <2>2. confirmed
    BY <1>10 DEF Loop, ProbeSteps, Watching
  <2> QED BY <1>10, <2>1, <2>2, MovesOn DEF Loop, Leaving, Pcs, ControlOK
<1>11. CASE PausePlayback
  <2>1. confirmed
    BY <1>11 DEF PausePlayback, ProbeSteps, Watching
  <2> QED BY <1>11, <2>1, MovesOn DEF PausePlayback, Leaving, Goto, Leave, Pcs, ControlOK
<1>12. CASE ReportPaused
  <2>1. confirmed
    BY <1>12 DEF ReportPaused, ProbeSteps, Watching
  <2> QED BY <1>12, <2>1, MovesOn DEF ReportPaused, Leaving, Goto, Pcs, ControlOK
<1>13. CASE Sleep
  <2>1. confirmed /\ sawStop' \in BOOLEAN
    BY <1>13 DEF Sleep, ProbeSteps, Watching, ControlOK
  <2> QED BY <1>13, <2>1, MovesOn DEF Sleep, Leaving, Goto, Pcs, ControlOK
<1>14. CASE PollPlayback
  <2>1. confirmed
    BY <1>14 DEF PollPlayback, ProbeSteps, Watching
  <2> QED BY <1>14, <2>1, MovesOn DEF PollPlayback, Leaving, Goto, Leave, Pcs, ControlOK
<1>15. CASE End
  <2>1. confirmed /\ sawStop' \in BOOLEAN
    BY <1>15 DEF End, ProbeSteps, Watching, ControlOK
  <2> QED BY <1>15, <2>1, MovesOn DEF End, Leaving, Goto, Pcs, ControlOK
<1>16. CASE StopPlayback
  <2>1. pc = "stop" => confirmed
    BY DEF ProbeSteps, Watching
  <2> QED BY <1>16, <2>1, MovesOn DEF StopPlayback, Leaving, Leave, Watching, ControlOK
<1>17. CASE DestroyStreams
  <2>1. ~device'.hasMedia
    BY <1>17, CloseKeeps DEF DestroyStreams, MInv
  <2> QED BY <1>17, <2>1 DEF DestroyStreams, Goto, ControlOK, ProbeSteps, Pcs, Watching, Leaving,
                             handlerVars
<1>18. CASE Return
  BY <1>18 DEF Return, Goto, ControlOK, ProbeSteps, Pcs, Watching, Leaving, handlerVars, streamVars
<1> QED BY <1>1, <1>2, <1>3, <1>4, <1>5, <1>6, <1>7, <1>8, <1>9, <1>10, <1>11, <1>12, <1>13,
           <1>14, <1>15, <1>16, <1>17, <1>18 DEF MainThread

LEMMA ProbeStep ==
  ASSUME ControlOK, ProbeSteps, MInv, ProbeNext
  PROVE  ControlOK' /\ ProbeSteps'
<1>1. CASE MainThread
  BY <1>1, MainThreadStep
<1>2. CASE ConsoleEvent
  <2>1. closeChecks' \in {None} \cup 0 .. CompletionChecks
    BY <1>2, ProbeAssumption DEF ConsoleEvent
  <2> QED BY <1>2, <2>1 DEF ConsoleEvent, ControlOK, ProbeSteps, streamVars
<1>3. CASE CheckCompletion
  <2>1. closeChecks' \in 0 .. CompletionChecks
    BY <1>3, ProbeAssumption DEF CheckCompletion, HandlerDone, ControlOK
  <2> QED BY <1>3, <2>1 DEF CheckCompletion, ControlOK, ProbeSteps, streamVars
<1>4. ASSUME NEW deadline \in Deadlines, DeadlinePasses(deadline)
      PROVE  ControlOK' /\ ProbeSteps'
  BY <1>4 DEF DeadlinePasses, ControlOK, ProbeSteps, streamVars, handlerVars
<1>5. CASE PlayerRuns
  <2>1. device.hasMedia /\ UNCHANGED probeVars
    BY <1>5 DEF PlayerRuns, PlayerMoves
  <2> QED BY <2>1 DEF probeVars, ControlOK, ProbeSteps
<1> QED BY <1>1, <1>2, <1>3, <1>4, <1>5 DEF ProbeNext, ClockMoves

LEMMA ProbeInvariance == ProbeSpec => []ProbeInv
<1>1. ProbeInit => ProbeInv
  <2> SUFFICES ASSUME ProbeInit PROVE ProbeInv
    OBVIOUS
  <2>1. TypeOK /\ MInv
    BY InitHolds DEF ProbeInit, Inv
  <2>2. ProbeSteps
    BY Codes DEF ProbeInit, ProbeSteps, Watching, Leaving
  <2> QED BY <2>1, <2>2 DEF ProbeInit, ProbeInv, ProbeTypeOK, Pcs
<1>2. ProbeInv /\ [ProbeNext]_allVars => ProbeInv'
  <2>1. ASSUME ProbeInv, ProbeNext PROVE ProbeInv'
    <3>1. ControlOK
      BY <2>1 DEF ProbeInv, ProbeTypeOK, ControlOK
    <3>2. ControlOK' /\ ProbeSteps'
      BY <2>1, <3>1, ProbeStep DEF ProbeInv
    <3>3. TypeOK' /\ MInv'
      BY <2>1, ProbeStream
    <3> QED BY <3>2, <3>3 DEF ProbeInv, ProbeTypeOK, ControlOK
  <2>2. ASSUME ProbeInv, UNCHANGED allVars PROVE ProbeInv'
    <3>1. TypeOK' /\ MInv'
      BY <2>2 DEF allVars, ProbeInv, ProbeTypeOK, TypeOK, MInv, DeviceInv, PlaysLastResolution
    <3> QED BY <2>2, <3>1 DEF allVars, ProbeInv, ProbeTypeOK, ProbeSteps
  <2> QED BY <2>1, <2>2
<1> QED BY <1>1, <1>2, PTL DEF ProbeSpec

\* The manager's state stays typed under the probe, and so does the probe's own.
THEOREM ProbeTyped == ProbeSpec => []ProbeTypeOK
BY ProbeInvariance, PTL DEF ProbeInv

\* What holds of the manager between two calls still holds when the probe makes them, up to
\* and after the step in which the manager is destroyed.
THEOREM ManagerUnderProbe == ProbeSpec => [](PlaysLastResolution /\ VolumeSettled)
<1>1. ProbeInv => PlaysLastResolution /\ VolumeSettled
  BY DEF ProbeInv, MInv, DeviceInv, VolumeSettled
<1> QED BY <1>1, ProbeInvariance, PTL

\* Exit code 0 is given only for a stream that was seen to play after its last start,
\* resumption or reconnection, for every command line and every order of the deadlines.
THEOREM SuccessIsSeen == ProbeSpec => []SuccessMeansPlayed
<1>1. ProbeInv => SuccessMeansPlayed
  BY DEF ProbeInv, ProbeSteps, SuccessMeansPlayed
<1> QED BY <1>1, ProbeInvariance, PTL

\* A close handler that did not use up its checks ends the process only after the player
\* is gone and the result is known, however many checks it may make.
THEOREM CloseIsSafe == ProbeSpec => []CloseFindsPlayerReleased
<1>1. ProbeInv => CloseFindsPlayerReleased
  <2> SUFFICES ASSUME ProbeInv, HandlerDone, closeChecks < CompletionChecks
               PROVE  ~device.hasMedia /\ exitCode # None
    BY DEF CloseFindsPlayerReleased
  <2>1. completed
    BY ProbeAssumption DEF HandlerDone, ProbeInv, ProbeTypeOK
  <2> QED BY <2>1 DEF ProbeInv, ProbeSteps, Leaving
<1> QED BY <1>1, ProbeInvariance, PTL
=============================================================================
