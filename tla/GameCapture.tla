----------------------------- MODULE GameCapture ----------------------------
(***************************************************************************)
(* PluginSdkGameStateSource::capture over PluginSdkRuntimeAccess: one      *)
(* snapshot per frame from bytes and calls that may each fail.  Values are *)
(* small integers around the bounds of the address profile.                *)
(***************************************************************************)
EXTENDS Integers

CONSTANTS
  Fault,    \* a read that fails or a call that raises
  None,     \* std::nullopt
  Stations, \* what GetRadioInCar can answer
  Volumes,  \* what the music volume can hold
  Profiles  \* the address profiles: [complete, minStation, maxStation, minVolume, maxVolume]

ASSUME CaptureAssumption ==
  /\ Stations \subseteq Int
  /\ Volumes \subseteq Int
  /\ \A p \in Profiles :
       /\ p.complete \in BOOLEAN
       /\ {p.minStation, p.maxStation, p.minVolume, p.maxVolume} \subseteq Int

\* A byte of the game's memory where a bool is expected.
Bytes == {0, 1, 2}

\* FindPlayerVehicle's pointer: none, too low, misaligned, or one that could be real.
Pointers == {"zero", "low", "misaligned", "plausible"}

\* What the game holds in a frame.
World == [notLoaded : Bytes, pause : Bytes, vehicle : Pointers, station : Stations,
          volume : Volumes]

Reads == {"notLoaded", "pause", "vehicle", "station", "volume"}

-----------------------------------------------------------------------------

\* readBoolean: a byte over 1 is no bool.
Bool(byte) == IF byte \in {0, 1} THEN byte = 1 ELSE None

ReadBoolean(read, byte, faults) == IF read \in faults THEN None ELSE Bool(byte)

\* A protected call; without the build for it there is none.
Call(protected, read, value, faults) == IF ~protected \/ read \in faults THEN Fault ELSE value

Ready(notLoaded) == notLoaded # None /\ ~notLoaded

\* plausibleVehiclePointer: neither null nor one nobody could have allocated.
Vehicle(pointer) ==
  CASE pointer = "zero" -> FALSE
    [] pointer = "plausible" -> TRUE
    [] OTHER -> None

StationInRange(profile, station) == station >= profile.minStation /\ station <= profile.maxStation

VolumeUsable(profile, volume) ==
  profile.maxVolume > profile.minVolume /\ volume >= profile.minVolume /\ volume <= profile.maxVolume

Unavailable ==
  [observer |-> FALSE, ready |-> FALSE, pause |-> None, inVehicle |-> None, station |-> None,
   volume |-> None]

\* capture(): each read is contained on its own; what was read of the loading flag
\* decides whether the game's functions are called at all.
Capture(profile, protected, w, faults) ==
  IF ~profile.complete THEN Unavailable
  ELSE LET ready == Ready(ReadBoolean("notLoaded", w.notLoaded, faults))
           vehicle == Call(protected, "vehicle", w.vehicle, faults)
           station == Call(protected, "station", w.station, faults)
       IN  [observer |-> TRUE,
            ready |-> ready,
            pause |-> ReadBoolean("pause", w.pause, faults),
            inVehicle |-> IF ready /\ vehicle # Fault THEN Vehicle(vehicle) ELSE None,
            station |-> IF ready /\ station # Fault /\ StationInRange(profile, station)
                        THEN station ELSE None,
            volume |-> IF "volume" \notin faults /\ VolumeUsable(profile, w.volume)
                       THEN <<w.volume - profile.minVolume, profile.maxVolume - profile.minVolume>>
                       ELSE None]

Calls(profile, protected, w, faults) ==
  IF profile.complete /\ protected /\ Ready(ReadBoolean("notLoaded", w.notLoaded, faults))
  THEN {"vehicle", "station"} ELSE {}

-----------------------------------------------------------------------------

\* A read that fails costs its own field and no other; losing the loading flag
\* costs what depends on it.
FaultContained(profile, protected, w) ==
  LET whole == Capture(profile, protected, w, {})
      Without(read) == Capture(profile, protected, w, {read})
  IN  /\ Without("pause") = [whole EXCEPT !.pause = None]
      /\ Without("vehicle") = [whole EXCEPT !.inVehicle = None]
      /\ Without("station") = [whole EXCEPT !.station = None]
      /\ Without("volume") = [whole EXCEPT !.volume = None]
      /\ Without("notLoaded") =
           [whole EXCEPT !.ready = FALSE, !.inVehicle = None, !.station = None]

\* The game's functions are called only in a frame whose loading flag was read and
\* says loaded; a torn or damaged flag does not count as one.
CallsOnlyWhenLoaded(profile, protected, w, faults) ==
  Calls(profile, protected, w, faults) # {} => (w.notLoaded = 0 /\ "notLoaded" \notin faults)

\* A snapshot's volume is a fraction of a positive range between nothing and all of
\* it, whatever the profile says and the game holds.
VolumeIsFraction(snapshot) ==
  snapshot.volume # None => /\ snapshot.volume[2] > 0
                            /\ snapshot.volume[1] \in 0 .. snapshot.volume[2]

=============================================================================
