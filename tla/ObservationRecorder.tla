------------------------- MODULE ObservationRecorder ------------------------
(***************************************************************************)
(* RadioStationObservationRecorder: which raw stations a research session  *)
(* records, from the snapshots of the observer.  A threshold of frames     *)
(* filters the stations one only passes while turning the dial.            *)
(***************************************************************************)
EXTENDS GameCapture, Sequences

CONSTANTS
  DefaultStable,    \* defaultMinimumStableFrames
  MaximumStable,    \* maximumMinimumStableFrames
  StableSettings,   \* what configure is called with
  MaximumSettings,  \* likewise, the limits of observations
  Frames            \* bound: frames of one session

ASSUME RecorderAssumption ==
  /\ MaximumStable \in Nat /\ DefaultStable \in 1 .. MaximumStable
  /\ StableSettings \subseteq Nat /\ MaximumSettings \subseteq Nat
  /\ Frames \in Nat
  /\ None \notin Int

VARIABLES
  profile,         \* the profile of the observer's source
  protected,       \* the build can call into the game
  minimumStableFrames,
  maximumObservations,
  lastSequence,    \* 0 before the first accepted snapshot
  candidate,       \* candidateRaw_
  stableFrames,    \* candidateStableFrames_
  lastEmitted,     \* lastEmittedRaw_
  nextOrdinal,
  observations,
  clock,           \* the observer's frame count
  streak,          \* history: accepted snapshots with this raw since the last other one
  held,            \* history: those of them since the settings last changed
  accepted         \* history: the last operation accepted a snapshot

observer == <<profile, protected>>
config == <<minimumStableFrames, maximumObservations>>
session == <<lastSequence, candidate, stableFrames, lastEmitted, nextOrdinal, observations>>
vars == <<observer, config, session, clock, streak, held, accepted>>

AcceptedRaws == Stations \cap (0 .. 255)
Observation == [sequence : 1 .. Frames, ordinal : 1 .. Frames, raw : AcceptedRaws,
                stable : 1 .. MaximumStable, threshold : 1 .. MaximumStable]

TypeOK ==
  /\ profile \in Profiles
  /\ protected \in BOOLEAN
  /\ minimumStableFrames \in 1 .. MaximumStable
  /\ maximumObservations \in MaximumSettings
  /\ lastSequence \in 0 .. Frames
  /\ candidate \in AcceptedRaws \cup {None}
  /\ stableFrames \in 0 .. MaximumStable
  /\ lastEmitted \in AcceptedRaws \cup {None}
  /\ nextOrdinal \in 1 .. Frames + 1
  /\ \A i \in DOMAIN observations : observations[i] \in Observation
  /\ clock \in 0 .. Frames
  /\ streak \in 0 .. Frames
  /\ held \in 0 .. streak
  /\ accepted \in BOOLEAN

SafeMinimumStableFrames(value) ==
  IF value = 0 THEN DefaultStable ELSE IF value > MaximumStable THEN MaximumStable ELSE value

EmptySession ==
  /\ lastSequence = 0
  /\ candidate = None
  /\ stableFrames = 0
  /\ lastEmitted = None
  /\ nextOrdinal = 1
  /\ observations = <<>>

Init ==
  /\ profile \in Profiles
  /\ protected \in BOOLEAN
  /\ \E stable \in StableSettings : minimumStableFrames = SafeMinimumStableFrames(stable)
  /\ maximumObservations \in MaximumSettings
  /\ EmptySession
  /\ clock = 0
  /\ streak = 0
  /\ held = 0
  /\ accepted = FALSE

-----------------------------------------------------------------------------

\* What observe looks at in a snapshot.
Seen(snapshot) ==
  [observer |-> snapshot.observer, ready |-> snapshot.ready, inVehicle |-> snapshot.inVehicle,
   station |-> snapshot.station]

\* What a source can capture of it: CapturesExact says that these are the results of
\* Capture, over every world and every failing read.
Captured(p, b) ==
  IF ~p.complete THEN {Seen(Unavailable)}
  ELSE {Seen([Unavailable EXCEPT !.observer = TRUE])}
         \cup [observer : {TRUE}, ready : {TRUE},
               inVehicle : IF b THEN BOOLEAN \cup {None} ELSE {None},
               station : {None} \cup
                         IF b THEN Stations \cap (p.minStation .. p.maxStation) ELSE {}]

CapturesExact ==
  \A p \in Profiles, b \in BOOLEAN :
    Captured(p, b) =
      {Seen(Capture(p, b, w, faults)) : w \in World, faults \in {{}} \cup {{r} : r \in Reads}}

\* In a vehicle, in a loaded game, with a station in 0..255.
Recordable(seen) ==
  /\ seen.observer /\ seen.ready
  /\ seen.inVehicle = TRUE
  /\ seen.station \in 0 .. 255
  /\ maximumObservations > 0

\* Nothing moves, the candidate and its count included.
Refuse == UNCHANGED <<observer, config, session, streak, held>> /\ accepted' = FALSE

\* Mutant: another station goes on counting where the last one was.
CountOn(raw) == IF stableFrames < minimumStableFrames THEN stableFrames + 1 ELSE stableFrames

\* The frames the candidate has been stable for, up to the threshold.
Stable(raw) ==
  IF candidate # raw THEN 1
  ELSE IF stableFrames < minimumStableFrames THEN stableFrames + 1 ELSE stableFrames

ThresholdReached(stable) == stable >= minimumStableFrames

NewlyStable(raw) == lastEmitted # raw

Remember(sequence) == lastSequence' = sequence

Observe(sequence, raw) ==
  /\ Remember(sequence)
  /\ candidate' = raw
  /\ stableFrames' = Stable(raw)
  /\ streak' = IF candidate = raw THEN streak + 1 ELSE 1
  /\ held' = IF candidate = raw THEN held + 1 ELSE 1
  /\ IF \/ ~ThresholdReached(stableFrames')
        \/ ~NewlyStable(raw)
        \/ Len(observations) >= maximumObservations
     THEN UNCHANGED <<lastEmitted, nextOrdinal, observations>>
     ELSE /\ observations' = Append(observations,
                [sequence |-> sequence, ordinal |-> nextOrdinal, raw |-> raw,
                 stable |-> stableFrames', threshold |-> minimumStableFrames])
          /\ lastEmitted' = raw
          /\ nextOrdinal' = nextOrdinal + 1
  /\ accepted' = TRUE
  /\ UNCHANGED <<observer, config>>

\* captureFrame numbers its snapshots and passes each one on.
ObserveFrame ==
  /\ clock < Frames
  /\ clock' = clock + 1
  /\ \E seen \in Captured(profile, protected) :
       IF Recordable(seen) THEN Observe(clock', seen.station) ELSE Refuse

\* A snapshot of an earlier frame, or of this one again; the recorder compares
\* sequence numbers.
ObserveAgain ==
  /\ \E sequence \in 1 .. clock, seen \in Captured(profile, protected) :
       IF ~Recordable(seen) \/ lastSequence >= sequence THEN Refuse
       ELSE Observe(sequence, seen.station)
  /\ UNCHANGED clock

Reset ==
  /\ lastSequence' = 0
  /\ candidate' = None
  /\ stableFrames' = 0
  /\ lastEmitted' = None
  /\ nextOrdinal' = 1
  /\ observations' = <<>>
  /\ streak' = 0
  /\ held' = 0
  /\ accepted' = FALSE
  /\ UNCHANGED <<observer, config, clock>>

\* configure leaves the session as it is.
Configure ==
  /\ \E stable \in StableSettings : minimumStableFrames' = SafeMinimumStableFrames(stable)
  /\ maximumObservations' \in MaximumSettings
  /\ held' = 0
  /\ accepted' = FALSE
  /\ UNCHANGED <<observer, session, clock, streak>>

Next ==
  \/ ObserveFrame \/ ObserveAgain \/ Reset \/ Configure

Spec == Init /\ [][Next]_vars

-----------------------------------------------------------------------------

\* docs/RADIO_STATION_MAP_RESEARCH.md:8: what a session records is what was stable, no less and no
\* more.  Every record stands on as many frames of that station, and of no other, as the
\* threshold asked for at that moment, whatever failed in between; and a station that was
\* stable for the threshold under one setting has been recorded if there was room, though
\* frames on foot or of no known station came in between.
RecordedExactly ==
  /\ stableFrames <= streak
  /\ \A i \in DOMAIN observations : observations[i].stable >= observations[i].threshold
  /\ accepted /\ held >= minimumStableFrames =>
       lastEmitted = candidate \/ Len(observations) >= maximumObservations

=============================================================================
