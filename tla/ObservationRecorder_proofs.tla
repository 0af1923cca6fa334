---------------------- MODULE ObservationRecorder_proofs ----------------------
(***************************************************************************)
(* What a research session records is what was stable, no less and no      *)
(* more: proofs about ObservationRecorder for any number of frames, any    *)
(* thresholds and limits, and any profile.                                 *)
(*                                                                         *)
(* The recorder counts up to the threshold of the moment only, and the     *)
(* threshold may change under a count.  The invariant relates its count to *)
(* the frames there really were: it never runs ahead of them, and it has   *)
(* fallen behind those since the last change only where it has reached the *)
(* threshold.                                                              *)
(***************************************************************************)
EXTENDS ObservationRecorder, SequenceTheorems, TLAPS

\* The count and the frames.
CountInv ==
  /\ stableFrames <= streak
  /\ held <= stableFrames \/ minimumStableFrames <= stableFrames
  /\ streak <= lastSequence

\* The records: numbered one by one, at most one for each accepted snapshot.
RecordInv ==
  /\ observations \in Seq(Observation)
  /\ Len(observations) = nextOrdinal - 1
  /\ nextOrdinal <= lastSequence + 1
  /\ lastSequence <= clock
  /\ \A i \in DOMAIN observations : observations[i].stable >= observations[i].threshold

\* A station that is stable is recorded at once, if there is room.
StableInv ==
  accepted /\ held >= minimumStableFrames =>
    lastEmitted = candidate \/ Len(observations) >= maximumObservations

RecorderInv == TypeOK /\ CountInv /\ RecordInv /\ StableInv

-----------------------------------------------------------------------------

LEMMA SafeThreshold ==
  ASSUME NEW stable \in StableSettings
  PROVE  SafeMinimumStableFrames(stable) \in 1 .. MaximumStable
<1>1. stable \in Nat /\ DefaultStable \in 1 .. MaximumStable /\ MaximumStable \in Nat
  BY RecorderAssumption
<1>2. MaximumStable \in 1 .. MaximumStable
  BY <1>1
<1>3. stable # 0 /\ ~(stable > MaximumStable) => stable \in 1 .. MaximumStable
  BY <1>1
<1> QED BY <1>1, <1>2, <1>3 DEF SafeMinimumStableFrames

\* An accepted snapshot is of a station that can be recorded.
LEMMA RecordableRaw ==
  ASSUME NEW p \in Profiles, NEW b \in BOOLEAN, NEW seen \in Captured(p, b), Recordable(seen)
  PROVE  seen.station \in AcceptedRaws
<1>1. seen.station \in 0 .. 255
  BY DEF Recordable
<1>2. seen.station \in Stations \cup {None}
  <2>1. Unavailable.station = None /\ [Unavailable EXCEPT !.observer = TRUE].station = None
    BY DEF Unavailable
  <2>2. CASE seen = Seen(Unavailable)
    BY <2>1, <2>2 DEF Seen
  <2>3. CASE seen = Seen([Unavailable EXCEPT !.observer = TRUE])
    BY <2>1, <2>3 DEF Seen
  <2>4. CASE seen \in [observer : {TRUE}, ready : {TRUE},
                      inVehicle : IF b THEN BOOLEAN \cup {None} ELSE {None},
                      station : {None} \cup
                                IF b THEN Stations \cap (p.minStation .. p.maxStation) ELSE {}]
    BY <2>4
  <2> QED BY <2>2, <2>3, <2>4 DEF Captured
<1>3. None \notin Int
  BY RecorderAssumption
<1> QED BY <1>1, <1>2, <1>3 DEF AcceptedRaws

LEMMA RecorderInit == Init => RecorderInv
<1> SUFFICES ASSUME Init PROVE RecorderInv
  OBVIOUS
<1>1. /\ minimumStableFrames \in 1 .. MaximumStable
      /\ maximumObservations \in MaximumSettings
      /\ observations = <<>> /\ <<>> \in Seq(Observation) /\ Len(<<>>) = 0
      /\ DOMAIN observations = {}
  BY SafeThreshold DEF Init, EmptySession
<1>2. clock \in 0 .. Frames /\ lastSequence \in 0 .. Frames /\ nextOrdinal \in 1 .. Frames + 1
  BY RecorderAssumption DEF Init, EmptySession
<1>3. stableFrames \in 0 .. MaximumStable
  BY RecorderAssumption DEF Init, EmptySession
<1>4. streak = 0 /\ held = 0 /\ Frames \in Nat
  BY RecorderAssumption DEF Init
<1>5. streak \in 0 .. Frames /\ held \in 0 .. streak
  BY <1>4
<1>6. /\ profile \in Profiles /\ protected \in BOOLEAN /\ accepted \in BOOLEAN
      /\ candidate \in AcceptedRaws \cup {None} /\ lastEmitted \in AcceptedRaws \cup {None}
  BY DEF Init, EmptySession
<1>7. TypeOK
  BY <1>1, <1>2, <1>3, <1>5, <1>6 DEF TypeOK
<1>8. CountInv /\ RecordInv
  BY <1>1 DEF Init, EmptySession, CountInv, RecordInv
<1>9. StableInv
  BY DEF Init, StableInv
<1> QED BY <1>7, <1>8, <1>9 DEF RecorderInv

\* Another frame of the candidate, or the first one of another station.
LEMMA Counting ==
  ASSUME RecorderInv, NEW sequence \in Int, lastSequence < sequence, NEW raw,
         Observe(sequence, raw)
  PROVE  /\ CountInv'
         /\ stableFrames' \in 1 .. MaximumStable
         /\ held' \in 0 .. streak'
         /\ held' >= minimumStableFrames => stableFrames' >= minimumStableFrames
<1>1. /\ stableFrames \in Nat /\ stableFrames <= MaximumStable
      /\ minimumStableFrames \in 1 .. MaximumStable
      /\ streak \in Nat /\ held \in Nat /\ held <= streak
      /\ lastSequence \in Nat /\ MaximumStable \in Nat
  BY RecorderAssumption DEF RecorderInv, TypeOK
<1>2. /\ stableFrames <= streak /\ streak <= lastSequence
      /\ held <= stableFrames \/ minimumStableFrames <= stableFrames
  BY DEF RecorderInv, CountInv
<1>3. /\ lastSequence' = sequence /\ minimumStableFrames' = minimumStableFrames
      /\ stableFrames' = Stable(raw)
      /\ streak' = IF candidate = raw THEN streak + 1 ELSE 1
      /\ held' = IF candidate = raw THEN held + 1 ELSE 1
  BY DEF Observe, Remember, config
<1>4. CASE candidate = raw
  <2>1. stableFrames' = IF stableFrames < minimumStableFrames THEN stableFrames + 1
                        ELSE stableFrames
    BY <1>3, <1>4 DEF Stable
  <2>2. streak' = streak + 1 /\ held' = held + 1
    BY <1>3, <1>4
  <2> QED BY <1>1, <1>2, <1>3, <2>1, <2>2 DEF CountInv
<1>5. CASE candidate # raw
  <2>1. stableFrames' = 1 /\ streak' = 1 /\ held' = 1
    BY <1>3, <1>5 DEF Stable
  <2> QED BY <1>1, <1>2, <1>3, <2>1 DEF CountInv
<1> QED BY <1>4, <1>5

LEMMA Observing ==
  ASSUME RecorderInv, NEW sequence \in Int, lastSequence < sequence, NEW raw \in AcceptedRaws,
         Observe(sequence, raw), clock' \in clock .. Frames, sequence <= clock'
  PROVE  RecorderInv'
<1>1. /\ UNCHANGED <<profile, protected, minimumStableFrames, maximumObservations>>
      /\ lastSequence' = sequence /\ candidate' = raw /\ accepted' = TRUE
  BY DEF Observe, Remember, observer, config
<1>2. /\ CountInv' /\ stableFrames' \in 1 .. MaximumStable /\ held' \in 0 .. streak'
      /\ held' >= minimumStableFrames => stableFrames' >= minimumStableFrames
  BY Counting
<1>3. /\ lastSequence \in Nat /\ clock \in Nat /\ lastSequence <= clock /\ Frames \in Nat
      /\ nextOrdinal \in Nat /\ nextOrdinal >= 1 /\ nextOrdinal <= lastSequence + 1
      /\ Len(observations) = nextOrdinal - 1 /\ observations \in Seq(Observation)
      /\ minimumStableFrames \in 1 .. MaximumStable /\ MaximumStable \in Nat
      /\ maximumObservations \in Nat
  BY RecorderAssumption DEF RecorderInv, TypeOK, RecordInv
<1>4. sequence \in 1 .. Frames /\ clock' \in 0 .. Frames
  BY <1>3
<1> DEFINE record == [sequence |-> sequence, ordinal |-> nextOrdinal, raw |-> raw,
                      stable |-> stableFrames', threshold |-> minimumStableFrames]
<1>5. /\ observations' \in Seq(Observation) /\ Len(observations') = nextOrdinal' - 1
      /\ nextOrdinal' \in 1 .. Frames + 1 /\ nextOrdinal' <= lastSequence' + 1
      /\ \A i \in DOMAIN observations' : observations'[i].stable >= observations'[i].threshold
      /\ lastEmitted' \in AcceptedRaws \cup {None}
      /\ \/ ~(stableFrames' >= minimumStableFrames)
         \/ lastEmitted' = raw
         \/ Len(observations') >= maximumObservations
  <2>1. CASE \/ ~ThresholdReached(stableFrames') \/ ~NewlyStable(raw)
             \/ Len(observations) >= maximumObservations
    <3>1. UNCHANGED <<lastEmitted, nextOrdinal, observations>>
      BY <2>1 DEF Observe
    <3>2. \/ ~(stableFrames' >= minimumStableFrames) \/ lastEmitted = raw
          \/ Len(observations) >= maximumObservations
      BY <2>1 DEF ThresholdReached, NewlyStable
    <3> QED BY <1>1, <1>3, <1>4, <3>1, <3>2 DEF RecorderInv, TypeOK, RecordInv
  <2>2. CASE ~(\/ ~ThresholdReached(stableFrames') \/ ~NewlyStable(raw)
               \/ Len(observations) >= maximumObservations)
    <3>1. /\ observations' = Append(observations, record)
          /\ lastEmitted' = raw /\ nextOrdinal' = nextOrdinal + 1
      BY <2>2 DEF Observe
    <3>2. stableFrames' >= minimumStableFrames
      BY <2>2 DEF ThresholdReached
    <3>3. record \in Observation
      <4>1. nextOrdinal \in 1 .. Frames
        BY <1>3, <1>4
      <4> QED BY <1>2, <1>3, <1>4, <4>1 DEF Observation
    <3>4. record.stable >= record.threshold
      BY <3>2
    <3> HIDE DEF record
    <3>5. observations' \in Seq(Observation) /\ Len(observations') = Len(observations) + 1
      BY <1>3, <3>1, <3>3, AppendProperties
    <3>6. \A i \in DOMAIN observations' : observations'[i].stable >= observations'[i].threshold
      <4> SUFFICES ASSUME NEW i \in DOMAIN observations'
                   PROVE  observations'[i].stable >= observations'[i].threshold
        OBVIOUS
      <4>1. i \in 1 .. Len(observations) + 1
        BY <3>5, LenProperties
      <4>2. CASE i \in 1 .. Len(observations)
        <5>1. observations'[i] = observations[i] /\ i \in DOMAIN observations
          BY <1>3, <3>1, <3>3, <4>2, AppendProperties, LenProperties
        <5> QED BY <5>1 DEF RecorderInv, RecordInv
      <4>3. CASE i = Len(observations) + 1
        <5>1. observations'[i] = record
          BY <1>3, <3>1, <3>3, <4>3, AppendProperties
        <5> QED BY <3>4, <5>1
      <4> QED BY <1>3, <4>1, <4>2, <4>3
    <3>7. nextOrdinal' \in 1 .. Frames + 1 /\ nextOrdinal' <= lastSequence' + 1
      BY <1>1, <1>3, <1>4, <3>1
    <3>8. Len(observations') = nextOrdinal' - 1
      BY <1>3, <3>1, <3>5
    <3> QED BY <3>1, <3>5, <3>6, <3>7, <3>8
  <2> QED BY <2>1, <2>2
<1>6. RecordInv'
  BY <1>1, <1>5 DEF RecordInv
<1>7. streak' \in 0 .. Frames /\ lastSequence' \in 0 .. Frames
  <2>1. streak' <= lastSequence'
    BY <1>2 DEF CountInv
  <2>2. streak \in Nat /\ streak' = IF candidate = raw THEN streak + 1 ELSE 1
    BY DEF RecorderInv, Observe, TypeOK
  <2>3. streak' \in Nat
    BY <2>2
  <2> QED BY <1>1, <1>3, <1>4, <2>1, <2>3
<1>8. TypeOK'
  <2>1. \A i \in DOMAIN observations' : observations'[i] \in Observation
    BY <1>5, ElementOfSeq, LenProperties
  <2>2. stableFrames' \in 0 .. MaximumStable
    BY <1>2, <1>3
  <2> QED BY <1>1, <1>2, <1>4, <1>5, <1>7, <2>1, <2>2 DEF RecorderInv, TypeOK
<1>9. StableInv'
  BY <1>1, <1>2, <1>5 DEF StableInv
<1> QED BY <1>2, <1>6, <1>8, <1>9 DEF RecorderInv

LEMMA Refusing ==
  ASSUME RecorderInv, Refuse, clock' \in clock .. Frames
  PROVE  RecorderInv'
<1>1. /\ UNCHANGED <<profile, protected, minimumStableFrames, maximumObservations,
                     lastSequence, candidate, stableFrames, lastEmitted, nextOrdinal,
                     observations, streak, held>>
      /\ accepted' = FALSE
  BY DEF Refuse, observer, config, session
<1>2. clock \in 0 .. Frames /\ Frames \in Nat /\ lastSequence \in Nat /\ lastSequence <= clock
  BY RecorderAssumption DEF RecorderInv, TypeOK, RecordInv
<1>3. clock' \in 0 .. Frames /\ lastSequence <= clock'
  BY <1>2
<1>4. TypeOK'
  BY <1>1, <1>3 DEF RecorderInv, TypeOK
<1>5. CountInv' /\ StableInv'
  BY <1>1 DEF RecorderInv, CountInv, StableInv
<1>6. RecordInv'
  BY <1>1, <1>3 DEF RecorderInv, RecordInv
<1> QED BY <1>4, <1>5, <1>6 DEF RecorderInv

LEMMA RecorderNext == RecorderInv /\ [Next]_vars => RecorderInv'
<1> SUFFICES ASSUME RecorderInv, [Next]_vars PROVE RecorderInv'
  OBVIOUS
<1>1. /\ profile \in Profiles /\ protected \in BOOLEAN /\ Frames \in Nat
      /\ clock \in 0 .. Frames /\ lastSequence \in Nat /\ lastSequence <= clock
  BY RecorderAssumption DEF RecorderInv, TypeOK, RecordInv
<1>2. CASE ObserveFrame
  <2>1. PICK seen \in Captured(profile, protected) :
          IF Recordable(seen) THEN Observe(clock', seen.station) ELSE Refuse
    BY <1>2 DEF ObserveFrame
  <2>2. clock' = clock + 1 /\ clock < Frames
    BY <1>2 DEF ObserveFrame
  <2>3. clock' \in clock .. Frames /\ clock' \in Int /\ lastSequence < clock' /\ clock' <= clock'
    BY <1>1, <2>2
  <2>4. CASE Recordable(seen)
    <3>1. seen.station \in AcceptedRaws
      BY <1>1, <2>4, RecordableRaw
    <3>2. PICK sequence \in Int : sequence = clock'
      BY <2>3
    <3>3. Observe(sequence, seen.station)
      BY <2>1, <2>4, <3>2
    <3> QED BY <2>3, <3>1, <3>2, <3>3, Observing
  <2>5. CASE ~Recordable(seen)
    BY <2>1, <2>3, <2>5, Refusing
  <2> QED BY <2>4, <2>5
<1>3. CASE ObserveAgain
  <2>1. PICK sequence \in 1 .. clock, seen \in Captured(profile, protected) :
          IF ~Recordable(seen) \/ lastSequence >= sequence THEN Refuse
          ELSE Observe(sequence, seen.station)
    BY <1>3 DEF ObserveAgain
  <2>2. clock' = clock
    BY <1>3 DEF ObserveAgain
  <2>3. clock' \in clock .. Frames /\ sequence \in Int /\ sequence <= clock'
    BY <1>1, <2>2
  <2>4. CASE ~Recordable(seen) \/ lastSequence >= sequence
    BY <2>1, <2>3, <2>4, Refusing
  <2>5. CASE ~(~Recordable(seen) \/ lastSequence >= sequence)
    <3>1. seen.station \in AcceptedRaws
      BY <1>1, <2>5, RecordableRaw
    <3>2. Observe(sequence, seen.station) /\ lastSequence < sequence
      BY <1>1, <2>1, <2>3, <2>5
    <3> QED BY <2>3, <3>1, <3>2, Observing
  <2> QED BY <2>4, <2>5
<1>4. CASE Reset
  <2>1. /\ lastSequence' = 0 /\ candidate' = None /\ stableFrames' = 0 /\ lastEmitted' = None
        /\ nextOrdinal' = 1 /\ observations' = <<>> /\ streak' = 0 /\ held' = 0
        /\ accepted' = FALSE
        /\ UNCHANGED <<profile, protected, minimumStableFrames, maximumObservations, clock>>
    BY <1>4 DEF Reset, observer, config
  <2>2. MaximumStable \in Nat
    BY RecorderAssumption
  <2>3. TypeOK'
    <3>1. /\ minimumStableFrames' \in 1 .. MaximumStable
          /\ maximumObservations' \in MaximumSettings
          /\ profile' \in Profiles /\ protected' \in BOOLEAN /\ clock' \in 0 .. Frames
      BY <1>1, <2>1 DEF RecorderInv, TypeOK
    <3>2. /\ stableFrames' \in 0 .. MaximumStable /\ nextOrdinal' \in 1 .. Frames + 1
          /\ lastSequence' \in 0 .. Frames /\ streak' \in 0 .. Frames
          /\ held' \in 0 .. streak'
      BY <1>1, <2>1, <2>2
    <3>3. \A i \in DOMAIN observations' : observations'[i] \in Observation
      BY <2>1
    <3> QED BY <2>1, <3>1, <3>2, <3>3 DEF TypeOK
  <2>4. CountInv' /\ StableInv'
    BY <2>1 DEF CountInv, StableInv
  <2>5. <<>> \in Seq(Observation) /\ Len(<<>>) = 0
    OBVIOUS
  <2>6. RecordInv'
    BY <1>1, <2>1, <2>5 DEF RecordInv
  <2> QED BY <2>3, <2>4, <2>6 DEF RecorderInv
<1>5. CASE Configure
  <2>1. /\ held' = 0 /\ accepted' = FALSE /\ maximumObservations' \in MaximumSettings
        /\ UNCHANGED <<profile, protected, lastSequence, candidate, stableFrames, lastEmitted,
                       nextOrdinal, observations, clock, streak>>
    BY <1>5 DEF Configure, observer, session
  <2>2. minimumStableFrames' \in 1 .. MaximumStable
    BY <1>5, SafeThreshold DEF Configure
  <2>3. streak \in 0 .. Frames /\ stableFrames \in 0 .. MaximumStable
    BY DEF RecorderInv, TypeOK
  <2>4. TypeOK'
    <3>1. held' \in 0 .. streak'
      BY <1>1, <2>1, <2>3
    <3>2. accepted' \in BOOLEAN
      BY <2>1
    <3> QED BY <2>1, <2>2, <3>1, <3>2 DEF RecorderInv, TypeOK
  <2>5. CountInv' /\ StableInv'
    BY <2>1, <2>3 DEF RecorderInv, CountInv, StableInv
  <2>6. RecordInv'
    BY <2>1 DEF RecorderInv, RecordInv
  <2> QED BY <2>4, <2>5, <2>6 DEF RecorderInv
<1>6. CASE UNCHANGED vars
  <2>1. UNCHANGED <<profile, protected, minimumStableFrames, maximumObservations,
                    lastSequence, candidate, stableFrames, lastEmitted, nextOrdinal,
                    observations, clock, streak, held, accepted>>
    BY <1>6 DEF vars, observer, config, session
  <2> QED BY <2>1 DEF RecorderInv, TypeOK, CountInv, RecordInv, StableInv
<1> QED BY <1>2, <1>3, <1>4, <1>5, <1>6 DEF Next

\* The state of the recorder has its type: the ordinals and numbers of its records fit.
THEOREM TypeCorrect == Spec => []TypeOK
<1>1. RecorderInv => TypeOK
  BY DEF RecorderInv
<1> QED BY RecorderInit, RecorderNext, <1>1, PTL DEF Spec

\* However frames are repeated and fail, and however often the settings change, every
\* record stands on enough frames of its station alone, and a station that was stable under
\* one setting has been recorded if there was room.
THEOREM RecordsWhatWasStable == Spec => []RecordedExactly
<1>1. RecorderInv => RecordedExactly
  BY DEF RecorderInv, CountInv, RecordInv, StableInv, RecordedExactly
<1> QED BY RecorderInit, RecorderNext, <1>1, PTL DEF Spec

=============================================================================
