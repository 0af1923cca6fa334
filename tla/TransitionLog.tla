---------------------------- MODULE TransitionLog ---------------------------
(***************************************************************************)
(* GameStateTransitionTracker::transitions, as a function of what the      *)
(* tracker holds: which messages a frame has.  They come in the order of   *)
(* the fields; a frame inside the interval is not compared at all.         *)
(***************************************************************************)
EXTENDS RadioDecision, SequencesExt

CONSTANTS
  MinimumTransitionInterval,  \* minimumTransitionInterval, in clock units
  MaximumTransitionMessages   \* maximumTransitionMessages

ASSUME TransitionLogAssumption ==
  /\ MinimumTransitionInterval \in Nat \ {0}
  /\ MaximumTransitionMessages \in Nat \ {0}

Fields == <<"gameReady", "pauseMenuActive", "playerInVehicle", "radioStationRaw", "radioVolume">>
FieldSet == ToSet(Fields)

\* What a message says of a field: of the volume, whether it is there.
Text(snapshot, field) ==
  IF field = "radioVolume" THEN snapshot[field] # None ELSE snapshot[field]

\* last: lastLogged_; age: now - lastLogTime_, up to the interval; count:
\* emittedMessages_; said: history, what was said last of each field.
NewTracker ==
  [last |-> None, age |-> 0, count |-> 0, said |-> [f \in FieldSet |-> None]]

\* The messages a snapshot has, by their place in Fields: all of them the first time.
ChangedFields(tracker, snapshot) ==
  {i \in DOMAIN Fields :
     tracker.last = None \/ tracker.last[Fields[i]] # snapshot[Fields[i]]}

\* messages.resize: the last frame of the budget may lose its later messages.
Cut(tracker, changed) ==
  {i \in changed :
     Cardinality({j \in changed : j < i}) < MaximumTransitionMessages - tracker.count}

Messages(tracker, snapshot) ==
  IF \/ tracker.count >= MaximumTransitionMessages
     \/ tracker.last # None /\ tracker.age < MinimumTransitionInterval
  THEN {}
  ELSE Cut(tracker, ChangedFields(tracker, snapshot))

\* Mutant: a frame inside the interval is remembered as if it had been logged.
TrackForgetful(tracker, snapshot) ==
  LET messages == Messages(tracker, snapshot)
  IN  [last |-> snapshot,
       age |-> IF messages = {} THEN tracker.age ELSE 0,
       count |-> tracker.count + Cardinality(messages),
       said |-> [f \in FieldSet |-> IF \E i \in messages : Fields[i] = f THEN Text(snapshot, f)
                                    ELSE tracker.said[f]]]

\* A frame without a message is not remembered, and the clock keeps running then.
Track(tracker, snapshot) ==
  LET messages == Messages(tracker, snapshot)
  IN  IF messages = {} THEN tracker
      ELSE [last |-> snapshot, age |-> 0, count |-> tracker.count + Cardinality(messages),
            said |-> [f \in FieldSet |-> IF \E i \in messages : Fields[i] = f
                                         THEN Text(snapshot, f)
                                         ELSE tracker.said[f]]]

=============================================================================
