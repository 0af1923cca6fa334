----------------------- MODULE GameplayRadio_proofs ------------------------
(***************************************************************************)
(* Theorems about GameplayRadio: type correctness, the safety of the       *)
(* handover between the online stream and the original radio, and the      *)
(* refinement of AudioHandover, and the agreement of the simulated state   *)
(* with the open stream, for every set of stations, configurations and     *)
(* snapshots and every number of frames and shutdowns.                     *)
(***************************************************************************)
EXTENDS GameplayRadio, FiniteSetTheorems, TLAPS

-----------------------------------------------------------------------------
(* The operators of RadioDecision: what each returns, for every snapshot,      *)
(* configuration and simulated state.                                          *)

\* A nonempty set of keys has a first one: the order of std::map is total.
LEMMA FirstMember ==
  ASSUME NEW keys, keys \subseteq Stations, keys # {}
  PROVE  First(keys) \in keys
<1>1. keys \subseteq Nat
  BY RadioDecisionAssumption
<1> DEFINE Below(n) == 0 .. n - 1
           Belows == {Below(n) : n \in keys}
<1>2. Belows \subseteq FiniteSubsetsOf(Nat)
  <2>1. ASSUME NEW n \in keys PROVE Below(n) \in SUBSET Nat /\ IsFiniteSet(Below(n))
    <3>1. n - 1 \in Int /\ 0 \in Int
      BY <1>1
    <3>2. IsFiniteSet(0 .. (n - 1))
      BY <3>1, FS_Interval
    <3> QED
      BY <1>1, <3>2
  <2> QED
    BY <2>1 DEF FiniteSubsetsOf
<1>3. \E n \in keys : \A m \in keys : <<Below(m), Below(n)>> \notin StrictSubsetOrdering(Nat)
  <2>1. Belows # {}
    OBVIOUS
  <2>2. \E low \in Belows : \A other \in Belows : <<other, low>> \notin StrictSubsetOrdering(Nat)
    BY <1>2, <2>1, WFMin, FS_StrictSubsetOrderingWellFounded
  <2> QED
    BY <2>2
<1>4. PICK n \in keys : \A m \in keys : <<Below(m), Below(n)>> \notin StrictSubsetOrdering(Nat)
  BY <1>3
<1>5. ASSUME NEW m \in keys PROVE n <= m
  <2>1. SUFFICES ASSUME m < n PROVE FALSE
    BY <1>1
  <2>2. Below(m) \subseteq Below(n) /\ m \in Below(n) /\ m \notin Below(m)
    BY <1>1, <2>1
  <2>3. Below(m) \in SUBSET Nat /\ Below(n) \in SUBSET Nat
    BY <1>1
  <2> QED
    BY <1>4, <2>2, <2>3 DEF StrictSubsetOrdering
<1> QED
  BY <1>4, <1>5 DEF First

\* The preferred entry, if there is one, is among the candidates.
LEMMA PreferEnabledMember ==
  ASSUME NEW stations, NEW candidates, candidates \subseteq Stations
  PROVE  PreferEnabled(stations, candidates) \in candidates \cup {None}
<1> DEFINE enabled == {k \in candidates : stations[k].enabled}
<1>1. enabled # {} => First(enabled) \in enabled
  BY FirstMember
<1>2. candidates # {} => First(candidates) \in candidates
  BY FirstMember
<1> QED
  BY <1>1, <1>2 DEF PreferEnabled

\* What a choice of station may be: a ready one names a configured station.
Choice(choice) ==
  /\ choice.reason \in BlockingReasons \cup {"ready"}
  /\ choice.kind \in BindingKinds
  /\ choice.identity \in Identities \cup {None}
  /\ choice.reason = "ready" => choice.station \in Stations

\* Every station lookup ends in a choice.
LEMMA SelectStationChoice ==
  ASSUME NEW settings, WellFormed(settings), NEW raw
  PROVE  /\ Choice(SelectStation(settings, raw))
         /\ SelectStation(settings, raw).reason = "ready" => raw \in RawRange
<1> DEFINE stations == settings.stations
           rawStation == FindRawStationBinding(stations, raw)
           resolution == Resolve(settings.profileMap, raw)
           identityStation(identity) == FindIdentityStationBinding(stations, identity)
<1>1. rawStation \in DOMAIN stations \cup {None}
  BY PreferEnabledMember DEF FindRawStationBinding, WellFormed
<1>2. ASSUME NEW identity
      PROVE  identityStation(identity) \in DOMAIN stations \cup {None}
  BY PreferEnabledMember DEF FindIdentityStationBinding, WellFormed
<1>3. ASSUME NEW station \in DOMAIN stations, NEW kind \in BindingKinds,
             NEW identity \in Identities \cup {None}
      PROVE  Choice(UsableBinding(stations, station, kind, identity))
  BY <1>3 DEF UsableBinding, Unusable, Choice, BlockingReasons, WellFormed
<1>4. resolution.status = "resolved" => resolution.identity \in Identities
  BY DEF Resolve, WellFormed
<1>5. ASSUME NEW identity \in Identities
      PROVE  Choice(IdentityBinding(settings, identity))
  <2>1. CASE identityStation(identity) = None
    BY <2>1 DEF IdentityBinding, Unusable, Choice, BlockingReasons, BindingKinds
  <2>2. CASE identityStation(identity) # None
    <3>1. identityStation(identity) \in DOMAIN stations
      BY <1>2, <2>2
    <3>2. IdentityBinding(settings, identity)
            = UsableBinding(stations, identityStation(identity), "identity", identity)
      BY <2>2 DEF IdentityBinding
    <3> QED
      BY <1>3, <3>1, <3>2 DEF BindingKinds
  <2> QED
    BY <2>1, <2>2
<1>6. CASE raw \notin RawRange
  BY <1>6 DEF SelectStation, Unusable, Choice, BlockingReasons, BindingKinds
<1>7. CASE raw \in RawRange /\ rawStation # None
  <2>1. rawStation \in DOMAIN stations
    BY <1>1, <1>7
  <2>2. SelectStation(settings, raw) = UsableBinding(stations, rawStation, "raw", None)
    BY <1>7 DEF SelectStation
  <2> QED
    BY <1>3, <1>7, <2>1, <2>2 DEF BindingKinds
<1>8. CASE raw \in RawRange /\ rawStation = None
  <2>1. CASE resolution.status = "unsupportedProfile" \/ resolution.status = "unknownRaw"
    BY <1>8, <2>1 DEF SelectStation, Unusable, Choice, BlockingReasons, BindingKinds
  <2>2. CASE ~(resolution.status = "unsupportedProfile" \/ resolution.status = "unknownRaw")
    <3>1. resolution.status = "resolved"
      BY <1>8, <2>2 DEF Resolve
    <3>2. SelectStation(settings, raw)
            = IdentityBinding(settings, resolution.identity)
      BY <1>8, <2>2 DEF SelectStation
    <3> QED
      BY <1>4, <1>5, <1>8, <3>1, <3>2
  <2> QED
    BY <2>1, <2>2
<1> QED
  BY <1>6, <1>7, <1>8

-----------------------------------------------------------------------------

\* The preference volume of a valid snapshot is clamped.
LEMMA PreferenceVolumeType ==
  ASSUME NEW settings, WellFormed(settings),
         NEW snapshot \in Snapshot, snapshot.radioVolume # None
  PROVE  PreferenceVolume(snapshot, settings) \in 0 .. FullVolume
<1> DEFINE product == snapshot.radioVolume * settings.volumeMultiplier
<1>1. snapshot.radioVolume \in Nat /\ settings.volumeMultiplier \in Nat
  BY DEF Snapshot, WellFormed
<1>2. product \in Nat
  BY <1>1
<1>3. product \div 100 \in Nat
  <2> HIDE DEF product
  <2> QED
    BY <1>2
<1> HIDE DEF product
<1>4. PreferenceVolume(snapshot, settings)
        = IF product \div 100 > FullVolume THEN FullVolume ELSE product \div 100
  BY DEF PreferenceVolume, product
<1> QED
  BY <1>3, <1>4 DEF FullVolume

\* A plan to open a stream names a configured station and a volume.
Executable(decided) ==
  /\ decided.action \in {"wouldStart", "wouldSwitch"} =>
       decided.selected \in Stations /\ decided.volume \in 0 .. FullVolume
  /\ decided.action = "wouldSetVolume" => decided.volume \in 0 .. FullVolume

\* A state whose station is not selected, or not usable, gets a plan to stop.
LEMMA InactivePlanType ==
  ASSUME NEW snapshot \in Snapshot, NEW previous \in SimulatedRadioState,
         NEW reason \in BlockingReasons, NEW binding \in Binding
  PROVE  /\ InactivePlan(snapshot, previous, reason, binding) \in RadioActionPlan
         /\ Executable(InactivePlan(snapshot, previous, reason, binding))
BY DEF InactivePlan, RadioActionPlan, Executable, Actions, Reasons, Snapshot

\* A usable station gets a well-formed plan.
LEMMA ActivePlanType ==
  ASSUME NEW settings, WellFormed(settings),
         NEW snapshot \in Snapshot, NEW previous \in SimulatedRadioState,
         NEW choice, Choice(choice), choice.reason = "ready",
         snapshot.radioStationRaw \in RawRange, snapshot.radioVolume # None
  PROVE  /\ ActivePlan(snapshot, settings, previous, choice) \in RadioActionPlan
         /\ Executable(ActivePlan(snapshot, settings, previous, choice))
<1> DEFINE raw == snapshot.radioStationRaw
           binding == [kind |-> choice.kind, raw |-> raw, identity |-> choice.identity,
                       key |-> SanitizedStationKey(choice.station, raw)]
           volume == PreferenceVolume(snapshot, settings)
           pauseMenu == snapshot.pauseMenuActive = "yes"
           action == ActiveAction(pauseMenu, previous,
                                  previous.active /\ previous.binding = binding, volume)
<1>1. choice.station \in Stations /\ choice.station \in Nat
  BY RadioDecisionAssumption DEF Choice
<1>2. binding \in Binding
  BY <1>1 DEF Choice, Binding, SanitizedStationKey, PublicKeys, RawRange
<1>3. volume \in 0 .. FullVolume
  BY PreferenceVolumeType
<1>4. action \in Actions
  BY DEF ActiveAction, Actions
<1>5. ActivePlan(snapshot, settings, previous, choice)
        = [action |-> action,
           reason |-> IF pauseMenu THEN "paused"
                      ELSE IF action = "none" THEN "unchanged" ELSE "ready",
           sequence |-> snapshot.sequence,
           binding |-> binding,
           volume |-> volume,
           selected |-> choice.station,
           online |-> previous.active \/ (~pauseMenu /\ action # "none")]
  BY DEF ActivePlan
<1>6. snapshot.sequence \in Nat
  BY DEF Snapshot
<1>7. (previous.active \/ (~pauseMenu /\ action # "none")) \in BOOLEAN
  BY DEF SimulatedRadioState
<1> HIDE DEF action, binding, volume, pauseMenu
<1> QED
  BY <1>1, <1>2, <1>3, <1>4, <1>5, <1>6, <1>7 DEF RadioActionPlan, Executable, Reasons

\* RadioDecisionEngine::evaluate always returns a well-formed plan.
LEMMA EvaluateType ==
  ASSUME NEW settings, WellFormed(settings),
         NEW snapshot \in Snapshot, NEW previous \in SimulatedRadioState
  PROVE  /\ Evaluate(snapshot, settings, previous) \in RadioActionPlan
         /\ Executable(Evaluate(snapshot, settings, previous))
<1> DEFINE raw == snapshot.radioStationRaw
           gate == GateReason(snapshot, settings)
           choice == SelectStation(settings, raw)
           partial == [kind |-> choice.kind, raw |-> raw, identity |-> choice.identity,
                       key |-> None]
           evaluated == Evaluate(snapshot, settings, previous)
<1>1. CASE OutOfOrder(snapshot.sequence, previous)
  <2>1. evaluated = OutOfOrderPlan(snapshot, previous)
    BY <1>1 DEF Evaluate
  <2>2. Unbound \in Binding
    BY DEF Unbound, Binding, BindingKinds
  <2> QED
    BY <2>1, <2>2 DEF OutOfOrderPlan, RadioActionPlan, Executable, Actions, Reasons, Snapshot,
                      SimulatedRadioState
<1>2. gate \in BlockingReasons \cup {"ready"}
  BY DEF GateReason, BlockingReasons
<1>3. CASE ~OutOfOrder(snapshot.sequence, previous) /\ gate # "ready"
  <2>1. evaluated = InactivePlan(snapshot, previous, gate, Unbound)
    BY <1>3 DEF Evaluate
  <2>2. Unbound \in Binding
    BY DEF Unbound, Binding, BindingKinds
  <2> QED
    BY <1>2, <1>3, <2>1, <2>2, InactivePlanType
<1>4. Choice(choice) /\ (choice.reason = "ready" => raw \in RawRange)
  BY SelectStationChoice
<1>5. partial \in Binding
  BY <1>4 DEF Choice, Binding, Snapshot
<1>6. CASE /\ ~OutOfOrder(snapshot.sequence, previous)
           /\ gate = "ready"
           /\ choice.reason # "ready"
  <2>1. evaluated = InactivePlan(snapshot, previous, choice.reason, partial)
    BY <1>6 DEF Evaluate
  <2> QED
    BY <1>4, <1>5, <1>6, <2>1, InactivePlanType DEF Choice
<1>7. CASE /\ ~OutOfOrder(snapshot.sequence, previous)
           /\ gate = "ready"
           /\ choice.reason = "ready"
           /\ snapshot.radioVolume = None
  <2>1. evaluated = InactivePlan(snapshot, previous, "volumeUnavailable", partial)
    BY <1>7 DEF Evaluate
  <2>2. "volumeUnavailable" \in BlockingReasons
    BY DEF BlockingReasons
  <2> QED
    BY <1>5, <2>1, <2>2, InactivePlanType
<1>8. CASE /\ ~OutOfOrder(snapshot.sequence, previous)
           /\ gate = "ready"
           /\ choice.reason = "ready"
           /\ snapshot.radioVolume # None
  <2>1. evaluated = ActivePlan(snapshot, settings, previous, choice)
    BY <1>8 DEF Evaluate
  <2> QED
    BY <1>4, <1>8, <2>1, ActivePlanType
<1> QED
  BY <1>1, <1>3, <1>6, <1>7, <1>8

\* applyRadioActionPlan keeps the simulated state well formed.
LEMMA ApplyRadioActionPlanType ==
  ASSUME NEW decided \in RadioActionPlan, NEW state \in SimulatedRadioState
  PROVE  ApplyRadioActionPlan(decided, state) \in SimulatedRadioState
<1> DEFINE seen == [state EXCEPT !.last = decided.sequence]
<1>1. seen \in SimulatedRadioState
  BY DEF SimulatedRadioState, RadioActionPlan
<1>2. InitialRadioState \in SimulatedRadioState
  BY DEF InitialRadioState, SimulatedRadioState, Unbound, Binding, BindingKinds
<1>3. ClearSimulatedActivity(seen) \in SimulatedRadioState
  BY <1>1, <1>2 DEF ClearSimulatedActivity, SimulatedRadioState
<1> HIDE DEF seen
<1>4. Executed(decided, seen) \in SimulatedRadioState
  BY <1>1, <1>3 DEF Executed, SimulatedRadioState, RadioActionPlan
<1> QED
  BY <1>4 DEF ApplyRadioActionPlan, seen

\* What failClosed applies is a plan.
LEMMA StopPlanType ==
  ASSUME NEW decided \in RadioActionPlan
  PROVE  StopPlan(decided) \in RadioActionPlan
BY DEF StopPlan, RadioActionPlan, Actions

-----------------------------------------------------------------------------

\* The engine leaves an active state alone only with online audio going on.
LEMMA EvaluateIdle ==
  ASSUME NEW settings, NEW snapshot, NEW previous \in SimulatedRadioState
  PROVE  LET evaluated == Evaluate(snapshot, settings, previous)
         IN  evaluated.action = "none" /\ ~evaluated.online => ~previous.active
<1>1. ASSUME NEW reason, NEW binding
      PROVE  InactivePlan(snapshot, previous, reason, binding).action = "none"
               => ~previous.active
  BY DEF InactivePlan
<1>2. ASSUME NEW choice
      PROVE  ~ActivePlan(snapshot, settings, previous, choice).online
               => ~previous.active
  BY DEF ActivePlan
<1>3. ~OutOfOrderPlan(snapshot, previous).online => ~previous.active
  BY DEF OutOfOrderPlan
<1> QED
  BY <1>1, <1>2, <1>3 DEF Evaluate

\* Only a start or a switch activates the simulated state.
LEMMA ApplyActivates ==
  ASSUME NEW decided \in RadioActionPlan, NEW state \in SimulatedRadioState,
         ApplyRadioActionPlan(decided, state).active
  PROVE  state.active \/ decided.action \in {"wouldStart", "wouldSwitch"}
<1> DEFINE seen == [state EXCEPT !.last = decided.sequence]
<1>1. seen \in SimulatedRadioState /\ seen.active = state.active
  BY DEF SimulatedRadioState, RadioActionPlan
<1>2. ~ClearSimulatedActivity(seen).active
  BY DEF ClearSimulatedActivity, InitialRadioState
<1> HIDE DEF seen
<1>3. Executed(decided, seen).active =>
        seen.active \/ decided.action \in {"wouldStart", "wouldSwitch"}
  BY <1>1, <1>2 DEF Executed, SimulatedRadioState
<1> QED
  BY <1>1, <1>3 DEF ApplyRadioActionPlan, seen

\* A newer plan to stop leaves the simulated state inactive.
LEMMA ApplyStops ==
  ASSUME NEW decided \in RadioActionPlan, NEW state \in SimulatedRadioState,
         ~OutOfOrder(decided.sequence, state), decided.action = "wouldStop"
  PROVE  ~ApplyRadioActionPlan(decided, state).active
BY DEF ApplyRadioActionPlan, Executed, ClearSimulatedActivity, InitialRadioState

\* So does the stop that failClosed records.
LEMMA StopPlanStops ==
  ASSUME NEW decided \in RadioActionPlan, NEW state \in SimulatedRadioState,
         ~OutOfOrder(decided.sequence, state)
  PROVE  ~ApplyRadioActionPlan(StopPlan(decided), state).active
<1>1. /\ StopPlan(decided).action = "wouldStop"
      /\ StopPlan(decided).sequence = decided.sequence
  BY DEF StopPlan, RadioActionPlan
<1> QED
  BY <1>1, StopPlanType, ApplyStops

\* A plan that changes the state is newer than all that were applied before.
LEMMA ApplyAdvances ==
  ASSUME NEW decided \in RadioActionPlan, NEW state \in SimulatedRadioState,
         ApplyRadioActionPlan(decided, state) # state
  PROVE  state.last = 0 \/ ApplyRadioActionPlan(decided, state).last > state.last
<1> DEFINE seen == [state EXCEPT !.last = decided.sequence]
<1>1. seen \in SimulatedRadioState /\ seen.last = decided.sequence
  BY DEF SimulatedRadioState, RadioActionPlan
<1>2. ClearSimulatedActivity(seen).last = seen.last
  BY DEF ClearSimulatedActivity, InitialRadioState
<1>3. ~OutOfOrder(decided.sequence, state)
  BY DEF ApplyRadioActionPlan
<1>4. state.last = 0 \/ decided.sequence > state.last
  BY <1>3 DEF OutOfOrder, SimulatedRadioState, RadioActionPlan
<1> HIDE DEF seen
<1>5. Executed(decided, seen).last = seen.last
  BY <1>1, <1>2 DEF Executed, SimulatedRadioState
<1>6. ApplyRadioActionPlan(decided, state) = Executed(decided, seen)
  BY <1>3 DEF ApplyRadioActionPlan, seen
<1> QED
  BY <1>1, <1>4, <1>5, <1>6

-----------------------------------------------------------------------------
(* The executor.                                                               *)

\* A station that a well-formed plan starts has a stream the manager can open.
LEMMA StreamTypes ==
  /\ NoStream \in Stream
  /\ \A station \in Stations, volume \in 0 .. FullVolume : Playing(station, volume) \in Stream
BY DEF NoStream, Stream, Playing

\* Every call of the stream manager leaves a stream, and a successful start an
\* open one.
LEMMA OutcomeTypes ==
  ASSUME stream \in Stream
  PROVE  /\ \A station \in Stations, volume \in 0 .. FullVolume :
              \A outcome \in StartOutcomes(station, volume) :
                /\ outcome.stream \in Stream
                /\ outcome.result \in {"ok", "failed", "threw"}
                /\ outcome.stream.media \in {station, stream.media, None}
                /\ outcome.result = "ok" => outcome.stream.media = station
         /\ \A changed \in {Paused(stream), Resumed(stream)} : \A outcome \in ModeOutcomes(changed) :
              /\ outcome.stream \in Stream
              /\ outcome.result \in {"ok", "failed", "threw"}
              /\ outcome.stream.media = stream.media
         /\ \A volume \in 0 .. FullVolume : \A outcome \in VolumeOutcomes(volume) :
              /\ outcome.stream \in Stream
              /\ outcome.result \in {"ok", "failed", "threw"}
              /\ outcome.stream.media = stream.media
<1>1. \A station \in Stations, volume \in 0 .. FullVolume :
        \A outcome \in StartOutcomes(station, volume) :
          /\ outcome.stream \in Stream
          /\ outcome.result \in {"ok", "failed", "threw"}
          /\ outcome.stream.media \in {station, stream.media, None}
          /\ outcome.result = "ok" => outcome.stream.media = station
  <2> TAKE station \in Stations, volume \in 0 .. FullVolume
  <2> TAKE outcome \in StartOutcomes(station, volume)
  <2> USE DEF StartOutcomes, StartReplies, BufferReplies, OrRefused, Threw, Outcome
  <2>1. outcome.stream \in {Playing(station, volume), NoStream, stream}
    OBVIOUS
  <2>2. Playing(station, volume).media = station /\ NoStream.media = None
    BY DEF Playing, NoStream
  <2>3. outcome.result \in {"ok", "failed", "threw"}
    OBVIOUS
  <2>4. outcome.result = "ok" => outcome.stream = Playing(station, volume)
    OBVIOUS
  <2> QED
    BY <2>1, <2>2, <2>3, <2>4, StreamTypes
<1>2. \A changed \in {Paused(stream), Resumed(stream)} : \A outcome \in ModeOutcomes(changed) :
        /\ outcome.stream \in Stream
        /\ outcome.result \in {"ok", "failed", "threw"}
        /\ outcome.stream.media = stream.media
  <2> TAKE changed \in {Paused(stream), Resumed(stream)}
  <2> TAKE outcome \in ModeOutcomes(changed)
  <2>1. /\ outcome.stream \in {stream, changed}
        /\ outcome.result \in {"ok", "failed", "threw"}
    BY DEF ModeOutcomes, ModeReplies, OrRefused, Threw, Outcome
  <2>2. changed \in Stream /\ changed.media = stream.media
    BY DEF Paused, Resumed, Stream
  <2> QED
    BY <2>1, <2>2
<1>3. \A volume \in 0 .. FullVolume : \A outcome \in VolumeOutcomes(volume) :
        /\ outcome.stream \in Stream
        /\ outcome.result \in {"ok", "failed", "threw"}
        /\ outcome.stream.media = stream.media
  <2> TAKE volume \in 0 .. FullVolume
  <2> TAKE outcome \in VolumeOutcomes(volume)
  <2>1. /\ outcome.stream \in {stream, WithVolume(stream, volume)}
        /\ outcome.result \in {"ok", "failed", "threw"}
    BY DEF VolumeOutcomes, VolumeReplies, OrRefused, Threw, Outcome
  <2>2. /\ WithVolume(stream, volume) \in Stream
        /\ WithVolume(stream, volume).media = stream.media
    BY DEF WithVolume, Stream
  <2> QED
    BY <2>1, <2>2
<1> QED
  BY <1>1, <1>2, <1>3

-----------------------------------------------------------------------------
(* Type correctness                                                        *)

\* The plan at hand can be executed: the type of what submit hands to the
\* stream manager, and the action its program counter stands for.
ExecutableInv ==
  /\ Executable(plan)
  /\ gamePc = "start" => plan.action \in {"wouldStart", "wouldSwitch"}
  /\ gamePc = "setVolume" => plan.action = "wouldSetVolume"
  /\ shutdownPc # "out" => shutdowns < MaxShutdowns

TypeInv == TypeOK /\ ExecutableInv

LEMMA TypeInvInit == Init => TypeInv
<1> SUFFICES ASSUME Init PROVE TypeInv
  OBVIOUS
<1>1. InitialRadioState \in SimulatedRadioState
  BY DEF InitialRadioState, SimulatedRadioState, Unbound, Binding, BindingKinds
<1>2. plan \in RadioActionPlan
  BY DEF Init, RadioActionPlan, Actions, Reasons, Unbound, Binding, BindingKinds
<1>3. TypeOK
  <2>1. shutdowns \in 0 .. MaxShutdowns
    BY GameplayAssumption DEF Init
  <2>2. original \in [available : BOOLEAN, muted : BOOLEAN]
    BY DEF Init
  <2>3. controllerState \in SimulatedRadioState /\ sinkState \in SimulatedRadioState
    BY <1>1 DEF Init
  <2>4. stream \in Stream
    BY StreamTypes DEF Init
  <2> QED
    BY <1>2, <2>1, <2>2, <2>3, <2>4 DEF Init, TypeOK, GamePcs, ShutdownPcs
<1>4. ExecutableInv
  BY DEF Init, ExecutableInv, Executable
<1> QED
  BY <1>3, <1>4 DEF TypeInv

\* Every step of the restore keeps the variables it writes in their types.
LEMMA RestoreTypes ==
  ASSUME TypeOK, NEW restored \in BOOLEAN, RestoreOriginalRadio(restored)
  PROVE  /\ muteAttempted' \in BOOLEAN
         /\ radioMuted' \in BOOLEAN
         /\ original' \in [available : BOOLEAN, muted : BOOLEAN]
         /\ restoreFailed' \in BOOLEAN
BY DEF RestoreOriginalRadio, TypeOK

\* Where submit goes with a plan that it executes.
LEMMA DispatchAction ==
  ASSUME TypeOK, SubmitAction
  PROVE  /\ Dispatch \in {"start", "pause", "resume", "setVolume", "stop"}
         /\ Dispatch = "start" => plan.action \in {"wouldStart", "wouldSwitch"}
         /\ Dispatch = "pause" => plan.action = "wouldPause"
         /\ Dispatch = "resume" => plan.action = "wouldResume"
         /\ Dispatch = "setVolume" => plan.action = "wouldSetVolume"
         /\ Dispatch = "stop" => plan.action \in {"wouldStop", "none"}
<1>1. plan.action \in Actions /\ plan.online \in BOOLEAN
  BY DEF TypeOK, RadioActionPlan
<1> QED
  BY <1>1 DEF SubmitAction, Dispatch, Actions

LEMMA TypeInvStep == TypeInv /\ [Next]_vars => TypeInv'
<1> SUFFICES ASSUME TypeInv, [Next]_vars PROVE TypeInv'
  OBVIOUS
<1> USE DEF TypeInv
<1>0. TypeOK /\ ExecutableInv
  OBVIOUS
<1>apply. ApplyRadioActionPlan(plan, sinkState) \in SimulatedRadioState
  BY <1>0, ApplyRadioActionPlanType DEF TypeOK
<1>stop. ApplyRadioActionPlan(StopPlan(plan), sinkState) \in SimulatedRadioState
  BY <1>0, ApplyRadioActionPlanType, StopPlanType DEF TypeOK
<1> USE DEF TypeOK, ExecutableInv, GamePcs, ShutdownPcs, sinkVars, fixedVars, shutdownVars
<1>1. CASE Frame
  <2> PICK snapshot \in Snapshots, sequence \in 0 .. MaxSequence :
        DecideFrame([snapshot EXCEPT !.sequence = sequence])
    BY <1>1 DEF Frame
  <2> DEFINE frame == [snapshot EXCEPT !.sequence = sequence]
  <2>1. frame \in Snapshot
    BY GameplayAssumption DEF Snapshot
  <2>2. WellFormed(configuration)
    BY GameplayAssumption
  <2>3. Evaluate(frame, configuration, controllerState) \in RadioActionPlan
        /\ Executable(Evaluate(frame, configuration, controllerState))
    BY <2>1, <2>2, EvaluateType
  <2> HIDE DEF frame
  <2> QED
    BY <2>3 DEF DecideFrame, frame
<1>2. CASE ReadBack
  BY <1>2 DEF ReadBack
<1>3. CASE SubmitOutOfOrder
  BY <1>3 DEF SubmitOutOfOrder
<1>4. CASE SubmitFailedClosed
  BY <1>4, <1>stop DEF SubmitFailedClosed
<1>5. CASE SubmitSuppressionLost
  BY <1>5 DEF SubmitSuppressionLost, Accepted
<1>6. CASE SubmitUnchanged
  BY <1>6, <1>apply DEF SubmitUnchanged, Accepted
<1>7. CASE SubmitAction
  BY <1>7, <1>0, DispatchAction DEF SubmitAction, Accepted
<1>8. CASE StartRefused
  BY <1>8 DEF StartRefused, FailClosed
<1>9. CASE StartStation
  <2>1. plan.selected \in Stations /\ plan.volume \in 0 .. FullVolume
    BY <1>9 DEF StartStation, Executable
  <2>2. stream' \in Stream
    BY <1>9, <2>1, OutcomeTypes DEF StartStation
  <2> QED
    BY <1>9, <2>2 DEF StartStation, FailClosed, Throw
<1>10. CASE MuteNotNeeded
  BY <1>10, <1>apply DEF MuteNotNeeded, Complete
<1>11. CASE MuteUnavailable
  BY <1>11 DEF MuteUnavailable, FailClosed
<1>12. CASE MuteRequested
  BY <1>12, <1>apply DEF MuteRequested, Complete, FailClosed
<1>13. CASE PauseStream \/ ResumeStream
  <2>1. stream' \in Stream
    BY <1>13, OutcomeTypes DEF PauseStream, ResumeStream, CallStreams
  <2> QED
    BY <1>13, <1>apply, <2>1
    DEF PauseStream, ResumeStream, CallStreams, Complete, FailClosed, Throw
<1>14. CASE SetStreamVolume
  <2>1. plan.volume \in 0 .. FullVolume
    BY <1>14 DEF SetStreamVolume, CallStreams, Executable
  <2>2. stream' \in Stream
    BY <1>14, <2>1, OutcomeTypes DEF SetStreamVolume, CallStreams
  <2> QED
    BY <1>14, <1>apply, <2>2 DEF SetStreamVolume, CallStreams, Complete, FailClosed, Throw
<1>15. CASE StopStream
  BY <1>15, StreamTypes DEF StopStream
<1>16. CASE RestoreAfterStop
  BY <1>16, <1>apply, RestoreTypes DEF RestoreAfterStop, Complete
<1>17. CASE CatchException
  BY <1>17 DEF CatchException
<1>18. CASE FailClosedStop
  BY <1>18, StreamTypes DEF FailClosedStop
<1>19. CASE FailClosedRestore
  BY <1>19, <1>stop, RestoreTypes DEF FailClosedRestore
<1>20. CASE BeginShutdown
  BY <1>20 DEF BeginShutdown
<1>21. CASE ShutdownStop
  BY <1>21, StreamTypes DEF ShutdownStop
<1>22. CASE ShutdownRestore
  <2>1. shutdowns' \in 0 .. MaxShutdowns
    BY <1>22, GameplayAssumption DEF ShutdownRestore
  <2>2. PICK restored \in BOOLEAN : RestoreOriginalRadio(restored)
    BY <1>22 DEF ShutdownRestore
  <2>3. /\ muteAttempted' \in BOOLEAN
        /\ radioMuted' \in BOOLEAN
        /\ original' \in [available : BOOLEAN, muted : BOOLEAN]
        /\ restoreFailed' \in BOOLEAN
    BY <1>0, <2>2, RestoreTypes
  <2> QED
    BY <1>22, <2>1, <2>3 DEF ShutdownRestore
<1>23. CASE StreamDies
  <2>1. stream' \in Stream
    BY <1>23 DEF StreamDies, Stream
  <2> QED
    BY <1>23, <2>1 DEF StreamDies
<1>24. CASE OriginalRadioChanges
  <2>1. original' \in [available : BOOLEAN, muted : BOOLEAN]
    BY <1>24 DEF OriginalRadioChanges
  <2> QED
    BY <1>24, <2>1 DEF OriginalRadioChanges
<1>25. CASE UNCHANGED vars
  BY <1>25 DEF vars
<1> QED
  BY <1>1, <1>2, <1>3, <1>4, <1>5, <1>6, <1>7, <1>8, <1>9, <1>10, <1>11, <1>12, <1>13, <1>14,
     <1>15, <1>16, <1>17, <1>18, <1>19, <1>20, <1>21, <1>22, <1>23, <1>24, <1>25
  DEF Next, GameThread, Submit, Execute, ShutdownThread, Environment

\* Type correctness: no interleaving of frames, shutdowns, failures and
\* exceptions takes a variable of the executor out of its type, and volumes stay
\* clamped.
THEOREM TypeCorrect == Spec => []TypeOK
<1>1. TypeInv => TypeOK
  BY DEF TypeInv
<1> QED
  BY <1>1, TypeInvInit, TypeInvStep, PTL DEF Spec

-----------------------------------------------------------------------------
(* The safety of the handover                                              *)

\* The program counters at which the game thread owns the sink's mutex.
LockedPcs == {"start", "mute", "pause", "resume", "setVolume", "stop", "restore",
              "failStop", "failRestore"}

LockInv ==
  /\ mutex = "game" <=> gamePc \in LockedPcs
  /\ mutex = "shutdown" <=> shutdownPc # "out"

\* Where the game thread is says what its plan asks for; a plan that stops
\* nothing meets an inactive state.
DecisionInv ==
  /\ ControllerMirrorsSink
  /\ gamePc \in LockedPcs \cup {"thrown"} =>
       ~failedClosed /\ ~OutOfOrder(plan.sequence, sinkState)
  /\ gamePc \in {"start", "mute"} => plan.action \in {"wouldStart", "wouldSwitch"}
  /\ gamePc = "pause" => plan.action = "wouldPause"
  /\ gamePc = "resume" => plan.action = "wouldResume"
  /\ gamePc = "setVolume" => plan.action = "wouldSetVolume"
  /\ gamePc \in {"stop", "restore"} => plan.action \in {"wouldStop", "none"}
  /\ gamePc = "submit" /\ plan.action = "none" /\ ~plan.online => ~sinkState.active
  /\ gamePc \in {"stop", "restore"} /\ plan.action = "none" => ~sinkState.active

\* A silent original radio with no stream is on its way to a restore.
MutedMeansStream ==
  original.muted => \/ stream.media # None
                    \/ restoreFailed
                    \/ gamePc \in {"restore", "failRestore", "failStop", "thrown"}
                    \/ shutdownPc = "restore"

HandoverInv ==
  /\ gamePc = "mute" => stream.media # None
  /\ gamePc \in {"restore", "failRestore"} => stream = NoStream
  /\ shutdownPc = "restore" => stream = NoStream
  /\ failedClosed => stream = NoStream /\ ~sinkState.active
  /\ MuteIsOwed
  /\ ~suppressOriginalRadio => ~muteAttempted
  /\ MutedMeansStream
  /\ NeverShutDown /\ suppressOriginalRadio /\ sinkState.active => radioMuted

SafetyInv == LockInv /\ DecisionInv /\ HandoverInv

LEMMA SafetyInvInit == Init => SafetyInv
BY DEF Init, SafetyInv, LockInv, DecisionInv, HandoverInv, LockedPcs, ControllerMirrorsSink,
       MuteIsOwed, MutedMeansStream, NeverShutDown, InitialRadioState

\* Every step keeps the mutex with the thread that is inside the sink.
LEMMA LockInvStep == TypeInv /\ LockInv /\ [Next]_vars => LockInv'
<1> SUFFICES ASSUME TypeInv, LockInv, [Next]_vars PROVE LockInv'
  OBVIOUS
<1> USE DEF LockInv, LockedPcs, sinkVars, fixedVars, shutdownVars
<1>1. CASE Frame
  BY <1>1 DEF Frame, DecideFrame
<1>2. CASE ReadBack
  BY <1>2 DEF ReadBack
<1>3. CASE Submit
  <2>1. CASE SubmitAction
    <3>1. Dispatch \in {"start", "pause", "resume", "setVolume", "stop"}
      BY <2>1, DispatchAction DEF TypeInv
    <3> QED
      BY <2>1, <3>1 DEF SubmitAction, Accepted
  <2> QED
    BY <1>3, <2>1
    DEF Submit, SubmitOutOfOrder, SubmitFailedClosed, SubmitSuppressionLost, SubmitUnchanged,
        Accepted
<1>4. CASE Execute
  BY <1>4
  DEF Execute, StartRefused, StartStation, MuteNotNeeded, MuteUnavailable, MuteRequested,
      PauseStream, ResumeStream, CallStreams, SetStreamVolume, StopStream, RestoreAfterStop,
      CatchException, FailClosedStop, FailClosedRestore, Complete, FailClosed, Throw
<1>5. CASE BeginShutdown \/ ShutdownThread
  BY <1>5 DEF BeginShutdown, ShutdownThread, ShutdownStop, ShutdownRestore
<1>6. CASE Environment
  BY <1>6 DEF Environment, StreamDies, OriginalRadioChanges
<1>7. CASE UNCHANGED vars
  BY <1>7 DEF vars
<1> QED
  BY <1>1, <1>2, <1>3, <1>4, <1>5, <1>6, <1>7 DEF Next, GameThread

\* Every step keeps the plan, the program counter and the decision state in
\* step.
LEMMA DecisionInvStep ==
  TypeInv /\ LockInv /\ DecisionInv /\ [Next]_vars => DecisionInv'
<1> SUFFICES ASSUME TypeInv, LockInv, DecisionInv, [Next]_vars PROVE DecisionInv'
  OBVIOUS
<1>0. TypeOK /\ plan \in RadioActionPlan /\ sinkState \in SimulatedRadioState
  BY DEF TypeInv, TypeOK
<1> USE DEF LockInv, LockedPcs, DecisionInv, ControllerMirrorsSink, sinkVars, fixedVars,
            shutdownVars
<1>1. CASE Frame
  <2> PICK snapshot, sequence :
        DecideFrame([snapshot EXCEPT !.sequence = sequence])
    BY <1>1 DEF Frame
  <2>1. plan'.action = "none" /\ ~plan'.online => ~controllerState.active
    BY EvaluateIdle DEF DecideFrame, TypeInv, TypeOK
  <2> QED
    BY <2>1 DEF DecideFrame
<1>2. CASE ReadBack
  BY <1>2 DEF ReadBack
<1>3. CASE Submit
  <2>1. CASE SubmitAction
    BY <1>0, <2>1, DispatchAction DEF SubmitAction, Accepted
  <2> QED
    BY <1>3, <2>1
    DEF Submit, SubmitOutOfOrder, SubmitFailedClosed, SubmitSuppressionLost, SubmitUnchanged,
        Accepted
<1>4. CASE Execute
  BY <1>4
  DEF Execute, StartRefused, StartStation, MuteNotNeeded, MuteUnavailable, MuteRequested,
      PauseStream, ResumeStream, CallStreams, SetStreamVolume, StopStream, RestoreAfterStop,
      CatchException, FailClosedStop, FailClosedRestore, Complete, FailClosed, Throw
<1>5. CASE BeginShutdown \/ ShutdownThread
  BY <1>5 DEF BeginShutdown, ShutdownThread, ShutdownStop, ShutdownRestore
<1>6. CASE Environment
  BY <1>6 DEF Environment, StreamDies, OriginalRadioChanges
<1>7. CASE UNCHANGED vars
  BY <1>7 DEF vars
<1> QED
  BY <1>1, <1>2, <1>3, <1>4, <1>5, <1>6, <1>7 DEF Next, GameThread

\* What an attempt to restore leaves behind.
LEMMA RestoreSettles ==
  ASSUME TypeOK, NEW restored \in BOOLEAN, RestoreOriginalRadio(restored),
         MuteIsOwed, ~suppressOriginalRadio => ~muteAttempted
  PROVE  /\ MuteIsOwed'
         /\ muteAttempted' => muteAttempted
         /\ original'.muted => restoreFailed'
BY DEF RestoreOriginalRadio, RestoreRequired, TypeOK, MuteIsOwed

\* Every step keeps the handover safe.
LEMMA HandoverInvStep ==
  TypeInv /\ LockInv /\ DecisionInv /\ HandoverInv /\ [Next]_vars => HandoverInv'
<1> SUFFICES ASSUME TypeInv, LockInv, DecisionInv, HandoverInv, [Next]_vars
             PROVE  HandoverInv'
  OBVIOUS
<1>0. TypeOK /\ plan \in RadioActionPlan /\ sinkState \in SimulatedRadioState
  BY DEF TypeInv, TypeOK
<1>media. NoStream.media = None
  BY DEF NoStream
<1>apply. ApplyRadioActionPlan(plan, sinkState).active =>
            sinkState.active \/ plan.action \in {"wouldStart", "wouldSwitch"}
  BY <1>0, ApplyActivates
<1>stop. ~OutOfOrder(plan.sequence, sinkState) =>
           ~ApplyRadioActionPlan(StopPlan(plan), sinkState).active
  BY <1>0, StopPlanStops
<1> USE DEF LockInv, LockedPcs, HandoverInv, MuteIsOwed, MutedMeansStream, NeverShutDown,
            sinkVars, fixedVars, shutdownVars
<1>1. CASE Frame \/ ReadBack
  <2>1. CASE Frame
    <3>1. PICK snapshot : DecideFrame(snapshot)
      BY <2>1 DEF Frame
    <3> QED
      BY <3>1 DEF DecideFrame
  <2>2. CASE ReadBack
    BY <2>2 DEF ReadBack
  <2> QED
    BY <1>1, <2>1, <2>2
<1>2. CASE Submit
  <2>1. CASE SubmitAction
    BY <1>0, <2>1, DispatchAction DEF SubmitAction, Accepted
  <2>2. CASE SubmitFailedClosed
    BY <2>2, <1>stop DEF SubmitFailedClosed
  <2>3. CASE SubmitUnchanged
    BY <2>3, <1>apply DEF SubmitUnchanged, Accepted
  <2> QED
    BY <1>2, <2>1, <2>2, <2>3 DEF Submit, SubmitOutOfOrder, SubmitSuppressionLost, Accepted
<1>3. CASE StartRefused
  BY <1>3 DEF StartRefused, FailClosed
<1>4. CASE StartStation
  <2>1. plan.selected \in Stations /\ plan.volume \in 0 .. FullVolume /\ stream \in Stream
    BY <1>4, <1>0 DEF StartStation, TypeInv, ExecutableInv, Executable, TypeOK
  <2>2. plan.selected # None
    <3>1. plan.selected \in Nat
      BY <2>1, RadioDecisionAssumption
    <3>2. plan.selected \in Int
      BY <3>1
    <3> QED
      BY <3>2, RadioDecisionAssumption
  <2> QED
    BY <1>4, <2>1, <2>2, OutcomeTypes DEF StartStation, FailClosed, Throw, DecisionInv
<1>5. CASE MuteNotNeeded
  BY <1>5, <1>apply DEF MuteNotNeeded, Complete, DecisionInv
<1>6. CASE MuteUnavailable
  BY <1>6 DEF MuteUnavailable, FailClosed
<1>7. CASE MuteRequested
  BY <1>7, <1>0, <1>apply DEF MuteRequested, Complete, FailClosed, DecisionInv, TypeOK
<1>8. CASE PauseStream \/ ResumeStream
  <2>1. stream'.media = stream.media
    BY <1>8, <1>0, OutcomeTypes DEF PauseStream, ResumeStream, CallStreams, TypeOK
  <2> QED
    BY <1>8, <1>apply, <2>1
    DEF PauseStream, ResumeStream, CallStreams, Complete, FailClosed, Throw, DecisionInv
<1>9. CASE SetStreamVolume
  <2>1. plan.volume \in 0 .. FullVolume /\ stream \in Stream
    BY <1>9, <1>0 DEF SetStreamVolume, CallStreams, TypeInv, ExecutableInv, Executable, TypeOK
  <2>2. stream'.media = stream.media
    BY <1>9, <2>1, OutcomeTypes DEF SetStreamVolume, CallStreams
  <2> QED
    BY <1>9, <1>apply, <2>2 DEF SetStreamVolume, CallStreams, Complete, FailClosed, Throw, DecisionInv
<1>10. CASE StopStream
  BY <1>10, <1>media DEF StopStream, DecisionInv
<1>11. CASE RestoreAfterStop
  <2>1. PICK restored \in BOOLEAN : RestoreOriginalRadio(restored) /\ failedClosed' = ~restored
    BY <1>11 DEF RestoreAfterStop
  <2>2. ~sinkState'.active
    <3>1. plan.action = "wouldStop" => ~ApplyRadioActionPlan(plan, sinkState).active
      BY <1>11, <1>0, ApplyStops DEF RestoreAfterStop, DecisionInv
    <3>2. plan.action = "none" => ~sinkState.active
      BY <1>11, <1>0 DEF RestoreAfterStop, DecisionInv
    <3> QED
      BY <1>11, <1>apply, <3>1, <3>2 DEF RestoreAfterStop, Complete, DecisionInv
  <2> QED
    BY <1>0, <1>11, <2>1, <2>2, RestoreSettles DEF RestoreAfterStop, Complete
<1>12. CASE CatchException
  BY <1>12 DEF CatchException
<1>13. CASE FailClosedStop
  BY <1>13, <1>media DEF FailClosedStop, DecisionInv
<1>14. CASE FailClosedRestore
  <2>1. PICK restored \in BOOLEAN : RestoreOriginalRadio(restored)
    BY <1>14 DEF FailClosedRestore
  <2>2. ~sinkState'.active
    BY <1>14, <1>stop DEF FailClosedRestore, DecisionInv
  <2> QED
    BY <1>0, <1>14, <2>1, <2>2, RestoreSettles DEF FailClosedRestore
<1>15. CASE BeginShutdown
  BY <1>15 DEF BeginShutdown
<1>16. CASE ShutdownStop
  BY <1>16, <1>media DEF ShutdownStop
<1>17. CASE ShutdownRestore
  <2>1. PICK restored \in BOOLEAN : RestoreOriginalRadio(restored)
    BY <1>17 DEF ShutdownRestore
  <2>2. shutdowns' # 0
    BY <1>0, <1>17 DEF ShutdownRestore, TypeOK
  <2> QED
    BY <1>0, <1>17, <2>1, <2>2, RestoreSettles DEF ShutdownRestore
<1>18. CASE StreamDies
  <2>1. stream'.media = stream.media /\ stream # NoStream
    BY <1>18, <1>0 DEF StreamDies, TypeOK, Stream, NoStream
  <2> QED
    BY <1>18, <2>1 DEF StreamDies
<1>19. CASE OriginalRadioChanges
  <2>1. original'.muted => original.muted
    BY <1>19, <1>0 DEF OriginalRadioChanges, TypeOK
  <2> QED
    BY <1>19, <2>1 DEF OriginalRadioChanges
<1>20. CASE UNCHANGED vars
  BY <1>20 DEF vars
<1> QED
  BY <1>1, <1>2, <1>3, <1>4, <1>5, <1>6, <1>7, <1>8, <1>9, <1>10, <1>11, <1>12, <1>13, <1>14,
     <1>15, <1>16, <1>17, <1>18, <1>19, <1>20
  DEF Next, GameThread, Execute, ShutdownThread, Environment

IInv == TypeInv /\ SafetyInv

\* The inductive invariant of the executor.
THEOREM InductiveInvariant == Spec => []IInv
<1>1. Init => IInv
  BY TypeInvInit, SafetyInvInit DEF IInv
<1>2. IInv /\ [Next]_vars => IInv'
  BY TypeInvStep, LockInvStep, DecisionInvStep, HandoverInvStep DEF IInv, SafetyInv
<1> QED
  BY <1>1, <1>2, PTL DEF Spec

\* The controller never decides on a state that the sink has since left: the
\* copy RadioController::update keeps without the sink's mutex is never stale.
THEOREM ControllerNeverStale == Spec => []ControllerMirrorsSink
<1>1. IInv => ControllerMirrorsSink
  BY DEF IInv, SafetyInv, DecisionInv
<1> QED
  BY <1>1, InductiveInvariant, PTL

\* No failure, exception or shutdown forgets a mute that may have taken effect.
THEOREM EveryMuteIsOwed == Spec => []MuteIsOwed
<1>1. IInv => MuteIsOwed
  BY DEF IInv, SafetyInv, HandoverInv
<1> QED
  BY <1>1, InductiveInvariant, PTL

\* With no thread inside the sink, the original radio is silent only under an
\* open stream, or because restoring it was refused.
THEOREM NeverSilentWithoutStream == Spec => []MutedOnlyUnderStream
<1>1. IInv => MutedOnlyUnderStream
  BY DEF IInv, SafetyInv, LockInv, HandoverInv, MutedMeansStream, MutedOnlyUnderStream, Quiet
<1> QED
  BY <1>1, InductiveInvariant, PTL

\* A sink that has failed closed has no stream open, for good.
THEOREM FailedClosedStaysSilent == Spec => []FailedClosedIsSilent
<1>1. IInv => FailedClosedIsSilent
  BY DEF IInv, SafetyInv, HandoverInv, FailedClosedIsSilent
<1> QED
  BY <1>1, InductiveInvariant, PTL

\* Before any shutdown, online audio is reported active only over an original
\* radio that suppression has muted.
THEOREM ActiveOnlyWhenSuppressed == Spec => []ActiveMeansSuppressed
<1>1. IInv => ActiveMeansSuppressed
  BY DEF IInv, SafetyInv, HandoverInv, ActiveMeansSuppressed
<1> QED
  BY <1>1, InductiveInvariant, PTL

\* A plan changes the simulated state at most once, and only one newer than all
\* applied before, whichever of the executor's paths applies it.
THEOREM StateAppliedInOrder == Spec => AppliedInOrder
<1>1. TypeOK /\ [Next]_vars =>
        [sinkState' # sinkState => sinkState.last = 0 \/ sinkState'.last > sinkState.last]_vars
  <2> SUFFICES ASSUME TypeOK, Next, sinkState' # sinkState
               PROVE  sinkState.last = 0 \/ sinkState'.last > sinkState.last
    OBVIOUS
  <2>1. \/ sinkState' = ApplyRadioActionPlan(plan, sinkState)
        \/ sinkState' = ApplyRadioActionPlan(StopPlan(plan), sinkState)
    BY DEF Next, Frame, DecideFrame, GameThread, Submit, SubmitOutOfOrder, SubmitFailedClosed,
           SubmitSuppressionLost, SubmitUnchanged, SubmitAction, Accepted, ReadBack, Execute,
           StartRefused, StartStation, MuteNotNeeded, MuteUnavailable, MuteRequested,
           PauseStream, ResumeStream, CallStreams, SetStreamVolume, StopStream,
           RestoreAfterStop, CatchException, FailClosedStop, FailClosedRestore, Complete,
           FailClosed, Throw, BeginShutdown, ShutdownThread, ShutdownStop, ShutdownRestore,
           Environment, StreamDies, OriginalRadioChanges, sinkVars
  <2> QED
    BY <2>1, ApplyAdvances, StopPlanType DEF TypeOK
<1> QED
  BY <1>1, TypeCorrect, PTL DEF Spec, AppliedInOrder

-----------------------------------------------------------------------------
(* The refinement of AudioHandover                                         *)

LEMMA HandoverStep == IInv /\ [Next]_vars => [Handover!Next]_Handover!vars
<1> SUFFICES ASSUME IInv, [Next]_vars PROVE [Handover!Next]_Handover!vars
  OBVIOUS
<1>0. TypeOK /\ TypeInv /\ DecisionInv /\ HandoverInv
  BY DEF IInv, SafetyInv, TypeInv
<1>media. NoStream.media = None
  BY DEF NoStream
<1> USE DEF Handover!vars, sinkVars, fixedVars, shutdownVars
<1>restore. ASSUME NEW restored \in BOOLEAN, RestoreOriginalRadio(restored),
                   stream = NoStream, stream' = stream,
                   failedClosed' \in {failedClosed, TRUE}
            PROVE  Handover!GiveBack
  BY <1>0, <1>restore, <1>media DEF Handover!GiveBack, RestoreOriginalRadio, TypeOK
<1>1. CASE Frame \/ ReadBack \/ Submit
  <2>1. CASE Frame
    <3>1. PICK snapshot : DecideFrame(snapshot)
      BY <2>1 DEF Frame
    <3> QED
      BY <3>1 DEF DecideFrame
  <2>2. CASE ReadBack
    BY <2>2 DEF ReadBack
  <2>3. CASE Submit
    BY <2>3 DEF Submit, SubmitOutOfOrder, SubmitFailedClosed, SubmitSuppressionLost,
                SubmitUnchanged, SubmitAction, Accepted
  <2> QED
    BY <1>1, <2>1, <2>2, <2>3
<1>2. CASE StartStation
  <2>1. /\ plan.selected \in Stations
        /\ plan.volume \in 0 .. FullVolume
        /\ stream \in Stream
        /\ ~failedClosed
    BY <1>2, <1>0
    DEF StartStation, TypeInv, ExecutableInv, Executable, TypeOK, DecisionInv, LockedPcs
  <2>2. stream'.media \in {plan.selected, stream.media, None}
    BY <1>2, <2>1, OutcomeTypes DEF StartStation
  <2>3. UNCHANGED <<muteAttempted, failedClosed>>
    BY <1>2 DEF StartStation
  <2>4. Handover!Open(plan.selected) \/ Handover!Close \/ UNCHANGED Handover!vars
    BY <2>1, <2>2, <2>3 DEF Handover!Open, Handover!Close
  <2> QED
    BY <2>1, <2>4 DEF Handover!Next
<1>3. CASE MuteRequested
  <2>1. stream.media # None /\ ~failedClosed
    BY <1>3, <1>0 DEF MuteRequested, DecisionInv, HandoverInv, LockedPcs
  <2> QED
    BY <1>3, <2>1 DEF MuteRequested, Handover!Next, Handover!Suppress
<1>4. CASE PauseStream \/ ResumeStream
  <2>1. stream'.media = stream.media
    BY <1>4, <1>0, OutcomeTypes DEF PauseStream, ResumeStream, CallStreams, TypeOK
  <2> QED
    BY <1>4, <2>1 DEF PauseStream, ResumeStream, CallStreams
<1>5. CASE SetStreamVolume
  <2>1. plan.volume \in 0 .. FullVolume /\ stream \in Stream
    BY <1>5, <1>0 DEF SetStreamVolume, CallStreams, TypeInv, ExecutableInv, Executable, TypeOK
  <2>2. stream'.media = stream.media
    BY <1>5, <2>1, OutcomeTypes DEF SetStreamVolume, CallStreams
  <2> QED
    BY <1>5, <2>2 DEF SetStreamVolume, CallStreams
<1>6. CASE StartRefused \/ MuteNotNeeded \/ MuteUnavailable \/ CatchException \/ BeginShutdown
  BY <1>6 DEF StartRefused, MuteNotNeeded, MuteUnavailable, CatchException, BeginShutdown
<1>7. CASE StopStream \/ FailClosedStop \/ ShutdownStop
  <2>1. Handover!Close
    BY <1>7, <1>media DEF StopStream, FailClosedStop, ShutdownStop, Handover!Close
  <2> QED
    BY <2>1 DEF Handover!Next
<1>8. CASE RestoreAfterStop
  <2>1. PICK restored \in BOOLEAN : RestoreOriginalRadio(restored) /\ failedClosed' = ~restored
    BY <1>8 DEF RestoreAfterStop
  <2>2. stream = NoStream /\ stream' = stream /\ ~failedClosed
    BY <1>8, <1>0 DEF RestoreAfterStop, HandoverInv, DecisionInv, LockedPcs
  <2>3. Handover!GiveBack
    BY <1>0, <1>restore, <2>1, <2>2 DEF TypeOK
  <2> QED
    BY <2>3 DEF Handover!Next
<1>9. CASE FailClosedRestore
  <2>1. PICK restored \in BOOLEAN : RestoreOriginalRadio(restored)
    BY <1>9 DEF FailClosedRestore
  <2>2. stream = NoStream /\ stream' = stream /\ failedClosed' = TRUE
    BY <1>9, <1>0 DEF FailClosedRestore, HandoverInv
  <2>3. Handover!GiveBack
    BY <1>restore, <2>1, <2>2
  <2> QED
    BY <2>3 DEF Handover!Next
<1>10. CASE ShutdownRestore
  <2>1. PICK restored \in BOOLEAN : RestoreOriginalRadio(restored)
    BY <1>10 DEF ShutdownRestore
  <2>2. stream = NoStream /\ stream' = stream /\ failedClosed' = failedClosed
    BY <1>10, <1>0 DEF ShutdownRestore, HandoverInv
  <2>3. Handover!GiveBack
    BY <1>restore, <2>1, <2>2
  <2> QED
    BY <2>3 DEF Handover!Next
<1>11. CASE Environment
  <2>1. CASE StreamDies
    BY <1>0, <2>1 DEF StreamDies, TypeOK, Stream
  <2>2. CASE OriginalRadioChanges
    BY <2>2 DEF OriginalRadioChanges
  <2> QED
    BY <1>11, <2>1, <2>2 DEF Environment
<1>12. CASE UNCHANGED vars
  BY <1>12 DEF vars
<1> QED
  BY <1>1, <1>2, <1>3, <1>4, <1>5, <1>6, <1>7, <1>8, <1>9, <1>10, <1>11, <1>12
  DEF Next, GameThread, Execute, ShutdownThread

\* The executor implements AudioHandover: whatever fails underneath it, it mutes
\* the game's radio only under an open stream, gives it back only with no stream
\* open, and never opens a stream once it has failed closed.
THEOREM ImplementsHandover == Spec => HandoverSpec
<1>1. Init => Handover!Init
  BY DEF Init, Handover!Init, NoStream
<1> QED
  BY <1>1, HandoverStep, InductiveInvariant, PTL DEF Spec, HandoverSpec, Handover!Spec

-----------------------------------------------------------------------------
(* Until shutdown is called, the stream the manager has open is the one    *)
(* the simulated state describes, so that every decision the engine takes  *)
(* on that state fits the stream.                                          *)

\* What a plan of the engine says about the state it was decided on.
Decided(evaluated, configured, previous) ==
  /\ evaluated.action \in {"wouldStart", "wouldSwitch"} =>
       evaluated.selected = SelectStation(configured, evaluated.binding.raw).station
  /\ evaluated.action = "wouldPause" => previous.active /\ ~previous.paused
  /\ evaluated.action = "wouldResume" => previous.active /\ previous.paused
  /\ evaluated.action = "wouldSetVolume" => previous.active /\ ~previous.paused
  /\ evaluated.reason = "unchanged" =>
       /\ ~OutOfOrder(evaluated.sequence, previous)
       /\ evaluated.action = "none"
       /\ evaluated.online
       /\ previous.active /\ ~previous.paused
       /\ previous.binding = evaluated.binding
       /\ WithinTolerance(previous.volume, evaluated.volume)
       /\ evaluated.selected = SelectStation(configured, evaluated.binding.raw).station

LEMMA EvaluateDecided ==
  ASSUME NEW configured, WellFormed(configured),
         NEW snapshot \in Snapshot, NEW previous \in SimulatedRadioState
  PROVE  Decided(Evaluate(snapshot, configured, previous), configured, previous)
<1> DEFINE raw == snapshot.radioStationRaw
           gate == GateReason(snapshot, configured)
           choice == SelectStation(configured, raw)
<1>1. ASSUME NEW reason \in BlockingReasons, NEW binding
      PROVE  Decided(InactivePlan(snapshot, previous, reason, binding), configured, previous)
  BY <1>1 DEF InactivePlan, Decided, BlockingReasons
<1>2. Decided(OutOfOrderPlan(snapshot, previous), configured, previous)
  BY DEF OutOfOrderPlan, Decided
<1>3. ASSUME ~OutOfOrder(snapshot.sequence, previous)
      PROVE  Decided(ActivePlan(snapshot, configured, previous, choice), configured, previous)
  <2> DEFINE binding == [kind |-> choice.kind, raw |-> raw, identity |-> choice.identity,
                         key |-> SanitizedStationKey(choice.station, raw)]
             volume == PreferenceVolume(snapshot, configured)
             pauseMenu == snapshot.pauseMenuActive = "yes"
             same == previous.active /\ previous.binding = binding
             action == ActiveAction(pauseMenu, previous, same, volume)
             evaluated == ActivePlan(snapshot, configured, previous, choice)
  <2>1. /\ evaluated.action = action
        /\ evaluated.reason = IF pauseMenu THEN "paused"
                              ELSE IF action = "none" THEN "unchanged" ELSE "ready"
        /\ evaluated.sequence = snapshot.sequence
        /\ evaluated.binding = binding
        /\ evaluated.volume = volume
        /\ evaluated.selected = choice.station
        /\ evaluated.online = (previous.active \/ (~pauseMenu /\ action # "none"))
    BY DEF ActivePlan
  <2>2. binding.raw = raw
    OBVIOUS
  <2>3. /\ action = "wouldPause" => previous.active /\ ~previous.paused
        /\ action = "wouldResume" => previous.active /\ previous.paused
        /\ action = "wouldSetVolume" => previous.active /\ ~previous.paused
        /\ action = "none" /\ ~pauseMenu =>
             same /\ ~previous.paused /\ WithinTolerance(previous.volume, volume)
    BY DEF ActiveAction
  <2>4. pauseMenu \in BOOLEAN /\ previous.active \in BOOLEAN /\ same \in BOOLEAN
    BY DEF SimulatedRadioState
  <2>5. same => previous.active /\ previous.binding = binding
    OBVIOUS
  <2> HIDE DEF action, binding, volume, pauseMenu, evaluated, same, choice
  <2>6. choice.station = SelectStation(configured, evaluated.binding.raw).station
    BY <2>1, <2>2 DEF choice
  <2>7. evaluated.reason = "unchanged" => ~pauseMenu /\ action = "none"
    BY <2>1, <2>4
  <2>8. evaluated.reason = "unchanged" => previous.active /\ evaluated.online
    BY <2>1, <2>3, <2>4, <2>5, <2>7
  <2>9. evaluated.reason = "unchanged" =>
          /\ ~OutOfOrder(evaluated.sequence, previous)
          /\ ~previous.paused
          /\ previous.binding = evaluated.binding
          /\ WithinTolerance(previous.volume, evaluated.volume)
    BY <1>3, <2>1, <2>3, <2>5, <2>7
  <2>10. /\ evaluated.action = "wouldPause" => previous.active /\ ~previous.paused
         /\ evaluated.action = "wouldResume" => previous.active /\ previous.paused
         /\ evaluated.action = "wouldSetVolume" => previous.active /\ ~previous.paused
    BY <2>1, <2>3
  <2>11. evaluated.reason = "unchanged" => evaluated.action = "none"
    BY <2>1, <2>7
  <2>12. evaluated.selected = SelectStation(configured, evaluated.binding.raw).station
    BY <2>1, <2>6
  <2> QED
    BY <2>8, <2>9, <2>10, <2>11, <2>12 DEF Decided, evaluated
<1>4. gate \in BlockingReasons \cup {"ready"}
  BY DEF GateReason, BlockingReasons
<1>5. choice.reason \in BlockingReasons \cup {"ready"}
  BY SelectStationChoice DEF Choice
<1>6. "volumeUnavailable" \in BlockingReasons
  BY DEF BlockingReasons
<1> HIDE DEF choice, gate
<1> QED
  BY <1>1, <1>2, <1>3, <1>4, <1>5, <1>6 DEF Evaluate, choice, gate

-----------------------------------------------------------------------------

\* The open stream is the one the simulated state describes.
Matches ==
  /\ sinkState.active <=> stream.media # None
  /\ sinkState.active =>
       /\ stream.media = SelectStation(configuration, sinkState.binding.raw).station
       /\ stream.volume = sinkState.volume
       /\ stream.mode = IF sinkState.paused THEN "paused" ELSE "playing"

\* The plan at hand was decided on the state the sink is in.
DecidedInv ==
  /\ gamePc = "submit" => Decided(plan, configuration, sinkState)
  /\ gamePc \in {"start", "mute"} =>
       plan.selected = SelectStation(configuration, plan.binding.raw).station
  /\ gamePc = "pause" => sinkState.active /\ ~sinkState.paused
  /\ gamePc = "resume" => sinkState.active /\ sinkState.paused
  /\ gamePc = "setVolume" => sinkState.active /\ ~sinkState.paused
  /\ gamePc \in {"start", "mute", "pause", "resume", "setVolume", "stop", "restore"} =>
       plan.reason # "unchanged"

\* Stream and state agree wherever the game thread is not between the call that
\* changes the one and the assignment that records it in the other.
MatchInv ==
  NeverShutDown =>
    /\ gamePc \in {"idle", "submit", "readback", "start", "pause", "resume", "setVolume",
                   "stop"} => Matches
    /\ gamePc = "mute" =>
         stream.media = plan.selected /\ stream.volume = plan.volume /\ stream.mode = "playing"
    /\ UnchangedIsAccurate

StreamInv == DecidedInv /\ MatchInv

LEMMA StreamInvInit == Init => StreamInv
BY DEF Init, StreamInv, DecidedInv, MatchInv, Matches, UnchangedIsAccurate, InitialRadioState,
       NoStream

LEMMA DecidedInvStep ==
  IInv /\ DecidedInv /\ [Next]_vars => DecidedInv'
<1> SUFFICES ASSUME IInv, DecidedInv, [Next]_vars PROVE DecidedInv'
  OBVIOUS
<1>0. TypeOK /\ LockInv /\ ControllerMirrorsSink
  BY DEF IInv, TypeInv, SafetyInv, DecisionInv
<1> USE DEF DecidedInv, LockInv, LockedPcs, sinkVars, fixedVars, shutdownVars
<1>1. CASE Frame
  <2> PICK snapshot \in Snapshots, sequence \in 0 .. MaxSequence :
        DecideFrame([snapshot EXCEPT !.sequence = sequence])
    BY <1>1 DEF Frame
  <2> DEFINE frame == [snapshot EXCEPT !.sequence = sequence]
  <2>1. frame \in Snapshot
    BY GameplayAssumption DEF Snapshot
  <2>2. WellFormed(configuration) /\ controllerState \in SimulatedRadioState
    BY <1>0, GameplayAssumption DEF TypeOK
  <2>3. Decided(Evaluate(frame, configuration, controllerState), configuration,
                controllerState)
    BY <2>1, <2>2, EvaluateDecided
  <2>4. controllerState = sinkState
    BY <1>0 DEF DecideFrame, ControllerMirrorsSink
  <2> HIDE DEF frame
  <2> QED
    BY <2>3, <2>4 DEF DecideFrame, frame
<1>2. CASE ReadBack
  BY <1>2 DEF ReadBack
<1>3. CASE Submit
  <2>1. CASE SubmitAction
    <3>1. Decided(plan, configuration, sinkState)
      BY <2>1 DEF SubmitAction, Accepted
    <3>2. plan.reason # "unchanged"
      BY <2>1, <3>1 DEF SubmitAction, Decided
    <3> QED
      BY <1>0, <2>1, <3>1, <3>2, DispatchAction DEF SubmitAction, Accepted, Decided
  <2> QED
    BY <1>3, <2>1
    DEF Submit, SubmitOutOfOrder, SubmitFailedClosed, SubmitSuppressionLost, SubmitUnchanged,
        Accepted
<1>4. CASE Execute
  BY <1>4
  DEF Execute, StartRefused, StartStation, MuteNotNeeded, MuteUnavailable, MuteRequested,
      PauseStream, ResumeStream, CallStreams, SetStreamVolume, StopStream, RestoreAfterStop,
      CatchException, FailClosedStop, FailClosedRestore, Complete, FailClosed, Throw
<1>5. CASE BeginShutdown \/ ShutdownThread
  BY <1>5 DEF BeginShutdown, ShutdownThread, ShutdownStop, ShutdownRestore
<1>6. CASE Environment
  BY <1>6 DEF Environment, StreamDies, OriginalRadioChanges
<1>7. CASE UNCHANGED vars
  BY <1>7 DEF vars
<1> QED
  BY <1>1, <1>2, <1>3, <1>4, <1>5, <1>6, <1>7 DEF Next, GameThread

\* What a newer plan makes of the simulated state, field by field.
LEMMA ApplyFields ==
  ASSUME NEW p \in RadioActionPlan, NEW state \in SimulatedRadioState,
         ~OutOfOrder(p.sequence, state), NEW next, next = ApplyRadioActionPlan(p, state)
  PROVE  /\ p.action \in {"wouldStart", "wouldSwitch"} =>
              next.active /\ ~next.paused /\ next.binding = p.binding /\ next.volume = p.volume
         /\ p.action \in {"none", "wouldPause", "wouldResume", "wouldSetVolume"} =>
              next.active = state.active /\ (state.active => next.binding = state.binding)
         /\ state.active /\ p.action \in {"none", "wouldPause", "wouldResume"} =>
              next.volume = state.volume
         /\ state.active /\ p.action \in {"none", "wouldSetVolume"} =>
              next.paused = state.paused
         /\ state.active /\ p.action = "wouldPause" => next.paused
         /\ state.active /\ p.action = "wouldResume" => ~next.paused
         /\ state.active /\ p.action = "wouldSetVolume" => next.volume = p.volume
         /\ p.action = "wouldStop" => ~next.active
<1> DEFINE seen == [state EXCEPT !.last = p.sequence]
<1>1. /\ seen \in SimulatedRadioState
      /\ seen.active = state.active
      /\ seen.paused = state.paused
      /\ seen.binding = state.binding
      /\ seen.volume = state.volume
  BY DEF SimulatedRadioState, RadioActionPlan
<1>2. next = Executed(p, seen)
  BY DEF ApplyRadioActionPlan
<1>3. ClearSimulatedActivity(seen).active = FALSE
  BY DEF ClearSimulatedActivity, InitialRadioState
<1> HIDE DEF seen
<1>4. CASE p.action \in {"wouldStart", "wouldSwitch"}
  BY <1>1, <1>2, <1>4 DEF Executed, SimulatedRadioState
<1>5. CASE p.action \in {"wouldPause", "wouldResume"}
  BY <1>1, <1>2, <1>5 DEF Executed, SimulatedRadioState
<1>6. CASE p.action = "wouldSetVolume"
  BY <1>1, <1>2, <1>6 DEF Executed, SimulatedRadioState
<1>7. CASE p.action \in {"wouldStop", "none"}
  <2>1. next = seen \/ next = ClearSimulatedActivity(seen)
    BY <1>2, <1>7 DEF Executed
  <2>2. p.action = "none" /\ state.active => next = seen
    BY <1>1, <1>2, <1>7 DEF Executed
  <2>3. p.action = "wouldStop" => next = ClearSimulatedActivity(seen)
    BY <1>2 DEF Executed
  <2>4. state.active \in BOOLEAN
    BY DEF SimulatedRadioState
  <2> QED
    BY <1>1, <1>3, <1>7, <2>1, <2>2, <2>3, <2>4
<1>8. p.action \in Actions
  BY DEF RadioActionPlan
<1> QED
  BY <1>4, <1>5, <1>6, <1>7, <1>8 DEF Actions

\* What a successful call of the stream manager leaves open.
LEMMA OutcomeStreams ==
  ASSUME stream \in Stream, NEW outcome, outcome.result = "ok"
  PROVE  /\ \A station, volume : outcome \in StartOutcomes(station, volume) =>
              /\ outcome.stream.media = station
              /\ outcome.stream.volume = volume
              /\ outcome.stream.mode = "playing"
         /\ outcome \in ModeOutcomes(Paused(stream)) =>
              /\ outcome.stream.media = stream.media
              /\ outcome.stream.volume = stream.volume
              /\ outcome.stream.mode = "paused"
         /\ outcome \in ModeOutcomes(Resumed(stream)) =>
              /\ outcome.stream.media = stream.media
              /\ outcome.stream.volume = stream.volume
              /\ outcome.stream.mode = "playing"
         /\ \A volume : outcome \in VolumeOutcomes(volume) =>
              /\ outcome.stream.media = stream.media
              /\ stream.media # None => outcome.stream.volume = volume
              /\ outcome.stream.mode = stream.mode
<1>1. \A station, volume : outcome \in StartOutcomes(station, volume) =>
        outcome.stream = Playing(station, volume)
  BY DEF StartOutcomes, StartReplies, BufferReplies, OrRefused, Threw, Outcome
<1>2. \A changed : outcome \in ModeOutcomes(changed) => outcome.stream = changed
  BY DEF ModeOutcomes, ModeReplies, OrRefused, Threw, Outcome
<1>3. \A volume : outcome \in VolumeOutcomes(volume) =>
        outcome.stream = IF stream.media = None THEN stream
                         ELSE [stream EXCEPT !.volume = volume]
  BY DEF VolumeOutcomes, VolumeReplies, OrRefused, Threw, Outcome, WithVolume
<1>4. /\ \A done \in {Paused(stream), Resumed(stream)} :
           done.media = stream.media /\ done.volume = stream.volume
      /\ Paused(stream).mode = "paused" /\ Resumed(stream).mode = "playing"
  BY DEF Paused, Resumed, Stream
<1>5. \A volume : LET done == [stream EXCEPT !.volume = volume]
                 IN  done.media = stream.media /\ done.volume = volume /\ done.mode = stream.mode
  BY DEF Stream
<1>6. \A station, volume : LET done == Playing(station, volume)
                          IN  done.media = station /\ done.volume = volume /\ done.mode = "playing"
  BY DEF Playing
<1>7. ASSUME NEW station, NEW volume, outcome \in StartOutcomes(station, volume)
      PROVE  /\ outcome.stream.media = station
             /\ outcome.stream.volume = volume
             /\ outcome.stream.mode = "playing"
  BY <1>1, <1>6, <1>7
<1>8. ASSUME NEW changed \in {Paused(stream), Resumed(stream)}, outcome \in ModeOutcomes(changed)
      PROVE  /\ outcome.stream.media = stream.media
             /\ outcome.stream.volume = stream.volume
             /\ outcome.stream.mode = changed.mode
  BY <1>2, <1>4, <1>8
<1>9. ASSUME NEW volume, outcome \in VolumeOutcomes(volume)
      PROVE  /\ outcome.stream.media = stream.media
             /\ stream.media # None => outcome.stream.volume = volume
             /\ outcome.stream.mode = stream.mode
  <2>1. outcome.stream = IF stream.media = None THEN stream
                         ELSE [stream EXCEPT !.volume = volume]
    BY <1>3, <1>9
  <2>2. stream.media = None => outcome.stream = stream
    BY <2>1
  <2>3. stream.media # None =>
          /\ outcome.stream.media = stream.media
          /\ outcome.stream.volume = volume
          /\ outcome.stream.mode = stream.mode
    BY <1>5, <2>1
  <2> QED
    BY <2>2, <2>3
<1>10. outcome \in ModeOutcomes(Paused(stream)) =>
         /\ outcome.stream.media = stream.media
         /\ outcome.stream.volume = stream.volume
         /\ outcome.stream.mode = "paused"
  BY <1>4, <1>8
<1>11. outcome \in ModeOutcomes(Resumed(stream)) =>
         /\ outcome.stream.media = stream.media
         /\ outcome.stream.volume = stream.volume
         /\ outcome.stream.mode = "playing"
  BY <1>4, <1>8
<1> QED
  BY <1>7, <1>9, <1>10, <1>11

LEMMA MatchInvStep ==
  IInv /\ DecidedInv /\ MatchInv /\ [Next]_vars => MatchInv'
<1> SUFFICES ASSUME IInv, DecidedInv, MatchInv, [Next]_vars, NeverShutDown'
             PROVE  MatchInv'
  BY DEF MatchInv
<1>0. /\ TypeOK /\ LockInv /\ DecisionInv /\ HandoverInv
      /\ plan \in RadioActionPlan /\ sinkState \in SimulatedRadioState /\ stream \in Stream
  BY DEF IInv, TypeInv, TypeOK, SafetyInv
<1>never. NeverShutDown
  <2>1. CASE BeginShutdown \/ ShutdownThread
    BY <1>0, <2>1 DEF BeginShutdown, ShutdownThread, ShutdownStop, ShutdownRestore,
                      NeverShutDown, TypeOK
  <2>2. CASE ~(BeginShutdown \/ ShutdownThread)
    BY <2>2 DEF Next, Frame, DecideFrame, GameThread, Submit, SubmitOutOfOrder,
           SubmitFailedClosed, SubmitSuppressionLost, SubmitUnchanged, SubmitAction, ReadBack,
           Execute, StartRefused, StartStation, MuteNotNeeded, MuteUnavailable, MuteRequested,
           PauseStream, ResumeStream, CallStreams, SetStreamVolume, StopStream,
           RestoreAfterStop, CatchException, FailClosedStop, FailClosedRestore,
           Environment, StreamDies, OriginalRadioChanges, NeverShutDown, shutdownVars, vars
  <2> QED
    BY <2>1, <2>2
<1>media. NoStream.media = None
  BY DEF NoStream
<1>fields. gamePc \in LockedPcs \cup {"thrown"} => ~OutOfOrder(plan.sequence, sinkState)
  BY <1>0 DEF DecisionInv
<1> USE DEF MatchInv, UnchangedIsAccurate, LockedPcs, sinkVars, fixedVars, shutdownVars
<1>1. CASE Frame
  <2> PICK snapshot : DecideFrame(snapshot)
    BY <1>1 DEF Frame
  <2> QED
    BY <1>never DEF DecideFrame, Matches
<1>2. CASE ReadBack
  BY <1>2, <1>never DEF ReadBack, Matches
<1>3. CASE Submit
  <2>0. gamePc = "submit" /\ Matches /\ Decided(plan, configuration, sinkState)
    BY <1>3, <1>never
    DEF Submit, SubmitOutOfOrder, SubmitFailedClosed, SubmitSuppressionLost, SubmitUnchanged,
        SubmitAction, Accepted, DecidedInv
  <2>1. CASE SubmitOutOfOrder
    BY <2>0, <2>1 DEF SubmitOutOfOrder, Matches, Decided
  <2>2. CASE SubmitFailedClosed
    <3>1. stream = NoStream /\ failedClosed' /\ stream' = stream
      BY <1>0, <2>2 DEF SubmitFailedClosed, HandoverInv
    <3>2. ~sinkState'.active
      BY <1>0, <2>2, StopPlanStops DEF SubmitFailedClosed
    <3> QED
      BY <1>media, <2>2, <3>1, <3>2 DEF SubmitFailedClosed, Matches
  <2>3. CASE SubmitSuppressionLost
    BY <2>3 DEF SubmitSuppressionLost
  <2>4. CASE SubmitUnchanged
    <3>1. /\ sinkState'.active = sinkState.active
          /\ sinkState.active =>
               /\ sinkState'.binding = sinkState.binding
               /\ sinkState'.volume = sinkState.volume
               /\ sinkState'.paused = sinkState.paused
      BY <1>0, <2>4, ApplyFields DEF SubmitUnchanged, Accepted
    <3> QED
      BY <2>0, <2>4, <3>1 DEF SubmitUnchanged, Matches, Decided
  <2>5. CASE SubmitAction
    BY <1>0, <2>0, <2>5, DispatchAction DEF SubmitAction, Matches
  <2> QED
    BY <1>3, <2>1, <2>2, <2>3, <2>4, <2>5 DEF Submit
<1>4. CASE StartRefused \/ MuteUnavailable \/ CatchException \/ StopStream \/ FailClosedStop
  BY <1>4 DEF StartRefused, MuteUnavailable, CatchException, StopStream, FailClosedStop,
              FailClosed
<1>5. CASE StartStation
  <2>1. PICK outcome \in StartOutcomes(plan.selected, plan.volume) :
          /\ stream' = outcome.stream
          /\ \/ outcome.result = "ok" /\ gamePc' = "mute"
             \/ FailClosed
             \/ Throw
    BY <1>5 DEF StartStation
  <2> QED
    BY <1>0, <1>5, <2>1, OutcomeStreams DEF StartStation, FailClosed, Throw
<1>6. CASE MuteNotNeeded \/ MuteRequested
  <2>1. /\ stream' = stream /\ plan' = plan /\ configuration' = configuration
        /\ gamePc = "mute"
        /\ (Complete \/ FailClosed)
    BY <1>6 DEF MuteNotNeeded, MuteRequested
  <2>2. CASE FailClosed
    BY <2>2 DEF FailClosed
  <2>3. CASE Complete
    <3>1. /\ sinkState'.active /\ ~sinkState'.paused
          /\ sinkState'.binding = plan.binding /\ sinkState'.volume = plan.volume
      BY <1>0, <1>fields, <2>1, <2>3, ApplyFields DEF Complete, DecisionInv
    <3>2. plan.selected # None
      <4>1. plan.selected \in Stations
        BY <1>0, <2>1 DEF IInv, TypeInv, ExecutableInv, Executable, DecisionInv
      <4>2. plan.selected \in Nat
        BY <4>1, RadioDecisionAssumption
      <4>3. plan.selected \in Int
        BY <4>2
      <4> QED
        BY <4>3, RadioDecisionAssumption
    <3> QED
      BY <1>never, <2>1, <2>3, <3>1, <3>2 DEF Complete, Matches, DecidedInv
  <2> QED
    BY <2>1, <2>2, <2>3
<1>7. ASSUME NEW pc, NEW changed, CallStreams(pc, ModeOutcomes(changed)), NEW mode,
             \/ pc = "pause" /\ changed = Paused(stream) /\ mode = "paused"
             \/ pc = "resume" /\ changed = Resumed(stream) /\ mode = "playing"
      PROVE  MatchInv'
  <2>1. /\ \/ pc = "pause" /\ changed = Paused(stream) /\ mode = "paused"
           \/ pc = "resume" /\ changed = Resumed(stream) /\ mode = "playing"
        /\ CallStreams(pc, ModeOutcomes(changed))
    BY <1>7
  <2>0. gamePc = pc
    BY <2>1 DEF CallStreams
  <2>2. PICK outcome \in ModeOutcomes(changed) :
          /\ stream' = outcome.stream
          /\ \/ outcome.result = "ok" /\ Complete
             \/ FailClosed
             \/ Throw
    BY <2>1 DEF CallStreams
  <2>3. CASE FailClosed \/ Throw
    BY <2>3 DEF FailClosed, Throw
  <2>4. CASE outcome.result = "ok" /\ Complete
    <3>1. stream'.media = stream.media /\ stream'.volume = stream.volume /\ stream'.mode = mode
      BY <1>0, <2>1, <2>2, <2>4, OutcomeStreams
    <3>2. /\ sinkState'.active /\ sinkState.active
          /\ sinkState'.binding = sinkState.binding /\ sinkState'.volume = sinkState.volume
          /\ sinkState'.paused = (mode = "paused")
      <4>1. ~OutOfOrder(plan.sequence, sinkState) /\ sinkState.active
        BY <1>fields, <2>0, <2>1 DEF DecidedInv
      <4> sinkState'.paused \in BOOLEAN
        BY <1>0, <2>4, ApplyRadioActionPlanType DEF Complete, SimulatedRadioState
      <4>2. CASE mode = "paused"
        <5>1. plan.action = "wouldPause"
          BY <1>0, <2>0, <2>1, <4>2 DEF DecisionInv
        <5> QED
          BY <1>0, <2>4, <4>1, <4>2, <5>1, ApplyFields DEF Complete, SimulatedRadioState
      <4>3. CASE mode = "playing"
        <5>1. plan.action = "wouldResume"
          BY <1>0, <2>0, <2>1, <4>3 DEF DecisionInv
        <5> QED
          BY <1>0, <2>4, <4>1, <4>3, <5>1, ApplyFields DEF Complete, SimulatedRadioState
      <4> QED
        BY <2>1, <4>2, <4>3
    <3>3. configuration' = configuration /\ plan' = plan
      BY <2>1 DEF CallStreams
    <3> QED
      BY <1>never, <2>0, <2>1, <2>4, <3>1, <3>2, <3>3 DEF Complete, Matches, DecidedInv
  <2> QED
    BY <2>2, <2>3, <2>4
<1>8. CASE SetStreamVolume
  <2>1. PICK outcome \in VolumeOutcomes(plan.volume) :
          /\ stream' = outcome.stream
          /\ \/ outcome.result = "ok" /\ Complete
             \/ FailClosed
             \/ Throw
    BY <1>8 DEF SetStreamVolume, CallStreams
  <2>2. CASE FailClosed \/ Throw
    BY <2>2 DEF FailClosed, Throw
  <2>3. CASE outcome.result = "ok" /\ Complete
    <3>1. Matches /\ stream.media # None
      BY <1>8, <1>never DEF SetStreamVolume, CallStreams, DecidedInv, Matches
    <3>2. /\ stream'.media = stream.media /\ stream'.volume = plan.volume
          /\ stream'.mode = stream.mode
      BY <1>0, <2>1, <2>3, <3>1, OutcomeStreams
    <3>3. /\ sinkState'.active /\ sinkState.active
          /\ sinkState'.binding = sinkState.binding /\ sinkState'.volume = plan.volume
          /\ sinkState'.paused = sinkState.paused
      BY <1>0, <1>8, <1>fields, <2>3, ApplyFields
      DEF SetStreamVolume, CallStreams, Complete, DecisionInv, DecidedInv
    <3>4. configuration' = configuration /\ plan' = plan /\ gamePc = "setVolume"
      BY <1>8 DEF SetStreamVolume, CallStreams
    <3> QED
      BY <2>3, <3>1, <3>2, <3>3, <3>4 DEF Complete, Matches, DecidedInv
  <2> QED
    BY <2>1, <2>2, <2>3
<1>9. CASE RestoreAfterStop
  <2>1. ~sinkState'.active
    <3>1. plan.action = "wouldStop" \/ (plan.action = "none" /\ ~sinkState.active)
      BY <1>0, <1>9 DEF RestoreAfterStop, DecisionInv
    <3> QED
      BY <1>0, <1>9, <1>fields, <3>1, ApplyFields DEF RestoreAfterStop, Complete
  <2>2. stream' = NoStream
    BY <1>0, <1>9 DEF RestoreAfterStop, HandoverInv
  <2> QED
    BY <1>9, <1>media, <2>1, <2>2 DEF RestoreAfterStop, Complete, Matches, DecidedInv
<1>10. CASE FailClosedRestore
  <2>1. ~sinkState'.active
    BY <1>0, <1>10, <1>fields, StopPlanStops DEF FailClosedRestore
  <2>2. stream' = NoStream /\ failedClosed'
    BY <1>0, <1>10 DEF FailClosedRestore, HandoverInv
  <2> QED
    BY <1>10, <1>media, <2>1, <2>2 DEF FailClosedRestore, Matches
<1>11. CASE BeginShutdown \/ ShutdownThread
  BY <1>0, <1>11, <1>never
  DEF BeginShutdown, ShutdownThread, ShutdownStop, ShutdownRestore, NeverShutDown, TypeOK
<1>12. CASE StreamDies
  <2>1. /\ stream'.media = stream.media
        /\ stream'.mode = stream.mode
        /\ stream'.volume = stream.volume
    BY <1>0, <1>12 DEF StreamDies, Stream
  <2> QED
    BY <1>12, <1>never, <2>1 DEF StreamDies, Matches
<1>13. CASE OriginalRadioChanges
  BY <1>13, <1>never DEF OriginalRadioChanges, Matches
<1>14. CASE UNCHANGED vars
  BY <1>14, <1>never DEF vars, Matches
<1>15. CASE PauseStream
  <2>1. CallStreams("pause", ModeOutcomes(Paused(stream)))
    BY <1>15 DEF PauseStream
  <2> QED
    BY <1>7, <2>1
<1>16. CASE ResumeStream
  <2>1. CallStreams("resume", ModeOutcomes(Resumed(stream)))
    BY <1>16 DEF ResumeStream
  <2> QED
    BY <1>7, <2>1
<1> QED
  BY <1>1, <1>2, <1>3, <1>4, <1>5, <1>6, <1>8, <1>9, <1>10, <1>11, <1>12, <1>13, <1>14,
     <1>15, <1>16
  DEF Next, GameThread, Execute, Environment

\* The inductive invariant of the stream and the state.
THEOREM StreamInvariant == Spec => []StreamInv
<1>1. StreamInv /\ IInv /\ [Next]_vars => StreamInv'
  BY DecidedInvStep, MatchInvStep DEF StreamInv
<1> QED
  BY <1>1, StreamInvInit, InductiveInvariant, PTL DEF Spec

\* An open stream has a volume, which is one that can be played.
OpenVolume == stream.media # None => stream.volume \in 0 .. FullVolume

LEMMA OpenVolumeStep ==
  ASSUME IInv, OpenVolume, [Next]_vars
  PROVE  OpenVolume'
<1>0. stream \in Stream /\ Executable(plan)
  BY DEF IInv, TypeInv, TypeOK, ExecutableInv
<1>1. NoStream.media = None
  BY DEF NoStream
<1>2. CASE StartStation
  <2>1. plan.volume \in 0 .. FullVolume
    <3>1. plan.action \in {"wouldStart", "wouldSwitch"}
      BY <1>2 DEF StartStation, IInv, TypeInv, ExecutableInv
    <3> QED
      BY <1>0, <3>1 DEF Executable
  <2>2. PICK outcome \in StartOutcomes(plan.selected, plan.volume) : stream' = outcome.stream
    BY <1>2 DEF StartStation
  <2>3. outcome.stream \in {Playing(plan.selected, plan.volume), NoStream, stream}
    BY DEF StartOutcomes, StartReplies, BufferReplies, OrRefused, Threw, Outcome
  <2>4. Playing(plan.selected, plan.volume).volume = plan.volume
    BY DEF Playing
  <2> QED
    BY <1>1, <2>1, <2>2, <2>3, <2>4 DEF OpenVolume
<1>3. CASE PauseStream \/ ResumeStream
  <2>1. PICK changed \in {Paused(stream), Resumed(stream)} :
          \E outcome \in ModeOutcomes(changed) : stream' = outcome.stream
    BY <1>3 DEF PauseStream, ResumeStream, CallStreams
  <2>2. stream' \in {stream, changed}
    BY <2>1 DEF ModeOutcomes, ModeReplies, OrRefused, Threw, Outcome
  <2>3. changed.media = stream.media /\ changed.volume = stream.volume
    BY <1>0 DEF Paused, Resumed, Stream
  <2> QED
    BY <2>2, <2>3 DEF OpenVolume
<1>4. CASE SetStreamVolume
  <2>1. plan.volume \in 0 .. FullVolume
    BY <1>0, <1>4 DEF SetStreamVolume, CallStreams, IInv, TypeInv, ExecutableInv, Executable
  <2>2. stream' \in {stream, WithVolume(stream, plan.volume)}
    BY <1>4 DEF SetStreamVolume, CallStreams, VolumeOutcomes, VolumeReplies, OrRefused, Threw,
                Outcome
  <2>3. CASE stream.media = None
    BY <2>2, <2>3 DEF WithVolume, OpenVolume
  <2>4. CASE stream.media # None
    <3>1. [stream EXCEPT !.volume = plan.volume].volume = plan.volume
      BY <1>0 DEF Stream
    <3> QED
      BY <2>1, <2>2, <2>4, <3>1 DEF WithVolume, OpenVolume
  <2> QED
    BY <2>3, <2>4
<1>5. CASE StopStream \/ FailClosedStop \/ ShutdownStop
  BY <1>1, <1>5 DEF StopStream, FailClosedStop, ShutdownStop, OpenVolume
<1>6. CASE StreamDies
  <2>1. stream'.media = stream.media /\ stream'.volume = stream.volume
    BY <1>0, <1>6 DEF StreamDies, Stream
  <2> QED
    BY <2>1 DEF OpenVolume
<1>7. CASE UNCHANGED stream
  BY <1>7 DEF OpenVolume
<1>8. CASE Frame \/ Submit \/ ReadBack \/ BeginShutdown
  BY <1>7, <1>8 DEF Frame, DecideFrame, ReadBack, BeginShutdown, Submit, SubmitOutOfOrder,
       SubmitFailedClosed, SubmitSuppressionLost, SubmitUnchanged, SubmitAction
<1>9. CASE \/ StartRefused \/ MuteNotNeeded \/ MuteUnavailable \/ MuteRequested
           \/ RestoreAfterStop \/ CatchException \/ FailClosedRestore \/ ShutdownRestore
           \/ OriginalRadioChanges
  BY <1>7, <1>9 DEF StartRefused, MuteNotNeeded, MuteUnavailable, MuteRequested,
       RestoreAfterStop, CatchException, FailClosedRestore, ShutdownRestore, OriginalRadioChanges
<1>10. CASE UNCHANGED vars
  BY <1>7, <1>10 DEF vars
<1> QED
  BY <1>2, <1>3, <1>4, <1>5, <1>6, <1>8, <1>9, <1>10
  DEF Next, GameThread, Execute, ShutdownThread, Environment

LEMMA OpenVolumeAlways == Spec => []OpenVolume
<1>1. Init => OpenVolume
  BY DEF Init, OpenVolume, NoStream
<1> QED
  BY <1>1, OpenVolumeStep, InductiveInvariant, PTL DEF Spec

\* Whatever fails, and whatever the frames ask for, the stream that is open is
\* the station, at the volume and in the mode that the simulated state records.
THEOREM StreamMatchesStateAlways == Spec => []StreamMatchesState
<1>1. StreamInv /\ OpenVolume => StreamMatchesState
  BY DEF StreamInv, MatchInv, Matches, StreamMatchesState, Quiet, OpenVolume
<1> QED
  BY <1>1, StreamInvariant, OpenVolumeAlways, PTL

\* The executor pauses only a playing stream, resumes only a paused one and sets
\* the volume of an open one.
THEOREM ActionsFitStreamAlways == Spec => []ActionsFitStream
<1>1. StreamInv => ActionsFitStream
  BY DEF StreamInv, DecidedInv, MatchInv, Matches, ActionsFitStream
<1> QED
  BY <1>1, StreamInvariant, PTL

\* A frame answered with "unchanged" finds its station playing within the
\* tolerance of the volume it asks for.
THEOREM UnchangedAlwaysAccurate == Spec => []UnchangedIsAccurate
<1>1. StreamInv => UnchangedIsAccurate
  BY DEF StreamInv, MatchInv, UnchangedIsAccurate
<1> QED
  BY <1>1, StreamInvariant, PTL

=============================================================================
