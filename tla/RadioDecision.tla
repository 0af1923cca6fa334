--------------------------- MODULE RadioDecision ---------------------------
(***************************************************************************)
(* The pure core of the plugin: RadioDecisionEngine::evaluate turns one    *)
(* GameStateSnapshot, the configuration and the simulated radio state into *)
(* a RadioActionPlan, and applyRadioActionPlan turns an executed plan into *)
(* the next simulated state.                                               *)
(*                                                                         *)
(* A std::optional is a value or None; an optional boolean is one of the   *)
(* strings of OptionalBoolean.  Station keys are naturals, in the order in *)
(* which std::map iterates over them.  Volumes and the multiplier are      *)
(* hundredths.                                                             *)
(***************************************************************************)
EXTENDS Integers

CONSTANTS
  Stations,    \* keys of the [Station.*] sections
  UnsafeKeys,  \* the keys that isPublicStationKeySafe refuses
  Identities,  \* normalized RadioStationIdentity values, "unknown" excepted
  None         \* an absent optional

ASSUME RadioDecisionAssumption ==
  /\ Stations \subseteq Nat
  /\ UnsafeKeys \subseteq Stations
  /\ None \notin Int
  /\ None \notin Identities

OptionalBoolean == {"absent", "no", "yes"}
FullVolume == 100
PreferenceVolumeTolerance == 1
RawRange == 0 .. 255

Actions == {"none", "wouldStart", "wouldPause", "wouldResume", "wouldSwitch",
            "wouldSetVolume", "wouldStop"}

BlockingReasons ==
  {"projectDisabled", "controllerDisabled", "observerUnavailable", "gameNotReady",
   "pauseStateUnavailable", "vehicleStateUnavailable", "playerOnFoot",
   "stationUnavailable", "stationRawInvalid", "stationProfileUnsupported",
   "stationIdentityUnknown", "stationIdentityNotBound", "stationNotBound", "stationDisabled",
   "stationUrlEmpty", "volumeUnavailable"}

Reasons == BlockingReasons \cup {"unchanged", "snapshotOutOfOrder", "paused", "ready"}

BindingKinds == {"none", "raw", "identity"}
PublicKeys == ({"key"} \X Stations) \cup ({"raw"} \X Int)

-----------------------------------------------------------------------------
(* Data.                                                                   *)

Snapshot ==
  [sequence : Nat,
   observerAvailable : BOOLEAN,
   gameReady : BOOLEAN,
   pauseMenuActive : OptionalBoolean,
   playerInVehicle : OptionalBoolean,
   radioStationRaw : Int \cup {None},
   radioVolume : Nat \cup {None}]

\* url and allowHttp matter to the executor only; here a url is empty or not.
StationConfiguration ==
  [enabled : BOOLEAN,
   url : {"empty", "invalid", "http", "https"},
   allowHttp : BOOLEAN,
   raw : Int \cup {None},
   identity : Identities \cup {None}]

\* ConfigurationData: [enabled, controllerEnabled, controllerDryRun,
\* volumeMultiplier, stations], and the reviewed station map of the executable
\* profile, profileMap, which is None where the registry has no valid one.
WellFormed(configuration) ==
  /\ configuration.volumeMultiplier \in Nat
  /\ DOMAIN configuration.stations \subseteq Stations
  /\ \A k \in DOMAIN configuration.stations :
       configuration.stations[k] \in StationConfiguration
  /\ \/ configuration.profileMap = None
     \/ \A raw \in DOMAIN configuration.profileMap :
          configuration.profileMap[raw] \in Identities

\* What identifies the selected station in a plan and in the simulated state.
Binding ==
  [kind : BindingKinds,
   raw : Int \cup {None},
   identity : Identities \cup {None},
   key : PublicKeys \cup {None}]

Unbound == [kind |-> "none", raw |-> None, identity |-> None, key |-> None]

RadioActionPlan ==
  [action : Actions,
   reason : Reasons,
   sequence : Nat,
   binding : Binding,
   volume : 0 .. FullVolume \cup {None},
   selected : Stations \cup {None},
   online : BOOLEAN]

SimulatedRadioState ==
  [active : BOOLEAN,
   paused : BOOLEAN,
   binding : Binding,
   volume : 0 .. FullVolume \cup {None},
   last : Nat]

InitialRadioState ==
  [active |-> FALSE, paused |-> FALSE, binding |-> Unbound, volume |-> None, last |-> 0]

-----------------------------------------------------------------------------
(* Which configured station a raw value selects.                           *)

First(keys) == CHOOSE k \in keys : \A other \in keys : k <= other

\* An enabled entry wins over a disabled one, then the order of the keys.
PreferEnabled(stations, candidates) ==
  LET enabled == {k \in candidates : stations[k].enabled}
  IN  IF enabled # {} THEN First(enabled)
      ELSE IF candidates # {} THEN First(candidates)
      ELSE None

FindRawStationBinding(stations, raw) ==
  PreferEnabled(stations, {k \in DOMAIN stations : stations[k].raw = raw})

FindIdentityStationBinding(stations, identity) ==
  PreferEnabled(stations, {k \in DOMAIN stations : stations[k].identity = identity})

Resolve(profileMap, raw) ==
  IF raw \notin RawRange THEN [status |-> "invalidRaw", identity |-> None]
  ELSE IF profileMap = None THEN [status |-> "unsupportedProfile", identity |-> None]
  ELSE IF raw \notin DOMAIN profileMap THEN [status |-> "unknownRaw", identity |-> None]
  ELSE [status |-> "resolved", identity |-> profileMap[raw]]

SanitizedStationKey(key, raw) ==
  IF key \in UnsafeKeys THEN <<"raw", raw>> ELSE <<"key", key>>

Unusable(reason, kind, identity) ==
  [reason |-> reason, kind |-> kind, identity |-> identity, station |-> None]

UsableBinding(stations, station, kind, identity) ==
  IF ~stations[station].enabled THEN Unusable("stationDisabled", kind, identity)
  ELSE IF stations[station].url = "empty" THEN Unusable("stationUrlEmpty", kind, identity)
  ELSE [reason |-> "ready", kind |-> kind, identity |-> identity, station |-> station]

IdentityBinding(configuration, identity) ==
  LET station == FindIdentityStationBinding(configuration.stations, identity)
  IN  IF station = None THEN Unusable("stationIdentityNotBound", "none", identity)
      ELSE UsableBinding(configuration.stations, station, "identity", identity)

\* GameStationRaw > GameStationIdentity: a raw binding decides, even disabled.
SelectStation(configuration, raw) ==
  LET rawStation == FindRawStationBinding(configuration.stations, raw)
      resolution == Resolve(configuration.profileMap, raw)
  IN  IF raw \notin RawRange THEN Unusable("stationRawInvalid", "none", None)
      ELSE IF rawStation # None
        THEN UsableBinding(configuration.stations, rawStation, "raw", None)
      ELSE IF resolution.status = "unsupportedProfile"
        THEN Unusable("stationProfileUnsupported", "none", None)
      ELSE IF resolution.status = "unknownRaw"
        THEN Unusable("stationIdentityUnknown", "none", None)
      ELSE IdentityBinding(configuration, resolution.identity)

-----------------------------------------------------------------------------
(* RadioDecisionEngine::evaluate                                           *)

\* The early returns that come before a station is looked up, in their order.
GateReason(snapshot, configuration) ==
  IF ~configuration.enabled THEN "projectDisabled"
  ELSE IF ~configuration.controllerEnabled \/ ~configuration.controllerDryRun
    THEN "controllerDisabled"
  ELSE IF ~snapshot.observerAvailable THEN "observerUnavailable"
  ELSE IF ~snapshot.gameReady THEN "gameNotReady"
  ELSE IF snapshot.pauseMenuActive = "absent" THEN "pauseStateUnavailable"
  ELSE IF snapshot.playerInVehicle = "absent" THEN "vehicleStateUnavailable"
  ELSE IF snapshot.playerInVehicle = "no" THEN "playerOnFoot"
  ELSE IF snapshot.radioStationRaw = None THEN "stationUnavailable"
  ELSE "ready"

InactivePlan(snapshot, previous, reason, binding) ==
  [action |-> IF previous.active THEN "wouldStop" ELSE "none",
   reason |-> reason,
   sequence |-> snapshot.sequence,
   binding |-> binding,
   volume |-> None,
   selected |-> None,
   online |-> FALSE]

OutOfOrderPlan(snapshot, previous) ==
  [action |-> "none", reason |-> "snapshotOutOfOrder", sequence |-> snapshot.sequence,
   binding |-> Unbound, volume |-> None, selected |-> None, online |-> previous.active]

OutOfOrder(sequence, state) == state.last # 0 /\ sequence <= state.last

PreferenceVolume(snapshot, configuration) ==
  LET scaled == (snapshot.radioVolume * configuration.volumeMultiplier) \div 100
  IN  IF scaled > FullVolume THEN FullVolume ELSE scaled

WithinTolerance(left, right) ==
  /\ left - right <= PreferenceVolumeTolerance
  /\ right - left <= PreferenceVolumeTolerance

ActiveAction(pauseMenu, previous, sameStation, volume) ==
  IF pauseMenu
    THEN IF previous.active /\ ~previous.paused /\ sameStation THEN "wouldPause" ELSE "none"
  ELSE IF ~previous.active THEN "wouldStart"
  ELSE IF ~sameStation THEN "wouldSwitch"
  ELSE IF previous.paused THEN "wouldResume"
  ELSE IF previous.volume = None \/ ~WithinTolerance(previous.volume, volume)
    THEN "wouldSetVolume"
  ELSE "none"

ActivePlan(snapshot, configuration, previous, choice) ==
  LET binding == [kind |-> choice.kind, raw |-> snapshot.radioStationRaw,
                  identity |-> choice.identity,
                  key |-> SanitizedStationKey(choice.station, snapshot.radioStationRaw)]
      volume == PreferenceVolume(snapshot, configuration)
      pauseMenu == snapshot.pauseMenuActive = "yes"
      action == ActiveAction(pauseMenu, previous,
                             previous.active /\ previous.binding = binding, volume)
  IN  [action |-> action,
       reason |-> IF pauseMenu THEN "paused"
                  ELSE IF action = "none" THEN "unchanged" ELSE "ready",
       sequence |-> snapshot.sequence,
       binding |-> binding,
       volume |-> volume,
       selected |-> choice.station,
       online |-> previous.active \/ (~pauseMenu /\ action # "none")]

Evaluate(snapshot, configuration, previous) ==
  LET gate == GateReason(snapshot, configuration)
      choice == SelectStation(configuration, snapshot.radioStationRaw)
      partial == [kind |-> choice.kind, raw |-> snapshot.radioStationRaw,
                  identity |-> choice.identity, key |-> None]
  IN  IF OutOfOrder(snapshot.sequence, previous) THEN OutOfOrderPlan(snapshot, previous)
      ELSE IF gate # "ready" THEN InactivePlan(snapshot, previous, gate, Unbound)
      ELSE IF choice.reason # "ready"
        THEN InactivePlan(snapshot, previous, choice.reason, partial)
      ELSE IF snapshot.radioVolume = None
        THEN InactivePlan(snapshot, previous, "volumeUnavailable", partial)
      ELSE ActivePlan(snapshot, configuration, previous, choice)

-----------------------------------------------------------------------------
(* applyRadioActionPlan                                                    *)

ClearSimulatedActivity(state) == [InitialRadioState EXCEPT !.last = state.last]

\* Mutant: a switch away from a paused station leaves it paused.
StillPaused(plan, state) ==
  IF plan.action \in {"wouldStart", "wouldSwitch"}
    THEN [state EXCEPT !.active = TRUE, !.binding = plan.binding, !.volume = plan.volume]
  ELSE IF plan.action = "wouldPause" /\ state.active THEN [state EXCEPT !.paused = TRUE]
  ELSE state

\* Mutant: a resume records the volume of its plan, which it has not set.
ResumedAtVolume(plan, state) ==
  IF plan.action \in {"wouldStart", "wouldSwitch"}
    THEN [state EXCEPT !.active = TRUE, !.paused = FALSE,
                       !.binding = plan.binding, !.volume = plan.volume]
  ELSE IF plan.action = "wouldPause" THEN [state EXCEPT !.paused = TRUE]
  ELSE IF plan.action = "wouldResume"
    THEN [state EXCEPT !.paused = FALSE, !.volume = plan.volume]
  ELSE state

Executed(plan, state) ==
  IF plan.action \in {"wouldStart", "wouldSwitch"}
    THEN [state EXCEPT !.active = TRUE, !.paused = FALSE,
                       !.binding = plan.binding, !.volume = plan.volume]
  ELSE IF plan.action = "wouldPause" /\ state.active THEN [state EXCEPT !.paused = TRUE]
  ELSE IF plan.action = "wouldResume" /\ state.active THEN [state EXCEPT !.paused = FALSE]
  ELSE IF plan.action = "wouldSetVolume" /\ state.active
    THEN [state EXCEPT !.volume = plan.volume]
  ELSE IF \/ plan.action = "wouldStop"
          \/ plan.action = "none" /\ ~state.active /\ plan.reason \in BlockingReasons
    THEN ClearSimulatedActivity(state)
  ELSE state

ApplyRadioActionPlan(plan, state) ==
  IF OutOfOrder(plan.sequence, state) THEN state
  ELSE Executed(plan, [state EXCEPT !.last = plan.sequence])

\* The plan the executor applies instead of one it could not carry out.
StopPlan(plan) == [plan EXCEPT !.action = "wouldStop", !.online = FALSE]

=============================================================================
