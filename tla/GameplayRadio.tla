--------------------------- MODULE GameplayRadio ---------------------------
(***************************************************************************)
(* RadioController composed with GameplayRadioActionSink, a StreamManager  *)
(* and an OriginalRadioController.                                         *)
(*                                                                         *)
(* Two threads: the game thread, which runs one RadioController::update    *)
(* per observed frame, and a thread that calls the sink's shutdown (its    *)
(* destructor is the last such call).  Every call a thread makes on the    *)
(* stream manager or on the original-radio controller is a step of its     *)
(* own, so that the other thread and the environment move between them     *)
(* wherever the sink's mutex lets them.                                    *)
(***************************************************************************)
EXTENDS RadioDecision

CONSTANTS
  Configurations,  \* the configurations the controller may be built with
  Snapshots,       \* the snapshots, whatever their sequence, a frame may capture
  MaxSequence,     \* bound on snapshot sequence numbers
  MaxShutdowns     \* bound on the calls of shutdown, the destructor's included

ASSUME GameplayAssumption ==
  /\ \A c \in Configurations : WellFormed(c)
  /\ \A s \in Snapshots : s \in Snapshot
  /\ MaxSequence \in Nat
  /\ MaxShutdowns \in Nat

VARIABLES
  configuration,         \* RadioController::configuration_
  suppressOriginalRadio, \* GameplayRadioActionSink::suppressOriginalRadio_
  controllerState,       \* RadioController::state_
  plan,                  \* the plan of the frame being processed
  sinkState,             \* GameplayRadioActionSink::state_
  failedClosed,          \* GameplayRadioActionSink::failedClosed_
  muteAttempted,         \* GameplayRadioActionSink::originalRadioMuteAttempted_
  radioMuted,            \* GameplayRadioActionSink::originalRadioMuted_
  mutex,                 \* owner of GameplayRadioActionSink::mutex_
  gamePc,                \* where the game thread is
  shutdownPc,            \* where the thread in shutdown() is
  shutdowns,             \* completed calls of shutdown()
  stream,                \* what the StreamManager has open
  original,              \* the OriginalRadioController: [available, muted]
  restoreFailed          \* the last attempt to restore the original radio failed

sinkVars == <<sinkState, failedClosed, muteAttempted, radioMuted>>
fixedVars == <<configuration, suppressOriginalRadio>>
shutdownVars == <<shutdownPc, shutdowns>>
vars == <<configuration, suppressOriginalRadio, controllerState, plan, sinkState,
          failedClosed, muteAttempted, radioMuted, mutex, gamePc, shutdownPc, shutdowns,
          stream, original, restoreFailed>>

GamePcs == {"idle", "submit", "start", "mute", "pause", "resume", "setVolume",
            "stop", "restore", "thrown", "failStop", "failRestore", "readback"}
ShutdownPcs == {"out", "stop", "restore"}

-----------------------------------------------------------------------------
(* The stream manager, as its callers see it: the stream of StreamReplies, *)
(* whose media is the station that was asked for.                          *)

INSTANCE StreamReplies

Stream == [media : Stations \cup {None}, mode : {"stopped", "playing", "paused"},
           volume : 0 .. FullVolume \cup {None}, alive : BOOLEAN]

(***************************************************************************)
(* What the calls of a step may leave behind: what StreamContract answers, *)
(* or an exception, after which any part of the work may have been done.   *)
(***************************************************************************)
Threw(streams) == {Outcome("threw", s) : s \in streams}

\* setBufferMilliseconds, which may refuse, and startConfiguredUrl.
StartOutcomes(station, volume) ==
  StartReplies(station, volume)
    \cup {outcome \in BufferReplies(stream) : outcome.result = "failed"}
    \cup Threw({stream, NoStream, Playing(station, volume)})

ModeOutcomes(changed) == ModeReplies(stream, changed) \cup Threw({stream, changed})

VolumeOutcomes(volume) ==
  VolumeReplies(stream, volume) \cup Threw({stream, WithVolume(stream, volume)})

-----------------------------------------------------------------------------

TypeOK ==
  /\ configuration \in Configurations
  /\ suppressOriginalRadio \in BOOLEAN
  /\ controllerState \in SimulatedRadioState
  /\ plan \in RadioActionPlan
  /\ sinkState \in SimulatedRadioState
  /\ failedClosed \in BOOLEAN
  /\ muteAttempted \in BOOLEAN
  /\ radioMuted \in BOOLEAN
  /\ mutex \in {"free", "game", "shutdown"}
  /\ gamePc \in GamePcs
  /\ shutdownPc \in ShutdownPcs
  /\ shutdowns \in 0 .. MaxShutdowns
  /\ stream \in Stream
  /\ original \in [available : BOOLEAN, muted : BOOLEAN]
  /\ restoreFailed \in BOOLEAN

\* The policy enables suppression only over a controller that is available.
Init ==
  /\ configuration \in Configurations
  /\ suppressOriginalRadio \in BOOLEAN
  /\ controllerState = InitialRadioState
  /\ plan = [action |-> "none", reason |-> "unchanged", sequence |-> 0, binding |-> Unbound,
             volume |-> None, selected |-> None, online |-> FALSE]
  /\ sinkState = InitialRadioState
  /\ failedClosed = FALSE
  /\ muteAttempted = FALSE
  /\ radioMuted = FALSE
  /\ mutex = "free"
  /\ gamePc = "idle"
  /\ shutdownPc = "out"
  /\ shutdowns = 0
  /\ stream = NoStream
  /\ original = [available |-> suppressOriginalRadio, muted |-> FALSE]
  /\ restoreFailed = FALSE

-----------------------------------------------------------------------------
(* The game thread: RadioController::update                                *)

\* A frame arrives and the engine decides, before the sink is locked.
DecideFrame(snapshot) ==
  /\ gamePc = "idle"
  /\ plan' = Evaluate(snapshot, configuration, controllerState)
  /\ gamePc' = "submit"
  /\ UNCHANGED <<fixedVars, controllerState, sinkVars, mutex, shutdownVars, stream, original,
                 restoreFailed>>

\* Mutant: the controller trusts its plan instead of asking the sink.
ReadBackPlan ==
  /\ gamePc = "readback"
  /\ controllerState' = ApplyRadioActionPlan(plan, controllerState)
  /\ gamePc' = "idle"
  /\ UNCHANGED <<fixedVars, plan, sinkVars, mutex, shutdownVars, stream, original,
                 restoreFailed>>

\* state_ = sink_.simulatedState()
ReadBack ==
  /\ gamePc = "readback"
  /\ mutex = "free"
  /\ controllerState' = sinkState
  /\ gamePc' = "idle"
  /\ UNCHANGED <<fixedVars, plan, sinkVars, mutex, shutdownVars, stream, original,
                 restoreFailed>>

-----------------------------------------------------------------------------
(* The game thread: GameplayRadioActionSink::submit                        *)

SuppressionLost == radioMuted /\ ~(original.available /\ original.muted)

\* What submit does with a plan once no early return has been taken.
Dispatch ==
  CASE plan.action \in {"wouldStart", "wouldSwitch"} -> "start"
    [] plan.action = "wouldPause" -> "pause"
    [] plan.action = "wouldResume" -> "resume"
    [] plan.action = "wouldSetVolume" -> "setVolume"
    [] plan.action = "wouldStop" \/ (plan.action = "none" /\ ~plan.online) -> "stop"

\* The plan is older than the last one applied: nothing happens.
SubmitOutOfOrder ==
  /\ gamePc = "submit"
  /\ mutex = "free"
  /\ OutOfOrder(plan.sequence, sinkState)
  /\ gamePc' = "readback"
  /\ UNCHANGED <<fixedVars, controllerState, plan, sinkVars, mutex, shutdownVars, stream,
                 original, restoreFailed>>

\* The sink has failed before: the plan is recorded as a stop, nothing is called.
SubmitFailedClosed ==
  /\ gamePc = "submit"
  /\ mutex = "free"
  /\ ~OutOfOrder(plan.sequence, sinkState)
  /\ failedClosed
  /\ sinkState' = ApplyRadioActionPlan(StopPlan(plan), sinkState)
  /\ gamePc' = "readback"
  /\ UNCHANGED <<fixedVars, controllerState, plan, failedClosed, muteAttempted, radioMuted,
                 mutex, shutdownVars, stream, original, restoreFailed>>

Accepted ==
  /\ gamePc = "submit"
  /\ mutex = "free"
  /\ ~OutOfOrder(plan.sequence, sinkState)
  /\ ~failedClosed

\* The original radio is no longer under control: fail closed.
SubmitSuppressionLost ==
  /\ Accepted
  /\ SuppressionLost
  /\ mutex' = "game"
  /\ gamePc' = "failStop"
  /\ UNCHANGED <<fixedVars, controllerState, plan, sinkVars, shutdownVars, stream, original,
                 restoreFailed>>

\* Nothing to execute: online audio goes on as it is.
SubmitUnchanged ==
  /\ Accepted
  /\ ~SuppressionLost
  /\ plan.action = "none"
  /\ plan.online
  /\ sinkState' = ApplyRadioActionPlan(plan, sinkState)
  /\ gamePc' = "readback"
  /\ UNCHANGED <<fixedVars, controllerState, plan, failedClosed, muteAttempted, radioMuted,
                 mutex, shutdownVars, stream, original, restoreFailed>>

SubmitAction ==
  /\ Accepted
  /\ ~SuppressionLost
  /\ ~(plan.action = "none" /\ plan.online)
  /\ mutex' = "game"
  /\ gamePc' = Dispatch
  /\ UNCHANGED <<fixedVars, controllerState, plan, sinkVars, shutdownVars, stream, original,
                 restoreFailed>>

\* The plan has been carried out: apply it, unlock, return.
Complete ==
  /\ sinkState' = ApplyRadioActionPlan(plan, sinkState)
  /\ mutex' = "free"
  /\ gamePc' = "readback"

\* An exception leaves the locked scope, which releases the mutex.
Throw ==
  /\ mutex' = "free"
  /\ gamePc' = "thrown"
  /\ UNCHANGED sinkState

FailClosed ==
  /\ gamePc' = "failStop"
  /\ UNCHANGED <<sinkState, mutex>>

SelectedUrlAllowed ==
  LET station == configuration.stations[plan.selected]
  IN  station.url = "https" \/ (station.url = "http" /\ station.allowHttp)

\* startSelectedStation refuses the station before it touches the streams.
StartRefused ==
  /\ gamePc = "start"
  /\ ~SelectedUrlAllowed
  /\ FailClosed
  /\ UNCHANGED <<fixedVars, controllerState, plan, failedClosed, muteAttempted, radioMuted,
                 shutdownVars, stream, original, restoreFailed>>

\* startSelectedStation opens and plays the station; the mute comes after it.
StartStation ==
  /\ gamePc = "start"
  /\ SelectedUrlAllowed
  /\ \E outcome \in StartOutcomes(plan.selected, plan.volume) :
       /\ stream' = outcome.stream
       /\ \/ /\ outcome.result = "ok"
             /\ gamePc' = "mute"
             /\ UNCHANGED <<sinkState, mutex>>
          \/ outcome.result = "failed" /\ FailClosed
          \/ outcome.result = "threw" /\ Throw
  /\ UNCHANGED <<fixedVars, controllerState, plan, failedClosed, muteAttempted, radioMuted,
                 shutdownVars, original, restoreFailed>>

\* muteOriginalRadio, when it has no mute to request.
MuteNotNeeded ==
  /\ gamePc = "mute"
  /\ \/ ~suppressOriginalRadio
     \/ radioMuted /\ original.available /\ original.muted
  /\ Complete
  /\ UNCHANGED <<fixedVars, controllerState, plan, failedClosed, muteAttempted, radioMuted,
                 shutdownVars, stream, original, restoreFailed>>

\* muteOriginalRadio, when suppression is no longer possible.
MuteUnavailable ==
  /\ gamePc = "mute"
  /\ suppressOriginalRadio
  /\ ~original.available \/ (radioMuted /\ ~original.muted)
  /\ FailClosed
  /\ UNCHANGED <<fixedVars, controllerState, plan, failedClosed, muteAttempted, radioMuted,
                 shutdownVars, stream, original, restoreFailed>>

\* Mutant: the result of the request is ignored.
MuteUnchecked ==
  /\ gamePc = "mute"
  /\ suppressOriginalRadio
  /\ original.available
  /\ ~radioMuted
  /\ muteAttempted' = TRUE
  /\ \E accepted, muted \in BOOLEAN :
       /\ original' = [original EXCEPT !.muted = muted]
       /\ radioMuted' = (accepted /\ muted)
  /\ Complete
  /\ UNCHANGED <<fixedVars, controllerState, plan, failedClosed, shutdownVars, stream,
                 restoreFailed>>

\* muteOriginalRadio asks for the mute; a refused one may have taken effect.
MuteRequested ==
  /\ gamePc = "mute"
  /\ suppressOriginalRadio
  /\ original.available
  /\ ~radioMuted
  /\ muteAttempted' = TRUE
  /\ \E accepted, muted \in BOOLEAN :
       /\ original' = [original EXCEPT !.muted = muted]
       /\ radioMuted' = (accepted /\ muted)
       /\ IF accepted /\ muted THEN Complete ELSE FailClosed
  /\ UNCHANGED <<fixedVars, controllerState, plan, failedClosed, shutdownVars, stream,
                 restoreFailed>>

\* A call that leaves the plan carried out, the sink failed or an exception.
CallStreams(pc, outcomes) ==
  /\ gamePc = pc
  /\ \E outcome \in outcomes :
       /\ stream' = outcome.stream
       /\ \/ outcome.result = "ok" /\ Complete
          \/ outcome.result = "failed" /\ FailClosed
          \/ outcome.result = "threw" /\ Throw
  /\ UNCHANGED <<fixedVars, controllerState, plan, failedClosed, muteAttempted, radioMuted,
                 shutdownVars, original, restoreFailed>>

PauseStream == CallStreams("pause", ModeOutcomes(Paused(stream)))
ResumeStream == CallStreams("resume", ModeOutcomes(Resumed(stream)))
SetStreamVolume == CallStreams("setVolume", VolumeOutcomes(plan.volume))

\* Mutant: a stop that forgets the original radio.
StopStreamOnly ==
  /\ gamePc = "stop"
  /\ stream' = NoStream
  /\ Complete
  /\ UNCHANGED <<fixedVars, controllerState, plan, failedClosed, muteAttempted, radioMuted,
                 shutdownVars, original, restoreFailed>>

StopStream ==
  /\ gamePc = "stop"
  /\ stream' = NoStream
  /\ gamePc' = "restore"
  /\ UNCHANGED <<fixedVars, controllerState, plan, sinkVars, mutex, shutdownVars, original,
                 restoreFailed>>

-----------------------------------------------------------------------------
(* restoreOriginalRadio, called by submit, failClosed and shutdown         *)

RestoreRequired ==
  suppressOriginalRadio /\ (muteAttempted \/ radioMuted \/ original.muted)

\* Without a need to restore the call succeeds at once.  restore() may report
\* success or failure, and a reported success counts only with the mute gone.
RestoreOriginalRadio(restored) ==
  \/ /\ ~RestoreRequired
     /\ restored
     /\ restoreFailed' = FALSE
     /\ UNCHANGED <<muteAttempted, radioMuted, original>>
  \/ /\ RestoreRequired
     /\ restored
     /\ original' = [original EXCEPT !.muted = FALSE]
     /\ muteAttempted' = FALSE
     /\ radioMuted' = FALSE
     /\ restoreFailed' = FALSE
  \/ /\ RestoreRequired
     /\ ~restored
     /\ \E muted \in {FALSE, original.muted} : original' = [original EXCEPT !.muted = muted]
     /\ restoreFailed' = TRUE
     /\ UNCHANGED <<muteAttempted, radioMuted>>

\* The end of a stop: the plan is applied even when the restore has failed.
RestoreAfterStop ==
  /\ gamePc = "restore"
  /\ \E restored \in BOOLEAN :
       /\ RestoreOriginalRadio(restored)
       /\ failedClosed' = ~restored
  /\ Complete
  /\ UNCHANGED <<fixedVars, controllerState, plan, shutdownVars, stream>>

\* The catch block locks the mutex again.
CatchException ==
  /\ gamePc = "thrown"
  /\ mutex = "free"
  /\ mutex' = "game"
  /\ gamePc' = "failStop"
  /\ UNCHANGED <<fixedVars, controllerState, plan, sinkVars, shutdownVars, stream, original,
                 restoreFailed>>

\* Mutant: failClosed silences the stream instead of stopping it.
FailClosedPause ==
  /\ gamePc = "failStop"
  /\ stream' = [stream EXCEPT !.mode = "paused"]
  /\ gamePc' = "failRestore"
  /\ UNCHANGED <<fixedVars, controllerState, plan, sinkVars, mutex, shutdownVars, original,
                 restoreFailed>>

\* failClosed: stop the stream, restore, latch, record a stop.
FailClosedStop ==
  /\ gamePc = "failStop"
  /\ stream' = NoStream
  /\ gamePc' = "failRestore"
  /\ UNCHANGED <<fixedVars, controllerState, plan, sinkVars, mutex, shutdownVars, original,
                 restoreFailed>>

\* Mutant: failClosed does not give up before the restore has succeeded.
FailClosedRetry ==
  /\ gamePc = "failRestore"
  /\ failedClosed' = TRUE
  /\ \E restored \in BOOLEAN :
       /\ RestoreOriginalRadio(restored)
       /\ IF restored
            THEN /\ sinkState' = ApplyRadioActionPlan(StopPlan(plan), sinkState)
                 /\ mutex' = "free"
                 /\ gamePc' = "readback"
            ELSE gamePc' = "failStop" /\ UNCHANGED <<sinkState, mutex>>
  /\ UNCHANGED <<fixedVars, controllerState, plan, shutdownVars, stream>>

FailClosedRestore ==
  /\ gamePc = "failRestore"
  /\ \E restored \in BOOLEAN : RestoreOriginalRadio(restored)
  /\ failedClosed' = TRUE
  /\ sinkState' = ApplyRadioActionPlan(StopPlan(plan), sinkState)
  /\ mutex' = "free"
  /\ gamePc' = "readback"
  /\ UNCHANGED <<fixedVars, controllerState, plan, shutdownVars, stream>>

-----------------------------------------------------------------------------
(* GameplayRadioActionSink::shutdown                                       *)

BeginShutdown ==
  /\ shutdownPc = "out"
  /\ shutdowns < MaxShutdowns
  /\ mutex = "free"
  /\ mutex' = "shutdown"
  /\ shutdownPc' = "stop"
  /\ UNCHANGED <<fixedVars, controllerState, plan, sinkVars, gamePc, shutdowns, stream,
                 original, restoreFailed>>

ShutdownStop ==
  /\ shutdownPc = "stop"
  /\ stream' = NoStream
  /\ shutdownPc' = "restore"
  /\ UNCHANGED <<fixedVars, controllerState, plan, sinkVars, mutex, gamePc, shutdowns,
                 original, restoreFailed>>

ShutdownRestore ==
  /\ shutdownPc = "restore"
  /\ \E restored \in BOOLEAN : RestoreOriginalRadio(restored)
  /\ mutex' = "free"
  /\ shutdownPc' = "out"
  /\ shutdowns' = shutdowns + 1
  /\ UNCHANGED <<fixedVars, controllerState, plan, sinkState, failedClosed, gamePc, stream>>

-----------------------------------------------------------------------------
(* The environment                                                         *)

\* A stream ends or fails in the native player.
StreamDies ==
  /\ stream.alive
  /\ stream' = [stream EXCEPT !.alive = FALSE]
  /\ UNCHANGED <<fixedVars, controllerState, plan, sinkVars, mutex, gamePc, shutdownVars,
                 original, restoreFailed>>

\* The suppression mechanism appears or disappears; the game undoes the mute.
OriginalRadioChanges ==
  /\ suppressOriginalRadio
  /\ \/ original' = [original EXCEPT !.available = ~original.available]
     \/ original.muted /\ original' = [original EXCEPT !.muted = FALSE]
  /\ UNCHANGED <<fixedVars, controllerState, plan, sinkVars, mutex, gamePc, shutdownVars,
                 stream, restoreFailed>>

Frame ==
  \E snapshot \in Snapshots, sequence \in 0 .. MaxSequence :
    DecideFrame([snapshot EXCEPT !.sequence = sequence])

Submit ==
  \/ SubmitOutOfOrder \/ SubmitFailedClosed \/ SubmitSuppressionLost
  \/ SubmitUnchanged \/ SubmitAction

Execute ==
  \/ StartRefused \/ StartStation
  \/ MuteNotNeeded \/ MuteUnavailable \/ MuteRequested
  \/ PauseStream \/ ResumeStream \/ SetStreamVolume
  \/ StopStream \/ RestoreAfterStop
  \/ CatchException \/ FailClosedStop \/ FailClosedRestore

GameThread == Submit \/ Execute \/ ReadBack

ShutdownThread == ShutdownStop \/ ShutdownRestore

Environment == StreamDies \/ OriginalRadioChanges

Next == Frame \/ GameThread \/ BeginShutdown \/ ShutdownThread \/ Environment

\* A thread that has entered the sink keeps running; frames, shutdown calls
\* and the environment owe nothing.
Fairness == WF_vars(GameThread) /\ WF_vars(ShutdownThread)

Spec == Init /\ [][Next]_vars

FairSpec == Spec /\ Fairness

-----------------------------------------------------------------------------
(* Properties                                                              *)

NeverShutDown == shutdowns = 0 /\ shutdownPc = "out"

\* No thread is between two steps of the sink.
Quiet == mutex = "free" /\ gamePc \in {"idle", "submit", "readback"}

\* The controller decides on its own copy of the state, taken after the last
\* frame and without the sink's mutex; nothing may have made it stale by the
\* time the plan is submitted.
ControllerMirrorsSink ==
  gamePc \in {"idle", "submit"} => controllerState = sinkState

\* The simulated state, on which every decision rests, and the stream manager
\* never part: a stream is open exactly when the state is active, it is the
\* one the recorded raw value selects, at the recorded volume, which is one that
\* can be played, paused or not as recorded.  (Explicit shutdown stops the stream behind the state.)
StreamMatchesState ==
  Quiet /\ NeverShutDown =>
    /\ sinkState.active <=> stream.media # None
    /\ sinkState.active =>
         /\ stream.media = SelectStation(configuration, sinkState.binding.raw).station
         /\ stream.volume = sinkState.volume /\ stream.volume \in 0 .. FullVolume
         /\ stream.mode = IF sinkState.paused THEN "paused" ELSE "playing"

\* The engine asks the stream manager only for what its stream can do: a pause
\* of a playing stream, a resume of a paused one, a new volume for an open one.
ActionsFitStream ==
  NeverShutDown =>
    /\ gamePc = "pause" => stream.mode = "playing"
    /\ gamePc = "resume" => stream.mode = "paused"
    /\ gamePc = "setVolume" => stream.mode = "playing"

\* When a frame is answered with "unchanged", the station it asks for is being
\* played within the tolerance of the volume it asks for: small changes of the
\* preference, or one made while paused, never add up.
UnchangedIsAccurate ==
  (gamePc = "readback" /\ plan.reason = "unchanged" /\ ~failedClosed /\ NeverShutDown) =>
    /\ stream.media = plan.selected
    /\ stream.mode = "playing"
    /\ WithinTolerance(stream.volume, plan.volume)

\* Every mute is remembered until it has been undone, whichever failure, exception
\* or shutdown comes between: the debt is recorded before the request.
MuteIsOwed == original.muted \/ radioMuted => muteAttempted

\* The original radio is silent only under an open stream: with no stream, it
\* is audible, or its controller has refused to give it back.  Meanwhile the sink
\* knows that it owes it.
MutedOnlyUnderStream ==
  /\ MuteIsOwed
  /\ Quiet /\ original.muted => stream.media # None \/ restoreFailed

\* Online audio is never reported active over an original radio that suppression
\* has not muted.
ActiveMeansSuppressed ==
  (Quiet /\ NeverShutDown /\ suppressOriginalRadio /\ sinkState.active) => radioMuted

\* Failing closed is for good: no stream is open, and the simulated state agrees.
FailedClosedIsSilent ==
  failedClosed => stream = NoStream /\ (Quiet => ~sinkState.active)

\* A plan changes the simulated state at most once, and only a newer one does.
AppliedInOrder ==
  [][sinkState' # sinkState => sinkState.last = 0 \/ sinkState'.last > sinkState.last]_vars

\* The executor implements the promise of AudioHandover.
Handover == INSTANCE AudioHandover
              WITH online <- stream.media, owed <- muteAttempted, latched <- failedClosed

HandoverSpec == Handover!Spec

\* A call of update() returns and gives the mutex back, and so does one of shutdown():
\* no early return, failure or exception leaves the sink locked, and neither thread
\* holds the other up for ever.  An exception is not lost on the way: it ends in the
\* latched failure.
CallsReturn ==
  /\ gamePc # "idle" ~> gamePc = "idle"
  /\ shutdownPc # "out" ~> shutdownPc = "out"
  /\ gamePc = "thrown" ~> failedClosed

=============================================================================
