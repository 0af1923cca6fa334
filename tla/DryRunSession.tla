---------------------------- MODULE DryRunSession ---------------------------
(***************************************************************************)
(* What the frames of an observed game do to the plugin while nothing is   *)
(* played: WindowsGameObserver::captureFrame hands each snapshot to the    *)
(* listener, where RadioController and DryRunRadioActionSink simulate the  *)
(* radio and log their decisions, and then logs its own transitions.  All  *)
(* of a frame runs on the game thread; only the log file is shared.        *)
(*                                                                         *)
(* One clock stands behind both logs.  The controller's copy of the state  *)
(* is the sink's after every frame, and is one variable here.              *)
(***************************************************************************)
EXTENDS DecisionLog, TransitionLog, Logger

CONSTANTS
  Frames,        \* the snapshots a frame may capture, whatever their sequence
  Configuration, \* the ConfigurationData of the controller
  LogSizes       \* what the log file may hold when the observer is installed

ASSUME DryRunSessionAssumption ==
  /\ \A s \in Frames : s \in Snapshot
  /\ WellFormed(Configuration)
  /\ LogSizes \subseteq Nat

VARIABLES
  frame,       \* the last snapshot; None before the first frame
  radio,       \* the simulated state
  decisions,   \* what the sink holds of its log
  transitions, \* what the tracker holds
  logFile      \* the bytes in the log file

sessionVars == <<frame, radio, decisions, transitions, logFile>>

SessionInit ==
  /\ frame = None
  /\ radio = InitialRadioState
  /\ decisions = NewLog
  /\ transitions = NewTracker
  /\ logFile \in LogSizes

\* captureFrame numbers the snapshots and the controller sees all of them: only their
\* distance matters, and the last one counts as the first.
Numbered(snapshot) == [snapshot EXCEPT !.sequence = radio.last + 1]
Renumbered(state) == [state EXCEPT !.last = IF @ = 0 THEN 0 ELSE 1]

\* RadioController::update over DryRunRadioActionSink::submit
Simulate(snapshot, logging) ==
  \E plan \in {Evaluate(Numbered(snapshot), Configuration, radio)} :
    /\ radio' = Renumbered(ApplyRadioActionPlan(plan, radio))
    /\ decisions' = IF logging THEN ConsiderLogging(decisions, plan) ELSE decisions

\* The rest of captureFrame.
LogTransitions(snapshot, logging) ==
  transitions' = IF logging THEN Track(transitions, snapshot) ELSE transitions

\* The lines of the frame reach the logger one after the other; a log level above info
\* drops them.
FrameLines == decisions'.count - decisions.count + transitions'.count - transitions.count

Write(lines, logging) == logFile' = IF logging THEN AfterLines(logFile, lines) ELSE logFile

\* The clock moves on; an age is followed up to its interval.
Tick ==
  /\ \/ decisions.age < MinimumLogInterval \/ decisions.quiet < MinimumLogInterval
     \/ transitions.age < MinimumTransitionInterval
  /\ decisions' = [decisions EXCEPT
       !.age = IF @ < MinimumLogInterval THEN @ + 1 ELSE @,
       !.quiet = IF @ < MinimumLogInterval THEN @ + 1 ELSE @]
  /\ transitions' = [transitions EXCEPT
       !.age = IF @ < MinimumTransitionInterval THEN @ + 1 ELSE @]
  /\ UNCHANGED <<frame, radio, logFile>>

-----------------------------------------------------------------------------

\* docs/RADIO_CONTROLLER_DRY_RUN.md:69-70 and docs/ARCHITECTURE.md:187-188: a decision is
\* logged once, not again right after itself, and no sooner than the interval after the
\* last one, a message that had to wait included; and no thread takes the file further
\* past its limit than the line that reached it.
LogsAsDocumented ==
  [][/\ decisions'.count > decisions.count =>
          /\ decisions'.count = decisions.count + 1
          /\ decisions'.count <= MaximumDecisionLogMessages
          /\ decisions'.last # decisions.last
          /\ decisions.last # None => decisions.quiet >= MinimumLogInterval
     /\ logFile' > logFile => logFile' <= MaximumLogBytes + PrefixBytes]_sessionVars

\* No decision is put aside, and what was said last of every field is so; or the budget
\* is used up.
CaughtUp ==
  /\ decisions.pending = None \/ decisions.count = MaximumDecisionLogMessages
  /\ \/ transitions.last = None
     \/ transitions.count = MaximumTransitionMessages
     \/ \A f \in FieldSet : transitions.said[f] = Text(frame, f)

\* When the game settles, both logs catch up with it and stay so, though the last change
\* fell into an interval.
LogsCatchUp == <>[][frame' = frame]_frame => <>[]CaughtUp

=============================================================================
