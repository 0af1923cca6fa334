-------------------------------- MODULE Plugin ------------------------------
(***************************************************************************)
(* The plugin in the game: the thread that starts it, and the game thread, *)
(* whose frames it observes from the moment the hook is in place, while    *)
(* the starting thread still writes the last lines of its report.          *)
(*                                                                         *)
(* What a frame is to a plugin that plays is GameplayRadio's, and what it  *)
(* is to the recorder ObservationRecorder's; here they only write lines.   *)
(***************************************************************************)
EXTENDS PluginStart, DryRunSession

CONSTANTS
  LogsInfo,     \* the log levels that occur let info lines through: a set of BOOLEAN
  ReportLines   \* bound: lines the starting thread writes after the install

VARIABLES
  logsInfo,     \* minimumLevel of the logger is info or lower
  reported      \* lines of the report written so far

vars == <<startVars, sessionVars, logsInfo, reported>>

Init ==
  /\ StartInit
  /\ SessionInit
  /\ logsInfo \in LogsInfo
  /\ reported = 0

Start == StartSteps /\ UNCHANGED <<sessionVars, logsInfo, reported>>

\* A line after the install, the last of which ends the thread.
Report ==
  /\ starter = "report"
  /\ reported < ReportLines
  /\ reported' = reported + 1
  /\ Write(1, logsInfo)
  /\ starter' = IF reported' = ReportLines THEN "ended" ELSE "report"
  /\ UNCHANGED <<fingerprintVars, build, settings, registry, match, integration, listener,
                 runtime, observer, frame, radio, decisions, transitions, logsInfo>>

\* captureFrame and, where there is one, the listener: the recorder, which may have
\* something to say, and the controller.
Captured(snapshot) ==
  /\ observer.status = "installed"
  /\ frame' = snapshot
  /\ IF observer.listening /\ listener.wired /\ listener.sink = "dryRun"
     THEN Simulate(snapshot, settings.logRadioDecisions)
     ELSE UNCHANGED <<radio, decisions>>
  /\ LogTransitions(snapshot, integration.log)
  /\ \E observed \in IF listener.recorder THEN {0, 1} ELSE {0} :
       Write(observed + FrameLines, logsInfo)
  /\ UNCHANGED <<startVars, logsInfo, reported>>

Frame == \E snapshot \in Frames : Captured(snapshot)

\* A frame in which nothing moved: the game runs on.
QuietFrame == frame # None /\ Captured(frame)

Clock ==
  /\ observer.status = "installed"
  /\ Tick
  /\ UNCHANGED <<startVars, logsInfo, reported>>

Next == Start \/ Report \/ Frame \/ QuietFrame \/ Clock

\* The game goes on, and so does the clock; the start may be given up at any point.
Spec == Init /\ [][Next]_vars /\ WF_vars(QuietFrame) /\ WF_vars(Clock)
=============================================================================
