----------------------------- MODULE StreamProbe -----------------------------
(***************************************************************************)
(* saors_stream_probe: a main thread that drives a StreamManager through a *)
(* timed playback test, the console's handler thread that asks it to stop, *)
(* and the clock, which passes the main thread's deadlines in any order.   *)
(***************************************************************************)
EXTENDS StreamManager

CONSTANTS
  CompletionChecks \* how often a close event looks for the end of the cleanup

ASSUME ProbeAssumption == CompletionChecks \in Nat

VARIABLES
  options,       \* the parsed command line
  pc,            \* where the main thread is
  waitingFor,    \* what waitForPlayback was called after
  clock,         \* the deadlines that have passed
  elapsed,       \* those that had passed at the top of the playback loop
  done,          \* pauseDone and reconnectDone: the tests already carried out
  exitCode,      \* the result of runProbe, or None
  stopRequested,
  completed,     \* stopHandlingCompleted
  closeChecks,   \* checks made by the handler of a close event, or None
  sawStop,       \* history: the program has read stopRequested as true
  confirmed      \* history: "playing" was observed since the last (re)start

streamVars == <<manager, device, call, reply>>
handlerVars == <<stopRequested, closeChecks>>
probeVars == <<options, pc, waitingFor, clock, elapsed, done, exitCode, stopRequested,
               completed, closeChecks, sawStop, confirmed>>
allVars == <<manager, device, call, reply, options, pc, waitingFor, clock, elapsed, done, exitCode,
             stopRequested, completed, closeChecks, sawStop, confirmed>>

Deadlines == {"wait", "duration", "pause", "reconnect"}

Options == [url : Urls, volume : Volumes \cap 0 .. FullVolume, buffer : {"fits", "tooLarge"},
            resolvePlaylists : BOOLEAN, resolveOnly : BOOLEAN, logReady : BOOLEAN,
            tests : SUBSET {"pause", "reconnect"}]

Pcs == {"begin", "resolveOnly", "buffer", "open", "failed", "wait", "loop", "pause",
        "paused", "sleep", "resume", "reconnect", "poll", "end", "stop", "interrupted",
        "leaving", "returned", "exited"}

ProbeTypeOK ==
  /\ TypeOK
  /\ options \in Options
  /\ pc \in Pcs
  /\ waitingFor \in {"open", "resume", "reconnect"}
  /\ clock \subseteq Deadlines
  /\ elapsed \subseteq Deadlines
  /\ done \subseteq {"pause", "reconnect"}
  /\ exitCode \in {None, 0, 2, 3, 130}
  /\ stopRequested \in BOOLEAN
  /\ completed \in BOOLEAN
  /\ closeChecks \in {None} \cup 0 .. CompletionChecks
  /\ sawStop \in BOOLEAN
  /\ confirmed \in BOOLEAN

\* --resolve-only turns resolution on; a build without WinHTTP has no resolver.
ProbeInit ==
  /\ Init
  /\ options \in {o \in Options : o.resolveOnly => o.resolvePlaylists}
  /\ pc = "begin"
  /\ waitingFor = "open"
  /\ clock = {}
  /\ elapsed = {}
  /\ done = {}
  /\ exitCode = None
  /\ stopRequested = FALSE
  /\ completed = FALSE
  /\ closeChecks = None
  /\ sawStop = FALSE
  /\ confirmed = FALSE

-----------------------------------------------------------------------------

Goto(where) == pc' = where /\ UNCHANGED exitCode
Leave(code) == pc' = "leaving" /\ exitCode' = code

\* The checks of runProbe before anything is opened.
Begin ==
  /\ pc = "begin"
  /\ IF ~options.logReady \/ options.url \notin Supported THEN Leave(2)
     ELSE IF options.resolvePlaylists /\ ~manager.resolver THEN Leave(3)
     ELSE Goto(IF options.resolveOnly THEN "resolveOnly" ELSE "buffer")
  /\ UNCHANGED <<streamVars, options, waitingFor, clock, elapsed, done, handlerVars, completed,
                 sawStop, confirmed>>

\* A stop request cancels the resolution, which is a failure like any other.
ResolveOnly ==
  /\ pc = "resolveOnly"
  /\ \/ Leave(0) /\ UNCHANGED sawStop
     \/ /\ Leave(3)
        /\ \E cancelled \in {FALSE, stopRequested} : sawStop' = (sawStop \/ cancelled)
  /\ UNCHANGED <<streamVars, options, waitingFor, clock, elapsed, done, handlerVars, completed,
                 confirmed>>

Buffer ==
  /\ pc = "buffer"
  /\ SetBuffer(options.buffer)
  /\ IF reply' = "ok" THEN Goto("open") ELSE Leave(3)
  /\ UNCHANGED <<options, waitingFor, clock, elapsed, done, handlerVars, completed, sawStop,
                 confirmed>>

\* After a call that should play: wait for it with a fresh deadline.
AwaitPlayback(caller) ==
  /\ waitingFor' = caller
  /\ confirmed' = FALSE
  /\ IF reply' = "ok" THEN Goto("wait") /\ clock' = clock \ {"wait"}
     ELSE Goto("failed") /\ UNCHANGED clock
  /\ UNCHANGED <<options, elapsed, done, handlerVars, completed, sawStop>>

OpenStream ==
  /\ pc = "open"
  /\ IF options.resolvePlaylists THEN StartConfiguredUrl(options.url, options.volume)
     ELSE Start(options.url, options.volume)
  /\ AwaitPlayback("open")

\* Mutant: a reconnected stream is not waited for.
ReconnectUnawaited ==
  /\ pc = "reconnect"
  /\ Reconnect
  /\ waitingFor' = "reconnect"
  /\ confirmed' = FALSE
  /\ done' = done \cup {"reconnect"}
  /\ Goto(IF reply' = "ok" THEN "poll" ELSE "failed")
  /\ UNCHANGED <<options, clock, elapsed, handlerVars, completed, sawStop>>

ReconnectStream ==
  /\ pc = "reconnect"
  /\ Reconnect
  /\ AwaitPlayback("reconnect")

ResumePlayback ==
  /\ pc = "resume"
  /\ ResumeStream
  /\ AwaitPlayback("resume")

\* A failed call or wait: interrupted, or an error.
Failed ==
  /\ pc = "failed"
  /\ IF stopRequested THEN Goto("interrupted") ELSE Leave(3)
  /\ sawStop' = (sawStop \/ stopRequested)
  /\ UNCHANGED <<streamVars, options, waitingFor, clock, elapsed, done, handlerVars, completed,
                 confirmed>>

-----------------------------------------------------------------------------
(* waitForPlayback                                                         *)

\* Mutant: only the deadline ends the wait.
WaitIgnoresStop ==
  /\ pc = "wait"
  /\ "wait" \in clock
  /\ Goto("failed")
  /\ UNCHANGED <<streamVars, options, waitingFor, clock, elapsed, done, handlerVars, completed,
                 sawStop, confirmed>>

\* Mutant: only a stop request ends the wait.
WaitIgnoresDeadline ==
  /\ pc = "wait"
  /\ stopRequested
  /\ sawStop' = TRUE
  /\ Goto("failed")
  /\ UNCHANGED <<streamVars, options, waitingFor, clock, elapsed, done, handlerVars, completed,
                 confirmed>>

WaitGivesUp ==
  /\ pc = "wait"
  /\ "wait" \in clock \/ stopRequested
  /\ sawStop' = (sawStop \/ ("wait" \notin clock /\ stopRequested))
  /\ Goto("failed")
  /\ UNCHANGED <<streamVars, options, waitingFor, clock, elapsed, done, handlerVars, completed,
                 confirmed>>

\* What is left of the loop's round after a stream has come back.
Continuation ==
  CASE waitingFor = "open" -> "loop"
    [] waitingFor = "reconnect" -> "poll"
    [] OTHER -> IF "reconnect" \in (options.tests \cap elapsed) \ done THEN "reconnect" ELSE "poll"

Finished == IF waitingFor = "resume" THEN {"pause"} ELSE {waitingFor} \cap {"reconnect"}

WaitPolls ==
  /\ pc = "wait"
  /\ "wait" \notin clock
  /\ ~stopRequested
  /\ \E polled \in State(device) :
       /\ device' = polled.device
       /\ confirmed' = (polled.state = "playing")
       /\ CASE polled.state = "playing" -> Goto(Continuation) /\ done' = done \cup Finished
            [] polled.state \in {"error", "stopped"} -> Goto("failed") /\ UNCHANGED done
            [] OTHER -> Goto("wait") /\ UNCHANGED done
  /\ UNCHANGED <<manager, call, reply, options, waitingFor, clock, elapsed, handlerVars, completed,
                 sawStop>>

-----------------------------------------------------------------------------
(* The playback loop of runProbe                                           *)

\* Both tests are due by the time read at the top of the loop.
Loop ==
  /\ pc = "loop"
  /\ IF "duration" \in clock \/ stopRequested THEN Goto("end") /\ UNCHANGED elapsed
     ELSE LET due == (options.tests \cap clock) \ done
          IN  /\ elapsed' = clock
              /\ Goto(IF "pause" \in due THEN "pause"
                      ELSE IF "reconnect" \in due THEN "reconnect" ELSE "poll")
  /\ UNCHANGED <<streamVars, options, waitingFor, clock, done, handlerVars, completed, sawStop,
                 confirmed>>

PausePlayback ==
  /\ pc = "pause"
  /\ PauseStream
  /\ IF reply' = "ok" THEN Goto("paused") ELSE Leave(3)
  /\ UNCHANGED <<options, waitingFor, clock, elapsed, done, handlerVars, completed, sawStop,
                 confirmed>>

\* The state is polled for the report only.
ReportPaused ==
  /\ pc = "paused"
  /\ PollState
  /\ Goto("sleep")
  /\ UNCHANGED <<options, waitingFor, clock, elapsed, done, handlerVars, completed, sawStop,
                 confirmed>>

\* sleepInterruptibly: the stop request is not looked at after the last tick.
Sleep ==
  /\ pc = "sleep"
  /\ \/ Goto("resume") /\ UNCHANGED sawStop
     \/ stopRequested /\ Goto("interrupted") /\ sawStop' = TRUE
  /\ UNCHANGED <<streamVars, options, waitingFor, clock, elapsed, done, handlerVars, completed,
                 confirmed>>

PollPlayback ==
  /\ pc = "poll"
  /\ \E polled \in State(device) :
       /\ device' = polled.device
       /\ IF polled.state \in {"error", "stopped"} THEN Leave(3) ELSE Goto("loop")
  /\ UNCHANGED <<manager, call, reply, options, waitingFor, clock, elapsed, done, handlerVars,
                 completed, sawStop, confirmed>>

End ==
  /\ pc = "end"
  /\ Goto(IF stopRequested THEN "interrupted" ELSE "stop")
  /\ sawStop' = (sawStop \/ stopRequested)
  /\ UNCHANGED <<streamVars, options, waitingFor, clock, elapsed, done, handlerVars, completed,
                 confirmed>>

StopPlayback ==
  /\ pc \in {"stop", "interrupted"}
  /\ StopStream
  /\ Leave(IF pc = "stop" THEN 0 ELSE 130)
  /\ UNCHANGED <<options, waitingFor, clock, elapsed, done, handlerVars, completed, sawStop,
                 confirmed>>

\* Mutant: the handler is told before the streams are gone.
CompletedEarly ==
  /\ pc = "leaving"
  /\ completed' = TRUE
  /\ Goto("returned")
  /\ UNCHANGED <<streamVars, options, waitingFor, clock, elapsed, done, handlerVars, sawStop,
                 confirmed>>

\* runProbe returns: the StreamManager goes, and with it backend and player.
DestroyStreams ==
  /\ pc = "leaving"
  /\ device' = Close(device)
  /\ manager' = [manager EXCEPT !.currentUrl = None]
  /\ Goto("returned")
  /\ UNCHANGED <<call, reply, options, waitingFor, clock, elapsed, done, handlerVars, completed,
                 sawStop, confirmed>>

Return ==
  /\ pc = "returned"
  /\ completed' = TRUE
  /\ Goto("exited")
  /\ UNCHANGED <<streamVars, options, waitingFor, clock, elapsed, done, handlerVars, sawStop,
                 confirmed>>

MainThread ==
  \/ Begin \/ ResolveOnly \/ Buffer \/ OpenStream \/ ReconnectStream \/ ResumePlayback
  \/ Failed \/ WaitGivesUp \/ WaitPolls \/ Loop \/ PausePlayback \/ ReportPaused \/ Sleep
  \/ PollPlayback \/ End \/ StopPlayback \/ DestroyStreams \/ Return

-----------------------------------------------------------------------------
(* The console handler, the clock and the player                           *)

\* consoleControlHandler, on a thread of its own; a close event then waits.
ConsoleEvent ==
  /\ pc # "exited"
  /\ closeChecks = None
  /\ stopRequested' = TRUE
  /\ closeChecks' \in {None, 0}
  /\ UNCHANGED <<streamVars, options, pc, waitingFor, clock, elapsed, done, exitCode, completed,
                 sawStop, confirmed>>

HandlerDone == closeChecks # None /\ (completed \/ closeChecks = CompletionChecks)

CheckCompletion ==
  /\ closeChecks # None
  /\ ~HandlerDone
  /\ closeChecks' = closeChecks + 1
  /\ UNCHANGED <<streamVars, options, pc, waitingFor, clock, elapsed, done, exitCode,
                 stopRequested, completed, sawStop, confirmed>>

DeadlinePasses(deadline) ==
  /\ pc \notin {"leaving", "returned", "exited"}
  /\ deadline \notin clock
  /\ clock' = clock \cup {deadline}
  /\ UNCHANGED <<streamVars, options, pc, waitingFor, elapsed, done, exitCode, handlerVars,
                 completed, sawStop, confirmed>>

ClockMoves == \E deadline \in Deadlines : DeadlinePasses(deadline)

PlayerRuns == PlayerMoves /\ UNCHANGED probeVars

ProbeNext == MainThread \/ ConsoleEvent \/ CheckCompletion \/ ClockMoves \/ PlayerRuns

ProbeSpec == ProbeInit /\ [][ProbeNext]_allVars

\* The main thread runs.
RunningProbeSpec == ProbeSpec /\ WF_allVars(MainThread)

-----------------------------------------------------------------------------
(* Properties                                                              *)

\* A playback test succeeds only when "playing" was observed after the last
\* start, resumption or reconnection there was.
SuccessMeansPlayed ==
  exitCode = 0 /\ ~options.resolveOnly => confirmed

\* A close event that is not cut short by its bounded wait finds the player
\* released: the process does not end under a running libVLC.
CloseFindsPlayerReleased ==
  HandlerDone /\ closeChecks < CompletionChecks => ~device.hasMedia /\ exitCode # None

\* A stop request ends the probe without waiting for a deadline, whatever the
\* main thread is doing.
StopIsHonoured == stopRequested ~> pc = "exited"

\* When time passes the probe comes to an end: no wait is unbounded, however the player
\* behaves.
ProbeTerminates ==
  (\A deadline \in Deadlines : WF_allVars(DeadlinePasses(deadline))) => <>(pc = "exited")
=============================================================================
