# Verification of SAORS for GTA III Classic

TLA+ models of the plugin and of its offline tools, the TLC runs that check them on small
instances, and the theorems that TLAPS proves for every value of the constants. Every
definition that stands for code is traced to its lines in `PROJECT.json` ("map").

Contents: [the system](#the-system) · [modules](#modules) · [runs](#runs) ·
[fairness](#fairness) · [findings](#findings) · [proofs](#proofs) ·
[modelling decisions](#modelling-decisions) · [not modelled](#not-modelled) · [plan](#plan)

## The system

The plugin is a DLL inside the game. It identifies the running executable, hooks the one CALL
of the game's frame loop, turns each frame into a snapshot, decides what an online radio should
do, and executes that decision against a stream and the game's own radio, or only simulates and
logs it. Around it stand three command line tools (`saors_stream_probe`, `saors_exe_probe`, `saors_radio_map`).

```
executable file --> PE reader, hasher --> fingerprint --> profile registry --> GameIntegration
configuration file --> Configuration::load --------------------------------------> |
game thread: call site --> callback --> capture --> store --> listener --> recorder, RadioController
RadioController --> RadioDecisionEngine (plan) --> GameplayRadioActionSink or DryRunRadioActionSink
GameplayRadioActionSink --> StreamManager --> PlaylistResolver --> HttpClient, AudioBackend --> libVLC
GameplayRadioActionSink --> OriginalRadioController (mute and restore of the game's radio)
```

Threads: the game's thread runs the callback, and through it the controller and the sink; a
worker thread initializes, installs and removes the hook and may shut the sink down, and both write
to one log; the probe has a main thread and the console's handler thread; libVLC has its own.

| component | state it keeps | operations | what is hard | correct means |
| --- | --- | --- | --- | --- |
| Decision engine, plans | none; a `SimulatedRadioState` is passed in and out | `evaluate`, `applyRadioActionPlan` | bindings by raw value and by identity, tolerances, duplicate frames | volumes stay in range, dropped volume changes never add up |
| Radio controller | its copy of the simulated state, the last sequence | `update` | reads the sink's state back without its mutex | it never decides on a state the sink has left |
| Gameplay executor | simulated state, `failedClosed_`, `muteAttempted_`, `radioMuted_` under a mutex | `submit`, `failClosed`, `shutdown` | a second thread, exceptions, every call underneath failing | stream, state and original radio agree; no mute is forgotten; a failure is silent and final |
| Original radio controller | mechanism available, muted | `mute`, `restore`, `isMuted` | the game may undo the mute | asked only over an open stream, restored only without one |
| Stream manager | current and configured URL, last resolution, volume, error | `start`, `startConfiguredUrl`, `pause`, `resume`, `setVolume`, `reconnect`, `stop`, `state` | four backend calls per start, each may fail | an answer of true means the stream asked for, false means none |
| Audio backends | last polled state, pending volume, media, player | `open`, `play`, `pause`, `setVolume`, `stop`, `state` | the player moves on its own and is only seen by polling | a dead stream is reported, a volume is applied or pending |
| Stream probe | command line, deadlines, stop flag, completion flag | `runProbe`, `waitForPlayback`, console handler | playback, stop and deadlines race | success only for playback seen; a stop is honoured; libVLC is gone before the process |
| Memory patches | saved originals, `installed_` | `install`, `remove` | any access may fail, before or after its effect | no original byte is lost, the outcome tells what memory holds |
| Observer, hook | three atomics, sequence, transaction | `start`, `stop`, callback | the game runs through the call site all the time | the game's own function always runs; quiet after stop |
| State source, recorder | candidate, count, settings | `capture`, `observe`, `configure`, `reset` | reads fail one by one, settings change under a candidate | a record was stable for its threshold, none is missed |
| WinHTTP client | none beyond a call | `get` | redirects and bodies are the server's; cancel is polled | https is never left, calls end, a cancel is prompt |
| Playlist resolver, parser | visited playlists | `resolve` | two requests of a resource, nesting, cycles | policy holds on every path, the search is bounded |
| URL parser | none | `parseHttpUrl`, `resolveHttpUrl` | relative references, dot segments, ports | one name for one resource, references resolve as RFC 3986 says |
| Configuration | none | `load` | order of lines, half-read files | order never decides, nothing plays without consent |
| PE reader, fingerprint, registry | none beyond a call | `read`, `fingerprintExecutable`, `match` | wrapping offsets; the file may be replaced during the collection | a fingerprint is of one version, of sections that are apart; only an exact match is detected |
| Plugin start, integration | status, profile, settings, listener, runtime, observer | `initializePlugin`, `configureObserver`, `installHooks` | an exception at any step; frames begin before the start has ended | nothing half built is found by a frame; nothing is touched that the settings do not ask for |
| Dry-run sink, transition tracker, logger | what was last logged, what waits, counts, ages; the size of the file | `submit`, `transitions`, `log` | two rate limits, a budget each, a size limit, two writers | the logs are bounded, and a state that lasts is in the log |
| Station evidence, map, map tool | none; documents | `parse`, `serialize`, `validate`, `compare`, `build`, `find`, `--redact` | disputes, broken documents, copies, text that must be escaped | the map and the comparison agree, evidence never erodes, a redacted file says what it said |

`PROJECT.json` lists these components with their sources, and under "hazards" what in this code is
hard to test, each at its line with the properties that cover it.

## Modules

A module stands for one component; `MC…` modules give its constants their values for TLC,
`…_proofs` hold theorems, each about the modules it extends.

**RadioDecision** is `RadioDecisionEngine.cpp` and `RadioDecision.cpp` as operators: `Evaluate` is
`evaluate` with its gates (`GateReason`), the station lookup (`SelectStation`) and the choice of the
action (`ActiveAction`); `ApplyRadioActionPlan` is the function of that name. A configuration is a
record of what those functions read.

**GameplayRadio** composes the controller, the executor, the stream and the original radio. A
frame goes through `DecideFrame` (before the mutex), the `Submit…` actions (take the mutex), one
action per call the executor makes (`StartStation`, `MuteRequested`, `ChangeMode`,
`SetStreamVolume`, `StopStream`, `RestoreAfterStop`, …), `Complete` or one of the failure paths
(`FailClosedStop`, `FailClosedRestore`), and `ReadBack`. `Throw` is an exception out of any call: it
drops the mutex, and `CatchException` takes it again. A second thread runs `BeginShutdown`,
`ShutdownStop`, `ShutdownRestore`. The environment lets streams die and the original radio come,
go and unmute. A stream call may succeed, fail or throw with any part of its work done.

**AudioHandover** is what that executor promises: the original radio is touched only while a
stream is open, given back only once none is, and a latched executor opens nothing. `GameplayRadio`
implements it under the refinement mapping of `Handover` (property `HandoverSpec`).

**AudioBackend** gives the outcomes of each backend call over a native player (`Device`), **StreamManager**
the manager over it, one action per operation, `PollState` and the player's own moves.
**StreamContract** is what the manager promises its callers: after an answer of true the stream is the one
asked for, at the clamped volume; after false there is none, or the call did not apply. `StreamManager`
implements it (`ContractSpec`). **StreamReplies** holds the outcomes of a start, a mode change and a volume
change; `StreamContract` and `GameplayRadio` take theirs from it, so that the executor is checked and proved over
exactly what the manager is shown to implement.

**StreamProbe** extends `StreamManager` with `runProbe`: its main thread (one action per call of the
manager, per wait and per loop branch), the console handler (`ConsoleEvent`, `HandlerDone`,
`CheckCompletion`) and the clock, which lets each deadline pass at any moment.

**ImageRange** is the bounds check on machine words that wrap. **PatchTransaction** is
`MemoryPatch.cpp` access by access for `N` sites at any addresses (`layout`): `memory` says of each site
whether it holds its original bytes, the replacement, foreign bytes or torn ones; a write may fail with the
old, the new or damaged bytes.
**ObserverHook** puts `WindowsGameObserver`, `GameIntegration` and the wiring of `Main.cpp` on top, with
the game's thread entering the callback whenever the call site leads there; each access to one of
the three atomics or to the call site is a step. The observer starts once, as the program makes it; it may be stopped
again and again, by a caller or its destructor.

**GameCapture** is `PluginSdkGameStateSource::capture` over reads that fault; **ObservationRecorder**
feeds what it captures to the recorder while its settings change.

**HttpUrl** (parsing, normal form, references) and **PlaylistParser** (direct, M3U, PLS) are pure.
**HttpFetch** is `WinHttpClient::get` with `performGet` hop by hop and a caller that may cancel at any
moment; **PlaylistResolver** is the recursion of `resolveResource` as a stack of frames, over servers
that answer every request as they like.

**ConfigurationLoad** reads a file line by line.

**PeImage** holds the checks of the PE reader on wrapping words, **Fingerprint** collects a fingerprint in the
steps in which the code opens the file, which may be replaced between two of them, **ProfileRegistry** matches
it. **PluginStart** extends them to the whole of `initializePlugin`, one action per step, in builds with and
without each feature; any step may throw. **Plugin** adds the game's frames: each goes through
**DryRunSession**, which is a frame of an observed game while nothing is played. It composes the controller and
dry-run sink (**DecisionLog**), the transition tracker (**TransitionLog**) and the **Logger** over one clock, and
the starting thread writes to the same log.

**StationEvidence** reads documents as trees of JSON values (`ParseEvidence`; the trees nest as deep as a document
with its observations does), writes them (`Serialize`), validates, compares and combines them, and rewrites them as
the radio map tool does. A text is the kinds of characters in it that the reader, the writer or a rule treats in a way
of its own, and a string of a document keeps which of them stand in it unescaped.

## Runs

All runs end by themselves within two minutes on two cores. Where a run checks a pure algorithm
as well, that check is an `ASSUME` of its `MC` module, which TLC evaluates before the first state.

**gameplay** (`MCGameplayRadio.cfg`, 163,238 states). Two stations, one bound by raw value over
allowed http, one by identity; a configuration that refuses the second; seven frames (three volumes
around the tolerance, menu open, both stations, on foot); sequence numbers up to 3, so that a frame
can repeat or follow; one shutdown.
Three frames are what it takes to start, change and stop, and to drop two volume changes in a row.
`ControllerMirrorsSink`, `StreamMatchesState`, `UnchangedIsAccurate`, `MutedOnlyUnderStream`,
`ActiveMeansSuppressed`, the refinement `HandoverSpec` (which says that a mute is owed until it is undone), and
under fairness `CallsReturn`.

**hook** (`MCObserverHook.cfg`, 5,816 states). The one call site at every address of an eight-value word,
against an image in its middle and one whose end wraps; four captured frames, one start, as a dry run or not, any
number of stops and failing accesses. `OriginalsRecoverable`, `OutcomeMatchesMemory`,
`GameFunctionNeverSkipped`, `ActiveOnlyWhileHooked`, `WritesStayInImage`, `QuietAfterStop` (a stopped
observer captures and delivers nothing, also when its removal failed and every frame goes on through the callback; until
then each snapshot is delivered at most once and in order). Several sites are covered by the theorems about
`PatchTransaction`, which hold for every `N`.

**streams** (`MCStreamManager.cfg`, 32,424 states). Two supported URLs and one that is not, a volume in
range and one to clamp, every backend. `PlaysLastResolution`, `VolumeSettled`, `DeadStreamReported`,
`ContractSpec`. The state space is complete: no counter bounds it.

**probe** (`MCStreamProbe.cfg`, 480,648 states). All command lines over one supported and one refused
URL; one check of the handler of a close event is enough to let it give up before the cleanup ends.
`SuccessMeansPlayed`, `CloseFindsPlayerReleased`, `StopIsHonoured`, `ProbeTerminates`. The program ends, hence
no deadlock check.

**http_fetch** (`MCHttpFetch.cfg`, 73,381 states). Three requests, up to three redirects (one more
than needed to hide a downgrade between two others), bodies of five blocks read by at most two.
`SecureStaysSecure`, `RedirectsResolveLikeRfc`, `CancelCostsOneExchange` (a flag raised at the worst
moment costs one request, which is a send and a receive without a look at the flag between them, or one read), `FetchEnds`.
`ASSUME`: over all URL texts of
the instance normal forms are unique and stable, and every reference of up to three segments
to every short base resolves as RFC 3986 says, where no empty segment and no final dot segment is
involved.

**playlist_resolver** (`MCPlaylistResolver.cfg`, 630,146 states). A https resource without a suffix, a
https `.m3u`, a http resource; playlists of up to two entries (and one too many), two levels deep,
which is the least depth where a nested playlist can be too deep. `StaysSecure`, `SearchBounded`,
`SelectionDescribed`, `ResolutionEnds`. `ASSUME`: every PLS of up to three lines yields for each number its
last supported reference, by rising number.

**observation** (`MCObservationRecorder.cfg`, 142,614 states). Six frames against thresholds of up to
three, so that a candidate can be left and taken up again; stations at and beyond the bounds.
`RecordedExactly`: recorded is what was stable for its threshold, no less and no more, whatever the settings
did meanwhile. `ASSUME`: in every world, a failing read costs its own field only, the
game's functions are called only when it is loaded, a volume is a fraction, and the small set of
captured frames the run uses is exactly what `Capture` yields.

**configuration** (`MCConfigurationLoad.cfg`, 613,679 states). Two stations with six more lines that
enable, disable and bind them, and a playable station with three more lines of any section.
`OrderNeverDecides`, `StartNeedsOptIn`.

**plugin_start** (`MCPlugin.cfg`, 233,460 states). Three builds and seven settings that differ in what is put in
place; nine versions of the executable, six that differ from the first in one thing each and three that are no image,
with one replacement at any moment; four registries; an exception at any step. Then frames with two stations, a
pause menu and an end of the drive, under logs whose intervals, budgets and size limit are a few units: each limit
is reached, and more is waiting when it is. `FingerprintOfOneVersion`, `SectionsApart` (of the image the
fingerprint is over), `FramesFindEverythingWired`, `TouchedOnlyAsDocumented` (a profile is detected only where
all of it agrees with one version that was there; the game is read or written, or its stations recorded, only over such
a detection and as the settings ask), `LogsAsDocumented` (limits, intervals, no decision twice in a row), `LogsCatchUp`
(once the game settles, nothing stays unsaid). `ASSUME`: the kind of a match is what the documentation says, for every registry of up to
two profiles and every image.

**station_evidence** (`MCStationEvidence.cfg`, 14,425 states). Three files, valid, lenient, disputed or broken, in
every order; three reach every level and a dispute after each. Between them a file may be redacted next to
itself or in place, and the write may fail. `MapAgreesWithComparison` (the map, the comparison and the resolver on
every identity), `EvidenceNeverErodes` (for every step and every raw value: what no file that came or went speaks of stays as it is, a
dispute is unknown, a known station that is not disputed and has lost no file is as well known as before, none becomes
another; a copy or a redaction that is written out changes nothing). `ASSUME`: the
reader refuses each of the files that break one of its rules, and takes those that only look as if they did.

**claim_dead_stream**, **claim_volume_real**: see [findings](#findings).

Every property has a mutant: a plausible slip in a mapped definition (kept next to it, marked
"Mutant:") with which TLC finds that property violated.

## Fairness

* `gameplay`: weak fairness of the game's thread and of the shutdown thread while they are inside the
  sink. Neither waits for anything but the mutex, and each holder of it leaves by steps of its own. No
  fairness of frames, of shutdown or of the environment.
* `probe`: weak fairness of the main thread; that it ends is conditional on deadlines passing, which is
  what `steady_clock` does. That a stop is honoured needs no deadline.
* `http_fetch`: weak fairness of the steps of the call: the timeouts set on the WinHTTP session bound
  each blocking call, and any of them may fail. None of the caller's cancel.
* `playlist_resolver`: weak fairness of its steps; each request is a call of the client, which ends.
* `plugin_start`: weak fairness of the clock and of frames in which nothing moved, for `LogsCatchUp` alone: a
  game that is left running draws frames. None of the start, which may stop at any step, and none of a frame that
  changes anything.

## Findings

Checked by a run that expects the violation:

* **A dead stream is never noticed** (`DeadStreamRestores`). No path of the executor asks
  `StreamManager::state()`. `docs/ORIGINAL_RADIO_SUPPRESSION.md:48-49` says stream failures "stop playback
  and restore before remaining failed closed"; a stream that dies after its start leaves the
  state active and the original radio muted.
* **A volume change may never be heard** (`VolumeChangeIsReal`). The libVLC backend applies a volume only
  when the last *polled* state is playing or paused, and the executor never polls;
  `docs/RADIO_CONTROLLER_DRY_RUN.md:80-82` says `wouldSetVolume` is mapped to a real playback operation.

Met while modelling; the models do what the code does, no run is spent on them:

* `shutdown()` sets neither the latch nor the state, so a later plan starts playback again, and a plan
  out of order is ignored with the stream left open (`docs/RADIO_CONTROLLER_DRY_RUN.md:83-85` counts both as
  fail-closed and "remains stopped").
* A pause menu that opens in the frame that changes the station pauses nothing
  (`docs/RADIO_DECISION_MODEL.md:64`).
* A write that fails after it took effect is not counted in `writesPerformed`, so that the log may deny a write that
  is still there.
* A playlist that is listed twice, and does not contain itself, ends the resolution as a cycle
  (`docs/REMOTE_PLAYLISTS.md:73`, `:116`); the entries of a PLS are tried by number, not in "source order" (`:116`);
  path normalization drops empty segments and the slash behind a final dot segment (`:45-47`).
* An unknown experimental key whose value is no boolean is an error, not a warning
  (`tests/ConfigurationTests.cpp:193`).
* A session that only saw a raw value counts as one that reproduced its identity
  (`docs/RADIO_STATION_EVIDENCE_MODEL.md:11`).
* A file that is replaced during the fingerprint and put back before its end passes the confirmation
  (`docs/EXECUTABLE_FINGERPRINTS.md:140`); the run allows one replacement for that reason.
* `--resolve-only` cancelled by the console exits with 3 (`docs/STREAM_PROBE.md:37` says 130).
* Every movement of the volume slider is logged as a transition, with the same text
  (`docs/GAME_STATE_OBSERVATION.md:120`).
* The limit of the log file compares the message without its prefix, so that the file may end one prefix past 1 MiB
  (`docs/ARCHITECTURE.md:188`). `LogsAsDocumented` holds the code to that much.
* The decision log forgets nothing that waits: a state that goes back to what was logged last leaves the older
  message pending, and the log may end with a transition that was undone.
* The recorder is put in place for a profile without an address profile, where the observer is refused and no
  frame ever comes.
* The radio map tool asks whether its stream is good before it is flushed: a last write that fails may leave a
  short file behind an exit code of success, and redacting a file onto itself has truncated it by then.
* The JSON writer escapes neither backspace, form feed nor other control characters. Nothing in the map tool can
  bring one there, because labels and identifiers with one are refused on the way in.

## Proofs

| module | about | theorems |
| --- | --- | --- |
| `GameplayRadio_proofs` | `GameplayRadio`, with lemmas on the operators of `RadioDecision` | `TypeCorrect`, `InductiveInvariant`, `ControllerNeverStale`, `EveryMuteIsOwed`, `NeverSilentWithoutStream`, `FailedClosedStaysSilent`, `ActiveOnlyWhenSuppressed`, `StateAppliedInOrder`, `ImplementsHandover`; `StreamInvariant`, `StreamMatchesStateAlways`, `ActionsFitStreamAlways`, `UnchangedAlwaysAccurate` |
| `StreamManager_proofs` | `StreamManager` | `TypeCorrect`, `ResolutionPlayed`, `VolumeIsSettled`, `DeadStreamIsReported`, `ImplementsContract` |
| | `StreamProbe` | `ProbeTyped`, `ManagerUnderProbe`, `SuccessIsSeen`, `CloseIsSafe` |
| `ObserverHook_proofs` | `PatchTransaction`, `ImageRange` | `RangeCheckExact`, `OriginalsNeverLost`, `OutcomeHonest`, `WritesContained` |
| | `ObserverHook` | `HookKeepsOriginals`, `GameFunctionAlwaysRuns`, `CapturesOnlyWhileHooked`, `StoppedIsQuiet` |
| `HttpFetch_proofs` | `HttpFetch` | `TypeCorrect`, `HttpsNeverLeft`, `CancelIsPrompt`, `CallAdvances` |
| `PlaylistResolver_proofs` | `PlaylistResolver` | `TypeCorrect`, `HttpPolicyHolds`, `SearchIsBounded`, `SelectionIsDescribed`, `ResolutionAdvances` |
| `ObservationRecorder_proofs` | `ObservationRecorder` | `TypeCorrect`, `RecordsWhatWasStable` |
| `Plugin_proofs` | `PeImage`, `Fingerprint`, `ProfileRegistry` | `AcceptedSectionsApart`, `HashedSectionsApart`, `FingerprintIsOfOneVersion`, `MatchingAsDocumented` |
| | `PluginStart`, `Plugin`, the logs | `FirstFrameFindsEverything`, `TouchedAsDocumented`, `LogsBounded` |
| `StationChoice_proofs` | `ConfigurationLoad` | `TypeCorrect`, `LoadedAsWritten`, `OrderIrrelevant`, `OptInNeeded` |
| | `StationEvidence` | `RoundTrip`, `MapAgreesAlways`, `FoundMapFits`, `EvidenceLasts` |

Every invariant that a passing run checks is stated by one of these theorems.

**Assumptions.** Only those named in the modules, which say that constants are well formed: configurations and
snapshots (`RadioDecisionAssumption`, `GameplayAssumption`, `DryRunSessionAssumption`), URLs and volumes
(`AudioBackendAssumption`: there is a URL), words (`WordsAssumption`, `PeImageAssumption`, `LoggerAssumption`), files
(`FingerprintAssumption`: a file has the size and the number of sections its headers say; `ConfigurationAssumption`: a
line is of one of three types; `NestingAssumption`: a file nests no deeper than a document), identifiers and keys
(`EvidenceAssumption`: identifiers are plain, no key of the writer is a sensitive one, numbers fit their fields in the
order they do in C++), thresholds (`RecorderAssumption`). Two carry more. `TransactionAssumption`: the bytes that match
include neither the replacement nor what a failed write leaves, because the only profile compares whole bytes.
`ListedAssumption`: the playlist parser, which is recursive, yields references. TLC evaluates every one of them on the
instances of the runs, the last one by running the parser. What `ConfigurationAssumption` says of the station map of a
profile is itself proved of the maps that evidence yields (`FoundMapFits`).

Two hypotheses are part of the statements that need them. `OneCallSite`, of the hook's theorems: it has one site, as
`callbackPatch()` builds one patch, whose five bytes are written in one step. `MaxChanges <= 1`, of
`FingerprintIsOfOneVersion` and `TouchedAsDocumented`: with two replacements both are false of the code, because a file
that is put back passes the confirmation (see [findings](#findings)).

**The executor.** `TypeOK` is not inductive: that the stream keeps its type depends on the station and the
volume the plan at hand carries. `TypeInv` adds that this plan can be executed. The inductive invariant `IInv`
is `TypeInv /\ LockInv /\ DecisionInv /\ HandoverInv`: who owns the mutex in which step; which action the plan
at hand asks for in each step, and that the controller's state is the sink's; and what the handover
owes in each step (a silent original radio has a stream, a refused restore or a restore on its way; no
stream is open where a restore is attempted; a latched sink is silent and inactive). Each invariant theorem and the
refinement follow from it; `HandoverStep` maps every step to a step of `AudioHandover` or a stutter.
`StreamInv = DecidedInv /\ MatchInv` is proved relative to `IInv`: it ties the action of the plan at hand to the
stream it finds and the open stream to the recorded state.

**The stream manager.** Each backend call has a lemma on what its outcomes leave of the device (`DeviceInv`: a volume
that is not pending is the player's, a player that ended is never reported as alive). `MInv` adds that the device
has media exactly when the manager has a current URL, and that this is what was resolved last. The refinement
takes the manager's operations one by one: every outcome is one of `StreamReplies` seen through the mapping, and a
player that moves on its own is a step of the contract or a stutter.

**The probe.** Every step of it is one call of the manager, a move of the player or none of both (`ProbeCalls`), so that
the manager's invariant is carried through it unchanged, up to the step that destroys the manager and leaves a device
without media. `ProbeSteps` is what is left to say: where playback has been seen, which steps have an exit code, and
that nothing is completed before the player is gone.

**The transaction.** `OriginalsRecoverable` alone is not inductive: a site is remembered before it is written, a
removal undoes site after site, and a retry reads its originals again. `IInv` adds that a site holds what
the process started with, the replacement or damage (`MemoryInv`), that what is remembered is what was there
(`SavedInv`, `LengthInv`), that the sites an install has not reached are untouched (`InstallInv`), and
that every changed site is still due while a removal runs without a failure (`RestoreInv`). `OutcomeInv` relates the
answer of the last call to memory. That writes stay in the image comes from `RangeCheckExact` and the fact that
no site is written that was not validated (`ImageInv`).

**The hook.** `HookInv` carries the transaction's invariants through the interleaving (`FoundInv`: the process did not
start with the replacement at the call site). `ControlInv` says at each point of the worker what the atomics
hold: from the preparation of a transaction on the callback knows the game's function, and the observer is
inactive while one runs. `NumberInv` relates the three sequence numbers of a frame to where it is, and says that an
atomic that `stop()` has cleared stays clear and that a frame that read it later goes nowhere.

**The client and the resolver.** For a fetch, `SecureInv` says that no hop under way has left https and `CancelInv` that
the send, the receive or the read that began under a set flag is followed by a look at it, a send only after its
receive. For a resolution, the playlists being
searched are the invariant's spine (`FrameInv`): they are no more than the depth, pairwise different and all
visited, and outside the loop each has an entry in hand. `SecureInv` carries the scheme through them; `DescribedInv`
says that a selection on its way up is described already, or the playlist above it is the one to describe it.

**That calls end.** Liveness is out of the prover's reach; what it rests on is not. `CallAdvances` and
`ResolutionAdvances` give a bounded measure that every step raises: for a fetch the hop, the body and the place in a
hop; for a resolution how far the search is at each depth, compared from the outermost inwards, then the place in a
call. So neither can go round in a circle for any value of its limits, and TLC's `FetchEnds` and `ResolutionEnds` add
that no step is missing and what is fair.

**The recorder.** `RecordedExactly` compares what was recorded with the frames a candidate has held since the settings
last changed, which the code does not count. `CountInv` says how far the code's count may be apart from those: it is
never ahead of the frames in a row, and behind the ones since the change only once it has reached the threshold.
`RecordInv` numbers the records, `StableInv` says that what is stable has been recorded.

**The start.** `AcceptedSectionsApart` shows of the reader's checks, for every word size, that accepted sections
share no byte of the file and no address, although their sums may wrap; `LayoutInv` carries that to the
fingerprint whatever is put at the path and however often. `StartInv` says for each step of the start what the ones
before have left and that nothing takes it back, so that an observer that is installed finds its listener and a live
controller.

**The fingerprint.** `VersionInv` says of each of its steps which version every part that has been read is of: of the
only one (`Undisturbed`), or of which of the two before and after the replacement (`Disturbed`); the layout and the
metadata are read again at the end, which is what a mix of both does not survive. `TouchedAsDocumented` puts
`StartInv`, `TouchInv` (which settings have reached the integration in which step), this and `MatchingAsDocumented`
together.

**The logs.** `LogInv` holds of each log by itself; that the file keeps its limit, for every number of lines of a frame
and of the starting thread, is a lemma on `AfterLines` without induction over the lines: the first line that is refused
is the least number of a set.

**The configuration.** The reader remembers a section and values; `LoadInv` says what those stand for in the lines
behind: the value of each key is that of the last valid line that sets it in a section of its name, and the errors are
the bad lines and the bindings in conflict (`LoadedAsWritten`). Two enabled stations with one binding are such a
conflict, so what is selected is selected by its binding alone (`OrderIrrelevant`), and what plays can be led back to
the lines that ask for it (`OptInNeeded`).

**The evidence.** `RoundTrip` follows the writer's tree through each of the reader's rules, value by value. With it,
`ArchiveInv` is simple: whatever is redacted and whatever write fails, a file of the archive is one of the start, a
broken one, or one written for a document that was accepted. The map and the comparison agree for any set of accepted
documents (`MapAgrees`). A step only adds documents or only loses them (`AddedSaysMore`, `RedactedSaysTheSame`), and `MapKeeps`
compares the maps of two such sets at a raw value: its evidence is what the documents say of it (`EntryIsSaid`), two
observations in dispute give two identities or two labels (`DisputedIsUnknown`), and without a dispute there is one of
each (`UndisputedAgree`), so that more evidence leaves the identity and raises the level, if anything (`MoreIsNoLess`).

**Only model-checked**: liveness under fairness (`CallsReturn`, `StopIsHonoured`, `ProbeTerminates`, `FetchEnds`,
`ResolutionEnds`, `LogsCatchUp`), which is out of the prover's reach; and `RedirectsResolveLikeRfc`, together with what
the `ASSUME`s compare, because path normalization and the parsers are recursive: what they compute for every input
is induction over data. They are compared with reference definitions over bounded inputs.

## Modelling decisions

* Restoring writes that report success are trusted, as in the code; the five bytes of a CALL are
  written in one step.
* An exception out of a stream or mute call may come before or after any part of its effect.
* Volumes are percentages; the tolerance is one of them. URLs of stations stand for their
  scheme. Station keys are opaque.
* The names of libVLC states and calls are taken from how the backend uses them; the player may
  stall, fail, end or play on its own.
* The HTTP client answers "cancelled" after a set flag like any other failure; `text/plain` is treated
  as M3U, as the code does. Playlists list the normalized URL a reference resolves to; paths are
  sequences of segments.
* SHA-256 is injective. A file is hashed as one version, because it is opened without
  `FILE_SHARE_WRITE`; the PE layout is read in two parts between which the file may be replaced. What lies between the
  section table and the end of the headers has no field of its own in the layout: the hash of the file covers it.
* The text of a configuration value stands for what each parser makes of it. PE fields are words of eight values.
* The digits and the syntax of JSON are not spelled: a document that is not JSON is one value, and a number is a
  natural, something else, or too large for its field.
* Time passes between two frames, a unit at a step; the two logs of a session share that clock, and an age stops
  counting at its interval.
* A message of a log is the field it is about and what it says of it; every line has one length.
* The multiplexer of snapshot listeners builds strings inside `noexcept`; that memory runs out there is left out.
* Undefined outcomes (a half-written instruction, memory reads that fault) are choices or, where
  stated, left out.

## Not modelled

A second `installHooks()`, which the program does not make: it would start a new observer, whose numbering begins
again and whose frames the controller would drop as out of order, and which knows nothing of a removal that failed.

The URL sanitizer, a pure text transformation for the log. Report formatting and the executable probe around the
reader and the registry. Of the logger, its directory, time stamp and the renewal of its file; of the radio
map tool, its command line, texts and exit codes. The loading of the libVLC library beyond success or failure. Of the address
profile, the table of constants; an original radio controller that does anything, because the repository has none.
Tests, build files and documentation, which were read as statements of intent.

## Plan

Order of work: the executor first, since it owns the hand-over between the game's radio and a
stream; then the stream manager under it and the hook above it; then the network side; then configuration,
identification and evidence; then the start that puts them together, and the logs. All of these are modelled and
checked, and every one of them has proofs. What is left:

1. *Prove more*, within the proof modules there are: a measure for the probe and the executor like those of the client
   and the resolver; that `RemoveDotSegments` leaves no dot segment, if it is written as a fold.
2. *Compose further*: the resolver over the client's promises as an abstract specification of its own, and the
   executor in the place of the simulated radio in `Plugin`.
3. *Extend*: the original radio controller's own state once a mechanism exists.
