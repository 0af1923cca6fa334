----------------------------- MODULE PluginStart ----------------------------
(***************************************************************************)
(* From DllMain to the observer: initializePlugin on a thread of its own,  *)
(* over the identification of the executable and the GameIntegration that  *)
(* installs the observer.  The order of the steps is all that keeps the    *)
(* game thread, which runs meanwhile, from finding anything half built; an *)
(* exception at any of them leaves the rest undone.                        *)
(*                                                                         *)
(* How a file becomes settings is ConfigurationLoad's; how the hook is     *)
(* written, ObserverHook's.                                                *)
(***************************************************************************)
EXTENDS ProfileRegistry

CONSTANTS
  Builds,       \* the compile-time options the plugin may be built with
  Configurable, \* the settings a configuration file may hold
  AddressIds    \* the profiles that defaultGameAddressProfiles has addresses for

Build == [fingerprinting : BOOLEAN, observer : BOOLEAN, controller : BOOLEAN,
          executor : BOOLEAN, suppression : BOOLEAN]

Settings == [enableGameObserver : BOOLEAN, observerDryRun : BOOLEAN,
             logStateTransitions : BOOLEAN, enableRadioController : BOOLEAN,
             logRadioDecisions : BOOLEAN, enableGameplayAudioExecutor : BOOLEAN,
             muteOriginalRadio : BOOLEAN, enableRecorder : BOOLEAN]

\* The build refuses an option without those it needs.
ASSUME PluginStartAssumption ==
  /\ Configurable \subseteq Settings
  /\ AddressIds \subseteq Ids
  /\ \A b \in Builds :
       /\ b \in Build
       /\ b.suppression => b.executor
       /\ b.executor => b.controller /\ b.observer
       /\ b.observer => b.fingerprinting

\* Configuration::defaults
Defaults ==
  [enableGameObserver |-> FALSE, observerDryRun |-> TRUE, logStateTransitions |-> TRUE,
   enableRadioController |-> FALSE, logRadioDecisions |-> TRUE,
   enableGameplayAudioExecutor |-> FALSE, muteOriginalRadio |-> FALSE,
   enableRecorder |-> FALSE]

VARIABLES
  build,       \* the SAORS_HAS_ macros
  settings,    \* runtimeConfiguration
  registry,    \* GameIntegration::registry_
  match,       \* match_
  starter,     \* where the thread in initializePlugin is
  integration, \* what configureObserver and setSnapshotListener have left
  listener,    \* the SnapshotListenerMultiplexer
  runtime,     \* the GameplayRuntime: who owns it, or what became of it
  observer     \* observer_: its status and its listener_

startVars == <<fingerprintVars, build, settings, registry, match, starter, integration,
               listener, runtime, observer>>

Places == {"attach", "load", "identify", "configure", "listener", "controller", "wire",
           "own", "install", "report", "ended", "abandoned"}
Sinks == {"none", "dryRun", "gameplay"}
Statuses == {"unavailable", "dryRunCompatible", "dryRunIncompatible", "installed", "failed"}

StartTypeOK ==
  /\ build \in Builds
  /\ settings \in Configurable \cup {Defaults}
  /\ starter \in Places
  /\ integration \in [enabled : BOOLEAN, dryRun : BOOLEAN, log : BOOLEAN, listening : BOOLEAN]
  /\ listener \in [recorder : BOOLEAN, sink : Sinks, wired : BOOLEAN, suppress : BOOLEAN]
  /\ runtime \in {"none", "local", "process", "destroyed"}
  /\ observer \in [status : Statuses, created : BOOLEAN, listening : BOOLEAN]

StartInit ==
  /\ FingerprintInit
  /\ build \in Builds
  /\ settings = Defaults
  /\ registry \in Registries
  /\ match = NoMatch
  /\ starter = "attach"
  /\ integration = [enabled |-> FALSE, dryRun |-> TRUE, log |-> TRUE, listening |-> FALSE]
  /\ listener = [recorder |-> FALSE, sink |-> "none", wired |-> FALSE, suppress |-> FALSE]
  /\ runtime = "none"
  /\ observer = [status |-> "unavailable", created |-> FALSE, listening |-> FALSE]

-----------------------------------------------------------------------------

\* DllMain: without a thread nothing is ever started.
Attach ==
  /\ starter = "attach"
  /\ starter' \in {"load", "ended"}
  /\ UNCHANGED <<fingerprintVars, build, settings, registry, match, integration, listener,
                 runtime, observer>>

\* What cannot be loaded without an error is replaced by the defaults.
Load ==
  /\ starter = "load"
  /\ settings' \in Configurable \cup {Defaults}
  /\ starter' = "identify"
  /\ UNCHANGED <<fingerprintVars, build, registry, match, integration, listener, runtime,
                 observer>>

\* A step of fingerprintExecutable, or another process's in the middle of it.
Fingerprinting ==
  /\ starter = "identify"
  /\ build.fingerprinting
  /\ Collect
  /\ UNCHANGED <<build, settings, registry, match, starter, integration, listener, runtime,
                 observer>>

\* detectExecutableVersion, where a fingerprint was returned; it is none in a build
\* that makes none, nor where the path or the hasher is missing.
Identified ==
  /\ starter = "identify"
  /\ at \in {"done", "failed"} \/ at = "headers"
  /\ match' = IF at = "done" THEN Match(registry, Result) ELSE NoMatch
  /\ starter' = "configure"
  /\ Leave
  /\ UNCHANGED <<build, settings, registry, integration, listener, runtime, observer>>

DetectedExecutableProfile == IF match.kind = "exact" THEN match.id ELSE "unsupported"

ConfigureObserver ==
  /\ starter = "configure"
  /\ integration' = [integration EXCEPT !.enabled = settings.enableGameObserver,
                                        !.dryRun = settings.observerDryRun,
                                        !.log = settings.logStateTransitions]
  /\ starter' = "listener"
  /\ UNCHANGED <<fingerprintVars, build, settings, registry, match, listener, runtime, observer>>

\* The multiplexer, with the research recorder where it is asked for and can be.
MakeListener ==
  /\ starter = "listener"
  /\ listener' = [listener EXCEPT
       !.recorder = /\ build.observer
                    /\ settings.enableRecorder
                    /\ settings.enableGameObserver /\ ~settings.observerDryRun
                    /\ DetectedExecutableProfile # "unsupported"]
  /\ starter' = IF build.controller /\ settings.enableRadioController
                THEN "controller" ELSE "wire"
  /\ UNCHANGED <<fingerprintVars, build, settings, registry, match, integration, runtime,
                 observer>>

\* shouldEnableOriginalRadioSuppression; createOriginalRadioController has no profile with
\* a controller yet, and what it returns is never available.
SuppressionEnabled(available) ==
  /\ build.suppression
  /\ settings.muteOriginalRadio
  /\ DetectedExecutableProfile = "classic"
  /\ available

\* The runtime, on the stack: over a real backend the gameplay sink, over none the dry run.
MakeRuntime ==
  /\ starter = "controller"
  /\ \E backend \in {"libVLC", "null"} :
       LET gameplay == build.executor /\ settings.enableGameplayAudioExecutor /\ backend # "null"
       IN  listener' = [listener EXCEPT !.sink = IF gameplay THEN "gameplay" ELSE "dryRun",
                                        !.suppress = gameplay /\ SuppressionEnabled(FALSE)]
  /\ runtime' = "local"
  /\ starter' = "wire"
  /\ UNCHANGED <<fingerprintVars, build, settings, registry, match, integration, observer>>

\* setController, where there is one, and setSnapshotListener.
Wire ==
  /\ starter = "wire"
  /\ listener' = [listener EXCEPT !.wired = runtime = "local"]
  /\ integration' = [integration EXCEPT !.listening = TRUE]
  /\ observer' = IF observer.created THEN [observer EXCEPT !.listening = TRUE] ELSE observer
  /\ starter' = IF runtime = "local" THEN "own" ELSE "install"
  /\ UNCHANGED <<fingerprintVars, build, settings, registry, match, runtime>>

\* Mutant: an exception out of push_back does not end the start.
OwnRuntimeOrNot ==
  /\ starter = "own"
  /\ runtime' \in {"process", "destroyed"}
  /\ starter' = "install"
  /\ UNCHANGED <<fingerprintVars, build, settings, registry, match, integration, listener,
                 observer>>

\* The runtime is given to the process: push_back, or release.
OwnRuntime ==
  /\ starter = "own"
  /\ runtime' = "process"
  /\ starter' = "install"
  /\ UNCHANGED <<fingerprintVars, build, settings, registry, match, integration, listener,
                 observer>>

-----------------------------------------------------------------------------
(* GameIntegration::installHooks                                           *)

MeetsMinimumVerification(verification) ==
  verification \in {"locallyReproduced", "independentlyReproduced", "verified"}

HasAddresses == MeetsMinimumVerification(match.verification) /\ match.id \in AddressIds

\* Mutant: the addresses are looked up for any match with a name.
RefusedUnlessNamed ==
  \/ ~integration.enabled /\ ~integration.dryRun
  \/ ~build.observer
  \/ ~HasAddresses

InstallRefused ==
  \/ ~integration.enabled /\ ~integration.dryRun
  \/ ~build.observer
  \/ match.kind # "exact"
  \/ ~HasAddresses

\* What start() may come back with; without the setting that enables it, a dry run.
Started ==
  [status : IF integration.dryRun \/ ~integration.enabled
            THEN {"dryRunCompatible", "dryRunIncompatible", "failed"}
            ELSE {"dryRunIncompatible", "installed", "failed"},
   created : {TRUE}, listening : {integration.listening}]

Refuse ==
  /\ starter = "install"
  /\ InstallRefused
  /\ starter' = "report"
  /\ UNCHANGED <<fingerprintVars, build, settings, registry, match, integration, listener,
                 runtime, observer>>

Install ==
  /\ starter = "install"
  /\ ~InstallRefused
  /\ observer' \in Started
  /\ starter' = "report"
  /\ UNCHANGED <<fingerprintVars, build, settings, registry, match, integration, listener,
                 runtime>>

-----------------------------------------------------------------------------

\* Memory runs out, or the file system refuses: everything that follows is given up, and
\* a runtime that nobody else owns yet is destroyed.
Abandon ==
  /\ starter \notin {"attach", "ended", "abandoned"}
  /\ starter' = "abandoned"
  /\ runtime' = IF runtime = "local" THEN "destroyed" ELSE runtime
  /\ Leave
  /\ UNCHANGED <<build, settings, registry, match, integration, listener, observer>>

StartSteps ==
  \/ Attach \/ Load \/ Fingerprinting \/ Identified \/ ConfigureObserver
  \/ MakeListener \/ MakeRuntime \/ Wire \/ OwnRuntime
  \/ Refuse \/ Install \/ Abandon

-----------------------------------------------------------------------------

\* docs/GAME_STATE_OBSERVATION.md:18-27 and docs/ARCHITECTURE.md:200-205: a profile is
\* detected only where every field of a usable one agrees with one version that was at
\* the path, wherever it stands among others that agree in part and whatever was replaced
\* meanwhile; and the game is read, or written, or its radio values recorded, only over
\* such a detection, with addresses that have been reproduced, and as the settings ask.
TouchedOnlyAsDocumented ==
  [][/\ match'.kind = "exact" /\ match.kind # "exact" =>
          \E i \in DOMAIN registry, j \in DOMAIN versions :
            /\ registry[i].usable
            /\ registry[i].id = match'.id
            /\ registry[i].verification = match'.verification
            /\ IsImage(versions[j])
            /\ Agrees(registry[i], FingerprintOf(versions[j]))
     /\ observer' # observer =>
          /\ match.kind = "exact"
          /\ match.id \in AddressIds
          /\ match.verification # "candidate"
          /\ observer'.status = "installed" =>
               settings.enableGameObserver /\ ~settings.observerDryRun
     /\ listener'.recorder # listener.recorder =>
          match.kind = "exact" /\ settings.enableRecorder /\ settings.enableGameObserver]_startVars

\* docs/ARCHITECTURE.md:179-185: what the observer calls is in place before the observer
\* is, and stays: the first frame finds the listener, in it the controller the settings
\* ask for, and the controller alive, whichever step of the start failed.
FramesFindEverythingWired ==
  observer.status = "installed" =>
    /\ observer.listening
    /\ listener.wired <=> build.controller /\ settings.enableRadioController
    /\ listener.wired => runtime = "process"
    /\ listener.sink = "gameplay" => settings.enableGameplayAudioExecutor
=============================================================================
