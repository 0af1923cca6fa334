---------------------------- MODULE ObserverHook ----------------------------
(***************************************************************************)
(* WindowsGameObserver.cpp under GameIntegration.cpp and Main.cpp: a       *)
(* worker thread wires the snapshot listener, replaces the one CALL of the *)
(* game's frame loop and may later stop, as often as it likes, while the   *)
(* game thread keeps executing that call site.  Nothing but three atomics  *)
(* (activeObserver, originalGameProcess, listener_) and the bytes of the   *)
(* call site connect the two threads, so every access to them is a step.   *)
(***************************************************************************)
EXTENDS PatchTransaction

CONSTANT MaxFrames   \* bound: frames captured in a behaviour

ASSUME HookAssumption == MaxFrames \in Nat

\* callbackPatch() builds one patch.  A five-byte store that is caught half-way
\* has no defined outcome for the thread that executes it; failing writes here
\* leave the old or the new bytes.
OneCallSite == N = 1 /\ Damage = {}

VARIABLES
    control,      \* where the worker thread is, what start() returned, and whether
                  \* a stop() has taken the listener away and the observer
    activeObserver, originalGameProcess,   \* the two global atomics: set or not
    listener,     \* listener_ of the observer: registered or not
    sequence,     \* sequence_
    published,    \* sequence of the snapshot in GameStateStore
    delivered,    \* sequence of the last snapshot the listener was given
    frame         \* where the game thread is

hookVars == <<control, activeObserver, originalGameProcess, listener, sequence,
              published, delivered, frame>>
vars == <<transactionVars, hookVars>>

ObserverStatuses == {"unavailable", "dryRunCompatible", "dryRunIncompatible",
                     "installed", "failed"}
ControlPoints == {"boot", "refused", "wired", "created", "started", "validated", "installing",
                  "ready", "stopListener", "stopActive", "stopping"}
FramePoints == {"outside", "callback", "original", "capture", "publish", "load",
                "deliver"}

HookTypeOK ==
    /\ TransactionTypeOK
    /\ control \in [at : ControlPoints, status : ObserverStatuses,
                    wrote : BOOLEAN, dryRun : BOOLEAN,
                    silenced : BOOLEAN, stopped : BOOLEAN]
    /\ activeObserver \in BOOLEAN /\ originalGameProcess \in BOOLEAN
    /\ listener \in BOOLEAN
    /\ sequence \in 0 .. MaxFrames
    /\ published \in 0 .. MaxFrames /\ delivered \in 0 .. MaxFrames
    /\ frame \in [at : FramePoints, ran : BOOLEAN, late : BOOLEAN]

HookInit ==
    /\ TransactionInit
    /\ control = [at |-> "boot", status |-> "unavailable", wrote |-> FALSE,
                  dryRun |-> FALSE, silenced |-> FALSE, stopped |-> FALSE]
    /\ activeObserver = FALSE /\ originalGameProcess = FALSE
    /\ listener = FALSE
    /\ sequence = 0 /\ published = 0 /\ delivered = 0
    /\ frame = [at |-> "outside", ran |-> TRUE, late |-> FALSE]

atomics == <<activeObserver, originalGameProcess, listener>>
captured == <<sequence, published, delivered>>

-----------------------------------------------------------------------------
(* The worker thread. *)

At(point) == control.at = point
Go(point) == control' = [control EXCEPT !.at = point]
Finish(status) == control' = [control EXCEPT !.at = "ready", !.status = status]

\* Main: the controller is put behind the multiplexer and the multiplexer is
\* given to the integration before the hook is considered at all.
WireListener ==
    /\ At("boot") /\ Go("wired")
    /\ UNCHANGED <<transactionVars, atomics, captured, frame>>

\* installHooks: observer disabled, no exact executable match or no address
\* profile for it; nothing is created.
InstallRefused ==
    /\ At("wired")
    /\ control' = [control EXCEPT !.at = "refused", !.status = "unavailable"]
    /\ UNCHANGED <<transactionVars, atomics, captured, frame>>

\* installHooks: the observer is created and told its listener ...
CreateObserver ==
    /\ At("wired") /\ Go("created")
    /\ listener' = TRUE
    /\ UNCHANGED <<transactionVars, activeObserver, originalGameProcess, captured, frame>>

\* ... and only then started.  installHooks makes an observer of its own before
\* each start(), and the program calls it once: the observer that starts has no
\* transaction yet, so its test for one that is installed already never holds.
CallStart(dryRun) ==
    /\ At("created")
    /\ control' = [control EXCEPT !.at = "started", !.dryRun = dryRun]
    /\ UNCHANGED <<transactionVars, atomics, captured, frame>>

\* validateExpectedBytes looks at every symbol of the profile, the call site
\* among them; a later symbol may mismatch or be unreadable as well.
ProfileMismatch ==
    /\ At("started") /\ Finish("dryRunIncompatible")
    /\ UNCHANGED <<transactionVars, atomics, captured, frame>>

\* callbackPatch publishes where the game's own function is, and the transaction
\* is made, with nothing to remember.
PreparePatch ==
    /\ At("started") /\ Go("validated")
    /\ \A s \in Sites : InImage(s) /\ memory[s] \in Matching
    /\ originalGameProcess' = TRUE
    /\ UNCHANGED <<transactionVars, activeObserver, listener, captured, frame>>

\* The profile describes no five-byte CALL at the call site.
PatchUnusable ==
    /\ At("started") /\ Finish("failed")
    /\ UNCHANGED <<transactionVars, atomics, captured, frame>>

\* Memory ran out after the game's function was published and before there was
\* a transaction: the handler finds none to remove.
PrepareThrows ==
    /\ At("started") /\ Finish("failed")
    /\ \A s \in Sites : InImage(s) /\ memory[s] \in Matching
    /\ originalGameProcess' = TRUE
    /\ UNCHANGED <<transactionVars, activeObserver, listener, captured, frame>>

BeginInstall ==
    /\ At("validated") /\ Go("installing")
    /\ Install(control.dryRun)
    /\ UNCHANGED <<atomics, captured, frame>>

\* A read, write or restore of the running install or remove.
AccessMemory ==
    /\ At("installing") \/ At("stopping")
    /\ TransactionStep
    /\ UNCHANGED hookVars

InstallReturned(status) ==
    /\ At("installing") /\ step.at = "idle"
    /\ control' = [control EXCEPT !.at = "ready", !.status = status,
                                  !.wrote = result.wrote]

\* The observer becomes active after its patch is in place.
InstallSucceeded ==
    /\ InstallReturned("installed") /\ result.status = "installed"
    /\ activeObserver' = TRUE
    /\ UNCHANGED <<transactionVars, originalGameProcess, listener, captured, frame>>

InstallFailed ==
    /\ result.status # "installed"
    /\ InstallReturned(IF result.status = "dryRunCompatible" THEN "dryRunCompatible"
                                                            ELSE "failed")
    /\ UNCHANGED <<transactionVars, atomics, captured, frame>>

\* removeHooks / stop: no listener, no active observer, original bytes.  It may be
\* called again, by the destructor or by a caller whose first try failed.
CallStop ==
    /\ At("ready") /\ Go("stopListener")
    /\ UNCHANGED <<transactionVars, atomics, captured, frame>>

\* Mutant: stop() leaves the listener where it is.
KeepListener ==
    /\ At("stopListener")
    /\ control' = [control EXCEPT !.at = "stopActive", !.silenced = TRUE]
    /\ UNCHANGED <<transactionVars, atomics, captured, frame>>

ForgetListener ==
    /\ At("stopListener")
    /\ control' = [control EXCEPT !.at = "stopActive", !.silenced = TRUE]
    /\ listener' = FALSE
    /\ UNCHANGED <<transactionVars, activeObserver, originalGameProcess, captured, frame>>

\* Mutant: stop() clears both globals before it restores the call site.
DeactivateBoth ==
    /\ At("stopActive") /\ Go("stopping")
    /\ activeObserver' = FALSE /\ originalGameProcess' = FALSE
    /\ Remove
    /\ UNCHANGED <<listener, captured, frame>>

\* Mutant: the bytes are restored while the observer is still active.
RemoveWhileActive ==
    /\ At("stopActive") /\ Go("stopping")
    /\ Remove
    /\ UNCHANGED <<atomics, captured, frame>>

Deactivate ==
    /\ At("stopActive")
    /\ control' = [control EXCEPT !.at = "stopping", !.stopped = TRUE]
    /\ activeObserver' = FALSE
    /\ Remove
    /\ UNCHANGED <<originalGameProcess, listener, captured, frame>>

StopReturned ==
    /\ At("stopping") /\ step.at = "idle"
    /\ Finish("unavailable")
    /\ UNCHANGED <<transactionVars, atomics, captured, frame>>

-----------------------------------------------------------------------------
(* The game thread: one frame after another through the call site. *)

In(point) == frame.at = point
FrameGoes(point) == frame' = [frame EXCEPT !.at = point]

\* The CALL goes to the game's own function or to the observer's callback.
BeginFrame ==
    /\ In("outside")
    /\ sequence < MaxFrames
    /\ frame' = IF memory[1] = "replacement"
                  THEN [at |-> "callback", ran |-> FALSE, late |-> FALSE]
                  ELSE frame
    /\ UNCHANGED <<transactionVars, control, atomics, captured>>

\* dispatchGameObserverFrame: the game's function first, if it is known; what
\* it throws is swallowed.
RunOriginal ==
    /\ In("callback")
    /\ frame' = [frame EXCEPT !.at = "original", !.ran = originalGameProcess]
    /\ UNCHANGED <<transactionVars, control, atomics, captured>>

LoadObserver ==
    /\ In("original")
    /\ frame' = [frame EXCEPT !.at = IF activeObserver THEN "capture" ELSE "outside",
                              !.late = control.stopped]
    /\ UNCHANGED <<transactionVars, control, atomics, captured>>

\* captureFrame: read the game, number the snapshot, publish it, then look for
\* a listener and call it on this thread.
Capture ==
    /\ In("capture") /\ FrameGoes("publish")
    /\ sequence' = sequence + 1
    /\ UNCHANGED <<transactionVars, control, atomics, published, delivered>>

Publish ==
    /\ In("publish") /\ FrameGoes("load")
    /\ published' = sequence
    /\ UNCHANGED <<transactionVars, control, atomics, sequence, delivered>>

LoadListener ==
    /\ In("load")
    /\ frame' = [frame EXCEPT !.at = IF listener THEN "deliver" ELSE "outside",
                              !.late = control.silenced]
    /\ UNCHANGED <<transactionVars, control, atomics, captured>>

Deliver ==
    /\ In("deliver") /\ FrameGoes("outside")
    /\ delivered' = published
    /\ UNCHANGED <<transactionVars, control, atomics, sequence, published>>

-----------------------------------------------------------------------------
WorkerNext ==
    \/ WireListener \/ InstallRefused \/ CreateObserver
    \/ \E dryRun \in BOOLEAN : CallStart(dryRun)
    \/ ProfileMismatch \/ PatchUnusable \/ PrepareThrows \/ PreparePatch \/ BeginInstall
    \/ AccessMemory \/ InstallSucceeded \/ InstallFailed
    \/ CallStop \/ ForgetListener \/ Deactivate \/ StopReturned

GameNext ==
    \/ BeginFrame \/ RunOriginal \/ LoadObserver \/ Capture \/ Publish
    \/ LoadListener \/ Deliver

HookNext == WorkerNext \/ GameNext
HookSpec == HookInit /\ [][HookNext]_vars

-----------------------------------------------------------------------------
(* What must hold in every interleaving of the two threads. *)

\* A frame that goes through the callback has run the game's own function
\* before the observer does anything: whenever the call site leads to the
\* callback, and for as long as a frame is still inside it, the callback knows
\* where that function is.
GameFunctionNeverSkipped ==
    /\ frame.ran \/ In("callback")
    /\ memory[1] = "replacement" => originalGameProcess
    /\ In("callback") => originalGameProcess

\* The observer captures only while its patch is in place: it becomes active
\* after the last write of an install and inactive before the first write of
\* a removal, whatever failed in between.
ActiveOnlyWhileHooked == activeObserver => memory[1] = "replacement" /\ installed

\* stop() makes the observer quiet, also when its removal fails and the call site
\* goes on leading every frame into the callback: no frame that looks for the
\* observer after stop() deactivated it captures, and none that looks for the
\* listener after stop() took it is delivered.  Only a frame that had decided
\* before may still be inside.  Until then the listener is given each snapshot at
\* most once and in the order of their numbers: the controller drops others.
QuietAfterStop ==
    [][/\ sequence' # sequence => ~frame.late
       /\ delivered' # delivered => delivered' > delivered /\ ~frame.late]_vars
=============================================================================
