----------------------------- MODULE DecisionLog ----------------------------
(***************************************************************************)
(* DryRunRadioActionSink::considerLogging and logPlan, as a function of    *)
(* what the sink holds: what becomes of a plan of the controller.  A plan  *)
(* that comes too early waits, until a later call finds its time come.     *)
(***************************************************************************)
EXTENDS RadioDecision

CONSTANTS
  MinimumLogInterval,          \* minimumLogInterval_, in clock units
  MaximumDecisionLogMessages   \* maximumDecisionLogMessages

ASSUME DecisionLogAssumption ==
  /\ MinimumLogInterval \in Nat \ {0}
  /\ MaximumDecisionLogMessages \in Nat \ {0}

\* last, pending: lastLogged_ and pendingLog_; age: now - lastLogTime_, up to the
\* interval; count: loggedMessages_; quiet: history, the time since the last message.
NewLog == [last |-> None, pending |-> None, age |-> 0, count |-> 0, quiet |-> 0]

\* sameRadioActionTransition compares everything but the sequence and the settings of the station.
Transition(plan) ==
  [action |-> plan.action, reason |-> plan.reason, binding |-> plan.binding,
   volume |-> plan.volume, online |-> plan.online]

\* Mutant: logPlan forgets to take the time.
LogPlanUntimed(log, transition) ==
  IF log.count >= MaximumDecisionLogMessages THEN log
  ELSE [log EXCEPT !.last = transition, !.count = @ + 1, !.quiet = 0]

\* Nothing past the limit, and the time of the message is taken anew.
LogPlan(log, transition) ==
  IF log.count >= MaximumDecisionLogMessages THEN log
  ELSE [log EXCEPT !.last = transition, !.age = 0, !.count = @ + 1, !.quiet = 0]

FlushPending(log) ==
  IF log.pending # None /\ log.age >= MinimumLogInterval
  THEN [LogPlan(log, log.pending) EXCEPT !.pending = None] ELSE log

\* considerLogging: the pending plan first, then the new one, compared with what was
\* logged last; a plan that comes too early replaces the pending one.
ConsiderLogging(log, plan) ==
  LET flushed == FlushPending(log)
      transition == Transition(plan)
  IN  IF log.count >= MaximumDecisionLogMessages THEN log
      ELSE IF plan.action = "none" \/ transition = flushed.last THEN flushed
      ELSE IF flushed.last # None /\ flushed.age < MinimumLogInterval
        THEN [flushed EXCEPT !.pending = transition]
      ELSE LogPlan(flushed, transition)

=============================================================================
