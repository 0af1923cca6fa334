--------------------------- MODULE AudioHandover ---------------------------
(***************************************************************************)
(* What the gameplay executor promises, whatever fails underneath it: the  *)
(* game's own radio is touched only while an online stream is open, it is  *)
(* given back only once no stream is open, and an executor that has failed *)
(* never opens a stream again.                                             *)
(***************************************************************************)
CONSTANTS
  Stations,
  None

VARIABLES
  online,  \* the station whose stream is open, or None
  owed,    \* the original radio may be muted and is owed a restore
  latched  \* the executor has failed closed

vars == <<online, owed, latched>>

Init ==
  /\ online = None
  /\ owed = FALSE
  /\ latched = FALSE

\* A start, or a switch away from the open stream.
Open(station) ==
  /\ ~latched
  /\ online' = station
  /\ UNCHANGED <<owed, latched>>

Close ==
  /\ online' = None
  /\ UNCHANGED <<owed, latched>>

\* The mute is requested, and from here on a restore is owed.
Suppress ==
  /\ ~latched
  /\ online # None
  /\ owed' = TRUE
  /\ UNCHANGED <<online, latched>>

\* The attempt to restore; it settles the debt or not, and may latch.
GiveBack ==
  /\ online = None
  /\ owed' \in {owed, FALSE}
  /\ latched' \in {latched, TRUE}
  /\ UNCHANGED online

Next ==
  \/ \E station \in Stations : Open(station)
  \/ Close
  \/ Suppress
  \/ GiveBack

Spec == Init /\ [][Next]_vars

=============================================================================
