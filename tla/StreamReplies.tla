---------------------------- MODULE StreamReplies ---------------------------
(***************************************************************************)
(* What StreamManager may answer to a call, and the stream its callers are *)
(* to believe in afterwards.  StreamContract, which StreamManager is shown *)
(* to implement, and GameplayRadio, which relies on it, both take their    *)
(* outcomes from here.                                                     *)
(*                                                                         *)
(* A stream is [media, mode, volume, alive].  Its media is what was asked  *)
(* for, not what a playlist has led to; "alive" is the native player's: a  *)
(* stream can end or fail on its own, and nobody is called.                *)
(***************************************************************************)
CONSTANT None

NoStream == [media |-> None, mode |-> "stopped", volume |-> None, alive |-> FALSE]

Playing(media, volume) ==
  [media |-> media, mode |-> "playing", volume |-> volume, alive |-> TRUE]

Paused(current) == [current EXCEPT !.mode = "paused"]

\* A resumed stream is as alive as it was when it was paused; one that was not paused is
\* started again.
Resumed(current) ==
  [current EXCEPT !.mode = "playing", !.alive = current.alive \/ current.mode = "playing"]

WithVolume(current, volume) ==
  IF current.media = None THEN current ELSE [current EXCEPT !.volume = volume]

Outcome(result, current) == [result |-> result, stream |-> current]

\* A refused call leaves the stream as it is.
OrRefused(current, outcomes) == outcomes \cup {Outcome("failed", current)}

\* What was asked for plays at the volume that was asked for, or nothing does.
StartReplies(media, volume) ==
  {Outcome("ok", Playing(media, volume)), Outcome("failed", NoStream)}

\* Only a stream that is there can be paused or resumed.
ModeReplies(current, changed) ==
  OrRefused(current, IF current.media = None THEN {} ELSE {Outcome("ok", changed)})

VolumeReplies(current, volume) == OrRefused(current, {Outcome("ok", WithVolume(current, volume))})

BufferReplies(current) == OrRefused(current, {Outcome("ok", current)})
=============================================================================
