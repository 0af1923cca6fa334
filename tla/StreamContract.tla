--------------------------- MODULE StreamContract ---------------------------
(***************************************************************************)
(* What StreamManager promises its callers, whatever backend it drives:    *)
(* one stream at most, and a Boolean answer that tells what became of it.  *)
(***************************************************************************)
EXTENDS Integers, StreamReplies

CONSTANTS Urls, Volumes

VARIABLES
  stream, \* the stream callers believe in
  call,   \* the last call and what it asked for: [operation, media, volume]
  reply   \* the answer to it

vars == <<stream, call, reply>>

Asked(operation, media, volume) ==
  [operation |-> operation, media |-> media, volume |-> volume]

Init == stream = NoStream /\ call = Asked("none", None, None) /\ reply = "ok"

\* A volume is a percentage; what is beyond is the nearest one.
Clamp(volume) == IF volume > 100 THEN 100 ELSE IF volume < 0 THEN 0 ELSE volume

\* The call is answered with one of the outcomes.
Answer(operation, media, volume, outcomes) ==
  /\ call' = Asked(operation, media, volume)
  /\ \E outcome \in outcomes : reply' = outcome.result /\ stream' = outcome.stream

Start(url, volume) == Answer("start", url, volume, StartReplies(url, Clamp(volume)))

\* The stream there is starts over.  Where there is none, the last one that was asked for
\* may come back, or nothing.
Reconnect ==
  \E url \in Urls, volume \in {Clamp(v) : v \in Volumes} \cup {100} :
    /\ stream.media # None => url = stream.media /\ volume = stream.volume
    /\ Answer("reconnect", None, None, StartReplies(url, volume))

Pause == Answer("pause", None, None, ModeReplies(stream, Paused(stream)))

Resume == Answer("resume", None, None, ModeReplies(stream, Resumed(stream)))

SetVolume(volume) ==
  Answer("setVolume", None, volume, VolumeReplies(stream, Clamp(volume)))

SetBuffer == Answer("setBuffer", None, None, BufferReplies(stream))

Stop == Answer("stop", None, None, {Outcome("ok", NoStream)})

\* The stream ends or fails; nobody is told.
Die == stream.alive /\ stream' = [stream EXCEPT !.alive = FALSE] /\ UNCHANGED <<call, reply>>

Next ==
  \/ \E url \in Urls, volume \in Volumes : Start(url, volume)
  \/ \E volume \in Volumes : SetVolume(volume)
  \/ Reconnect \/ Pause \/ Resume \/ SetBuffer \/ Stop \/ Die

Spec == Init /\ [][Next]_vars
=============================================================================
