---------------------------- MODULE MCStreamProbe ----------------------------
(* Instance of StreamProbe for TLC: one playable URL and one that is refused. *)
EXTENDS StreamProbe

MCUrls == {"radio", "file"}
MCSupported == {"radio"}
MCVolumes == {40}
=============================================================================
