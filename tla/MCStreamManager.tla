-------------------------- MODULE MCStreamManager ---------------------------
(* Instance of StreamManager for TLC: two supported URLs and one that is not. *)
EXTENDS StreamManager

MCUrls == {"a", "b", "file"}
MCSupported == {"a", "b"}
MCVolumes == {40, 150}
=============================================================================
