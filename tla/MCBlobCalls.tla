---------------------------- MODULE MCBlobCalls ----------------------------
(* Two entries: an append or a realloc can fail with nothing before it and  *)
(* with something, and lines of two kinds meet in one answer.               *)
EXTENDS BlobCalls
=============================================================================
