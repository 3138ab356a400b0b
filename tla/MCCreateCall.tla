---------------------------- MODULE MCCreateCall ----------------------------
(* Two parameters of the client: a copy can fail on the first one, with     *)
(* nothing copied before it, and on the second one, with something.         *)
EXTENDS CreateCall
=============================================================================
