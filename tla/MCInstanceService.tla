------------------------- MODULE MCInstanceService -------------------------
(* Two instances, so that one can be made by a call that fails while the    *)
(* other is in use, and three polls, so that a wait can go on and give up.  *)
EXTENDS InstanceService
=============================================================================
