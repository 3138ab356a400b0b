--------------------------- MODULE MCApiLifecycle ---------------------------
(* Three initialisations: enough for a failed one, a successful one, and    *)
(* one after a free or over a structure that is still usable.               *)
EXTENDS ApiLifecycle
=============================================================================
