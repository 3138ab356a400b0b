-------------------------- MODULE MCResourceTrees --------------------------
(* Up to two elements below each one: a failure with a sibling before it,   *)
(* below a parent with a sibling before it, and the same the other way.     *)
EXTENDS ResourceTrees
=============================================================================
