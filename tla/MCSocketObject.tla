--------------------------- MODULE MCSocketObject ---------------------------
(***************************************************************************)
(* Instances of NkeSocketObject for TLC: the events of a run.              *)
(***************************************************************************)
EXTENDS NkeSocketObject

DetachOnly == {"detach"}
=============================================================================
