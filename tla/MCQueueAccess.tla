--------------------------- MODULE MCQueueAccess ---------------------------
(***************************************************************************)
(* Requests on their way to a queue on a small instance, for TLC.          *)
(***************************************************************************)
EXTENDS QueueAccess, TLC

AccessSymmetry == Permutations(Request) \cup Permutations(Name)
=============================================================================
