---------------------------- MODULE MCAsyncPool ----------------------------
(***************************************************************************)
(* AsyncPool for TLC.  Pools of one and of two threads, every combination  *)
(* of overflow policies, and queues of several sizes are initial states.   *)
(***************************************************************************)
EXTENDS AsyncPool, TLC

Symmetry == Permutations(Clients) \cup Permutations(Workers)

=============================================================================
