----------------------- MODULE MCClientThreadsRespecter -----------------------
(***************************************************************************)
(* ClientThreadsRespecter with three threads, any of which may be handed a *)
(* client, of up to two clients each.  The threads are interchangeable,    *)
(* which the run without a liveness property makes use of.                 *)
(***************************************************************************)
EXTENDS ClientThreadsRespecter, TLC

Symmetry == Permutations(Threads)
=============================================================================
