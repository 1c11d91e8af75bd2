---------------------------- MODULE MCQuicBlock -----------------------------
(***************************************************************************)
(* QuicBlock for TLC: interchangeable threads.                             *)
(***************************************************************************)
EXTENDS QuicBlock, TLC

CONSTANTS t1, t2

MCTwoThreads == {t1, t2}
Symmetry == Permutations(Threads)

=============================================================================
