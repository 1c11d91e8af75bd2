----------------------------- MODULE MCTpDaemon -----------------------------
(***************************************************************************)
(* TpDaemon for TLC: one host, one network and its absence, two            *)
(* connection threads.                                                     *)
(***************************************************************************)
EXTENDS TpDaemon, TLC

CONSTANTS c1, c2

MCConns == {c1, c2}
MCOneConn == {c1}
MCNets == {"A"}
MCIPv4 == {4}
MCBothFamilies == {4, 6}
Symmetry == Permutations(MCConns)

=============================================================================
