--------------------------- MODULE MCPacketEngine ---------------------------
(***************************************************************************)
(* PacketEngine for TLC: an IPv4 connection of three bytes and an IPv6 one *)
(* that only opens, over a table of one flow.                              *)
(***************************************************************************)
EXTENDS PacketEngine

MCStreamLen == [k \in Keys |-> IF k \in V6Keys THEN 0 ELSE 3]
MCISNs == {1}
\* <<"SPLIT", "FAKE">> may inject what any other split may.
MCChains == {<<"PASS">>, <<"FAKE">>, <<"FRAGMENT">>, <<"SPLIT", "FAKE">>}

=============================================================================
