--------------------------- MODULE MCDnsResolver ----------------------------
(***************************************************************************)
(* DnsResolver for TLC: two workers, one DoH server and one fallback       *)
(* server, a cache of two slots, a pool of one.                            *)
(***************************************************************************)
EXTENDS DnsResolver, TLC

Reply(match, rcode, whole, ttls) ==
    [match |-> match, tc |-> FALSE, rcode |-> rcode, whole |-> whole, ttls |-> ttls]

\* An answer, no such name, and a refusal.
MCReplies == {Reply(TRUE, 0, TRUE, {1}), Reply(TRUE, 3, TRUE, {}), Reply(TRUE, 5, TRUE, {})}

Symmetry == Permutations(Workers)

=============================================================================
