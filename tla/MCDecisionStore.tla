--------------------------- MODULE MCDecisionStore --------------------------
(***************************************************************************)
(* DecisionStore for TLC: three hosts competing for two table slots, one   *)
(* of the two networks unknown.                                            *)
(***************************************************************************)
EXTENDS DecisionStore, TLC

CONSTANTS h1, h2, h3

MCHosts == {h1, h2, h3}
MCFamilies == {4}
MCNets == {"A"}
MCLearnSteps == {direct, step_of("ORIGINAL", "TLSREC")}
Line(h, n, s, t) == [host |-> h, fp |-> n, family |-> 4, step |-> s, validated_at |-> t]
TlsRec == step_of("ORIGINAL", "TLSREC")

\* No file, or one with a key twice, a line that is refused and more hosts than fit.
MCEditedFiles ==
    {{}} \cup {{Line(g, "A", TlsRec, 0) : g \in MCHosts} \cup
               {Line(h, "A", TlsRec, 1), Line(h, "A", direct, 0)} : h \in MCHosts}
Symmetry == Permutations(MCHosts)

=============================================================================
