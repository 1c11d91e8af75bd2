---------------------------- MODULE MCDiscovery -----------------------------
(***************************************************************************)
(* Discovery for TLC: two processes, one domain to probe, a manual rule    *)
(* for another; FAKE does not get through.  And the strategy.conf texts    *)
(* RulesAsWritten reads.                                                   *)
(***************************************************************************)
EXTENDS Discovery, SequencesExt

A == <<"a", "com">>
C == <<"c", "com">>
MCDomains == {A}
MCWorks == [n \in Nets \cup {NETFP_UNKNOWN} |-> IF n \in Nets THEN {<<"PASS">>, <<"SPLIT">>, <<"DISORDER">>} ELSE {}]
MCConf == <<Section("domains"), KeyValue(TRUE, C, <<"FAKE">>, -1)>>
MCProfile == <<[domain |-> C, names |-> <<"SPLIT">>, fingerprint |-> "n1", validated_at |-> 0],
               [domain |-> A, names |-> <<"SPLIT", "DISORDER">>, fingerprint |-> "n1",
                validated_at |-> 0]>>
Symmetry == Permutations(Probers)

\* Texts of up to four lines: both sections' keys, a suffix and a longer one,
\* chains the whitelist knows, collapses and refuses.
Lines == {Section("domains"), Section("other"),
          KeyValue(FALSE, A, <<"SPLIT">>, -1), KeyValue(FALSE, A, <<"SPLIT", "DISORDER">>, -1),
          KeyValue(FALSE, A, <<"FAKE", "FAKE">>, -1),
          KeyValue(TRUE, <<"com">>, <<"FAKE">>, -1), KeyValue(TRUE, A, <<"FAKE", "SPLIT">>, -1)}

\* Where line i of a text is a rule that parses.
IsRule(text, i) ==
    /\ text[i].section = "" /\ strategy_chain_from_string(text[i].names) # {}
    /\ \E j \in 1..(i - 1) : /\ text[j] = Section("domains")
                             /\ \A k \in (j + 1)..(i - 1) : text[k].section = ""

\* The lines for a domain: those for it, else those for a suffix of it.
LinesFor(text, d) ==
    LET rules == {i \in DOMAIN text : IsRule(text, i)}
        exact == {i \in rules : ~text[i].suffix /\ text[i].key = d}
    IN  IF exact # {} THEN exact
        ELSE {i \in rules : text[i].suffix /\ IsSuffix(text[i].key, d)}

Longest(text, lines) ==
    {i \in lines : \A j \in lines : Len(text[j].key) <= Len(text[i].key)}

\* "Exact rule first, then longest-match suffix rule" (strategy.h:88), each with
\* the chain of its last line.
ExpectedRule(text, d) ==
    LET named == Longest(text, LinesFor(text, d))
    IN  IF named = {} THEN {} ELSE strategy_chain_from_string(text[Max(named)].names)

\* A text that names a suffix of the domain before a longer one.
ShorterFirst(text, d) ==
    LET lines == LinesFor(text, d) IN lines # {} /\ Min(lines) \notin Longest(text, lines)

\* What is done with d under a strategy.conf: a rule as documented, else the chain
\* discovered on this network (here within a TTL of zero), else the default.
AsDocumented(text, d) ==
    LET rule == ExpectedRule(text, d)
        found == {e \in {file[x] : x \in DOMAIN file \cap {d}} :
                    e.fingerprint = net /\ net # NETFP_UNKNOWN /\ e.validated_at = now}
    IN  strategy_resolve_chain(strategy_config_parse(strategy_config_init, text),
                               file, net, now, d)
          \in IF rule # {} THEN rule
              ELSE IF found # {} THEN {e.chain : e \in found} ELSE {<<"PASS">>}

\* A probe that is alone and about to read the file: each file comes by here.
Begins ==
    /\ engines[Service] = "none"
    /\ \E p \in Probers : probers[p].pc = "ctl" /\ \A q \in Probers \ {p} : ~Running(q)

\* Every small strategy.conf decides what is done with a domain as strategy.h
\* says, whatever discoveries the cache file holds by then, but for one that
\* names a suffix before a longer one.
RulesAsWritten ==
    Begins => \A text \in UNION {[1..n -> Lines] : n \in 0..4}, d \in {A, C} :
                 ShorterFirst(text, d) \/ AsDocumented(text, d)

\* Not so of those: strategy_has_explicit_rule() takes the first suffix that
\* matches, not the longest.
LongestSuffixWins ==
    Begins => \A text \in UNION {[1..n -> Lines] : n \in 0..4}, d \in {A, C} :
                 AsDocumented(text, d)

=============================================================================
