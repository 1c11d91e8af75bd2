------------------------------ MODULE Strategy ------------------------------
(***************************************************************************)
(* strategy.conf and the discovery cache as pure functions: parsing a      *)
(* configuration, choosing a domain's chain, the fixed ladder of           *)
(* candidates, the cache's entries (strategy.c, cache.c, ladder.c).        *)
(*                                                                         *)
(* A domain is the sequence of its labels, in lower case.  A line of       *)
(* strategy.conf is a section header or a key and a value: the key's       *)
(* labels and whether it began with a dot, the names of the value joined   *)
(* by '+', and the number the value reads as (-1: none).                   *)
(***************************************************************************)
EXTENDS Integers, Sequences, FiniteSets, Functions

CONSTANTS
    STRATEGY_MAX_DOMAINS, DISCOVERY_CACHE_MAX,
    DISCOVERY_CACHE_FILE,       \* entries that fit in the 16 KB file buffer
    DISCOVERY_CACHE_DEFAULT_TTL_SECONDS,
    NETFP_UNKNOWN

STRATEGY_CHAIN_MAX == 2
STRATEGY_DEFAULT_FAKE_TTL == 8

Section(name) == [section |-> name]
KeyValue(suffix, key, names, num) ==
    [section |-> "", suffix |-> suffix, key |-> key, names |-> names, num |-> num]

-----------------------------------------------------------------------------
(* strategy.c                                                              *)

strategy_from_name ==
    {"PASS", "SPLIT", "DISORDER", "FAKE", "FRAGMENT", "TLSREC", "TLSREC_SPLIT"}

strategy_chain_is_safe(chain) ==
    \/ Len(chain) = 1
    \/ chain \in {<<"FAKE", "SPLIT">>, <<"SPLIT", "FAKE">>}

\* The chain the names stand for, as a set of at most one.
strategy_chain_from_string(names) ==
    LET chain == IF names = <<"SPLIT", "DISORDER">> THEN <<"DISORDER">> ELSE names
    IN  IF /\ Len(names) \in 1..STRATEGY_CHAIN_MAX
           /\ \A i \in DOMAIN names : names[i] \in strategy_from_name
           /\ strategy_chain_is_safe(chain)
        THEN {chain} ELSE {}

strategy_config_init ==
    [default |-> "PASS", fake_ttl |-> STRATEGY_DEFAULT_FAKE_TTL, rules |-> <<>>]

\* Mutant: a repeated key is appended after the first.
set_domain_rule_appends(cfg, suffix, key, chain) ==
    [cfg EXCEPT !.rules =
        Append(@, [suffix |-> suffix, domain |-> key, chain |-> chain])]

\* A repeated key overwrites its rule in place; a full table refuses a new one.
set_domain_rule(cfg, suffix, key, chain) ==
    LET same == {i \in DOMAIN cfg.rules :
                    cfg.rules[i].domain = key /\ cfg.rules[i].suffix = suffix}
    IN  IF same # {}
          THEN [cfg EXCEPT !.rules =
                  [i \in DOMAIN @ |-> IF i \in same THEN [@[i] EXCEPT !.chain = chain] ELSE @[i]]]
        ELSE IF Len(cfg.rules) >= STRATEGY_MAX_DOMAINS THEN cfg
        ELSE [cfg EXCEPT !.rules =
                Append(@, [suffix |-> suffix, domain |-> key, chain |-> chain])]

\* Outside [domains] only two keys mean anything; a value out of range leaves
\* fake_ttl as it was.
ParseOption(cfg, line) ==
    CASE line.key = <<"fake_ttl">> /\ ~line.suffix ->
            IF line.num \in 1..255 THEN [cfg EXCEPT !.fake_ttl = line.num] ELSE cfg
      [] line.key = <<"default">> /\ ~line.suffix ->
            IF Len(line.names) = 1 /\ line.names[1] \in strategy_from_name
            THEN [cfg EXCEPT !.default = line.names[1]] ELSE cfg
      [] OTHER -> cfg

\* Inside [domains] every key is a domain; a bad chain skips the line.
ParseRule(cfg, line) ==
    LET chains == strategy_chain_from_string(line.names)
    IN  IF chains = {} THEN cfg
        ELSE set_domain_rule(cfg, line.suffix, line.key, CHOOSE c \in chains : TRUE)

\* Never fails: a line that means nothing is skipped.
strategy_config_parse(cfg, lines) ==
    LET after[n \in 0..Len(lines)] ==
            IF n = 0 THEN [cfg |-> cfg, in_domains |-> FALSE]
            ELSE LET st == after[n - 1]
                     line == lines[n]
                 IN  IF line.section # "" THEN [st EXCEPT !.in_domains = line.section = "domains"]
                     ELSE IF st.in_domains THEN [st EXCEPT !.cfg = ParseRule(@, line)]
                     ELSE [st EXCEPT !.cfg = ParseOption(@, line)]
    IN  after[Len(lines)].cfg

\* On a label boundary, the domain itself included.
suffix_match(domain, suffix) ==
    /\ Len(suffix) <= Len(domain)
    /\ SubSeq(domain, Len(domain) - Len(suffix) + 1, Len(domain)) = suffix

\* The rule for a domain, as a set of at most one: the exact one, else the first
\* suffix that matches.
strategy_has_explicit_rule(cfg, domain) ==
    LET exact == {i \in DOMAIN cfg.rules :
                    ~cfg.rules[i].suffix /\ cfg.rules[i].domain = domain}
        suffix == {i \in DOMAIN cfg.rules :
                    cfg.rules[i].suffix /\ suffix_match(domain, cfg.rules[i].domain)}
        First(S) == {cfg.rules[i].chain : i \in {j \in S : \A k \in S : j <= k}}
    IN  IF exact # {} THEN First(exact) ELSE First(suffix)

-----------------------------------------------------------------------------
(* cache.c: a cache is a function on the domains it has an entry for.      *)

discovery_cache_init == <<>>

discovery_cache_set(cache, domain, chain, fingerprint, now) ==
    IF domain \notin DOMAIN cache /\ Cardinality(DOMAIN cache) >= DISCOVERY_CACHE_MAX
    THEN cache
    ELSE [d \in DOMAIN cache \cup {domain} |->
            IF d = domain
            THEN [chain |-> chain, fingerprint |-> fingerprint, validated_at |-> now]
            ELSE cache[d]]

\* The entry to use, as a set of at most one: of this network, no older than the
\* TTL, and not from the future.
discovery_cache_lookup(cache, domain, fingerprint, now) ==
    {e \in {cache[d] : d \in DOMAIN cache \cap {domain}} :
        /\ fingerprint # NETFP_UNKNOWN /\ e.fingerprint = fingerprint
        /\ now - e.validated_at <= DISCOVERY_CACHE_DEFAULT_TTL_SECONDS
        /\ now >= e.validated_at}

\* All of the cache or, past the buffer, nothing.
discovery_cache_serialize_fits(cache) ==
    Cardinality(DOMAIN cache) <= DISCOVERY_CACHE_FILE

\* The lines of a profile merged into a cache one after the other, the later of
\* two entries for a domain staying; each line holds an entry's domain, chain,
\* fingerprint and time.
discovery_cache_parse(cache, lines) ==
    LET chain(n) == strategy_chain_from_string(lines[n].names)
        after[n \in 0..Len(lines)] ==
            IF n = 0 THEN cache
            ELSE IF chain(n) = {} THEN after[n - 1]
            ELSE discovery_cache_set(after[n - 1], lines[n].domain,
                                     CHOOSE x \in chain(n) : TRUE,
                                     lines[n].fingerprint, lines[n].validated_at)
    IN  after[Len(lines)]

\* A rule of strategy.conf, else a cached discovery of this network, else the
\* default.
strategy_resolve_chain(cfg, cache, fingerprint, now, domain) ==
    LET rule == strategy_has_explicit_rule(cfg, domain)
        found == discovery_cache_lookup(cache, domain, fingerprint, now)
    IN  IF rule # {} THEN CHOOSE c \in rule : TRUE
        ELSE IF found # {} THEN (CHOOSE e \in found : TRUE).chain
        ELSE <<cfg.default>>

-----------------------------------------------------------------------------
\* ladder.c: the candidates, least invasive first.
g_discovery_ladder ==
    << <<"PASS">>, <<"SPLIT">>, <<"FAKE">>, <<"DISORDER">>, <<"FRAGMENT">>,
       <<"FAKE", "SPLIT">>, <<"SPLIT", "FAKE">> >>

=============================================================================
