----------------------------- MODULE Discovery ------------------------------
(***************************************************************************)
(* dpictl probe: the packet service stopped for the duration, --probe      *)
(* walking the ladder with a scoped engine for each attempt, the discovery *)
(* cache file rewritten with what worked (dpictl, main_packet.c, ladder.c, *)
(* probe_runner.c, cache.c).  A prober is one such run, and several may    *)
(* overlap.  All engines share one nftables table and one queue.           *)
(***************************************************************************)
EXTENDS Strategy

CONSTANTS
    Probers,                    \* runs of dpictl probe, or of an import
    Domains, Nets,
    Works,                      \* the chains that get through, by network
    Conf,                       \* the lines of strategy.conf
    Profile,                    \* the lines of a profile to import
    DISCOVERY_LADDER_LEN,       \* how much of g_discovery_ladder is walked
    DISCOVERY_MAX_ATTEMPTS_PER_CANDIDATE,
    Times                       \* when it may be; probes are short beside the TTL

ASSUME DiscoveryAssumption ==
    /\ "service" \notin Probers /\ "nobody" \notin Probers    \* Service, Nobody
    /\ NETFP_UNKNOWN \notin Nets
    /\ Works \in [Nets \cup {NETFP_UNKNOWN} -> SUBSET Range(g_discovery_ladder)]
    /\ DISCOVERY_LADDER_LEN \in 1..Len(g_discovery_ladder)
    /\ DISCOVERY_MAX_ATTEMPTS_PER_CANDIDATE \in Nat \ {0} /\ Times \subseteq Nat
    /\ Len(Profile) \in Nat

VARIABLES
    probers,        \* each probe: where it is and its local variables
    engines,        \* each engine process: "none", "loaded", "applied", "run", "term",
                    \* "exiting"
    table,          \* the table inet dpi_proxy is there
    queue,          \* the engine bound to the queue number, or Nobody
    file,           \* discovery-cache.conf
    net, now,       \* the network the machine is on, the time
    wanted,         \* the packet service is meant to be running
    during,         \* history: the service was last started while a probe was on
    stale           \* history: the processes whose copy of the file is not what it holds:
                    \* they could not read it, or another has saved since

vars == <<probers, engines, table, queue, file, net, now, wanted, during, stale>>

Service == "service"
Nobody == "nobody"

Cfg == strategy_config_parse(strategy_config_init, Conf)

Idle == [pc |-> "idle", domain |-> CHOOSE d \in Domains : TRUE, restart |-> FALSE,
         fp |-> NETFP_UNKNOWN, cache |-> discovery_cache_init,
         ladder_idx |-> 0, attempt |-> 0, result |-> "NONE"]

Init ==
    /\ probers = [p \in Probers |-> Idle]
    /\ engines = [e \in Probers \cup {Service} |-> "none"]
    /\ table = FALSE /\ queue = Nobody
    /\ file \in {discovery_cache_init, discovery_cache_parse(discovery_cache_init, Profile)}
    /\ net \in Nets /\ now \in Times /\ wanted \in BOOLEAN
    /\ during = FALSE /\ stale = {}

-----------------------------------------------------------------------------
(* An engine process, the packet service's or a probe's own: the states    *)
(* nfqueue_engine_run() goes through.                                      *)

Running(p) == probers[p].pc \notin {"idle", "exited"}

Quiet == \A p \in Probers : ~Running(p)

\* From run_probe to the last attempt's clean-up.
Probing(p) == probers[p].pc \in {"ctl", "cmd", "probe", "check", "kill", "reap", "clean"}

Gone(e) == queue' = IF queue = e THEN Nobody ELSE queue

EngineIs(e, s) == engines' = [engines EXCEPT ![e] = s]

\* systemd starts the service, and again after it failed.
service_starts ==
    /\ wanted /\ engines[Service] = "none" /\ EngineIs(Service, "loaded")
    /\ during' = \E p \in Probers : Probing(p)
    /\ UNCHANGED <<probers, table, queue, file, net, now, wanted, stale>>

\* The old table is deleted first, whoever created it; creating the new one may fail.
nft_rules_apply(e) ==
    /\ engines[e] = "loaded"
    /\ \/ table' = TRUE /\ EngineIs(e, "applied")
       \/ table' = FALSE /\ EngineIs(e, "none")
    /\ UNCHANGED <<probers, queue, file, net, now, wanted, during, stale>>

\* nfq_open() and nfq_create_queue(): the queue has one owner.  An engine that
\* does not get it takes the table down again and exits.
nfq_create_queue(e) ==
    /\ engines[e] = "applied"
    /\ \/ queue = Nobody /\ queue' = e /\ EngineIs(e, "run") /\ UNCHANGED table
       \/ table' = FALSE /\ EngineIs(e, "none") /\ UNCHANGED queue
    /\ UNCHANGED <<probers, file, net, now, wanted, during, stale>>

\* The loop ends, on recv() failing or once it sees g_stop, which may take a
\* packet; the queue is given up.
nfq_destroy_queue(e) ==
    /\ engines[e] \in {"run", "term"} /\ EngineIs(e, "exiting") /\ Gone(e)
    /\ UNCHANGED <<probers, table, file, net, now, wanted, during, stale>>

engine_exits(e) ==
    /\ engines[e] = "exiting" /\ EngineIs(e, "none") /\ table' = FALSE
    /\ UNCHANGED <<probers, queue, file, net, now, wanted, during, stale>>

\* SIGTERM: before the handler is installed it just kills.
Terminated(s) == CASE s \in {"loaded", "applied"} -> "none"
                   [] s = "run" -> "term"
                   [] OTHER -> s

-----------------------------------------------------------------------------
(* dpictl run_probe, and cmd_probe().                                      *)

ProberIs(p, r) == probers' = [probers EXCEPT ![p] = r]

\* discovery_cache_load_file(): a file that cannot be opened or read leaves the
\* cache empty, and its caller goes on with that.
discovery_cache_load_file(f) == {f, discovery_cache_init}

Loaded(p, cache) == stale' = IF cache = file THEN stale \ {p} ELSE stale \cup {p}

\* The other processes that have read the file and have yet to save.
Holding(p) ==
    {q \in Probers \ {p} : probers[q].pc \in {"probe", "check", "kill", "reap", "clean", "save"}}

\* What is left to do: save a cache, and start the service again.
Saving(cache, restart) == [Idle EXCEPT !.pc = "save", !.cache = cache, !.restart = restart]

Ended(r) == [Idle EXCEPT !.pc = "end", !.restart = r.restart]

\* Mutant: the service keeps running during a probe.
run_probe_alongside(p, d) ==
    /\ probers[p].pc = "idle"
    /\ ProberIs(p, [Idle EXCEPT !.pc = "cmd", !.domain = d])
    /\ UNCHANGED <<engines, table, queue, file, net, now, wanted, during, stale>>

\* An active service is stopped first.
run_probe(p, d) ==
    LET active == wanted /\ engines[Service] # "none" IN
    /\ probers[p].pc = "idle"
    /\ ProberIs(p, [Idle EXCEPT !.pc = "ctl", !.domain = d, !.restart = active])
    /\ engines' = [engines EXCEPT ![Service] = IF active THEN Terminated(@) ELSE @]
    /\ wanted' = (wanted /\ ~active)
    /\ UNCHANGED <<table, queue, file, net, now, during, stale>>

\* systemctl stop, if it was called, returns; past TimeoutStopSec systemd has sent SIGKILL.
systemctl_stopped(p) ==
    /\ probers[p].pc = "ctl"
    /\ IF probers[p].restart /\ engines[Service] \in {"term", "exiting"}
         THEN EngineIs(Service, "none") /\ Gone(Service)
         ELSE UNCHANGED <<engines, queue>>
    /\ ProberIs(p, [probers[p] EXCEPT !.pc = "cmd"])
    /\ UNCHANGED <<table, file, net, now, wanted, during, stale>>

\* Mutant: the result goes into an empty cache.
cmd_probe_forgets(p, force) ==
    /\ probers[p].pc = "cmd"
    /\ ProberIs(p, [probers[p] EXCEPT !.pc = "probe", !.fp = net, !.ladder_idx = 1])
    /\ stale' = stale \ {p}
    /\ UNCHANGED <<engines, table, queue, file, net, now, wanted, during>>

\* Up to the ladder.  The cache, the fingerprint and the time read here are the
\* ones the result is saved with.
cmd_probe(p, force) ==
    LET r == probers[p]
        manual == strategy_has_explicit_rule(Cfg, r.domain) # {}
    IN  /\ r.pc = "cmd"
        /\ \/ manual /\ ProberIs(p, Ended(r)) /\ UNCHANGED stale
           \/ \E cache \in discovery_cache_load_file(file) :
                LET fresh == discovery_cache_lookup(cache, r.domain, net, now) # {} IN
                /\ ~manual /\ Loaded(p, cache)
                /\ ProberIs(p, IF ~force /\ fresh THEN Ended(r)
                               ELSE [r EXCEPT !.pc = "probe", !.cache = cache, !.fp = net,
                                              !.ladder_idx = 1])
        /\ UNCHANGED <<engines, table, queue, file, net, now, wanted, during>>

\* discovery_run(): what follows an attempt's result.
discovery_run(r, result) ==
    LET next == [r EXCEPT !.ladder_idx = @ + 1, !.attempt = 0, !.result = "NONE"]
    IN  IF result = "SUCCESS"
          THEN Saving(discovery_cache_set(r.cache, r.domain,
                        g_discovery_ladder[r.ladder_idx], r.fp, now), r.restart)
        ELSE IF result # "LOCAL_ERROR" /\ r.attempt + 1 < DISCOVERY_MAX_ATTEMPTS_PER_CANDIDATE
          THEN [r EXCEPT !.pc = "probe", !.attempt = @ + 1, !.result = "NONE"]
        ELSE IF r.ladder_idx < DISCOVERY_LADDER_LEN THEN [next EXCEPT !.pc = "probe"]
        ELSE Ended(r)

\* write_temp_config() and start_scoped_engine(); either may fail.
start_scoped_engine(p) ==
    LET r == probers[p] IN
    /\ r.pc = "probe"
    /\ \/ EngineIs(p, "loaded") /\ ProberIs(p, [r EXCEPT !.pc = "check"])
       \/ UNCHANGED engines /\ ProberIs(p, discovery_run(r, "LOCAL_ERROR"))
    /\ UNCHANGED <<table, queue, file, net, now, wanted, during, stale>>

\* What the check's connection meets: p's own engine, no engine, or another one,
\* with rules of its own for the domain.
Effective(p) ==
    IF table /\ queue = p THEN {g_discovery_ladder[probers[p].ladder_idx]}
    ELSE IF ~table \/ queue = Nobody THEN {<<"PASS">>}
    ELSE Range(g_discovery_ladder)

\* 400 ms after the fork, whatever the engine is doing by then.  Success takes a
\* chain that gets through; failure may have any other reason.
run_openssl_check(p, result) ==
    /\ probers[p].pc = "check"
    /\ result = "SUCCESS" => Effective(p) \cap Works[net] # {}
    /\ ProberIs(p, [probers[p] EXCEPT !.pc = "kill", !.result = result])
    /\ UNCHANGED <<engines, table, queue, file, net, now, wanted, during, stale>>

\* stop_scoped_engine(): SIGTERM ...
sigterm(p) ==
    /\ probers[p].pc = "kill" /\ EngineIs(p, Terminated(engines[p]))
    /\ ProberIs(p, [probers[p] EXCEPT !.pc = "reap"])
    /\ UNCHANGED <<table, queue, file, net, now, wanted, during, stale>>

\* ... and waitpid(), after SIGKILL when three seconds were not enough.
reap(p) ==
    /\ probers[p].pc = "reap" /\ EngineIs(p, "none") /\ Gone(p)
    /\ ProberIs(p, [probers[p] EXCEPT !.pc = "clean"])
    /\ UNCHANGED <<table, file, net, now, wanted, during, stale>>

\* Mutant: the engine is trusted to have taken its table down.
nft_rules_remove_skipped(p) ==
    /\ probers[p].pc = "clean" /\ UNCHANGED table
    /\ ProberIs(p, discovery_run(probers[p], probers[p].result))
    /\ UNCHANGED <<engines, queue, file, net, now, wanted, during, stale>>

\* The end of probe_via_live_engine(): the table goes, whoever's it is.
nft_rules_remove(p) ==
    /\ probers[p].pc = "clean" /\ table' = FALSE
    /\ ProberIs(p, discovery_run(probers[p], probers[p].result))
    /\ UNCHANGED <<engines, queue, file, net, now, wanted, during, stale>>

\* discovery_cache_save_file(): fopen("w") leaves an empty file ...
save_opens(p) ==
    LET r == probers[p]
        opens == discovery_cache_serialize_fits(r.cache)
    IN  /\ r.pc = "save"
        /\ \/ /\ opens /\ file' = discovery_cache_init /\ stale' = stale \cup Holding(p)
              /\ ProberIs(p, [r EXCEPT !.pc = "write"])
           \/ UNCHANGED <<file, stale>> /\ ProberIs(p, Ended(r))
        /\ UNCHANGED <<engines, table, queue, net, now, wanted, during>>

\* ... until fwrite() and fclose() have put all of the probe's copy there.
save_writes(p) ==
    /\ probers[p].pc = "write" /\ ProberIs(p, Ended(probers[p]))
    /\ \/ file' = probers[p].cache /\ stale' = stale \cup Holding(p)
       \/ UNCHANGED <<file, stale>>
    /\ UNCHANGED <<engines, table, queue, net, now, wanted, during>>

\* dpictl starts the service it stopped.
run_probe_ends(p) ==
    /\ probers[p].pc = "end" /\ wanted' = (wanted \/ probers[p].restart)
    /\ ProberIs(p, [Idle EXCEPT !.pc = "exited"]) /\ stale' = stale \ {p}
    /\ UNCHANGED <<engines, table, queue, file, net, now, during>>

\* --import-profile: the profile's lines merged into the cache, and saved, unless
\* the profile cannot be opened.
cmd_import_profile(p) ==
    /\ probers[p].pc = "idle"
    /\ \E cache \in discovery_cache_load_file(file) :
          /\ Loaded(p, cache)
          /\ \/ ProberIs(p, Ended(Idle))
             \/ ProberIs(p, Saving(discovery_cache_parse(cache, Profile), FALSE))
    /\ UNCHANGED <<engines, table, queue, file, net, now, wanted, during>>

-----------------------------------------------------------------------------
\* The machine joins another network, or none.
roam(n) ==
    /\ n # net /\ net' = n
    /\ UNCHANGED <<probers, engines, table, queue, file, now, wanted, during, stale>>

EngineStep(e) ==
    nft_rules_apply(e) \/ nfq_create_queue(e) \/ nfq_destroy_queue(e) \/ engine_exits(e)

ProberStep(p) ==
    \/ systemctl_stopped(p) \/ start_scoped_engine(p) \/ sigterm(p) \/ reap(p)
    \/ \E force \in BOOLEAN : cmd_probe(p, force)
    \/ \E result \in {"SUCCESS", "REMOTE_REJECTED", "LOCAL_ERROR"} : run_openssl_check(p, result)
    \/ nft_rules_remove(p) \/ save_opens(p) \/ save_writes(p) \/ run_probe_ends(p)

Next ==
    \/ service_starts
    \/ \E e \in Probers \cup {Service} : EngineStep(e)
    \/ \E p \in Probers : ProberStep(p) \/ cmd_import_profile(p)
    \/ \E p \in Probers, d \in Domains : run_probe(p, d)
    \/ \E n \in Nets \cup {NETFP_UNKNOWN} : roam(n)

Spec == Init /\ [][Next]_vars

-----------------------------------------------------------------------------
\* Every probe's temporary state is gone when it ends (docs/discovery.md): with
\* no probe running no scoped engine is left and, unless the service is up or
\* coming up, neither are the table and the queue, however the engines of
\* probes that overlapped started, failed, were killed or deleted each other's
\* table.  A probe runs to its end here: neither dpictl nor cmd_probe() traps a
\* signal, so one that is killed itself cleans nothing up.
NothingLeftApplied ==
    Quiet => /\ \A p \in Probers : engines[p] = "none"
             /\ queue \in {Service, Nobody}
             /\ ~wanted /\ engines[Service] = "none" => ~table /\ queue = Nobody

\* A service that systemd started while no probe was on filters as long as it
\* runs: it keeps its table and its queue, whatever probes begin, overlap, fail or
\* end around it, since each stops it before its own engines touch either.
ServiceRulesBack ==
    engines[Service] = "run" /\ ~during => table /\ queue = Service

\* A save that empties the cache file is about to write back every domain the
\* file held, unless the process could not read the file or another one has
\* saved since: a probe's attempts, its result and an import's lines lose nothing.
CacheKeepsResults ==
    [][\A p \in Probers \ stale :
          probers[p].pc = "save" /\ probers'[p].pc = "write"
            => DOMAIN file \subseteq DOMAIN probers[p].cache]_vars

-----------------------------------------------------------------------------
(* What the code does not guarantee.                                       *)

\* dpictl stops the service "for the duration" of a probe, but only one that is
\* active: one waiting out RestartSec, or that another probe's end starts, comes
\* up during the probe, whose clean-up takes its table while it runs on.
ServiceAlwaysFilters == engines[Service] = "run" => table

\* "Merges another file's entries into the current cache"
\* (docs/network-profiles.md): not into one that could not be read or that another
\* process has changed, whose results the save drops.
NoResultLost ==
    [][\A p \in Probers :
          probers[p].pc = "save" /\ probers'[p].pc = "write"
            => DOMAIN file \subseteq DOMAIN probers[p].cache]_vars

\* "Never treated as evidence", "never written to the on-disk cache"
\* (discovery.h, of a probe this machine could not run): a cached chain is one
\* that gets through on the network it is cached for.
CachedChainWorks ==
    \A d \in DOMAIN file : file[d].chain \in Works[file[d].fingerprint]

=============================================================================
