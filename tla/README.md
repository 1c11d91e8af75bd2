# A TLA+ model of dpi-for-everyone

The program lets a user reach sites whose TLS handshakes a network disturbs. It
has three front ends over shared parts:

- **transparent mode** (`src/transparent/`): a root daemon redirects TCP/443 and
  DNS to itself, connects on the client's behalf, tries a ladder of ways to send
  the ClientHello, and learns which one works per host, network and family;
- **packet mode** (`src/nfqueue/`, `src/packet/`, `src/flow/`): an NFQUEUE engine
  that rewrites the ClientHello's packets, driven by `strategy.conf` and by the
  results of **discovery** (`src/discovery/`, `scripts/dpictl`);
- a **SOCKS proxy** (`src/socks.c`, `src/relay.c`) that splits the ClientHello.

The specifications cover all three: wherever threads, processes, the kernel's
state and files meet, and the byte streams and packets that must come out whole.

## Inventory

Components marked * are modelled (see `PROJECT.json` for the sources and for what
is left out of each).

| Component | State | Operations | What makes it hard |
|---|---|---|---|
| attempt planning * (`policy.c`, `conn.c`) | one connection's plan | next, record, source | many inputs, order of the ladder, one resolver call |
| learned decisions * (`policy.c`, `transparent.c`) | table, cooldowns, `direct_bad` marks, file | lookup, success, failure, mark, network change, save, load | full tables, failed writes, crashes |
| connection threads and verifier * (`conn.c`, `verify.c`) | `g_tpd`, the verifier's queue and dedup ring | handle, commit, fail, submit, verify, apply | results that arrive after a network change or reload |
| DNS forwarder * (`dnsfwd.c`) | worker slots | UDP and TCP queries, who answers | fall-backs, slots on every path |
| QUIC-reject set * (`quic.c`, `platform_linux.c`) | `g_seen`, the kernel's set | note, block, flush, forget | two tables updated apart, timeouts, nft failures |
| daemon life cycle * (`transparent.c`) | listeners, heartbeat | start, beat, reload, stop | crashes between any two steps, a second instance |
| Linux layer * (`platform_linux.c`, nft texts of `policy.c`, systemd unit) | nft table, `alive` sets | install, refresh, remove, ExecStopPost | elements that expire, tables that vanish |
| macOS layer * (`platform_macos.c`) | PF anchor, token, token file, watchdog | install, refresh, remove, watchdog loop | two processes, an old watchdog beside a new daemon |
| trusted resolver * (`dns*.c`) | cache, server health, DoH pools | resolve, exchange, flush | a flush without the lock, retries, pooled connections |
| packet engine and flow table * (`nfqueue_engine.c`, `flow.c`, `packet/`) | flows, raw socket, flags | verdict, inject, reload, evict | partial injection, retransmissions, reused 4-tuples, wrap-around |
| strategy and discovery * (`strategy.c`, `cache.c`, `ladder.c`, `probe_runner.c`, `main_packet.c`, `dpictl`) | rules, result cache and file, table, queue | parse, match, probe, import, save | one table, queue and file for several processes |
| relay, SOCKS, ClientHello * (`relay.c`, `socks.c`, `upstream.c`, `tls.c`, `sni_extract.c`) | two sockets, first bytes | handshake, gather, re-frame, pump, half-close | one blocking thread, pieces, resets met by reads or by writes |
| Windows layer (`platform_windows.c`) | flow table, WinDivert handle | rewrite, sweep, install, remove | flow reuse |
| TLS client, sockets, fingerprint, portability, printing | none | system calls, pure functions | bytes |

Interactions: a connection thread reads decisions, cooldowns and marks under
`g_tpd.lock`, walks its plan without the lock, and reports back under it; bypasses
are learned only through the verifier; bypassed connections and DNS answers feed
the QUIC-reject set; the main loop beats the platform layer, notices network
changes and missing rules, drops the resolver's cache and idle connections, and
saves the decisions. In packet mode the service, and every probe's own engine,
compete for one nftables table and one queue.

## Modules

| Module | Models | Correspondence |
|---|---|---|
| `TpPlan` | `tp_plan_next` and helpers | pure operators under their C names |
| `PlanRun` | one connection (`tpd_handle_connection`, `run_plan`) | `plan` is `c->plan`; one action per upstream attempt and resolver call |
| `TpDecisions` | decision table, cooldowns, marks (`policy.c`) | operators on a record; arrays of slots as functions, the entry array as a set |
| `DecisionStore`, `MCDecisionStore` | the table over time, its file | `save_begin` and `write_file_atomic` are the two halves of `save_decisions`; `restart` is a crash and what the next process gets to read, all of the file or less; `tp_decisions_parse` loads a line; `write_failed` and `load_failed` are history |
| `TpDaemon`, `MCTpDaemon` | connection threads, verifier, main thread around `g_tpd.lock` | one action per critical section and per verifier step; extends `TpDecisions` and, through it, `TpPlan` |
| `QuicBlock`, `MCQuicBlock` | `dnsfwd.c` workers, `quic.c`, the kernel's set | one action per critical section and per run of nft |
| `FailOpenPath` | what both platform layers promise | a path is open, served or dead, and not dead for long |
| `Interception` | Linux life cycle and nft table | all instances use one port; one action per run of nft; `disturbed` and `dead` are history; implements `FailOpenPath` |
| `PfWatchdog` | macOS daemon and watchdogs | one action per run of pfctl, or for a few in a row; `unguarded` and `dead` are history; implements `FailOpenPath` |
| `DnsResolver`, `MCDnsResolver` | the resolver's threads, cache, health, pools, `check_network` | one action per critical section, query and pool operation; a reply is what the parser tells apart |
| `PacketEngine`, `MCPacketEngine` | the NFQUEUE loop, the flow table, the packets it makes, a client that retransmits and a peer that reassembles | a byte is its position in the stream; `packet_callback`, the look at the flags (`loop_top`) and the start of a `recv()` that blocks (`recv_blocks`) are each one action, a signal may come between any two; `fate`, `drops` and `late` are history |
| `Strategy` | `strategy.conf`, chains, discovery cache | pure operators; a file is the sequence of its lines, a domain of its labels |
| `Discovery`, `MCDiscovery` | `dpictl probe`, `--probe`, `--import-profile`, engines, table, queue, cache file | one action per process step another process can see; `during` (the service was started while a probe was on) and `stale` (whose copy is not what the file holds) are history |
| `TlsStream` | TLS records: parsing, coalescing, fragmentation, the writes of `relay_send_first` | pure operators over cells; a two-cell length in base `BYTE` |
| `Relay`, `MCRelay` | one client served by SOCKS or by the daemon, and both ends | `px.pc` is where the thread is; one action per call that can block |
| `PolicyProofs` | theorems on `PlanRun` and `DecisionStore` (both are policy.c's) | |
| `TpDaemonProofs`, `InterceptionProofs`, `PfWatchdogProofs`, `PacketEngineProofs`, `QuicBlockProofs`, `DnsResolverProofs`, `DiscoveryProofs` | theorems on the module they are named after | |

Definitions introduced by "Mutant:" or "A bug:" are plausible mistakes. They are not part of a specification; each is put in the place of the definition below it to see that a property notices.

## Runs

| Run | Question | Bounds and why they are enough |
|---|---|---|
| `plan` | Is the ladder walked in the right order to a right end? | all inputs `fill_plan` can produce, the real `TP_MAX_ATTEMPTS` = 4, all results: exhaustive |
| `decisions` | Do the table and its file stay right at their limits? | 3 hosts for 2 entries and 2 cooldown slots: both overflow, and the entry array grows; files a hand edited (a key twice, a refused line, too many hosts); loads that fail, are cut short or run out of memory. Nothing is marked, and the clock has 1 tick, less than a lifetime; the theorems hold for any times |
| `daemon` | What may be learned, from whom, when? | 2 connections, a known network and the unknown one, a rule that comes and goes, queue and ring of 2 that fill up, one attempt per walk (the `plan` run covers longer ones) |
| `daemon_live` | Is every queued job judged? | 1 connection that keeps submitting, 2 attempts |
| `quic` | Are remembered and answered addresses blocked? Are slots returned? | 2 threads for 1 slot, 2 addresses for a `g_seen` of 1, a timeout of 4 ticks so that half of it passes |
| `interception` | Does a dead redirect go away? Is there a gap? Does a lost table come back? Is the promise kept? | a systemd and a manual instance, beat 1 tick, timeout 3, beats up to 1 tick late |
| `pf_watchdog` | Is the promise kept on macOS? Whose token is released? Do rules come back? | 2 watchdog slots (an old one beside a new one), 3 tokens, 2 faults |
| `packet` | Are streams intact? What may be dropped? Is every fresh ClientHello treated? | 2 connections for a table of 1 (eviction), 4 sequence numbers (they wrap within the stream), a stream of 3 bytes for a reassembly buffer of 2, a chain for each thing the verdict can do, any loss |
| `discovery` | What is left behind by probes, engines and restarts? Does a `strategy.conf` mean what it says? | 2 probers and the service, a ladder of 2 candidates with 1 attempt each (a second one only repeats the same steps; the theorems hold for any number), a cache file that may be unreadable, expired and fresh cache entries; all texts of up to 4 lines out of 7 kinds |
| `resolver` | Is the cache right across flushes? Is every connection in one place? | 2 threads, a DoH and a UDP server that back off after 1 failure, 3 connections for a pool of 1, a cache of 2, one network change. One question: with more, entries only compete for slots |
| `relay` | Do both ends read what the other wrote, and the end only at the end? Does the thread end? | a ClientHello in one and in two records, cut at each kind of place, base-4 lengths that carry, buffers of 1 to 20 cells, one fault per connection, 2 attempts |

Symmetry is declared over hosts, threads, connections or probers, only in runs
without liveness. `CHECK_DEADLOCK FALSE` is used only for `PlanRun`, where a
connection ends. Time is bounded by `MaxNow` where it is a counter; in
`Interception`, `PfWatchdog` and `PacketEngine` only differences are kept.

What the two most particular properties mean:

- `KeepsPromise` is `FailOpenPath`'s specification under a refinement mapping.
  On Linux a path is a port, dead when redirected to a listener nobody serves,
  and there is no exception. On macOS the path is the anchor, and the exception is
  a daemon killed together with, or before there is, a watchdog.
- `EofIsComplete` has four exceptions, named in its definition: the proxy refused
  the request, the other side failed under a write, the client went away, and a
  client that half-closed before its first byte with the split option set
  (`relay_connection` then returns without relaying).

`relay_reset` refutes a sentence: `relay.h` says an upstream error resets the
client. An upstream reset found by `send` instead of by `recv` makes
`relay_pump_timeout` return without `reset_connection`, and the client sees a
clean close.

## Known divergences

These definitions state what a comment, a header or a document says, and TLC refutes each on
the constants of the run named. They are kept in the modules, outside the runs;
the runs check the same behaviours with exactly these exceptions.

| Property | Run | What is said | What the code does |
|---|---|---|---|
| `PlanRun!DirectBadSkipsDirect` | `plan` | `tp.h:117`: a DIRECT verified bad is skipped | a cached "trusted address, untouched" step becomes DIRECT when the resolver no longer disagrees, and is offered before the mark is looked at |
| `TpDaemon!PreferredIsOfThisNetwork` | `daemon` | `tpd.h:38`: `preferred` is of this network | `commit()` sets it without comparing networks |
| `TpDaemon!CachedDecisionUsed` | `daemon`, both families | `tp.h:15`: a cached decision comes right below a manual rule | a cooldown, kept per host, goes before the decision, kept per host and family |
| `QuicBlock!BlockedBeforeAnswer` | `quic` | `dnsfwd.c:19`: addresses are in the set before the answer goes out | a second thread answers while the first is still running nft |
| `PfWatchdog!StayOnlyIfBothKilled` | `pf_watchdog` | `platform_macos.c:52`: rules stay only if both processes are killed at once | a kill before the first watchdog is spawned is enough |
| `DnsResolver!AnswersOfThisNetwork` | `resolver` | `transparent.c:463`: the old network's answers are forgotten | a lookup under way stores its answer after the flush |
| `Discovery!CachedChainWorks` | `discovery` | `discovery.h:31`: a probe that could not run is never evidence | the check runs 400 ms after the fork whether or not the engine has its table and queue; the network may have changed since the fingerprint was read |
| `Discovery!ServiceAlwaysFilters` | `discovery` | `dpictl:240`, `docs/discovery.md:61`: the service is stopped while probing and started again afterwards | only a service that is active at that moment is stopped; one that waits for its restart, or that another probe's end starts, comes up beside the probe, which deletes its table |
| `Discovery!NoResultLost` | `discovery` | `docs/network-profiles.md:91`: an import merges the entries into the current cache | probe and import save the cache they read, whatever was saved since; one that could not read the file warns, goes on with an empty cache, and saves that |
| `MCDiscovery!LongestSuffixWins` | `discovery` | `strategy.h:88`: the longest matching suffix | the first matching suffix in the file |

Two more, seen while modelling: `dns.h` asks for the lock around the cache, which
`dns_cache_flush()` does not take (`DnsResolver` has that flush in the middle of a
store); and `docs/discovery.md:122` has the probe's table removed "regardless of
how the probe ended", where a probe that is itself killed removes nothing, as
nothing traps its signals (`Discovery` kills engines, not probes).

## Fairness

- `PlanRun`: weak fairness of `Next`. Every call of a handler has a timeout.
- `TpDaemon`: weak fairness of the verifier's two steps. It is a thread of its own
  and its handshakes have deadlines. Nothing is assumed of connections.
- `Interception`: time passes, and nft does not fail at every heartbeat of an
  instance that keeps running (strong fairness of the heartbeats that work).
- `PfWatchdog`: processes that are not hung go on; loading the anchor and enabling
  PF do not fail for ever. Faults are not fair; they may never happen.
- `Relay`: the thread runs, an end reads and writes when it can and closes its
  half in the end. Without the last a connection is relayed for ever: no caller
  sets an idle timeout. `RelayEnds` is claimed for ends that read while they
  write; two ends that each wait for the other to read block the one thread.

## Proofs

`PolicyProofs` proves the safety invariants of the `plan` run, and six more of
`PlanRun`, for every `TP_MAX_ATTEMPTS`. The invariants are not inductive one by one: that no step is
tried twice rests on what `tp_plan_next` may offer in a state, which depends on
the resolver's answer and on the recorded results. `IInv` joins them with the
facts they rest on: a cached decision is what was tried first, and an answered
attempt was the last. Lemmas first
say what each operator may return (`NormalizeFacts` to `RecordFacts`); there is
then one lemma per action that changes the plan.

Its second part proves all five properties of the `decisions` run for any hosts,
networks, steps, table sizes, files and times. `StoreInv` says that the table and
what is being written could each be the table of a fresh process (`Storable`: one
entry per key, every entry one `parse_line` accepts, no more than fit), that a
save under way holds the table's entries unless they changed since it began, that
what is still to be loaded comes from the file and is loaded into a clean table
(`LoadOK`), and the two invariants on the file, `SavedComesBack` in the form it
has during a load (`KeptSoFar`: a usable line is still unread or its key is in
the table). Neither is inductive alone, as `dirty` is clear while the file is
still old; and that a load evicts nothing that fits is a count of keys.

`TpDaemonProofs` proves, for any number of connections, hosts, networks and any
table sizes, that types and bounds hold (`DaemonTypeCorrect`), that marks are of
the current network (`MarksAreCurrent`), that bypasses are learned only from
successful verdicts of the current network (`OnlyVerifiedIsLearned`), that a
manual rule's connection teaches nothing (`ManualTeachesNothing`), and that the
dedup window holds for the queue (`QueueKeepsWindow`). Its `IInv` is `TypeOK`, a
fact per connection (`ConnOK`: what a thread carries at each point), and
`DirectBadIsCurrent`. `DedupWindow` is inductive on top of it and needs the
assumption `QUEUE_MAX <= RECENT_MAX`, which the code's constants satisfy: with a
shorter ring a queued job could be forgotten and queued again.

`InterceptionProofs` proves `FailOpen`, `NoGap` and the safety part of the
refinement (`SpecPromise`) for any set of instances, any of them run by systemd,
and any heartbeat shorter than the timeout. `IInv` says that only one instance
has listeners (`Owner`), that rules in place while it runs are its own
(`OwnRules`), that the time a path has been dead and the time left to the element
add up to at most the timeout (`Counting`), and that an undisturbed instance's
element is as old as its heartbeat (`Fresh`). `FailOpen` alone is not inductive:
it is the sum in `Counting` that a tick preserves.

`PacketEngineProofs` proves the four properties of the `packet` run for any
connections, streams, table size, buffer size and sequence space larger than a
stream. `IInv` relates each connection to the table (`Fits`): a drop is only
counted while its flow is there and classified, a connection that has sent
nothing since its SYN has a blank flow if any, and what the peer has is in place.
That a segment is placed where it belongs is arithmetic modulo `SeqMod`
(`ModShift`, `Congruent`), and holds for each piece a chain makes (`SplitGood`,
`ChainHarmless`). `Prompt` says that once a packet was handled with a flag set the
engine is at the top of its loop, where the flag is looked at before another one.

`PfWatchdogProofs` proves `FailOpen`, `ReleasedByOwner` and the safety part of the
refinement (`SpecPromise`) for any watchdogs, timeout, tokens and faults. `IInv`
says that nobody but a daemon and its watchdog knows its token (`TokenOwned`),
that a watchdog that polls beside rules in place or under way is armed or has a
beat in its pipe (`Armed`), and that a dead daemon's rules have a watchdog that is
cleaning up, a hung daemon's one that has counted at least as many ticks as the
rules have led nowhere (`InTime`). `FailOpen` is not inductive:
nothing but the watchdog's own count bounds the time its rules lead nowhere.

`QuicBlockProofs` proves the three properties of the `quic` run for any finite set
of threads, any addresses, table size and timeout, as long as a look-up takes
less than half the timeout (`MaxStraddle`). An address is safe until x if nft lost
it, a thread is about to add it, or its element expires after x; no step takes
that away before x has passed (`SafeStays`). `IInv` says that an entry of `g_seen`
is safe for a whole timeout from when it was noted and that what a thread has
looked up is safe for half a timeout from when it began. `AnsweredIsBlocked` alone
is not inductive: an address skipped because `g_seen` has it rests on a step of
another thread.

`DnsResolverProofs` proves the three properties of the `resolver` run for any
threads, questions, servers, connections, replies, cache and pool sizes. `IInv`
has what a lookup carries at each point (`LookupsOK`: it has a server to ask,
holds a connection only while it uses it, and its answer is of this network or it
was under way when the network changed), the cache's two properties as predicates
of any cache (`CacheOK`), and one place for each connection (`Places`, `Owned`).
The lock and the servers' health are not in it: none of the three rests on them.

`DiscoveryProofs` proves `NothingLeftApplied`, `ServiceRulesBack` and
`CacheKeepsResults` for any probers, domains, networks, ladders, attempts and
profiles, whatever works. `IInv` says that
an engine has the queue exactly while it runs and that a probe's engine lives only
while the probe waits for it (`EnginesOK`), that the service is down, and the
table a probe's to remove, unless somebody will start the service again
(`Accounted`), and that while a service started with no probe on is coming up or
up no probe is on, and its table is there once applied (`Clear`): a probe that
begins stops it first. `Keeps` adds that from reading the file to saving it a copy
that is not stale has every domain of the file; it needs that a save makes every
other copy stale, and that neither a discovery nor a merged profile drops a domain
(`ParseKeeps`).

One theorem needs what a recursive definition computes for every input:
`discovery_cache_parse` is a recursive function on `0..n`. The library's induction theorems cannot be
instantiated, so `LeastNumber` takes a least counterexample from the
well-foundedness of `<`, `NatInductionSet` states induction for a set of numbers,
and `Recursion` shows that a function defined by recursion exists.

Assumptions are the named `ASSUME`s of the modules: sizes are natural numbers,
non-zero where the code divides or indexes by them, a heartbeat comes before the
elements expire, a stream is shorter than the sequence space, a look-up is shorter
than half a timeout, and "none", "" or "nobody" is no connection, question or
prober.

Only model-checked: all liveness properties (`EventuallyDecided`, `JobsAreJudged`,
`TableComesBack`, `RulesComeBack`, `RelayEnds`) and the liveness part of the two
refinements, which are outside the prover's reach; the `relay` run; and
`RulesAsWritten`.

## Not modelled

- The Windows layer: a connection table fed by WinDivert, a driver outside the
  repository whose delivery, injection and loss would have to be assumed.
- `tlsclient.c`, `net.c`, `compat.c`, `netfingerprint.c`: calls of a library or of
  the system; their outcomes are nondeterministic inputs of the models above.
- Bytes where no property is about them: DNS and HTTP messages, checksums, IP and
  TCP header parsing, the extension walk inside a ClientHello, texts of rules.
- Statistics, the status file, logs, usage texts, installation scripts; the lookup
  of original destinations. `tp_host_listed` is an input.
- PF, nft, systemd and NFQUEUE are modelled by what a call does, and it may fail
  wherever the code looks at its result.
- Instances of the daemon on different ports, which share one nftables table: the
  port is an option, and `Interception` has one for all.
- `pool_get` closes the connections that were idle too long in one step of
  `DnsResolver`, though the code gives the pool's lock up around each close.
- In `Relay` a reset is reported by each call that meets it, where a system
  reports it once and then an end of file or a broken pipe.
- The marks at their limit: `TpDaemon` has one host for its one slot.
