---------------------------- MODULE Interception ----------------------------
(***************************************************************************)
(* Fail-open interception on Linux: the daemon's life from its listeners   *)
(* to its last step (transparent.c), the nftables table it installs,       *)
(* refreshes and removes (platform_linux.c, policy.c), and the two ways it *)
(* is started: by systemd, which deletes the table after any stop, and by  *)
(* hand.  Both may be tried at once.                                       *)
(*                                                                         *)
(* A run of nft is one transaction, and may fail.  A tick is               *)
(* TP_HEARTBEAT_S / HEARTBEAT seconds.                                     *)
(***************************************************************************)
EXTENDS Integers

CONSTANTS
    Daemons,        \* instances of the daemon
    Units,          \* those that systemd runs
    HEARTBEAT,      \* TP_HEARTBEAT_S in ticks
    ALIVE,          \* TP_ALIVE_TIMEOUT_S in ticks
    MaxLate         \* how late the main loop may beat, in ticks

ASSUME InterceptionAssumption ==
    /\ Units \subseteq Daemons
    /\ HEARTBEAT \in Nat \ {0} /\ ALIVE \in Nat /\ MaxLate \in Nat
    /\ HEARTBEAT + MaxLate < ALIVE

VARIABLES
    stage,          \* where each instance is
    listeners,      \* each instance's listening ports
    due,            \* ticks since each instance's last heartbeat
    rules,          \* the table's redirect rules ({}: there is no table)
    alive,          \* ticks until the element of set alive expires (0: none)
    alive_dns,      \* the same for set alive_dns
    disturbed,      \* history: since the last heartbeat, has anything but time
                    \* and the instances' own steps changed the table?
    dead            \* history: for how many ticks has a redirect led nowhere?

vars == <<stage, listeners, due, rules, alive, alive_dns, disturbed, dead>>

Ports == {"tcp4", "tcp6", "dns4", "dns6"}
DnsPorts == {"dns4", "dns6"}

Stages == {"off", "init", "listening", "ruleset", "running", "hung",
           "remove", "save", "post"}

TypeOK ==
    /\ stage \in [Daemons -> Stages]
    /\ listeners \in [Daemons -> SUBSET Ports]
    /\ due \in [Daemons -> 0..(HEARTBEAT + MaxLate)]
    /\ rules \subseteq Ports
    /\ alive \in 0..ALIVE /\ alive_dns \in 0..ALIVE
    /\ rules = {} => alive = 0 /\ alive_dns = 0
    /\ disturbed \in BOOLEAN /\ dead \in Nat

Init ==
    /\ stage = [d \in Daemons |-> "off"]
    /\ listeners = [d \in Daemons |-> {}]
    /\ due = [d \in Daemons |-> 0]
    /\ rules = {} /\ alive = 0 /\ alive_dns = 0
    /\ disturbed = FALSE /\ dead = 0

-----------------------------------------------------------------------------
(* nftables.                                                               *)

\* The ports whose traffic the kernel redirects now.
Redirected == {p \in rules : IF p \in DnsPorts THEN alive_dns > 0 ELSE alive > 0}

\* Somebody takes what comes to the port: for TCP the main loop, for DNS the
\* forwarder's own threads.
Served(p) == \E d \in Daemons : p \in listeners[d]
                                /\ (p \in DnsPorts \/ stage[d] = "running")

\* Redirects that lead nowhere.
Dead == {p \in Redirected : ~Served(p)}

\* A bug: IPv6 DNS is redirected although only the IPv4 forwarder listens.
ruleset_all(ports) ==
    ports \cup IF {"tcp6", "dns4"} \subseteq ports THEN {"dns6"} ELSE {}

\* tp_nft_ruleset(): IPv6 is left alone unless everything that is redirected
\* for IPv4 has an IPv6 listener too (tpd_dnsfwd_start clears ipv6).
ruleset(ports) ==
    LET ipv6 == "tcp6" \in ports /\ ("dns4" \in ports => "dns6" \in ports)
    IN  {"tcp4"} \cup (ports \cap {"dns4"})
                 \cup IF ipv6 THEN ports \cap {"tcp6", "dns6"} ELSE {}

\* One transaction with the ruleset: a new table, its sets empty.
nft_ruleset(d) ==
    rules' = ruleset(listeners[d]) /\ alive' = 0 /\ alive_dns' = 0

\* tp_nft_heartbeat() on a table with rules r.
nft_heartbeat(r) ==
    /\ rules' = r
    /\ alive' = ALIVE
    /\ alive_dns' = IF "dns4" \in r THEN ALIVE ELSE 0

nft_delete == rules' = {} /\ alive' = 0 /\ alive_dns' = 0

nft_fails == UNCHANGED <<rules, alive, alive_dns>>

-----------------------------------------------------------------------------
(* Starting: run_transparent_server() up to the main loop.                 *)

To(d, s) == stage' = [stage EXCEPT ![d] = s]

\* What becomes of a process that ends; its sockets close with it.
Ended(d) == To(d, IF d \in Units THEN "post" ELSE "off")

start(d) ==
    /\ stage[d] = "off" /\ To(d, "init")
    /\ UNCHANGED <<listeners, due, rules, alive, alive_dns, disturbed>>

\* A bug: a start that finds the port taken cleans up before it gives up.
tpd_listen_cleans(d) ==
    /\ stage[d] = "init"
    /\ \E ports \in {{}} \cup {q \in SUBSET Ports : "tcp4" \in q} :
         /\ "dns6" \in ports => {"tcp6", "dns4"} \subseteq ports
         /\ ports # {} => \A e \in Daemons : listeners[e] = {}
         /\ IF ports = {} THEN To(d, "remove") ELSE To(d, "listening")
         /\ listeners' = [listeners EXCEPT ![d] = ports]
    /\ UNCHANGED <<due, rules, alive, alive_dns, disturbed>>

\* The IPv4 listener is a must and its port can have one owner; the IPv6 one
\* and the DNS forwarder may be missing; the IPv6 forwarder is tried last.  All
\* instances use the same port: nothing keeps one started with another --port
\* from sharing the table.
tpd_listen(d) ==
    /\ stage[d] = "init"
    /\ \E ports \in {{}} \cup {q \in SUBSET Ports : "tcp4" \in q} :
         /\ "dns6" \in ports => {"tcp6", "dns4"} \subseteq ports
         /\ ports # {} => \A e \in Daemons : listeners[e] = {}
         /\ IF ports = {} THEN Ended(d) ELSE To(d, "listening")
         /\ listeners' = [listeners EXCEPT ![d] = ports]
    /\ UNCHANGED <<due, rules, alive, alive_dns, disturbed>>

\* tpp_install(), its ruleset.
tpp_install(d) ==
    /\ stage[d] = "listening"
    /\ \/ nft_ruleset(d) /\ To(d, "ruleset")
       \/ nft_fails /\ To(d, "remove")
    /\ UNCHANGED <<listeners, due, disturbed>>

\* tpp_install(), its first heartbeat: it needs the table.
first_heartbeat(d) ==
    /\ stage[d] = "ruleset"
    /\ \/ /\ rules # {} /\ nft_heartbeat(rules) /\ To(d, "running")
          /\ due' = [due EXCEPT ![d] = 0] /\ disturbed' = FALSE
       \/ nft_fails /\ To(d, "remove") /\ UNCHANGED <<due, disturbed>>
    /\ UNCHANGED listeners

-----------------------------------------------------------------------------
(* The main loop.                                                          *)

\* A bug: a refresh that fails only says so.
tpp_refresh_gives_up(d) ==
    /\ stage[d] = "running" /\ due[d] >= HEARTBEAT
    /\ due' = [due EXCEPT ![d] = 0]
    /\ \/ rules # {} /\ nft_heartbeat(rules) /\ disturbed' = FALSE
       \/ nft_fails /\ disturbed' = TRUE
    /\ UNCHANGED <<stage, listeners>>

\* A bug: a thread of its own beats, whatever the main loop does.
tpp_refresh_detached(d) ==
    /\ stage[d] \in {"running", "hung"} /\ due[d] >= HEARTBEAT
    /\ due' = [due EXCEPT ![d] = 0]
    /\ \/ nft_heartbeat(IF rules # {} THEN rules ELSE ruleset(listeners[d]))
          /\ disturbed' = FALSE
       \/ nft_fails /\ disturbed' = TRUE
    /\ UNCHANGED <<stage, listeners>>

\* heartbeat() when it is due: refresh the elements; if that fails (the table
\* is gone, or nft failed), install the table again and beat once more.
tpp_refresh(d) ==
    /\ stage[d] = "running" /\ due[d] >= HEARTBEAT
    /\ due' = [due EXCEPT ![d] = 0]
    /\ \/ rules # {} /\ nft_heartbeat(rules) /\ disturbed' = FALSE
       \/ nft_heartbeat(ruleset(listeners[d])) /\ disturbed' = FALSE
       \/ (nft_ruleset(d) \/ nft_fails) /\ disturbed' = TRUE
    /\ UNCHANGED <<stage, listeners>>

\* The heartbeats that leave the table installed and alive.
tpp_refresh_works(d) == tpp_refresh(d) /\ ~disturbed'

\* The process is stopped, or its main loop stuck, for a while.
hang(d) ==
    /\ stage[d] = "running" /\ To(d, "hung")
    /\ UNCHANGED <<listeners, due, rules, alive, alive_dns, disturbed>>

resume(d) ==
    /\ stage[d] = "hung" /\ To(d, "running") /\ disturbed' = TRUE
    /\ due' = [due EXCEPT ![d] = HEARTBEAT]
    /\ UNCHANGED <<listeners, rules, alive, alive_dns>>

-----------------------------------------------------------------------------
(* Stopping.                                                               *)

\* SIGTERM or SIGINT sets g_stop and the main loop returns.
on_signal(d) ==
    /\ stage[d] = "running" /\ To(d, "remove")
    /\ UNCHANGED <<listeners, due, rules, alive, alive_dns, disturbed>>

\* tpp_remove(), after the main loop or a failed installation; only then are
\* the decisions saved and the listeners closed.
tpp_remove(d) ==
    /\ stage[d] = "remove" /\ To(d, "save") /\ (nft_delete \/ nft_fails)
    /\ UNCHANGED <<listeners, due, disturbed>>

\* The end of a process, after save_decisions() or wherever it is killed.
exit(d) ==
    /\ stage[d] \notin {"off", "post"} /\ Ended(d)
    /\ listeners' = [listeners EXCEPT ![d] = {}]
    /\ UNCHANGED <<due, rules, alive, alive_dns, disturbed>>

\* The unit's ExecStopPost, which may be skipped: nft delete table.
ExecStopPost(d) ==
    /\ stage[d] = "post" /\ To(d, "off")
    /\ \/ nft_delete /\ disturbed' = TRUE
       \/ nft_fails /\ UNCHANGED disturbed
    /\ UNCHANGED <<listeners, due>>

\* Somebody runs `nft flush ruleset`.
flush_ruleset ==
    /\ rules # {} /\ nft_delete /\ disturbed' = TRUE
    /\ UNCHANGED <<stage, listeners, due>>

-----------------------------------------------------------------------------

Step(d) ==
    \/ start(d) \/ tpd_listen(d) \/ tpp_install(d) \/ first_heartbeat(d)
    \/ tpp_refresh(d) \/ hang(d) \/ resume(d)
    \/ on_signal(d) \/ tpp_remove(d) \/ exit(d) \/ ExecStopPost(d)

\* Time: the kernel expires elements, and a main loop that runs beats before
\* it is more than MaxLate ticks late.
tick ==
    /\ \A d \in Daemons : stage[d] = "running" => due[d] < HEARTBEAT + MaxLate
    /\ due' = [d \in Daemons |-> IF stage[d] = "running" THEN due[d] + 1 ELSE due[d]]
    /\ alive' = (IF alive > 0 THEN alive - 1 ELSE 0)
    /\ alive_dns' = (IF alive_dns > 0 THEN alive_dns - 1 ELSE 0)
    /\ UNCHANGED <<stage, listeners, rules, disturbed>>
    /\ dead' = (IF Dead' = {} THEN 0 ELSE dead + 1)

\* A step of an instance, or of somebody else, takes no time.
Timeless(step) == step /\ dead' = IF Dead' = {} THEN 0 ELSE dead

Next ==
    \/ \E d \in Daemons : Timeless(Step(d))
    \/ Timeless(flush_ruleset)
    \/ tick

\* Time passes, and nft does not fail at every heartbeat of an instance that
\* keeps running.
Fairness ==
    /\ WF_vars(tick)
    /\ \A d \in Daemons : SF_vars(Timeless(tpp_refresh_works(d)))

Spec == Init /\ [][Next]_vars /\ Fairness

-----------------------------------------------------------------------------
(* Properties.                                                             *)

\* No redirect leads nowhere for TP_ALIVE_TIMEOUT_S: not after a crash, a hang
\* or a stop whose tpp_remove() failed, not while a restart goes on, and not
\* for a port the instance could not listen on, as long as all instances use the
\* same port.
FailOpen == dead < ALIVE

Promise ==
    INSTANCE FailOpenPath WITH
        Paths <- Ports, LIMIT <- ALIVE, clock <- dead, exempt <- FALSE,
        path <- [p \in Ports |-> IF p \notin Redirected THEN "open"
                                 ELSE IF Served(p) THEN "served" ELSE "dead"]

\* The table, its expiring elements and the daemon's life implement the promise
\* of FailOpenPath, without exception: no port is redirected before it is served,
\* and one that leads nowhere is open again before TP_ALIVE_TIMEOUT_S is over, as
\* long as all instances use the same port.
KeepsPromise == Promise!Spec

\* A running instance intercepts all it installed rules for, without a gap,
\* however late (up to MaxLate) it beats and whatever other instances on the same
\* port try, unless the table was changed from outside, or nft failed, since its last
\* heartbeat.
NoGap ==
    \A d \in Daemons :
        stage[d] = "running" /\ ~disturbed => Redirected = ruleset(listeners[d])

\* A table that vanished under a running instance comes back (tpp_refresh).
TableComesBack ==
    \A d \in Daemons :
        stage[d] = "running" /\ rules = {}
            ~> rules # {} \/ stage[d] # "running"
=============================================================================
