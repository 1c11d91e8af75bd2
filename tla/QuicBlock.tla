----------------------------- MODULE QuicBlock ------------------------------
(***************************************************************************)
(* The QUIC-reject set and what feeds it: the DNS forwarder's workers      *)
(* (dnsfwd.c) and the connection threads, through the table of addresses   *)
(* already added (quic.c), into the kernel's set (platform_linux.c); and   *)
(* the main loop that empties both when the network changes and reinstalls *)
(* a ruleset that went missing (transparent.c).                            *)
(*                                                                         *)
(* A thread's steps are its critical sections and its runs of `nft`.  One  *)
(* tick is a fraction of the element timeout, so of many minutes: a thread *)
(* between its first look at the table and its last step sees at most      *)
(* MaxStraddle of them.                                                    *)
(***************************************************************************)
EXTENDS Integers, Sequences, FiniteSets

CONSTANTS
    Threads,                    \* forwarder workers and connection threads
    Addrs,                      \* addresses of known-blocked names
    FWD_MAX_INFLIGHT,           \* slots for forwarder workers
    QUIC_SEEN_MAX,              \* size of g_seen
    TP_QUIC_BLOCK_TIMEOUT_S,    \* element timeout of the set, in ticks
    NftFails,                   \* may a run of nft fail, or the ruleset vanish?
    MaxStraddle, MaxNow         \* bounds on time

ASSUME QuicAssumption ==
    /\ IsFiniteSet(Threads)
    /\ FWD_MAX_INFLIGHT \in Nat \ {0} /\ QUIC_SEEN_MAX \in Nat \ {0}
    /\ TP_QUIC_BLOCK_TIMEOUT_S \in Nat /\ TP_QUIC_BLOCK_TIMEOUT_S >= 2
    /\ NftFails \in BOOLEAN
    /\ MaxNow \in Nat /\ MaxStraddle \in Nat
    /\ 2 * MaxStraddle < TP_QUIC_BLOCK_TIMEOUT_S

VARIABLES
    threads,    \* per thread: where it is and what it carries
    inflight,   \* g_inflight
    seen,       \* g_seen[0..g_seen_count): [addr, at]
    table,      \* is the nft table there?
    expires,    \* quic_block4/6: when each element expires (0: not in the set)
    main,       \* the main loop: "poll", or "forget" inside check_network()
    now,
    lost        \* history: addresses nft dropped, or never took, since the
                \* last time it took them

vars == <<threads, inflight, seen, table, expires, main, now, lost>>

Sources == {"NONE", "TRUSTED", "ORIGINAL"}

Idle == [pc |-> "idle", kind |-> "udp", listed |-> FALSE, src |-> "NONE",
         addrs |-> {}, todo |-> {}, fresh |-> {}, since |-> 0]

\* addrs: what the answer holds; todo: addresses still to look up in g_seen;
\* fresh: addresses to hand to nft; since: when the look-up began.
ThreadStates ==
    [pc : {"idle", "resolve", "note", "block", "send"},
     kind : {"udp", "tcp", "conn"}, listed : BOOLEAN, src : Sources,
     addrs : SUBSET Addrs, todo : SUBSET Addrs, fresh : SUBSET Addrs,
     since : 0..MaxNow]

TypeOK ==
    /\ threads \in [Threads -> ThreadStates]
    /\ inflight \in 0..FWD_MAX_INFLIGHT
    /\ seen \in Seq([addr : Addrs, at : 0..MaxNow]) /\ Len(seen) <= QUIC_SEEN_MAX
    /\ \A i, j \in DOMAIN seen : seen[i].addr = seen[j].addr => i = j
    /\ table \in BOOLEAN
    /\ expires \in [Addrs -> 0..(MaxNow + TP_QUIC_BLOCK_TIMEOUT_S)]
    /\ main \in {"poll", "forget"} /\ now \in 0..MaxNow /\ lost \subseteq Addrs

Init ==
    /\ threads = [t \in Threads |-> Idle]
    /\ inflight = 0 /\ seen = <<>> /\ table = TRUE
    /\ expires = [a \in Addrs |-> 0]
    /\ main = "poll" /\ now = 0 /\ lost = {}

Empty == [a \in Addrs |-> 0]

-----------------------------------------------------------------------------
(* Who answers a query (resolve).                                          *)

\* What the trusted resolvers may come back with, and the query's own server:
\* an answer, NXDOMAIN (for the latter: anything without records), nothing.
Replies == {"ANSWER", "NX", "FAIL"}

\* known: is the query's own server known (tpp_dns_original)?  The server is
\* asked up to twice: first (first) if no trusted resolver is healthy, and
\* again (second) if they give no answer.
resolve(listed, local, known, healthy, trusted, first, second) ==
    LET ask == known /\ ~listed
    IN  IF known /\ local THEN IF first = "FAIL" THEN "NONE" ELSE "ORIGINAL"
        ELSE IF ask /\ ~healthy /\ first # "FAIL" THEN "ORIGINAL"
        ELSE IF ask /\ \/ trusted = "NX" /\ second = "ANSWER"
                       \/ trusted = "FAIL" /\ second # "FAIL" THEN "ORIGINAL"
        ELSE IF trusted = "FAIL" THEN "NONE" ELSE "TRUSTED"

\* No name on the known-blocked list is local (dns_name_is_local).
Resolved(listed) ==
    {resolve(listed, local, known, healthy, trusted, first, second) :
        local \in IF listed THEN {FALSE} ELSE BOOLEAN, known \in BOOLEAN,
        healthy \in BOOLEAN, trusted \in Replies, first \in Replies,
        second \in Replies}

-----------------------------------------------------------------------------
(* The forwarder.                                                          *)

\* A worker for a query, if there is a slot; without one the query is dropped.
take_slot(t, kind) ==
    /\ threads[t].pc = "idle" /\ inflight < FWD_MAX_INFLIGHT
    /\ inflight' = inflight + 1
    /\ \E listed \in BOOLEAN :
           threads' = [threads EXCEPT ![t] =
               [Idle EXCEPT !.pc = "resolve", !.kind = kind, !.listed = listed]]
    /\ UNCHANGED <<seen, table, expires, main, now, lost>>

udp_loop(t) == take_slot(t, "udp")

tcp_loop(t) == take_slot(t, "tcp")

\* answer() up to note_answer(): only the addresses of a listed name matter.
answer(t) ==
    /\ threads[t].pc = "resolve"
    /\ \E src \in Resolved(threads[t].listed), found \in SUBSET Addrs :
         /\ src = "NONE" \/ ~threads[t].listed => found = {}
         /\ threads' = [threads EXCEPT ![t] = [@ EXCEPT
                !.pc = IF found = {} THEN "send" ELSE "note",
                !.src = src, !.addrs = found, !.todo = found, !.since = now]]
    /\ UNCHANGED <<inflight, seen, table, expires, main, now, lost>>

\* A bug: the slot of a TCP worker is not given back.
worker_ends_leaking(t) ==
    /\ threads[t].pc = "send"
    /\ threads' = [threads EXCEPT ![t] = Idle]
    /\ inflight' = IF threads[t].kind = "tcp" THEN inflight ELSE inflight - 1
    /\ UNCHANGED <<seen, table, expires, main, now, lost>>

\* The answer, or SERVFAIL, goes out, and the worker gives its slot back.
worker_ends(t) ==
    /\ threads[t].pc = "send"
    /\ threads' = [threads EXCEPT ![t] = Idle]
    /\ inflight' = inflight - 1
    /\ UNCHANGED <<seen, table, expires, main, now, lost>>

\* The answer goes out, and a TCP client has another query.
tcp_worker(t) ==
    /\ threads[t].pc = "send" /\ threads[t].kind = "tcp"
    /\ \E listed \in BOOLEAN :
           threads' = [threads EXCEPT ![t] = [Idle EXCEPT
               !.pc = "resolve", !.kind = "tcp", !.listed = listed]]
    /\ UNCHANGED <<inflight, seen, table, expires, main, now, lost>>

-----------------------------------------------------------------------------
(* quic.c.                                                                 *)

Indices(a) == {i \in DOMAIN seen : seen[i].addr = a}

\* The table keeps a for half the element timeout before nft is asked again.
half == TP_QUIC_BLOCK_TIMEOUT_S \div 2

\* A bug: an address is left alone for as long as its element lives.
still_fresh_whole(a) ==
    \E i \in Indices(a) : now - seen[i].at < TP_QUIC_BLOCK_TIMEOUT_S

still_fresh(a) == \E i \in Indices(a) : now - seen[i].at < half

\* The slot note() overwrites when the table is full: the first of the oldest.
oldest == CHOOSE i \in DOMAIN seen :
              /\ \A j \in DOMAIN seen : seen[i].at <= seen[j].at
              /\ \A j \in 1..(i - 1) : seen[i].at < seen[j].at

\* g_seen after note() told its caller to add a.
noted(a) ==
    LET e == [addr |-> a, at |-> now]
    IN  IF Indices(a) # {}
          THEN [i \in DOMAIN seen |-> IF i \in Indices(a) THEN e ELSE seen[i]]
        ELSE IF Len(seen) < QUIC_SEEN_MAX THEN Append(seen, e)
        ELSE [seen EXCEPT ![oldest] = e]

\* A connection carried by a bypass step to a (commit, apply_result).
tpd_quic_block_sockaddr(t, a) ==
    /\ threads[t].pc = "idle"
    /\ threads' = [threads EXCEPT ![t] = [Idle EXCEPT
           !.pc = "note", !.kind = "conn", !.addrs = {a}, !.todo = {a},
           !.since = now]]
    /\ UNCHANGED <<inflight, seen, table, expires, main, now, lost>>

\* Where a thread goes once its addresses are looked up, or added.
Done(thread) ==
    IF thread.kind = "conn" THEN Idle
    ELSE [thread EXCEPT !.pc = "send", !.todo = {}, !.fresh = {}]

\* One address of the answer, under g_seen_lock.
note(t, a) ==
    LET add  == ~still_fresh(a)
        next == [threads[t] EXCEPT !.todo = @ \ {a},
                                   !.fresh = IF add THEN @ \cup {a} ELSE @]
    IN  /\ threads[t].pc = "note" /\ a \in threads[t].todo
        /\ seen' = IF add THEN noted(a) ELSE seen
        /\ threads' = [threads EXCEPT ![t] =
               IF next.todo # {} THEN next
               ELSE IF next.fresh = {} THEN Done(next)
               ELSE [next EXCEPT !.pc = "block"]]
        /\ UNCHANGED <<inflight, table, expires, main, now, lost>>

-----------------------------------------------------------------------------
(* The kernel's set.                                                       *)

Blocked(a) == expires[a] > now

\* A bug: adding an element that is there does not restart its timeout.
set_with_add_only(fresh) ==
    [a \in Addrs |-> IF a \in fresh /\ ~Blocked(a)
                       THEN now + TP_QUIC_BLOCK_TIMEOUT_S ELSE expires[a]]

\* tp_nft_quic_block(): add, delete and add again restarts the timeout.
set_with(fresh) ==
    [a \in Addrs |-> IF a \in fresh THEN now + TP_QUIC_BLOCK_TIMEOUT_S
                                    ELSE expires[a]]

\* One run of nft for all the fresh addresses; nobody looks at its result.
tpp_quic_block(t) ==
    LET fresh == threads[t].fresh IN
    /\ threads[t].pc = "block"
    /\ \/ /\ table
          /\ expires' = set_with(fresh) /\ lost' = lost \ fresh
       \/ /\ ~table \/ NftFails
          /\ lost' = lost \cup fresh /\ UNCHANGED expires
    /\ threads' = [threads EXCEPT ![t] = Done(threads[t])]
    /\ UNCHANGED <<inflight, seen, table, main, now>>

\* check_network() on a change: the set is flushed, then g_seen forgotten.
tpp_quic_flush ==
    /\ main = "poll" /\ main' = "forget"
    /\ \/ /\ table
          /\ expires' = Empty /\ lost' = lost \cup {a \in Addrs : Blocked(a)}
       \/ (~table \/ NftFails) /\ UNCHANGED <<expires, lost>>
    /\ UNCHANGED <<threads, inflight, seen, table, now>>

tpd_quic_forget ==
    /\ main = "forget" /\ main' = "poll" /\ seen' = <<>>
    /\ UNCHANGED <<threads, inflight, table, expires, now, lost>>

\* heartbeat() after a failed refresh: the ruleset is installed anew, with
\* its sets empty.
tpp_refresh ==
    /\ main = "poll" /\ NftFails
    /\ table' = TRUE /\ expires' = Empty
    /\ lost' = lost \cup {a \in Addrs : Blocked(a)}
    /\ UNCHANGED <<threads, inflight, seen, main, now>>

\* Somebody runs `nft flush ruleset`.
flush_ruleset ==
    /\ NftFails /\ table /\ table' = FALSE /\ expires' = Empty
    /\ lost' = lost \cup {a \in Addrs : Blocked(a)}
    /\ UNCHANGED <<threads, inflight, seen, main, now>>

tick ==
    /\ now < MaxNow /\ now' = now + 1
    /\ \A t \in Threads : threads[t].pc \in {"note", "block", "send"}
                              => now - threads[t].since < MaxStraddle
    /\ UNCHANGED <<threads, inflight, seen, table, expires, main, lost>>

Next ==
    \/ \E t \in Threads :
           \/ udp_loop(t) \/ tcp_loop(t) \/ answer(t) \/ worker_ends(t)
           \/ tcp_worker(t) \/ tpp_quic_block(t)
           \/ \E a \in Addrs : tpd_quic_block_sockaddr(t, a) \/ note(t, a)
    \/ tpp_quic_flush \/ tpd_quic_forget \/ tpp_refresh \/ flush_ruleset \/ tick

Spec == Init /\ [][Next]_vars

-----------------------------------------------------------------------------
(* Properties.                                                             *)

\* The threads that note() told to add a and that have not run nft yet.
Adding(a) == {t \in Threads : a \in threads[t].fresh}

\* Skipping nft for an address g_seen holds costs nothing: unless somebody is
\* about to add it, or nft lost it, its element has more than half of its
\* timeout left.  (The refresh at half the timeout in note(), and the restart
\* of the timeout by tp_nft_quic_block().)
RememberedStaysBlocked ==
    \A a \in Addrs :
        still_fresh(a) /\ Adding(a) = {} /\ a \notin lost
            => expires[a] - now > half

\* When the forwarder sends the answer for a known-blocked name, UDP/443 to
\* its addresses is rejected, but for two cases: another thread has noted the
\* address and not run nft yet, or nft lost it (note_answer() before sendto()).
AnsweredIsBlocked ==
    \A t \in Threads : threads[t].pc = "send" =>
        \A a \in threads[t].addrs :
            Blocked(a) \/ a \in lost \/ Adding(a) # {}

\* g_inflight counts the forwarder's workers and nothing else: take_slot() and
\* give_slot() pair up on every path, a TCP worker's loop included.
InflightIsWorkers ==
    inflight = Cardinality({t \in Threads : threads[t].pc # "idle"
                                            /\ threads[t].kind # "conn"})

\* What the comments of dnsfwd.c and quic.c promise: the addresses are in the
\* set before the answer is sent (nft having lost none of them).
BlockedBeforeAnswer ==
    \A t \in Threads : threads[t].pc = "send" =>
        \A a \in threads[t].addrs : Blocked(a) \/ a \in lost
=============================================================================
