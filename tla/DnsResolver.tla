---------------------------- MODULE DnsResolver -----------------------------
(***************************************************************************)
(* The transparent daemon's resolver: worker threads that look names up    *)
(* (dns_resolve) or pass a query on (dns_exchange) through one cache, one  *)
(* list of servers with their health, and the pool of DoH connections,     *)
(* while the network may change under them (dns.c, dns_doh.c, dns_udp.c,   *)
(* check_network() of transparent.c).                                      *)
(*                                                                         *)
(* A question stands for a name and a type.  Query ids are left out: every *)
(* query has a socket of its own, and Replies says which answer it.        *)
(***************************************************************************)
EXTENDS Integers, Sequences, FiniteSetsExt

CONSTANTS
    Workers, Questions,
    DohCount, UdpCount,         \* servers 1..DohCount, then the fallback ones
    Conns,                      \* identities for DoH connections
    Replies,                    \* what servers may send, as dns_parse_response() sees it
    DNS_CACHE_SIZE, DNS_TTL_MIN, DNS_TTL_MAX, DNS_NEGATIVE_TTL,
    DNS_SERVER_FAIL_LIMIT, DNS_SERVER_BACKOFF_SECONDS, DOH_POOL,
    MaxNow, MaxNet              \* bounds: where the clock and the networks stop

Servers == 1..(DohCount + UdpCount)

ASSUME ResolverAssumption ==
    /\ DohCount \in Nat /\ UdpCount \in Nat /\ Servers # {}
    /\ "none" \notin Conns /\ "" \notin Questions      \* NoConn, and no question
    /\ Replies \subseteq [match : BOOLEAN, tc : BOOLEAN, rcode : 0..15, whole : BOOLEAN,
                          ttls : SUBSET Nat]
    /\ DNS_CACHE_SIZE \in Nat \ {0} /\ DNS_TTL_MIN \in Nat \ {0} /\ DNS_TTL_MAX \in Nat
    /\ DNS_TTL_MIN <= DNS_TTL_MAX /\ DNS_NEGATIVE_TTL \in Nat
    /\ DNS_SERVER_FAIL_LIMIT \in Nat \ {0} /\ DNS_SERVER_BACKOFF_SECONDS \in Nat
    /\ DOH_POOL \in Nat /\ MaxNow \in Nat /\ MaxNet \in Nat

VARIABLES
    cache,          \* r->cache
    health,         \* r->health
    lock,           \* the worker that holds r->lock, or Nobody
    idle,           \* each DoH server's idle connections, the last one on top
    open,           \* the connections that are open
    workers,        \* each worker's lookup
    net, fp,        \* the network, and the one check_network() saw last
    now

vars == <<cache, health, lock, idle, open, workers, net, fp, now>>

Nobody == "nobody"
NoConn == "none"

\* History: from, the network the answer came from; late, the network had been
\* seen to change between the lookup's beginning and its end.
Empty == [q |-> "", status |-> "NONE", expires_at |-> 0, last_used |-> 0,
          from |-> 0, late |-> FALSE]

Resting == [pc |-> "idle", exchange |-> FALSE, q |-> "", now |-> 0, order |-> <<>>,
            conn |-> NoConn, fresh |-> FALSE, status |-> "NONE", ttl |-> 0,
            from |-> 0, late |-> FALSE, torn |-> FALSE]

\* dns_resolver_init()
Init ==
    /\ cache = [i \in 1..DNS_CACHE_SIZE |-> Empty]
    /\ health = [s \in Servers |-> [consecutive_failures |-> 0, skip_until |-> 0]]
    /\ lock = Nobody /\ idle = [s \in 1..DohCount |-> <<>>] /\ open = {}
    /\ workers = [w \in Workers |-> Resting]
    /\ net = 0 /\ fp = 0 /\ now = 0

-----------------------------------------------------------------------------
(* dns.c                                                                   *)

\* tc: truncated; match: id, QR and question are the query's; whole: no record
\* runs past the end; ttls: of the records that are addresses of the type asked for.
dns_parse_response(r) ==
    IF ~r.match \/ r.tc THEN "MALFORMED"
    ELSE IF r.rcode = 3 THEN "NXDOMAIN"
    ELSE IF r.rcode # 0 THEN "SERVFAIL"
    ELSE IF ~r.whole THEN "MALFORMED"
    ELSE IF r.ttls = {} THEN "NODATA" ELSE "OK"

\* reply_matches() and the RCODE: what dns_exchange() takes for an answer.
exchange_answers(r) == r.match /\ r.rcode \notin {2, 5}

Answers == {"OK", "NODATA", "NXDOMAIN"}

\* The slot that holds an unexpired or expired answer to q.
cache_find(c, q) == {i \in DOMAIN c : c[i].q = q}

\* Mutant: the slot is chosen without looking for the question first.
SlotFor_any(c, q, t) ==
    LET free == {i \in DOMAIN c : c[i].q = "" \/ c[i].expires_at <= t}
    IN  IF free # {} THEN Min(free) ELSE 1

\* Where cache_store() puts an answer: its own slot, else the first one that is
\* empty or expired, else the least recently used.
SlotFor(c, q, t) ==
    LET free == {i \in DOMAIN c : c[i].q = "" \/ c[i].expires_at <= t}
    IN  IF cache_find(c, q) # {} THEN Min(cache_find(c, q))
        ELSE IF free # {} THEN Min(free)
        ELSE CHOOSE i \in DOMAIN c : \A j \in DOMAIN c :
                c[i].last_used < c[j].last_used \/ (c[i].last_used = c[j].last_used /\ i <= j)

Clamped(ttl) == IF ttl < DNS_TTL_MIN THEN DNS_TTL_MIN
                ELSE IF ttl > DNS_TTL_MAX THEN DNS_TTL_MAX ELSE ttl

\* The entry cache_store() writes for a lookup.
Entry(l) ==
    [q |-> l.q, status |-> l.status,
     expires_at |-> l.now + Clamped(IF l.status = "OK" THEN l.ttl ELSE DNS_NEGATIVE_TTL),
     last_used |-> l.now, from |-> l.from, late |-> l.late]

\* server_result()
server_result(s, ok, t) ==
    health' = [health EXCEPT ![s] =
        IF ok THEN [consecutive_failures |-> 0, skip_until |-> 0]
        ELSE LET n == Min({@.consecutive_failures + 1, DNS_SERVER_FAIL_LIMIT}) IN
             [consecutive_failures |-> n,
              skip_until |-> IF n >= DNS_SERVER_FAIL_LIMIT
                             THEN t + DNS_SERVER_BACKOFF_SECONDS ELSE @.skip_until]]

\* Healthy servers in list order, then those backed off.
ServerOrders(t) ==
    LET Before(a, b) ==
            LET skipped(s) == health[s].skip_until > t
            IN  IF skipped(a) = skipped(b) THEN a < b ELSE skipped(b)
    IN  {o \in [1..(DohCount + UdpCount) -> Servers] :
            \A i, j \in DOMAIN o : i < j => Before(o[i], o[j])}

WorkerIs(w, l) == workers' = [workers EXCEPT ![w] = l]

\* A lookup before its first query.
Asking(exchange, q, order) ==
    [Resting EXCEPT !.pc = "query", !.exchange = exchange, !.q = q, !.now = now,
                    !.order = order]

\* dns_resolve() up to the first query: a hit answers at once.
dns_resolve(w, q) ==
    LET hits == {i \in cache_find(cache, q) : cache[i].expires_at > now} IN
    /\ workers[w].pc = "idle" /\ lock = Nobody
    /\ IF hits # {}
         THEN /\ cache' = [cache EXCEPT ![Min(hits)].last_used = now]
              /\ UNCHANGED workers
         ELSE /\ \E order \in ServerOrders(now) : WorkerIs(w, Asking(FALSE, q, order))
              /\ UNCHANGED cache
    /\ UNCHANGED <<health, lock, idle, open, net, fp, now>>

\* dns_exchange(): no cache.
dns_exchange(w) ==
    /\ workers[w].pc = "idle" /\ lock = Nobody
    /\ \E order \in ServerOrders(now) : WorkerIs(w, Asking(TRUE, "", order))
    /\ UNCHANGED <<cache, health, lock, idle, open, net, fp, now>>

\* A query came back (or not).  How it failed is only logged.
Result(l, status, ttl) ==
    [l EXCEPT !.pc = "result", !.status = IF status \in Answers THEN status ELSE "FAILED",
              !.ttl = ttl, !.conn = NoConn, !.fresh = FALSE, !.from = net]

\* Every status a reply may have for the lookup, with the least of its TTLs.
Replied(l) ==
    {Result(l, IF l.exchange THEN IF exchange_answers(r) THEN "OK" ELSE "MALFORMED"
               ELSE dns_parse_response(r),
            IF l.exchange \/ r.ttls = {} THEN 0 ELSE Min(r.ttls)) : r \in Replies}

-----------------------------------------------------------------------------
(* The transports.                                                         *)

Asked(w) == Head(workers[w].order)

dns_udp_transport(w) ==
    /\ workers[w].pc = "query" /\ Asked(w) > DohCount
    /\ \E l \in Replied(workers[w]) \cup {Result(workers[w], "TIMEOUT", 0)} : WorkerIs(w, l)
    /\ UNCHANGED <<cache, health, lock, idle, open, net, fp, now>>

\* The connection used last, unless it has been idle too long: then all the
\* others have too, and they are closed: in one step, though the pool's lock is
\* given up around each close.
pool_get(w) ==
    LET s == Asked(w)
        pool == idle[s]
        l == workers[w]
    IN  /\ l.pc = "query" /\ s <= DohCount
        /\ \/ /\ pool # <<>> /\ idle' = [idle EXCEPT ![s] = SubSeq(pool, 1, Len(pool) - 1)]
              /\ WorkerIs(w, [l EXCEPT !.pc = "request", !.conn = pool[Len(pool)], !.fresh = FALSE])
              /\ UNCHANGED open
           \/ /\ idle' = [idle EXCEPT ![s] = <<>>]
              /\ open' = open \ {pool[i] : i \in DOMAIN pool}
              /\ WorkerIs(w, [l EXCEPT !.pc = "open", !.fresh = TRUE])
        /\ UNCHANGED <<cache, health, lock, net, fp, now>>

\* Connect and handshake, or give the server up.
conn_open(w) ==
    LET l == workers[w] IN
    /\ l.pc = "open"
    /\ \/ /\ Conns # open
          /\ LET c == CHOOSE x \in Conns : x \notin open IN
             open' = open \cup {c} /\ WorkerIs(w, [l EXCEPT !.pc = "request", !.conn = c])
       \/ UNCHANGED open /\ WorkerIs(w, Result(l, "TIMEOUT", 0))
    /\ UNCHANGED <<cache, health, lock, idle, net, fp, now>>

\* Mutant: a connection is kept however many there are, and the one below is
\* overwritten when the pool is full.
pool_put_overwrites(s, c) ==
    /\ idle' = [idle EXCEPT ![s] = IF Len(@) < DOH_POOL THEN Append(@, c)
                                   ELSE [@ EXCEPT ![Len(@)] = c]]
    /\ UNCHANGED open

\* Kept for the next query, or closed when the pool is full.
pool_put(s, c) ==
    IF Len(idle[s]) < DOH_POOL
    THEN idle' = [idle EXCEPT ![s] = Append(@, c)] /\ UNCHANGED open
    ELSE open' = open \ {c} /\ UNCHANGED idle

\* doh_query() from the request on.  The server answers; or not with a DNS
\* message; or the connection breaks, and a pooled one is replaced once.
doh_request(w) ==
    LET l == workers[w] IN
    /\ l.pc = "request"
    /\ \/ /\ pool_put(Asked(w), l.conn)
          /\ \E r \in Replied(l) \cup {Result(l, "SERVFAIL", 0)} : WorkerIs(w, r)
       \/ /\ open' = open \ {l.conn} /\ UNCHANGED idle
          /\ \/ WorkerIs(w, Result(l, "TIMEOUT", 0))
             \/ ~l.fresh /\ WorkerIs(w, [l EXCEPT !.pc = "open", !.conn = NoConn, !.fresh = TRUE])
    /\ UNCHANGED <<cache, health, lock, net, fp, now>>

-----------------------------------------------------------------------------
(* Back in dns_resolve() or dns_exchange(), under the lock.                *)

\* A failure counts against the server, and the next one is asked.
query_failed(w) ==
    LET l == workers[w] IN
    /\ l.pc = "result" /\ l.status \notin Answers /\ lock = Nobody
    /\ server_result(Asked(w), FALSE, l.now)
    /\ WorkerIs(w, IF Len(l.order) = 1 THEN Resting
                   ELSE [l EXCEPT !.pc = "query", !.order = Tail(@), !.status = "NONE", !.from = 0])
    /\ UNCHANGED <<cache, lock, idle, open, net, fp, now>>

\* An answer ends the walk; dns_resolve() begins to store it.
query_answered(w) ==
    LET l == workers[w] IN
    /\ l.pc = "result" /\ l.status \in Answers /\ lock = Nobody
    /\ server_result(Asked(w), TRUE, l.now)
    /\ IF l.exchange THEN WorkerIs(w, Resting) /\ UNCHANGED lock
                     ELSE WorkerIs(w, [l EXCEPT !.pc = "store"]) /\ lock' = w
    /\ UNCHANGED <<cache, idle, open, net, fp, now>>

\* What a slot may hold after cache_store(): a flush in the middle of it may have
\* wiped the entry, or all of it but the name and the times.
Written(l) ==
    IF ~l.torn THEN {Entry(l)}
    ELSE {Entry(l), Empty, [Entry(l) EXCEPT !.status = "OK, no address"]}

cache_store(w) ==
    LET l == workers[w] IN
    /\ l.pc = "store" /\ lock' = Nobody /\ WorkerIs(w, Resting)
    /\ \E e \in Written(l) : cache' = [cache EXCEPT ![SlotFor(cache, l.q, l.now)] = e]
    /\ UNCHANGED <<health, idle, open, net, fp, now>>

-----------------------------------------------------------------------------
\* The machine joins another network.
roam ==
    /\ net < MaxNet /\ net' = net + 1
    /\ UNCHANGED <<cache, health, lock, idle, open, workers, fp, now>>

\* Mutant: only the connections are dropped.
check_network_keeps_cache ==
    /\ fp # net /\ fp' = net
    /\ open' = open \ UNION {{idle[s][i] : i \in DOMAIN idle[s]} : s \in DOMAIN idle}
    /\ idle' = [s \in DOMAIN idle |-> <<>>]
    /\ UNCHANGED <<cache, health, lock, workers, net, now>>

\* The main thread sees it: dns_cache_flush(), which takes no lock, and
\* dns_doh_drop_idle().
check_network ==
    /\ fp # net /\ fp' = net
    /\ cache' = [i \in DOMAIN cache |-> Empty]
    /\ workers' = [w \in Workers |-> [workers[w] EXCEPT
                      !.late = workers[w].pc # "idle", !.torn = workers[w].pc = "store"]]
    /\ open' = open \ UNION {{idle[s][i] : i \in DOMAIN idle[s]} : s \in DOMAIN idle}
    /\ idle' = [s \in DOMAIN idle |-> <<>>]
    /\ UNCHANGED <<health, lock, net, now>>

tick ==
    /\ now < MaxNow /\ now' = now + 1
    /\ UNCHANGED <<cache, health, lock, idle, open, workers, net, fp>>

WorkerStep(w) ==
    \/ dns_udp_transport(w) \/ pool_get(w) \/ conn_open(w) \/ doh_request(w)
    \/ query_failed(w) \/ query_answered(w) \/ cache_store(w)

Next ==
    \/ \E w \in Workers : WorkerStep(w) \/ dns_exchange(w) \/ \E q \in Questions : dns_resolve(w, q)
    \/ roam \/ check_network \/ tick

Spec == Init /\ [][Next]_vars

-----------------------------------------------------------------------------
\* Every open DoH connection is in one place, idle in one pool or in the hands of
\* one worker: none is shared between two queries, none leaked, whatever
\* failed, was retried, dropped with the network or did not fit in the pool.
ConnectionsOwned ==
    LET Pooled(s) == DOMAIN idle[s] IN
    /\ open = {c \in Conns : \/ \E w \in Workers : workers[w].conn = c
                             \/ \E s \in 1..DohCount : \E i \in Pooled(s) : idle[s][i] = c}
    /\ \A w, v \in Workers :
          workers[w].conn = workers[v].conn => w = v \/ workers[w].conn = NoConn
    /\ \A s, t \in 1..DohCount : \A i \in Pooled(s), j \in Pooled(t) :
          idle[s][i] = idle[t][j] => s = t /\ i = j
    /\ \A w \in Workers, s \in 1..DohCount : \A i \in Pooled(s) :
          workers[w].conn # idle[s][i]

\* After a network change nothing looked up before it is left (transparent.c,
\* check_network): an answer of another network is only there if its lookup was
\* already under way.
FlushForgets ==
    \A i \in DOMAIN cache : cache[i].q # "" /\ cache[i].from < fp => cache[i].late

\* A question has at most one answer in the cache, though lookups of the same
\* name all miss, ask and store on their own, and a flush may fall among them.
OneSlotPerQuestion ==
    \A q \in Questions : \A i, j \in cache_find(cache, q) : i = j

\* "Forgets what was specific to the old network (DNS answers, ...)"
\* (transparent.c:463): a cached answer is of the network last seen.
AnswersOfThisNetwork ==
    \A i \in DOMAIN cache : cache[i].q # "" => cache[i].from >= fp

=============================================================================
