------------------------- MODULE DnsResolverProofs --------------------------
(***************************************************************************)
(* The resolver for any number of worker threads, questions, servers and   *)
(* connections, any cache and pool size and any replies: the cache has one *)
(* answer to a question and, after a network change, none looked up before *)
(* it but by a lookup under way, and a DoH connection is in one place.     *)
(***************************************************************************)
EXTENDS DnsResolver, TLAPS, WellFoundedInduction, SequenceTheorems

-----------------------------------------------------------------------------
(* Types.                                                                  *)

Statuses == Answers \cup {"NONE", "FAILED", "OK, no address"}

Slots ==
    [q : Questions \cup {""}, status : Statuses, expires_at : Nat, last_used : Nat,
     from : Nat, late : BOOLEAN]

Lookups ==
    [pc : {"idle", "query", "open", "request", "result", "store"}, exchange : BOOLEAN,
     q : Questions \cup {""}, now : Nat, order : Seq(Servers), conn : Conns \cup {NoConn},
     fresh : BOOLEAN, status : Statuses, ttl : Nat, from : Nat, late : BOOLEAN,
     torn : BOOLEAN]

-----------------------------------------------------------------------------
(* The inductive invariant.  The health of the servers only decides their  *)
(* order, and the lock who is next: neither is in it.                      *)

\* A lookup that is asking has a server to ask, a DoH server if it is past the
\* choice of the transport; it holds a connection only while it uses it; and its
\* answer, of network l.from, is not older than f, the network last seen, or it
\* was under way when that changed.
LookupOK(l, f) ==
    /\ l.pc \in {"query", "open", "request", "result"} => l.order # <<>>
    /\ l.pc \in {"open", "request"} => Head(l.order) \in 1..DohCount
    /\ (l.conn # NoConn) <=> (l.pc = "request")
    /\ l.pc \in {"result", "store"} => (l.from >= f \/ l.late = TRUE)

LookupsOK ==
    /\ workers \in [Workers -> Lookups]
    /\ \A w \in Workers : LookupOK(workers[w], fp)

\* The connection each worker holds.
Held == [w \in Workers |-> workers[w].conn]

\* Pools p and held connections h of the right type, o the open ones ...
Places(o, p, h) ==
    /\ o \subseteq Conns /\ p \in [1..DohCount -> Seq(Conns)]
    /\ h \in [Workers -> Conns \cup {NoConn}] /\ NoConn \notin Conns

\* ... and ConnectionsOwned, of any of them.
Owned(o, p, h) ==
    /\ o = {c \in Conns : \/ \E w \in Workers : h[w] = c
                          \/ \E s \in 1..DohCount : \E i \in DOMAIN p[s] : p[s][i] = c}
    /\ \A w, v \in Workers : h[w] = h[v] => w = v \/ h[w] = NoConn
    /\ \A s, t \in 1..DohCount : \A i \in DOMAIN p[s], j \in DOMAIN p[t] :
          p[s][i] = p[t][j] => s = t /\ i = j
    /\ \A w \in Workers, s \in 1..DohCount : \A i \in DOMAIN p[s] : h[w] # p[s][i]

\* The cache's properties, of any cache c and network f.
OneSlot(c) == \A q \in Questions : \A i, j \in cache_find(c, q) : i = j

Forgotten(c, f) == \A i \in DOMAIN c : c[i].q # "" /\ c[i].from < f => c[i].late = TRUE

CacheOK(c, f) ==
    c \in [1..DNS_CACHE_SIZE -> Slots] /\ OneSlot(c) /\ Forgotten(c, f)

ClocksOK == net \in Nat /\ fp \in Nat /\ now \in Nat /\ fp <= net

IInv ==
    /\ LookupsOK /\ CacheOK(cache, fp) /\ ClocksOK
    /\ Places(open, idle, Held) /\ Owned(open, idle, Held)

-----------------------------------------------------------------------------
(* The operators.                                                          *)

\* A set of numbers has a least one, and Min finds it.
LEMMA MinIsLeast ==
    ASSUME NEW S, S \subseteq Nat, S # {}
    PROVE  Min(S) \in S /\ \A y \in S : Min(S) <= y
  <1> DEFINE R == OpToRel(<, Nat)
  <1>1. PICK x \in S : \A y \in S : ~(<<y, x>> \in R)
    <2> HIDE DEF R
    <2>1. IsWellFoundedOn(R, Nat)
      BY NatLessThanWellFounded, Zenon DEF R
    <2> QED
      BY <2>1, WFMin, Zenon
  <1>2. \A y \in S : <<y, x>> \in R <=> y < x
    <2>1. R = {ss \in Nat \X Nat : ss[1] < ss[2]}
      BY Zenon DEF OpToRel
    <2> HIDE DEF R
    <2> QED
      BY <2>1
  <1> HIDE DEF R
  <1>3. \A y \in S : ~(y < x)
    BY <1>1, <1>2, Zenon
  <1>4. \A y \in S : x <= y
    BY <1>3
  <1> QED
    BY <1>4, Zenon DEF Min

\* A lookup at rest.
LEMMA RestingType ==
    Resting \in Lookups /\ Resting.conn = NoConn /\ \A f : LookupOK(Resting, f)
  BY DEF Resting, Lookups, LookupOK, Statuses, Answers, NoConn

\* What dns_resolve() and dns_exchange() walk is a list of servers, not empty.
LEMMA OrderType ==
    ASSUME NEW t, NEW o \in ServerOrders(t)
    PROVE  o \in Seq(Servers) /\ o # <<>>
  <1>1. DohCount + UdpCount \in Nat /\ DohCount + UdpCount >= 1
    <2>1. DohCount \in Nat /\ UdpCount \in Nat /\ 1..(DohCount + UdpCount) # {}
      BY ResolverAssumption, Zenon DEF Servers
    <2> QED
      BY <2>1
  <1> DEFINE n == DohCount + UdpCount
  <1>2. o \in [1..n -> Servers]
    BY DEF ServerOrders
  <1> HIDE DEF n
  <1>3. n \in Nat /\ n >= 1
    BY <1>1 DEF n
  <1> QED
    BY <1>2, <1>3

\* The result of a query: the lookup with its connection given up, stamped with
\* the network.
LEMMA ResultType ==
    ASSUME NEW l \in Lookups, NEW status, NEW ttl \in Nat, net \in Nat
    PROVE  LET r == Result(l, status, ttl) IN
           /\ r \in Lookups /\ r.pc = "result" /\ r.conn = NoConn
           /\ r.order = l.order /\ r.from = net
  <1> DEFINE st == IF status \in Answers THEN status ELSE "FAILED"
  <1>1. st \in Statuses
    BY Zenon DEF Statuses
  <1>2. Result(l, status, ttl) =
          [l EXCEPT !.pc = "result", !.status = st, !.ttl = ttl, !.conn = NoConn,
                    !.fresh = FALSE, !.from = net]
    BY DEF Result
  <1> HIDE DEF st
  <1> DEFINE r == [l EXCEPT !.pc = "result", !.status = st, !.ttl = ttl, !.conn = NoConn,
                            !.fresh = FALSE, !.from = net]
  <1>3. /\ r.pc = "result" /\ r.conn = NoConn /\ r.order = l.order /\ r.from = net
    BY Zenon DEF Lookups
  <1>4. r \in Lookups
    BY Zenon, <1>1 DEF Lookups
  <1> QED
    BY <1>2, <1>3, <1>4, Zenon

\* Whatever a server replies, the result is such a one.
LEMMA RepliedType ==
    ASSUME NEW l \in Lookups, net \in Nat, NEW r \in Replied(l)
    PROVE  /\ r \in Lookups /\ r.pc = "result" /\ r.conn = NoConn
           /\ r.order = l.order /\ r.from = net
  <1>1. PICK m \in Replies :
          r = Result(l, IF l.exchange THEN IF exchange_answers(m) THEN "OK" ELSE "MALFORMED"
                        ELSE dns_parse_response(m),
                     IF l.exchange \/ m.ttls = {} THEN 0 ELSE Min(m.ttls))
    BY Zenon DEF Replied
  <1>2. m.ttls \subseteq Nat
    BY Zenon, ResolverAssumption
  <1> DEFINE ttl == IF l.exchange \/ m.ttls = {} THEN 0 ELSE Min(m.ttls)
  <1>3. ttl \in Nat
    <2>1. CASE m.ttls = {}
      BY <2>1
    <2>2. CASE m.ttls # {}
      <3>1. Min(m.ttls) \in Nat
        BY <1>2, <2>2, MinIsLeast
      <3> QED
        BY <3>1
    <2> QED
      BY <2>1, <2>2
  <1> HIDE DEF ttl
  <1>4. \A status : LET x == Result(l, status, ttl) IN
            /\ x \in Lookups /\ x.pc = "result" /\ x.conn = NoConn
            /\ x.order = l.order /\ x.from = net
    BY <1>3, ResultType, Zenon
  <1> QED
    BY <1>1, <1>4, Zenon DEF ttl

\* An entry has the question and the network of its lookup.
LEMMA EntryType ==
    ASSUME NEW l \in Lookups
    PROVE  LET e == Entry(l) IN
           e \in Slots /\ e.q = l.q /\ e.from = l.from /\ e.late = l.late
  <1> DEFINE ttl == IF l.status = "OK" THEN l.ttl ELSE DNS_NEGATIVE_TTL
             x == l.now + Clamped(ttl)
  <1>1. ttl \in Nat
    BY Zenon, ResolverAssumption DEF Lookups
  <1> HIDE DEF ttl
  <1>2. x \in Nat
    <2>1. Clamped(ttl) \in Nat
      BY Zenon, <1>1, ResolverAssumption DEF Clamped
    <2>2. l.now \in Nat
      BY Zenon DEF Lookups
    <2> HIDE DEF ttl
    <2> QED
      BY <2>1, <2>2
  <1>3. Entry(l) = [q |-> l.q, status |-> l.status, expires_at |-> x, last_used |-> l.now,
                    from |-> l.from, late |-> l.late]
    BY Zenon DEF Entry, ttl
  <1> HIDE DEF x
  <1> DEFINE e == [q |-> l.q, status |-> l.status, expires_at |-> x, last_used |-> l.now,
                   from |-> l.from, late |-> l.late]
  <1>4. /\ l.q \in Questions \cup {""} /\ l.status \in Statuses /\ l.now \in Nat
        /\ l.from \in Nat /\ l.late \in BOOLEAN
    BY Zenon DEF Lookups
  <1>5. e \in Slots
    BY Zenon, <1>2, <1>4 DEF Slots
  <1>6. e.q = l.q /\ e.from = l.from /\ e.late = l.late
    BY Zenon
  <1> QED
    BY <1>3, <1>5, <1>6, Zenon

-----------------------------------------------------------------------------
(* Connections: what the pool's operations do to the places they are in.   *)

\* pool_get() of a pooled connection: the worker has what the pool had.
LEMMA OwnedPop ==
    ASSUME NEW o, NEW p, NEW h, Places(o, p, h), Owned(o, p, h),
           NEW s \in 1..DohCount, NEW w \in Workers, h[w] = NoConn, p[s] # <<>>
    PROVE  Owned(o, [p EXCEPT ![s] = SubSeq(p[s], 1, Len(p[s]) - 1)],
                 [h EXCEPT ![w] = p[s][Len(p[s])]])
  <1> DEFINE n == Len(p[s])
             top == p[s][n]
             P == [p EXCEPT ![s] = SubSeq(p[s], 1, n - 1)]
             H == [h EXCEPT ![w] = top]
  <1>1. n \in Nat /\ n >= 1 /\ n \in DOMAIN p[s] /\ top \in Conns /\ DOMAIN p[s] = 1..n
    BY DEF Places
  <1>2. /\ DOMAIN P[s] = 1..(n - 1)
        /\ \A i \in 1..(n - 1) : P[s][i] = p[s][i]
        /\ \A t \in 1..DohCount : t # s => P[t] = p[t]
    BY <1>1 DEF Places
  <1>3. H[w] = top /\ \A v \in Workers : v # w => H[v] = h[v]
    BY DEF Places
  <1> HIDE DEF n, top, P, H
  <1>4. /\ \A t \in 1..DohCount : \A i \in DOMAIN P[t] :
              i \in DOMAIN p[t] /\ P[t][i] = p[t][i] /\ (t = s => i # n)
        /\ \A t \in 1..DohCount : \A i \in DOMAIN p[t] :
              (t # s \/ i # n) => (i \in DOMAIN P[t] /\ P[t][i] = p[t][i])
    BY <1>1, <1>2
  <1>5. top = p[s][n] /\ n \in DOMAIN p[s]
    BY <1>1 DEF top
  <1>6. ASSUME NEW c \in Conns
        PROVE  (\/ \E v \in Workers : H[v] = c
                \/ \E t \in 1..DohCount : \E i \in DOMAIN P[t] : P[t][i] = c)
            <=> (\/ \E v \in Workers : h[v] = c
                 \/ \E t \in 1..DohCount : \E i \in DOMAIN p[t] : p[t][i] = c)
    BY <1>3, <1>4, <1>5 DEF Places
  <1>7. \A v, u \in Workers : H[v] = H[u] => v = u \/ H[v] = NoConn
    BY <1>3, <1>5 DEF Owned
  <1>8. \A t, u \in 1..DohCount : \A i \in DOMAIN P[t], j \in DOMAIN P[u] :
          P[t][i] = P[u][j] => t = u /\ i = j
    BY <1>4 DEF Owned
  <1>9. \A v \in Workers, t \in 1..DohCount : \A i \in DOMAIN P[t] : H[v] # P[t][i]
    BY <1>3, <1>4, <1>5 DEF Owned
  <1>10. o = {c \in Conns : \/ \E v \in Workers : H[v] = c
                            \/ \E t \in 1..DohCount : \E i \in DOMAIN P[t] : P[t][i] = c}
    BY <1>6, ZenonT(60) DEF Owned
  <1> QED
    BY <1>7, <1>8, <1>9, <1>10, Zenon DEF Owned, P, H, top, n

\* pool_get() when the pool's connections have been idle too long: they are closed.
LEMMA OwnedDrop ==
    ASSUME NEW o, NEW p, NEW h, Places(o, p, h), Owned(o, p, h), NEW s \in 1..DohCount
    PROVE  Owned(o \ {p[s][i] : i \in DOMAIN p[s]}, [p EXCEPT ![s] = <<>>], h)
  <1> DEFINE P == [p EXCEPT ![s] = <<>>]
             O == o \ {p[s][i] : i \in DOMAIN p[s]}
  <1>1. DOMAIN P[s] = {} /\ \A t \in 1..DohCount : t # s => P[t] = p[t]
    BY DEF Places
  <1>2. \A c : c \in O <=> c \in o /\ ~\E i \in DOMAIN p[s] : p[s][i] = c
    OBVIOUS
  <1> HIDE DEF P, O
  <1>3. \A c \in o : c \in Conns
    BY DEF Places
  <1>4. \A c : c \in O <=> /\ c \in Conns
                           /\ \/ \E v \in Workers : h[v] = c
                              \/ \E t \in 1..DohCount : \E i \in DOMAIN P[t] : P[t][i] = c
    BY <1>1, <1>2, <1>3 DEF Owned
  <1>5. \A t, u \in 1..DohCount : \A i \in DOMAIN P[t], j \in DOMAIN P[u] :
          P[t][i] = P[u][j] => t = u /\ i = j
    BY <1>1 DEF Owned
  <1>6. \A v \in Workers, t \in 1..DohCount : \A i \in DOMAIN P[t] : h[v] # P[t][i]
    BY <1>1 DEF Owned
  <1>7. O = {c \in Conns : \/ \E v \in Workers : h[v] = c
                           \/ \E t \in 1..DohCount : \E i \in DOMAIN P[t] : P[t][i] = c}
    BY <1>4, Zenon
  <1> QED
    BY <1>5, <1>6, <1>7, Zenon DEF Owned, P, O

\* dns_doh_drop_idle(): all pools are emptied.
LEMMA OwnedDropAll ==
    ASSUME NEW o, NEW p, NEW h, Places(o, p, h), Owned(o, p, h)
    PROVE  Owned(o \ UNION {{p[s][i] : i \in DOMAIN p[s]} : s \in DOMAIN p},
                 [s \in DOMAIN p |-> <<>>], h)
  <1> DEFINE P == [s \in DOMAIN p |-> <<>>]
             O == o \ UNION {{p[s][i] : i \in DOMAIN p[s]} : s \in DOMAIN p}
  <1>1. \A t \in 1..DohCount : DOMAIN P[t] = {}
    BY DEF Places
  <1>2. \A c : c \in O <=> c \in o /\ ~\E s \in 1..DohCount : \E i \in DOMAIN p[s] : p[s][i] = c
    BY DEF Places
  <1> HIDE DEF P, O
  <1>3. \A c \in o : c \in Conns
    BY DEF Places
  <1>4. \A c : c \in O <=> /\ c \in Conns
                           /\ \/ \E v \in Workers : h[v] = c
                              \/ \E t \in 1..DohCount : \E i \in DOMAIN P[t] : P[t][i] = c
    BY <1>1, <1>2, <1>3 DEF Owned
  <1>5. O = {c \in Conns : \/ \E v \in Workers : h[v] = c
                           \/ \E t \in 1..DohCount : \E i \in DOMAIN P[t] : P[t][i] = c}
    BY <1>4, Zenon
  <1>6. /\ \A t, u \in 1..DohCount : \A i \in DOMAIN P[t], j \in DOMAIN P[u] :
              P[t][i] = P[u][j] => t = u /\ i = j
        /\ \A v \in Workers, t \in 1..DohCount : \A i \in DOMAIN P[t] : h[v] # P[t][i]
    BY <1>1
  <1> QED
    BY <1>5, <1>6, Zenon DEF Owned, P, O

\* conn_open(): a new connection, in the hands of the worker that opened it.
LEMMA OwnedOpened ==
    ASSUME NEW o, NEW p, NEW h, Places(o, p, h), Owned(o, p, h),
           NEW w \in Workers, h[w] = NoConn, NEW c \in Conns, c \notin o
    PROVE  Owned(o \cup {c}, p, [h EXCEPT ![w] = c])
  <1> DEFINE H == [h EXCEPT ![w] = c]
             O == o \cup {c}
  <1>1. H[w] = c /\ \A v \in Workers : v # w => H[v] = h[v]
    BY DEF Places
  <1>2. \A x : x \in O <=> x \in o \/ x = c
    OBVIOUS
  <1> HIDE DEF H, O
  <1>3. c # NoConn /\ \A x \in o : x \in Conns
    BY DEF Places
  <1>4. \A x : x \in O <=> /\ x \in Conns
                           /\ \/ \E v \in Workers : H[v] = x
                              \/ \E t \in 1..DohCount : \E i \in DOMAIN p[t] : p[t][i] = x
    BY <1>1, <1>2, <1>3 DEF Owned, Places
  <1>5. \A v, u \in Workers : H[v] = H[u] => v = u \/ H[v] = NoConn
    BY <1>1 DEF Owned, Places
  <1>6. \A v \in Workers, t \in 1..DohCount : \A i \in DOMAIN p[t] : H[v] # p[t][i]
    BY <1>1 DEF Owned
  <1>7. O = {x \in Conns : \/ \E v \in Workers : H[v] = x
                           \/ \E t \in 1..DohCount : \E i \in DOMAIN p[t] : p[t][i] = x}
    BY <1>4, Zenon
  <1> QED
    BY <1>5, <1>6, <1>7, Zenon DEF Owned, H, O

\* A connection that is closed is in no place.
LEMMA OwnedClosed ==
    ASSUME NEW o, NEW p, NEW h, Places(o, p, h), Owned(o, p, h),
           NEW w \in Workers, h[w] # NoConn
    PROVE  Owned(o \ {h[w]}, p, [h EXCEPT ![w] = NoConn])
  <1> DEFINE H == [h EXCEPT ![w] = NoConn]
             O == o \ {h[w]}
  <1>1. H[w] = NoConn /\ \A v \in Workers : v # w => H[v] = h[v]
    BY DEF Places
  <1>2. \A x : x \in O <=> x \in o /\ x # h[w]
    OBVIOUS
  <1> HIDE DEF H, O
  <1>3. NoConn \notin Conns /\ \A x \in o : x \in Conns
    BY DEF Places
  <1>4. \A x : x \in O <=> /\ x \in Conns
                           /\ \/ \E v \in Workers : H[v] = x
                              \/ \E t \in 1..DohCount : \E i \in DOMAIN p[t] : p[t][i] = x
    BY <1>1, <1>2, <1>3 DEF Owned
  <1>5. \A v, u \in Workers : H[v] = H[u] => v = u \/ H[v] = NoConn
    BY <1>1 DEF Owned
  <1>6. \A v \in Workers, t \in 1..DohCount : \A i \in DOMAIN p[t] : H[v] # p[t][i]
    <2>1. \A t \in 1..DohCount : \A i \in DOMAIN p[t] : p[t][i] # NoConn
      BY DEF Places
    <2> QED
      BY <1>1, <2>1 DEF Owned
  <1>7. O = {x \in Conns : \/ \E v \in Workers : H[v] = x
                           \/ \E t \in 1..DohCount : \E i \in DOMAIN p[t] : p[t][i] = x}
    BY <1>4, Zenon
  <1> QED
    BY <1>5, <1>6, <1>7, Zenon DEF Owned, H, O

\* pool_put() with room in the pool: the pool has what the worker had.
LEMMA OwnedPut ==
    ASSUME NEW o, NEW p, NEW h, Places(o, p, h), Owned(o, p, h),
           NEW s \in 1..DohCount, NEW w \in Workers, h[w] # NoConn
    PROVE  Owned(o, [p EXCEPT ![s] = Append(p[s], h[w])], [h EXCEPT ![w] = NoConn])
  <1> DEFINE n == Len(p[s]) + 1
             P == [p EXCEPT ![s] = Append(p[s], h[w])]
             H == [h EXCEPT ![w] = NoConn]
  <1>1. p[s] \in Seq(Conns) /\ h[w] \in Conns
    BY DEF Places
  <1>2. n \in Nat /\ n \notin DOMAIN p[s] /\ DOMAIN Append(p[s], h[w]) = DOMAIN p[s] \cup {n}
    BY <1>1
  <1>3. Append(p[s], h[w])[n] = h[w] /\ \A i \in DOMAIN p[s] : Append(p[s], h[w])[i] = p[s][i]
    BY <1>1
  <1>4. P[s] = Append(p[s], h[w]) /\ \A t \in 1..DohCount : t # s => P[t] = p[t]
    BY DEF Places
  <1>5. H[w] = NoConn /\ \A v \in Workers : v # w => H[v] = h[v]
    BY DEF Places
  <1> HIDE DEF n, P, H
  <1>6. /\ n \in DOMAIN P[s] /\ P[s][n] = h[w] /\ n \notin DOMAIN p[s]
        /\ \A t \in 1..DohCount : \A i \in DOMAIN p[t] : i \in DOMAIN P[t] /\ P[t][i] = p[t][i]
        /\ \A t \in 1..DohCount : \A i \in DOMAIN P[t] :
              \/ i \in DOMAIN p[t] /\ P[t][i] = p[t][i]
              \/ t = s /\ i = n /\ P[t][i] = h[w]
    BY <1>2, <1>3, <1>4, SMTT(30)
  <1>7. NoConn \notin Conns /\ \A t \in 1..DohCount : \A i \in DOMAIN p[t] : p[t][i] # NoConn
    BY DEF Places
  <1>8. ASSUME NEW c \in Conns
        PROVE  (\/ \E v \in Workers : H[v] = c
                \/ \E t \in 1..DohCount : \E i \in DOMAIN P[t] : P[t][i] = c)
            <=> (\/ \E v \in Workers : h[v] = c
                 \/ \E t \in 1..DohCount : \E i \in DOMAIN p[t] : p[t][i] = c)
    BY <1>5, <1>6, <1>7
  <1>9. \A v, u \in Workers : H[v] = H[u] => v = u \/ H[v] = NoConn
    BY <1>5 DEF Owned
  <1>10. \A t, u \in 1..DohCount : \A i \in DOMAIN P[t], j \in DOMAIN P[u] :
           P[t][i] = P[u][j] => t = u /\ i = j
    BY <1>6 DEF Owned
  <1>11. \A v \in Workers, t \in 1..DohCount : \A i \in DOMAIN P[t] : H[v] # P[t][i]
    BY <1>5, <1>6, <1>7 DEF Owned
  <1>12. o = {c \in Conns : \/ \E v \in Workers : H[v] = c
                            \/ \E t \in 1..DohCount : \E i \in DOMAIN P[t] : P[t][i] = c}
    BY <1>8, Zenon DEF Owned
  <1> QED
    BY <1>9, <1>10, <1>11, <1>12, Zenon DEF Owned, P, H

-----------------------------------------------------------------------------
(* The cache.                                                              *)

\* Slots have numbers.
LEMMA SlotNumbers == \A i \in 1..DNS_CACHE_SIZE : i \in Nat
  <1>1. DNS_CACHE_SIZE \in Nat
    BY ResolverAssumption, Zenon
  <1> QED
    BY <1>1

\* cache_store() puts an answer where the question's last one is, if there is one.
LEMMA StoreKeepsOneSlot ==
    ASSUME NEW c \in [1..DNS_CACHE_SIZE -> Slots], OneSlot(c), NEW q, NEW t,
           NEW e \in Slots, e.q \in {q, ""}
    PROVE  OneSlot([c EXCEPT ![SlotFor(c, q, t)] = e])
  <1> DEFINE k == SlotFor(c, q, t)
             C == [c EXCEPT ![k] = e]
             F == cache_find(c, q)
  <1>1. F # {} => k \in F
    <2>1. F \subseteq Nat
      <3>1. F \subseteq 1..DNS_CACHE_SIZE
        BY Zenon DEF cache_find
      <3> QED
        BY <3>1, SlotNumbers, Zenon
    <2>2. F # {} => k = Min(F)
      BY Zenon DEF SlotFor
    <2> HIDE DEF F, k
    <2> QED
      BY <2>1, <2>2, MinIsLeast, Zenon
  <1>2. DOMAIN C = DOMAIN c /\ \A i \in DOMAIN c : C[i] = IF i = k THEN e ELSE c[i]
    BY Zenon
  <1>3. \A i \in DOMAIN c : i \in F <=> c[i].q = q
    BY Zenon DEF cache_find
  <1> HIDE DEF k, C, F
  <1>4. "" \notin Questions
    BY Zenon, ResolverAssumption
  <1> SUFFICES ASSUME NEW x \in Questions, NEW i \in DOMAIN C, NEW j \in DOMAIN C,
                      C[i].q = x, C[j].q = x
               PROVE  i = j
    BY Zenon DEF OneSlot, cache_find, C, k
  <1>5. \A y \in Questions : \A a, b \in DOMAIN c : c[a].q = y /\ c[b].q = y => a = b
    BY Zenon DEF OneSlot, cache_find
  <1>6. CASE i # k /\ j # k
    BY <1>2, <1>5, <1>6, Zenon
  <1>7. ASSUME NEW a \in DOMAIN c, a # k, c[a].q = x, e.q = x, k \in DOMAIN c
        PROVE  FALSE
    <2>1. a \in F /\ x = q
      BY Zenon, <1>3, <1>4, <1>7
    <2>2. c[k].q = q
      BY <1>1, <1>3, <1>7, <2>1
    <2> QED
      BY <1>5, <1>7, <2>1, <2>2
  <1> QED
    BY Zenon, <1>2, <1>6, <1>7

\* Of a network older than f, and not older: not both.
LEMMA BelowIsNotAtLeast == \A a, f \in Nat : a < f <=> ~(a >= f)
  OBVIOUS

\* A slot written with an answer that is current, or late, or wiped.
LEMMA StoreKeepsCache ==
    ASSUME NEW c, NEW f \in Nat, CacheOK(c, f), NEW q, NEW t, NEW e \in Slots,
           e.q \in {q, ""}, e.q # "" => (e.from >= f \/ e.late = TRUE)
    PROVE  CacheOK([c EXCEPT ![SlotFor(c, q, t)] = e], f)
  <1> DEFINE k == SlotFor(c, q, t)
             C == [c EXCEPT ![k] = e]
  <1>1. C \in [1..DNS_CACHE_SIZE -> Slots]
    BY Zenon DEF CacheOK
  <1>2. OneSlot(C)
    BY StoreKeepsOneSlot, Zenon DEF CacheOK
  <1>3. Forgotten(C, f)
    <2>1. DOMAIN C = DOMAIN c /\ \A i \in DOMAIN c : C[i] = e \/ C[i] = c[i]
      BY Zenon DEF CacheOK
    <2>2. e.from \in Nat
      BY Zenon DEF Slots
    <2> HIDE DEF k, C
    <2>3. e.q # "" /\ e.from < f => e.late = TRUE
      BY <2>2, BelowIsNotAtLeast, Zenon
    <2> QED
      BY <2>1, <2>3, Zenon DEF CacheOK, Forgotten
  <1> QED
    BY <1>1, <1>2, <1>3, Zenon DEF CacheOK

-----------------------------------------------------------------------------
(* The steps.                                                              *)

\* A worker's step changes its own lookup.
LEMMA MoveWorker ==
    ASSUME LookupsOK, NEW w \in Workers, NEW l \in Lookups, LookupOK(l, fp),
           WorkerIs(w, l), UNCHANGED fp
    PROVE  LookupsOK' /\ Held' = [Held EXCEPT ![w] = l.conn]
  <1>1. workers' = [workers EXCEPT ![w] = l] /\ workers \in [Workers -> Lookups]
    BY Zenon DEF WorkerIs, LookupsOK
  <1>2. workers' \in [Workers -> Lookups]
    BY <1>1
  <1>3. \A v \in Workers : workers'[v] = IF v = w THEN l ELSE workers[v]
    BY <1>1
  <1>4. \A v \in Workers : LookupOK(workers'[v], fp)
    BY <1>3, Zenon DEF LookupsOK
  <1>5. Held' = [Held EXCEPT ![w] = l.conn]
    BY Zenon, <1>3 DEF Held
  <1> QED
    BY <1>2, <1>4, <1>5, Zenon DEF LookupsOK

\* A step of one worker that keeps the connections where they are, and the cache.
LEMMA QuietStep ==
    ASSUME IInv, NEW w \in Workers, NEW l \in Lookups, LookupOK(l, fp),
           l.conn = workers[w].conn, WorkerIs(w, l),
           UNCHANGED <<idle, open, net, fp, now>>, CacheOK(cache', fp)
    PROVE  IInv'
  <1>1. LookupsOK' /\ Held' = [Held EXCEPT ![w] = l.conn]
    BY MoveWorker, Zenon DEF IInv
  <1>2. Held' = Held
    BY Zenon, <1>1 DEF Held
  <1> QED
    BY <1>1, <1>2, Zenon DEF IInv, ClocksOK

\* A step that leaves the cache and the clocks alone.
LEMMA ConnStep ==
    ASSUME IInv, NEW w \in Workers, NEW l \in Lookups, LookupOK(l, fp), WorkerIs(w, l),
           UNCHANGED <<cache, net, fp, now>>,
           Owned(open', idle', [Held EXCEPT ![w] = l.conn]),
           open' \subseteq Conns, idle' \in [1..DohCount -> Seq(Conns)]
    PROVE  IInv'
  <1>1. LookupsOK' /\ Held' = [Held EXCEPT ![w] = l.conn]
    BY MoveWorker, Zenon DEF IInv
  <1>2. l.conn \in Conns \cup {NoConn}
    BY Zenon DEF Lookups
  <1>3. Places(open', idle', Held')
    <2>1. Held \in [Workers -> Conns \cup {NoConn}] /\ NoConn \notin Conns
      BY Zenon DEF IInv, Places
    <2>2. Held' \in [Workers -> Conns \cup {NoConn}]
      BY <1>1, <1>2, <2>1
    <2> QED
      BY <2>1, <2>2, Zenon DEF Places
  <1> QED
    BY <1>1, <1>3, Zenon DEF IInv, ClocksOK

\* A worker's lookup, its types and what the invariant says of it.
LEMMA LookupOf ==
    ASSUME IInv, NEW w \in Workers
    PROVE  /\ workers[w] \in Lookups /\ LookupOK(workers[w], fp)
           /\ Held[w] = workers[w].conn /\ net \in Nat /\ fp \in Nat /\ net >= fp
  <1>1. workers[w] \in Lookups /\ LookupOK(workers[w], fp)
    BY Zenon DEF IInv, LookupsOK
  <1>2. Held[w] = workers[w].conn
    BY DEF Held
  <1>3. ClocksOK
    BY Zenon DEF IInv
  <1>4. net \in Nat /\ fp \in Nat /\ net >= fp
    BY <1>3 DEF ClocksOK
  <1> QED
    BY <1>1, <1>2, <1>4, Zenon

\* The first query of a lookup that missed, or of an exchange.
LEMMA FirstQuery ==
    ASSUME NEW q \in Questions \cup {""}, NEW x \in BOOLEAN, now \in Nat,
           NEW order \in ServerOrders(now)
    PROVE  LET l == Asking(x, q, order) IN
           l \in Lookups /\ l.conn = NoConn /\ \A f : LookupOK(l, f)
  <1> DEFINE l == Asking(x, q, order)
  <1>1. order \in Seq(Servers) /\ order # <<>>
    BY OrderType, Zenon
  <1>2. Resting \in Lookups /\ Resting.conn = NoConn
    BY RestingType, Zenon
  <1>3. l \in Lookups
    BY Zenon, <1>1, <1>2 DEF Lookups, Asking
  <1>4. l.conn = NoConn /\ l.pc = "query" /\ l.order = order
    BY Zenon, <1>2 DEF Lookups, Asking
  <1> HIDE DEF l
  <1>5. \A f : LookupOK(l, f)
    BY Zenon, <1>1, <1>4 DEF LookupOK
  <1> QED
    BY <1>3, <1>4, <1>5, Zenon DEF l

\* dns_resolve(): a hit only touches the slot's time of use.
LEMMA HitKeepsCache ==
    ASSUME NEW c, NEW f, CacheOK(c, f), NEW m, NEW t \in Nat
    PROVE  CacheOK([c EXCEPT ![m].last_used = t], f)
  <1> DEFINE C == [c EXCEPT ![m].last_used = t]
  <1>1. c \in [1..DNS_CACHE_SIZE -> Slots]
    BY Zenon DEF CacheOK
  <1>2. C \in [1..DNS_CACHE_SIZE -> Slots]
    BY Zenon, <1>1 DEF Slots
  <1>3. \A i \in 1..DNS_CACHE_SIZE :
          C[i].q = c[i].q /\ C[i].from = c[i].from /\ C[i].late = c[i].late
    BY Zenon, <1>1 DEF Slots
  <1>4. DOMAIN C = 1..DNS_CACHE_SIZE /\ DOMAIN c = 1..DNS_CACHE_SIZE
    BY <1>1
  <1> HIDE DEF C
  <1>5. \A q : cache_find(C, q) = cache_find(c, q)
    BY <1>3, <1>4, Zenon DEF cache_find
  <1>6. OneSlot(C)
    BY <1>5, Zenon DEF OneSlot, CacheOK
  <1>7. Forgotten(C, f)
    BY <1>3, <1>4, Zenon DEF Forgotten, CacheOK
  <1> QED
    BY <1>2, <1>6, <1>7, Zenon DEF CacheOK, C

\* dns_resolve() keeps the invariant: a hit, or a miss and the first query.
LEMMA ResolveStep ==
    ASSUME IInv, NEW w \in Workers, NEW q \in Questions, dns_resolve(w, q)
    PROVE  IInv'
  <1> DEFINE hits == {i \in cache_find(cache, q) : cache[i].expires_at > now}
  <1>1. now \in Nat
    BY Zenon DEF IInv, ClocksOK
  <1>2. CASE hits # {}
    <2>1. cache' = [cache EXCEPT ![Min(hits)].last_used = now]
          /\ UNCHANGED <<workers, idle, open, net, fp, now>>
      BY <1>2, Zenon DEF dns_resolve
    <2> HIDE DEF hits
    <2>2. CacheOK(cache', fp)
      BY <1>1, <2>1, HitKeepsCache, Zenon DEF IInv
    <2>3. Held' = Held /\ (LookupsOK <=> LookupsOK') /\ (ClocksOK <=> ClocksOK')
      BY <2>1, Zenon DEF Held, LookupsOK, ClocksOK
    <2> QED
      BY <2>1, <2>2, <2>3, Zenon DEF IInv
  <1>3. CASE hits = {}
    <2>1. PICK order \in ServerOrders(now) : WorkerIs(w, Asking(FALSE, q, order))
      BY <1>3, Zenon DEF dns_resolve
    <2>2. UNCHANGED <<cache, idle, open, net, fp, now>> /\ workers[w].pc = "idle"
      BY <1>3, Zenon DEF dns_resolve
    <2> HIDE DEF hits
    <2> DEFINE l == Asking(FALSE, q, order)
    <2>3. FALSE \in BOOLEAN /\ q \in Questions \cup {""}
      BY Zenon
    <2>4. l \in Lookups /\ l.conn = NoConn /\ LookupOK(l, fp)
      BY <1>1, <2>3, FirstQuery, Zenon
    <2> HIDE DEF l
    <2>5. workers[w].conn = NoConn
      BY Zenon, <2>2, LookupOf DEF LookupOK
    <2>6. WorkerIs(w, l) /\ CacheOK(cache', fp)
      BY <2>1, <2>2, Zenon DEF l, IInv
    <2> QED
      BY <2>2, <2>4, <2>5, <2>6, QuietStep, Zenon
  <1> QED
    BY <1>2, <1>3, Zenon

\* dns_exchange() keeps it.
LEMMA ExchangeStep ==
    ASSUME IInv, NEW w \in Workers, dns_exchange(w)
    PROVE  IInv'
  <1>1. now \in Nat
    BY Zenon DEF IInv, ClocksOK
  <1>2. PICK order \in ServerOrders(now) : WorkerIs(w, Asking(TRUE, "", order))
    BY Zenon DEF dns_exchange
  <1>3. UNCHANGED <<cache, idle, open, net, fp, now>> /\ workers[w].pc = "idle"
    BY Zenon DEF dns_exchange
  <1> DEFINE l == Asking(TRUE, "", order)
  <1>4. TRUE \in BOOLEAN /\ "" \in Questions \cup {""}
    OBVIOUS
  <1>5. l \in Lookups /\ l.conn = NoConn /\ LookupOK(l, fp)
    BY <1>1, <1>4, FirstQuery, Zenon
  <1> HIDE DEF l
  <1>6. workers[w].conn = NoConn
    BY Zenon, <1>3, LookupOf DEF LookupOK
  <1>7. WorkerIs(w, l) /\ CacheOK(cache', fp)
    BY <1>2, <1>3, Zenon DEF l, IInv
  <1> QED
    BY <1>3, <1>5, <1>6, <1>7, QuietStep, Zenon

\* A reply came, or none did.
IsResult(r, l) == r \in Replied(l) \/ \E status : r = Result(l, status, 0)

\* The result of a query, whatever it is: the lookup is not asking any more, holds no
\* connection, and what it has is of the network it is on.
LEMMA ResultOK ==
    ASSUME IInv, NEW w \in Workers, NEW r,
           workers[w].pc \in {"query", "open", "request"},
           IsResult(r, workers[w])
    PROVE  r \in Lookups /\ LookupOK(r, fp) /\ r.conn = NoConn
  <1> DEFINE l == workers[w]
  <1>1. l \in Lookups /\ LookupOK(l, fp) /\ net \in Nat /\ fp \in Nat /\ net >= fp
    BY LookupOf, Zenon
  <1>2. /\ r \in Lookups /\ r.pc = "result" /\ r.conn = NoConn
        /\ r.order = l.order /\ r.from = net
    <2>1. CASE r \in Replied(l)
      BY <1>1, <2>1, RepliedType, Zenon
    <2>2. CASE \E status : r = Result(l, status, 0)
      <3>1. PICK status : r = Result(l, status, 0)
        BY <2>2, Zenon
      <3>2. 0 \in Nat
        OBVIOUS
      <3> HIDE DEF l
      <3> QED
        BY <1>1, <3>1, <3>2, ResultType, Zenon
    <2> QED
      BY <2>1, <2>2, Zenon DEF IsResult
  <1>3. l.order # <<>>
    BY <1>1 DEF LookupOK
  <1>4. LookupOK(r, fp)
    BY <1>1, <1>2, <1>3 DEF LookupOK
  <1> QED
    BY <1>2, <1>4, Zenon

\* dns_udp_transport() keeps it: only the result is new.
LEMMA UdpStep ==
    ASSUME IInv, NEW w \in Workers, dns_udp_transport(w)
    PROVE  IInv'
  <1>1. PICK r \in Replied(workers[w]) \cup {Result(workers[w], "TIMEOUT", 0)} : WorkerIs(w, r)
    BY Zenon DEF dns_udp_transport
  <1>2. UNCHANGED <<cache, idle, open, net, fp, now>> /\ workers[w].pc = "query"
    BY Zenon DEF dns_udp_transport
  <1>3. r \in Lookups /\ LookupOK(r, fp) /\ r.conn = NoConn
    <2>1. workers[w].pc \in {"query", "open", "request"}
      BY <1>2, Zenon
    <2>2. IsResult(r, workers[w])
      BY Zenon DEF IsResult
    <2> QED
      BY <2>1, <2>2, ResultOK
  <1>4. workers[w].conn = NoConn
    BY Zenon, <1>2, LookupOf DEF LookupOK
  <1>5. CacheOK(cache', fp)
    BY <1>2, Zenon DEF IInv
  <1> QED
    BY <1>1, <1>2, <1>3, <1>4, <1>5, QuietStep, Zenon

\* pool_get() keeps it, whether it finds a connection or drops the old ones.
LEMMA PoolGetStep ==
    ASSUME IInv, NEW w \in Workers, pool_get(w)
    PROVE  IInv'
  <1> DEFINE s == Asked(w)
             pool == idle[s]
             l == workers[w]
  <1>1. l \in Lookups /\ LookupOK(l, fp) /\ Held[w] = l.conn
    BY LookupOf, Zenon
  <1>2. l.pc = "query" /\ s <= DohCount /\ UNCHANGED <<cache, net, fp, now>>
    BY Zenon DEF pool_get
  <1>3. l.order \in Seq(Servers) /\ l.order # <<>> /\ l.conn = NoConn
    BY Zenon, <1>1, <1>2 DEF LookupOK, Lookups
  <1>4. s \in 1..DohCount /\ Head(l.order) = s
    <2>1. s \in Servers /\ Head(l.order) = s
      BY <1>3 DEF Asked
    <2>2. DohCount \in Nat /\ UdpCount \in Nat
      BY ResolverAssumption, Zenon
    <2> HIDE DEF s
    <2> QED
      BY <1>2, <2>1, <2>2 DEF Servers
  <1>5. Places(open, idle, Held) /\ Owned(open, idle, Held)
    BY Zenon DEF IInv
  <1>6. pool \in Seq(Conns)
    BY <1>4, <1>5 DEF Places
  <1>7. CASE /\ pool # <<>> /\ idle' = [idle EXCEPT ![s] = SubSeq(pool, 1, Len(pool) - 1)]
             /\ WorkerIs(w, [l EXCEPT !.pc = "request", !.conn = pool[Len(pool)],
                                      !.fresh = FALSE])
             /\ UNCHANGED open
    <2> DEFINE c == pool[Len(pool)]
               m == [l EXCEPT !.pc = "request", !.conn = c, !.fresh = FALSE]
    <2>1. c \in Conns /\ SubSeq(pool, 1, Len(pool) - 1) \in Seq(Conns)
      <3> HIDE DEF pool
      <3> QED
        BY <1>6, <1>7
    <2>2. Owned(open, idle', [Held EXCEPT ![w] = c])
      BY <1>1, <1>3, <1>4, <1>5, <1>7, OwnedPop, Zenon
    <2>3. open' \subseteq Conns /\ idle' \in [1..DohCount -> Seq(Conns)]
      BY Zenon, <1>5, <1>7, <2>1 DEF Places
    <2> HIDE DEF c, l, s
    <2>4. m \in Lookups /\ m.conn = c /\ m.pc = "request" /\ m.order = l.order
      BY Zenon, <1>1, <2>1 DEF Lookups
    <2>5. WorkerIs(w, m) /\ UNCHANGED open
      BY <1>7, Zenon DEF c
    <2> HIDE DEF m
    <2>6. c # NoConn
      BY <1>5, <2>1 DEF Places
    <2>7. LookupOK(m, fp)
      BY <1>3, <1>4, <2>4, <2>6 DEF LookupOK
    <2> QED
      BY <1>2, <2>2, <2>3, <2>4, <2>5, <2>7, ConnStep, Zenon
  <1>8. CASE /\ idle' = [idle EXCEPT ![s] = <<>>]
             /\ open' = open \ {pool[i] : i \in DOMAIN pool}
             /\ WorkerIs(w, [l EXCEPT !.pc = "open", !.fresh = TRUE])
    <2> DEFINE m == [l EXCEPT !.pc = "open", !.fresh = TRUE]
    <2>1. Owned(open', idle', Held)
      BY <1>4, <1>5, <1>8, OwnedDrop, Zenon
    <2>2. open' \subseteq Conns /\ idle' \in [1..DohCount -> Seq(Conns)]
      <3>1. open \subseteq Conns /\ idle \in [1..DohCount -> Seq(Conns)] /\ <<>> \in Seq(Conns)
        BY <1>5 DEF Places
      <3>2. open' \subseteq Conns
        BY <1>8, <3>1, Zenon
      <3>3. idle' \in [1..DohCount -> Seq(Conns)]
        BY <1>8, <3>1, Zenon
      <3> QED
        BY <3>2, <3>3, Zenon
    <2> HIDE DEF l, s
    <2>3. m \in Lookups /\ m.conn = l.conn /\ m.pc = "open" /\ m.order = l.order
      BY Zenon, <1>1 DEF Lookups
    <2>4. WorkerIs(w, m)
      BY <1>8, Zenon
    <2> HIDE DEF m
    <2>5. LookupOK(m, fp)
      BY <1>3, <1>4, <2>3 DEF LookupOK
    <2>6. Held = [Held EXCEPT ![w] = m.conn]
      BY <1>1, <2>3 DEF Held
    <2> QED
      BY <1>2, <2>1, <2>2, <2>3, <2>4, <2>5, <2>6, ConnStep, Zenon
  <1> QED
    BY <1>7, <1>8, Zenon DEF pool_get

\* conn_open() keeps it, connected or not.
LEMMA ConnOpenStep ==
    ASSUME IInv, NEW w \in Workers, conn_open(w)
    PROVE  IInv'
  <1> DEFINE l == workers[w]
  <1>1. l \in Lookups /\ LookupOK(l, fp) /\ Held[w] = l.conn
    BY LookupOf, Zenon
  <1>2. l.pc = "open" /\ UNCHANGED <<cache, idle, net, fp, now>>
    BY Zenon DEF conn_open
  <1>3. l.order # <<>> /\ Head(l.order) \in 1..DohCount /\ l.conn = NoConn
    BY <1>1, <1>2 DEF LookupOK
  <1>4. Places(open, idle, Held) /\ Owned(open, idle, Held)
    BY Zenon DEF IInv
  <1>5. CASE /\ Conns # open
             /\ LET c == CHOOSE x \in Conns : x \notin open IN
                open' = open \cup {c} /\ WorkerIs(w, [l EXCEPT !.pc = "request", !.conn = c])
    <2> DEFINE c == CHOOSE x \in Conns : x \notin open
               m == [l EXCEPT !.pc = "request", !.conn = c]
    <2>1. c \in Conns /\ c \notin open
      <3>1. \E x \in Conns : x \notin open
        BY <1>4, <1>5, Zenon DEF Places
      <3> QED
        BY <3>1, Zenon
    <2>2. open' = open \cup {c} /\ WorkerIs(w, m)
      BY <1>5, Zenon
    <2> HIDE DEF c
    <2>3. Owned(open', idle', [Held EXCEPT ![w] = c])
      BY <1>1, <1>2, <1>3, <1>4, <2>1, <2>2, OwnedOpened, Zenon
    <2>4. open' \subseteq Conns /\ idle' \in [1..DohCount -> Seq(Conns)] /\ c # NoConn
      BY <1>2, <1>4, <2>1, <2>2, Zenon DEF Places
    <2> HIDE DEF l
    <2>5. m \in Lookups /\ m.conn = c /\ m.pc = "request" /\ m.order = l.order
      BY Zenon, <1>1, <2>1 DEF Lookups
    <2> HIDE DEF m
    <2>6. LookupOK(m, fp)
      BY <1>3, <2>4, <2>5 DEF LookupOK
    <2> QED
      BY <1>2, <2>2, <2>3, <2>4, <2>5, <2>6, ConnStep, Zenon
  <1>6. CASE UNCHANGED open /\ WorkerIs(w, Result(l, "TIMEOUT", 0))
    <2> DEFINE r == Result(l, "TIMEOUT", 0)
    <2>1. IsResult(r, l) /\ l.pc \in {"query", "open", "request"}
      BY <1>2, Zenon DEF IsResult
    <2>2. WorkerIs(w, r) /\ UNCHANGED open
      BY <1>6, Zenon
    <2> HIDE DEF r
    <2>3. r \in Lookups /\ LookupOK(r, fp) /\ r.conn = NoConn
      BY <2>1, ResultOK
    <2>4. CacheOK(cache', fp)
      BY <1>2, Zenon DEF IInv
    <2> QED
      BY <1>2, <1>3, <2>2, <2>3, <2>4, QuietStep, Zenon
  <1> QED
    BY <1>5, <1>6, Zenon DEF conn_open

\* doh_query() keeps it from the request on: the connection goes to the pool or is
\* closed, and a pooled one that broke is replaced.
LEMMA RequestStep ==
    ASSUME IInv, NEW w \in Workers, doh_request(w)
    PROVE  IInv'
  <1> DEFINE l == workers[w]
             s == Asked(w)
  <1>1. l \in Lookups /\ LookupOK(l, fp) /\ Held[w] = l.conn
    BY LookupOf, Zenon
  <1>2. l.pc = "request" /\ UNCHANGED <<cache, net, fp, now>>
    BY Zenon DEF doh_request
  <1>3. l.order # <<>> /\ Head(l.order) \in 1..DohCount /\ Held[w] # NoConn
    BY <1>1, <1>2 DEF LookupOK
  <1>4. s \in 1..DohCount
    BY <1>3, Zenon DEF Asked
  <1>5. Places(open, idle, Held) /\ Owned(open, idle, Held)
    BY Zenon DEF IInv
  <1>6. open \subseteq Conns /\ idle \in [1..DohCount -> Seq(Conns)] /\ l.conn \in Conns
    BY <1>1, <1>3, <1>5 DEF Places
  <1>7. l.pc \in {"query", "open", "request"}
    BY <1>2, Zenon
  <1> HIDE DEF s
  <1>8. ASSUME open' = open \ {l.conn} /\ UNCHANGED idle
        PROVE  /\ Owned(open', idle', [Held EXCEPT ![w] = NoConn])
               /\ open' \subseteq Conns /\ idle' \in [1..DohCount -> Seq(Conns)]
    BY <1>1, <1>3, <1>5, <1>6, <1>8, OwnedClosed, Zenon
  <1>9. CASE pool_put(s, l.conn) /\ \E r \in Replied(l) \cup {Result(l, "SERVFAIL", 0)} : WorkerIs(w, r)
    <2>1. PICK r \in Replied(l) \cup {Result(l, "SERVFAIL", 0)} : WorkerIs(w, r)
      BY <1>9, Zenon
    <2>2. IsResult(r, l)
      BY Zenon DEF IsResult
    <2>3. r \in Lookups /\ LookupOK(r, fp) /\ r.conn = NoConn
      BY <1>7, <2>2, ResultOK
    <2>4. CASE idle' = [idle EXCEPT ![s] = Append(idle[s], l.conn)] /\ UNCHANGED open
      <3>1. Owned(open', idle', [Held EXCEPT ![w] = NoConn])
        BY <1>1, <1>3, <1>4, <1>5, <2>4, OwnedPut, Zenon
      <3>2. Append(idle[s], l.conn) \in Seq(Conns)
        BY <1>4, <1>6
      <3>3. idle' \in [1..DohCount -> Seq(Conns)]
        BY <1>6, <2>4, <3>2, Zenon
      <3>4. open' \subseteq Conns
        BY <1>6, <2>4, Zenon
      <3> QED
        BY <1>2, <2>1, <2>3, <3>1, <3>3, <3>4, ConnStep, Zenon
    <2>5. CASE open' = open \ {l.conn} /\ UNCHANGED idle
      BY <1>2, <1>8, <2>1, <2>3, <2>5, ConnStep, Zenon
    <2> QED
      BY <1>9, <2>4, <2>5, Zenon DEF pool_put
  <1>10. CASE /\ open' = open \ {l.conn} /\ UNCHANGED idle
              /\ WorkerIs(w, Result(l, "TIMEOUT", 0))
    <2> DEFINE r == Result(l, "TIMEOUT", 0)
    <2>1. IsResult(r, l) /\ WorkerIs(w, r)
      BY <1>10, Zenon DEF IsResult
    <2> HIDE DEF r
    <2>2. r \in Lookups /\ LookupOK(r, fp) /\ r.conn = NoConn
      BY <1>7, <2>1, ResultOK
    <2> QED
      BY <1>2, <1>8, <1>10, <2>1, <2>2, ConnStep, Zenon
  <1>11. CASE /\ open' = open \ {l.conn} /\ UNCHANGED idle
              /\ WorkerIs(w, [l EXCEPT !.pc = "open", !.conn = NoConn, !.fresh = TRUE])
    <2> DEFINE m == [l EXCEPT !.pc = "open", !.conn = NoConn, !.fresh = TRUE]
    <2>1. WorkerIs(w, m)
      BY <1>11, Zenon
    <2> HIDE DEF l
    <2>2. m \in Lookups /\ m.conn = NoConn /\ m.pc = "open" /\ m.order = l.order
      BY Zenon, <1>1 DEF Lookups
    <2> HIDE DEF m
    <2>3. LookupOK(m, fp)
      BY <1>3, <2>2 DEF LookupOK
    <2> QED
      BY <1>2, <1>8, <1>11, <2>1, <2>2, <2>3, ConnStep, Zenon
  <1> QED
    BY <1>9, <1>10, <1>11, Zenon DEF doh_request, s

\* The servers that are left after the first.
LEMMA TailOf ==
    ASSUME NEW S, NEW o \in Seq(S), o # <<>>
    PROVE  Tail(o) \in Seq(S) /\ (Len(o) # 1 => Tail(o) # <<>>)
  <1>1. Tail(o) \in Seq(S) /\ Len(Tail(o)) = Len(o) - 1 /\ Len(o) \in Nat
    BY HeadTailProperties, LenProperties
  <1>2. Len(o) # 1 => Len(Tail(o)) # 0
    BY <1>1
  <1>3. Len(<<>>) = 0
    OBVIOUS
  <1> QED
    BY <1>1, <1>2, <1>3, Zenon

\* A failed query keeps it: the next server, or the end of the lookup.
LEMMA FailedStep ==
    ASSUME IInv, NEW w \in Workers, query_failed(w)
    PROVE  IInv'
  <1> DEFINE l == workers[w]
             n == [l EXCEPT !.pc = "query", !.order = Tail(l.order), !.status = "NONE",
                            !.from = 0]
             m == IF Len(l.order) = 1 THEN Resting ELSE n
  <1>1. l \in Lookups /\ LookupOK(l, fp)
    BY LookupOf, Zenon
  <1>2. l.pc = "result" /\ WorkerIs(w, m) /\ UNCHANGED <<cache, idle, open, net, fp, now>>
    BY Zenon DEF query_failed
  <1> HIDE DEF l
  <1>3. l.conn = NoConn /\ l.order \in Seq(Servers) /\ l.order # <<>>
    BY Zenon, <1>1, <1>2 DEF LookupOK, Lookups
  <1>4. Tail(l.order) \in Seq(Servers) /\ (Len(l.order) # 1 => Tail(l.order) # <<>>)
    BY <1>3, TailOf, Zenon
  <1> DEFINE rest == Tail(l.order)
  <1> HIDE DEF rest
  <1>5. rest \in Seq(Servers) /\ "NONE" \in Statuses /\ rest = Tail(l.order)
    BY <1>4, Zenon DEF rest, Statuses
  <1>6. /\ n \in Lookups /\ n.conn = NoConn /\ n.pc = "query" /\ n.order = rest
    BY Zenon, <1>1, <1>3, <1>5 DEF Lookups
  <1> HIDE DEF n
  <1>7. Len(l.order) # 1 => LookupOK(n, fp)
    BY <1>4, <1>5, <1>6 DEF LookupOK
  <1>8. m \in Lookups /\ LookupOK(m, fp) /\ m.conn = NoConn
    BY <1>6, <1>7, RestingType, Zenon
  <1>9. CacheOK(cache', fp)
    BY <1>2, Zenon DEF IInv
  <1> HIDE DEF m
  <1>10. m.conn = workers[w].conn
    BY <1>3, <1>8, Zenon DEF l
  <1> QED
    BY <1>2, <1>8, <1>9, <1>10, QuietStep, Zenon

\* An answer keeps it: it is not stored by dns_exchange(), and is by dns_resolve().
LEMMA AnsweredStep ==
    ASSUME IInv, NEW w \in Workers, query_answered(w)
    PROVE  IInv'
  <1> DEFINE l == workers[w]
             n == [l EXCEPT !.pc = "store"]
             m == IF l.exchange THEN Resting ELSE n
  <1>1. l \in Lookups /\ LookupOK(l, fp)
    BY LookupOf, Zenon
  <1>2. l.pc = "result" /\ WorkerIs(w, m) /\ UNCHANGED <<cache, idle, open, net, fp, now>>
    BY Zenon DEF query_answered
  <1> HIDE DEF l
  <1>3. l.conn = NoConn /\ (l.from >= fp \/ l.late = TRUE)
    BY <1>1, <1>2, Zenon DEF LookupOK
  <1>4. /\ n \in Lookups /\ n.conn = l.conn /\ n.pc = "store" /\ n.from = l.from
        /\ n.late = l.late
    BY Zenon, <1>1 DEF Lookups
  <1> HIDE DEF n
  <1>5. LookupOK(n, fp)
    <2>1. n.pc \notin {"query", "open", "request", "result"} /\ n.pc # "request"
          /\ n.pc \notin {"open", "request"}
      BY <1>4
    <2> QED
      BY <1>3, <1>4, <2>1, Zenon DEF LookupOK
  <1>6. m \in Lookups /\ LookupOK(m, fp) /\ m.conn = NoConn
    BY <1>3, <1>4, <1>5, RestingType, Zenon
  <1>7. CacheOK(cache', fp)
    BY <1>2, Zenon DEF IInv
  <1> HIDE DEF m
  <1>8. m.conn = workers[w].conn
    BY <1>3, <1>6, Zenon DEF l
  <1> QED
    BY <1>2, <1>6, <1>7, <1>8, QuietStep, Zenon

\* What a slot holds after cache_store(), torn or not.
LEMMA WrittenType ==
    ASSUME NEW l \in Lookups, NEW e \in Written(l)
    PROVE  /\ e \in Slots /\ e.q \in {l.q, ""}
           /\ e.q # "" => e.from = l.from /\ e.late = l.late
  <1> DEFINE E == Entry(l)
             T == [E EXCEPT !.status = "OK, no address"]
  <1>1. E \in Slots /\ E.q = l.q /\ E.from = l.from /\ E.late = l.late
    BY EntryType, Zenon
  <1>2. e \in {E, Empty, T}
    BY Zenon DEF Written
  <1> HIDE DEF E
  <1>3. T \in Slots /\ T.q = E.q /\ T.from = E.from /\ T.late = E.late
    BY Zenon, <1>1 DEF Slots, Statuses
  <1>4. Empty \in Slots /\ Empty.q = ""
    BY DEF Empty, Slots, Statuses
  <1> HIDE DEF T
  <1> QED
    BY <1>1, <1>2, <1>3, <1>4, Zenon

\* cache_store() keeps it: what it writes is current or late.
LEMMA StoreStep ==
    ASSUME IInv, NEW w \in Workers, cache_store(w)
    PROVE  IInv'
  <1> DEFINE l == workers[w]
  <1>1. l \in Lookups /\ LookupOK(l, fp) /\ fp \in Nat
    BY LookupOf, Zenon
  <1>2. l.pc = "store" /\ WorkerIs(w, Resting) /\ UNCHANGED <<idle, open, net, fp, now>>
    BY Zenon DEF cache_store
  <1>3. PICK e \in Written(l) : cache' = [cache EXCEPT ![SlotFor(cache, l.q, l.now)] = e]
    BY Zenon DEF cache_store
  <1>4. (l.from >= fp \/ l.late = TRUE) /\ l.conn = NoConn
    BY <1>1, <1>2 DEF LookupOK
  <1>5. e \in Slots /\ e.q \in {l.q, ""} /\ (e.q # "" => (e.from >= fp \/ e.late = TRUE))
    BY <1>1, <1>4, WrittenType, Zenon
  <1>6. CacheOK(cache, fp)
    BY Zenon DEF IInv
  <1>7. CacheOK(cache', fp)
    BY <1>1, <1>3, <1>5, <1>6, StoreKeepsCache, Zenon
  <1>8. Resting \in Lookups /\ LookupOK(Resting, fp) /\ Resting.conn = workers[w].conn
    BY <1>4, RestingType, Zenon
  <1> QED
    BY <1>2, <1>7, <1>8, QuietStep, Zenon

\* check_network(): every lookup under way becomes late, and goes on as it was.
LEMMA NetworkSeen ==
    ASSUME NEW l \in Lookups, NEW f, NEW g, LookupOK(l, f), NEW m,
           m = [l EXCEPT !.late = l.pc # "idle", !.torn = l.pc = "store"]
    PROVE  m \in Lookups /\ LookupOK(m, g) /\ m.conn = l.conn
  <1> DEFINE a == l.pc # "idle"
             b == l.pc = "store"
  <1>1. a \in BOOLEAN /\ b \in BOOLEAN
    BY Zenon
  <1>2. (l.pc \in {"result", "store"} => a = TRUE)
    BY Zenon
  <1>3. m = [l EXCEPT !.late = a, !.torn = b]
    BY Zenon
  <1> HIDE DEF a, b
  <1>4. m \in Lookups
    BY Zenon, <1>1, <1>3 DEF Lookups
  <1>5. m.conn = l.conn /\ m.pc = l.pc /\ m.order = l.order /\ m.late = a
    BY Zenon, <1>3 DEF Lookups
  <1>6. LookupOK(m, g)
    BY <1>2, <1>5, Zenon DEF LookupOK
  <1> QED
    BY <1>4, <1>5, <1>6, Zenon

\* dns_cache_flush(): nothing is left.
LEMMA FlushedCache ==
    ASSUME NEW c, NEW f, CacheOK(c, f), NEW g
    PROVE  CacheOK([i \in DOMAIN c |-> Empty], g)
  <1> DEFINE C == [i \in DOMAIN c |-> Empty]
  <1>1. Empty \in Slots /\ Empty.q = ""
    BY DEF Empty, Slots, Statuses
  <1>2. DOMAIN c = 1..DNS_CACHE_SIZE
    BY DEF CacheOK
  <1>3. C \in [1..DNS_CACHE_SIZE -> Slots] /\ \A i \in DOMAIN C : C[i] = Empty
    BY <1>1, <1>2, Zenon
  <1> HIDE DEF C
  <1>4. "" \notin Questions
    BY ResolverAssumption, Zenon
  <1>5. OneSlot(C)
    BY <1>1, <1>3, <1>4, Zenon DEF OneSlot, cache_find
  <1>6. Forgotten(C, g)
    BY <1>1, <1>3, Zenon DEF Forgotten
  <1> QED
    BY <1>3, <1>5, <1>6, Zenon DEF CacheOK, C

\* check_network() keeps it.
LEMMA NetworkStep ==
    ASSUME IInv, check_network
    PROVE  IInv'
  <1>1. CacheOK(cache', fp')
    BY FlushedCache, Zenon DEF check_network, IInv
  <1>2. /\ workers' = [w \in Workers |-> [workers[w] EXCEPT
                          !.late = workers[w].pc # "idle", !.torn = workers[w].pc = "store"]]
        /\ fp' = net /\ UNCHANGED <<net, now>>
    BY Zenon DEF check_network
  <1>3. \A w \in Workers :
          workers'[w] = [workers[w] EXCEPT !.late = workers[w].pc # "idle",
                                           !.torn = workers[w].pc = "store"]
    BY <1>2, Zenon
  <1>4. \A w \in Workers :
          /\ workers'[w] \in Lookups /\ LookupOK(workers'[w], fp')
          /\ workers'[w].conn = workers[w].conn
    BY <1>3, LookupOf, NetworkSeen, ZenonT(30)
  <1>5. workers' \in [Workers -> Lookups]
    BY Zenon, <1>2, <1>3, <1>4
  <1>6. LookupsOK'
    BY <1>4, <1>5, Zenon DEF LookupsOK
  <1>7. Held' = Held
    BY <1>4, Zenon DEF Held
  <1>8. ClocksOK'
    <2>1. net' \in Nat /\ now' \in Nat /\ fp' = net'
      BY <1>2, Zenon DEF IInv, ClocksOK
    <2>2. fp' <= net'
      BY <2>1
    <2> QED
      BY <2>1, <2>2, Zenon DEF ClocksOK
  <1>9. Places(open, idle, Held) /\ Owned(open, idle, Held)
    BY Zenon DEF IInv
  <1>10. /\ open' = open \ UNION {{idle[s][i] : i \in DOMAIN idle[s]} : s \in DOMAIN idle}
         /\ idle' = [s \in DOMAIN idle |-> <<>>]
    BY Zenon DEF check_network
  <1>11. Owned(open', idle', Held')
    BY <1>7, <1>9, <1>10, OwnedDropAll, Zenon
  <1>12. Places(open', idle', Held')
    <2>1. DOMAIN idle = 1..DohCount /\ <<>> \in Seq(Conns)
      BY <1>9, EmptySeq, Zenon DEF Places
    <2>2. idle' \in [1..DohCount -> Seq(Conns)]
      BY <1>10, <2>1, Zenon
    <2>3. open' \subseteq Conns
      BY <1>9, <1>10, Zenon DEF Places
    <2> QED
      BY <1>7, <1>9, <2>2, <2>3, Zenon DEF Places
  <1> QED
    BY <1>1, <1>6, <1>8, <1>11, <1>12, Zenon DEF IInv

\* A move to another network that check_network() has not seen, and time.
LEMMA WorldStep ==
    ASSUME IInv, roam \/ tick \/ UNCHANGED vars
    PROVE  IInv'
  <1>1. UNCHANGED <<cache, idle, open, workers, fp>>
    BY Zenon DEF roam, tick, vars
  <1>2. LookupsOK' /\ CacheOK(cache', fp') /\ Held' = Held
    BY <1>1, Zenon DEF IInv, LookupsOK, Held
  <1>3. ClocksOK
    BY Zenon DEF IInv
  <1>4. ClocksOK'
    <2>1. \/ net' = net + 1 /\ now' = now
          \/ net' = net /\ now' = now + 1
          \/ net' = net /\ now' = now
      BY Zenon DEF roam, tick, vars
    <2> QED
      BY <1>1, <1>3, <2>1 DEF ClocksOK
  <1> QED
    BY <1>1, <1>2, <1>4, Zenon DEF IInv

-----------------------------------------------------------------------------
(* The theorems.                                                           *)

\* dns_resolver_init() makes the invariant true.
LEMMA InitIInv == Init => IInv
  <1> SUFFICES ASSUME Init PROVE IInv
    OBVIOUS
  <1>1. LookupsOK
    BY RestingType, Zenon DEF Init, LookupsOK
  <1>2. CacheOK(cache, fp)
    <2>1. Empty \in Slots /\ Empty.q = ""
      BY DEF Empty, Slots, Statuses
    <2>2. cache \in [1..DNS_CACHE_SIZE -> Slots] /\ \A i \in DOMAIN cache : cache[i] = Empty
      BY <2>1, Zenon DEF Init
    <2>3. "" \notin Questions
      BY ResolverAssumption, Zenon
    <2> QED
      BY <2>1, <2>2, <2>3, Zenon DEF CacheOK, OneSlot, Forgotten, cache_find
  <1>3. ClocksOK
    BY DEF Init, ClocksOK
  <1>4. Held \in [Workers -> Conns \cup {NoConn}] /\ \A w \in Workers : Held[w] = NoConn
    BY RestingType, Zenon DEF Init, Held
  <1>5. NoConn \notin Conns
    BY ResolverAssumption, Zenon DEF NoConn
  <1>6. /\ idle \in [1..DohCount -> Seq(Conns)] /\ open = {}
        /\ \A s \in 1..DohCount : DOMAIN idle[s] = {}
    BY DEF Init
  <1>7. Places(open, idle, Held)
    BY <1>4, <1>5, <1>6, Zenon DEF Places
  <1>8. Owned(open, idle, Held)
    BY <1>4, <1>5, <1>6 DEF Owned
  <1> QED
    BY <1>1, <1>2, <1>3, <1>7, <1>8, Zenon DEF IInv

\* Every step keeps it.
LEMMA NextIInv == IInv /\ [Next]_vars => IInv'
  <1> SUFFICES ASSUME IInv, [Next]_vars PROVE IInv'
    OBVIOUS
  <1>1. ASSUME NEW w \in Workers, WorkerStep(w) PROVE IInv'
    BY <1>1, UdpStep, PoolGetStep, ConnOpenStep, RequestStep, FailedStep, AnsweredStep,
       StoreStep, Zenon DEF WorkerStep
  <1>2. ASSUME NEW w \in Workers, NEW q \in Questions, dns_resolve(w, q) PROVE IInv'
    BY <1>2, ResolveStep, Zenon
  <1>3. ASSUME NEW w \in Workers, dns_exchange(w) PROVE IInv'
    BY <1>3, ExchangeStep, Zenon
  <1>4. CASE check_network
    BY <1>4, NetworkStep, Zenon
  <1>5. CASE roam \/ tick \/ UNCHANGED vars
    BY <1>5, WorldStep, Zenon
  <1> QED
    BY <1>1, <1>2, <1>3, <1>4, <1>5, Zenon DEF Next

\* The invariant holds throughout.
LEMMA SpecIInv == Spec => []IInv
  BY InitIInv, NextIInv, PTL DEF Spec

\* No DoH connection is shared between two queries or leaked (dns_doh.c), whatever
\* fails, is retried, is dropped with the network or does not fit in its pool.
THEOREM SpecConnectionsOwned == Spec => []ConnectionsOwned
  <1>1. IInv => ConnectionsOwned
    <2> SUFFICES ASSUME IInv PROVE ConnectionsOwned
      OBVIOUS
    <2>1. Owned(open, idle, Held) /\ \A w \in Workers : Held[w] = workers[w].conn
      BY Zenon DEF IInv, Held
    <2> QED
      BY <2>1 DEF ConnectionsOwned, Owned
  <1> QED
    BY <1>1, SpecIInv, PTL

\* After check_network() an answer of an older network is only in the cache if its
\* lookup was under way (transparent.c, dns.c).
THEOREM SpecFlushForgets == Spec => []FlushForgets
  <1>1. IInv => FlushForgets
    BY Zenon DEF IInv, CacheOK, Forgotten, FlushForgets
  <1> QED
    BY <1>1, SpecIInv, PTL

\* However many lookups of a name miss, ask and store at the same time, the cache
\* has one answer to it (cache_store of dns.c).
THEOREM SpecOneSlotPerQuestion == Spec => []OneSlotPerQuestion
  <1>1. IInv => OneSlotPerQuestion
    BY Zenon DEF IInv, CacheOK, OneSlot, OneSlotPerQuestion
  <1> QED
    BY <1>1, SpecIInv, PTL
=============================================================================
