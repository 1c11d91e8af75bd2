-------------------------- MODULE QuicBlockProofs ---------------------------
(***************************************************************************)
(* The QUIC-reject set for any threads, addresses, table size and element  *)
(* timeout: an address that is remembered, and one whose answer goes out,  *)
(* is blocked, but for the two exceptions the properties name, and         *)
(* g_inflight counts the forwarder's workers.                              *)
(*                                                                         *)
(* The argument: an address is safe until x if nft lost it, a thread is    *)
(* about to add it, or its element expires after x.  No step takes that    *)
(* away before x has passed (SafeStays).  What g_seen noted at time `at` is*)
(* safe until at + timeout - 1; what a thread looked up is safe until half *)
(* a timeout after its look-up began, which is later than its last step.   *)
(***************************************************************************)
EXTENDS QuicBlock, TLAPS, FiniteSetTheorems

T == TP_QUIC_BLOCK_TIMEOUT_S

-----------------------------------------------------------------------------
(* The inductive invariant.                                                *)

Fields == {"pc", "kind", "listed", "src", "addrs", "todo", "fresh", "since"}

\* Past the beginning of the look-up.
Looking == {"note", "block", "send"}

\* Of one thread: what it carries where, and how long it has been at it.
ThreadOK(th) ==
    /\ DOMAIN th = Fields /\ th.since \in Nat /\ th.addrs \subseteq Addrs
    /\ th.pc \in {"idle", "resolve", "send"} => th.fresh = {}
    /\ th.pc \in {"block", "send"} => th.todo = {}
    /\ th.pc \in {"resolve", "send"} => th.kind # "conn"
    /\ th.pc \in Looking => th.since <= now /\ now <= th.since + MaxStraddle

Safe(a, x) ==
    \/ a \in lost
    \/ \E t \in Threads : a \in threads[t].fresh
    \/ expires[a] > x

Entries == [addr : Addrs, at : Nat]

TypesOK ==
    /\ DOMAIN threads = Threads /\ seen \in Seq(Entries)
    /\ expires \in [Addrs -> Nat] /\ now \in Nat

SeenOK ==
    \A i \in DOMAIN seen :
        /\ seen[i].at <= now
        /\ \/ seen[i].at + T <= now
           \/ Safe(seen[i].addr, seen[i].at + T - 1)

LookedUpOK(th) ==
    th.pc \in Looking => \A a \in th.addrs \ th.todo : Safe(a, th.since + half)

IInv ==
    /\ TypesOK /\ SeenOK
    /\ \A t \in Threads : ThreadOK(threads[t]) /\ LookedUpOK(threads[t])

-----------------------------------------------------------------------------
(* What every step keeps.                                                  *)

\* A step takes nobody's safety away before its time, and gives at least a
\* timeout to whatever it adds.
SafeStays ==
    \A a \in Addrs : \A x \in Int :
        Safe(a, x) /\ x < now + T => Safe(a, x)' \/ x < now

\* Half a timeout outlasts a look-up and is less than a whole timeout.
LEMMA Times ==
    /\ T \in Nat /\ half \in Nat /\ MaxStraddle \in Nat
    /\ half < T /\ half + half <= T /\ MaxStraddle <= half
  BY QuicAssumption, Z3 DEF half, T

\* What a thread has looked up stays safe until its look-up is over, whoever
\* moves (note_answer() in two workers at once).
LEMMA LookedUpStays ==
    ASSUME IInv, SafeStays, NEW u \in Threads, threads[u].pc \in Looking,
           NEW a \in threads[u].addrs \ threads[u].todo
    PROVE  \E y \in Int : y = threads[u].since + half /\ Safe(a, y)'
  <1> DEFINE x == threads[u].since + half
  <1>1. ThreadOK(threads[u]) /\ LookedUpOK(threads[u]) /\ now \in Nat
      BY DEF IInv, TypesOK
  <1>2. /\ threads[u].since \in Nat /\ threads[u].since <= now
        /\ now <= threads[u].since + MaxStraddle /\ a \in Addrs
      BY <1>1 DEF ThreadOK
  <1>3. x \in Int /\ x < now + T /\ ~(x < now)
      BY <1>2, <1>1, Times
  <1>4. Safe(a, x)
      BY <1>1 DEF LookedUpOK
  <1> HIDE DEF x
  <1>5. PICK y \in Int : y = x
      BY <1>3
  <1>6. Safe(a, y) /\ y < now + T /\ ~(y < now)
      BY <1>3, <1>4, <1>5
  <1>7. Safe(a, y)'
      BY <1>2, <1>6 DEF SafeStays
  <1> QED BY <1>5, <1>7 DEF x

\* A thread that does not move stays in order.
LEMMA OthersKeep ==
    ASSUME IInv, now' = now, SafeStays, NEW u \in Threads,
           threads'[u] = threads[u]
    PROVE  ThreadOK(threads[u])' /\ LookedUpOK(threads[u])'
  <1>1. ThreadOK(threads[u])'
      BY DEF IInv, ThreadOK
  <1>2. ASSUME threads[u].pc \in Looking, NEW a \in threads[u].addrs \ threads[u].todo
        PROVE  Safe(a, threads[u].since + half)'
      <2>1. PICK y \in Int : y = threads[u].since + half /\ Safe(a, y)'
          BY <1>2, LookedUpStays
      <2> QED BY <2>1 DEF Safe
  <1> QED BY <1>1, <1>2 DEF LookedUpOK

\* An entry of g_seen that stays keeps what note() found it good for.
LEMMA EntryKeeps ==
    ASSUME IInv, now' = now, SafeStays, NEW i \in DOMAIN seen
    PROVE  /\ seen[i].addr \in Addrs /\ seen[i].at \in Nat /\ seen[i].at <= now
           /\ \/ seen[i].at + T <= now
              \/ \E a \in Addrs, x \in Int :
                     /\ a = seen[i].addr /\ x = seen[i].at + T - 1
                     /\ Safe(a, x)'
  <1>1. seen[i] \in Entries
      BY DEF IInv, TypesOK
  <1>2. seen[i].addr \in Addrs /\ seen[i].at \in Nat
      BY <1>1 DEF Entries
  <1>3. /\ seen[i].at <= now
        /\ seen[i].at + T <= now \/ Safe(seen[i].addr, seen[i].at + T - 1)
      BY DEF IInv, SeenOK
  <1>4. now \in Nat
      BY DEF IInv, TypesOK
  <1> DEFINE x == seen[i].at + T - 1
             a == seen[i].addr
  <1>5. x \in Int /\ x < now + T /\ (x < now => seen[i].at + T <= now)
      BY <1>2, <1>3, <1>4, Times
  <1>6. CASE Safe(a, x)
      <2> HIDE DEF x, a
      <2>1. \A b \in Addrs, y \in Int :
                b = a /\ y = x => (Safe(b, y) => Safe(b, y)' \/ y < now)
          BY <1>5 DEF SafeStays
      <2>2. PICK b \in Addrs, y \in Int : b = a /\ y = x
          BY <1>2, <1>5 DEF a
      <2>3. Safe(b, y)
          BY <2>2, <1>6
      <2>4. Safe(b, y)' \/ y < now
          BY <2>1, <2>2, <2>3
      <2>5. CASE y < now
          BY <2>5, <2>2, <1>5, <1>2, <1>3
      <2>6. CASE Safe(b, y)'
          BY <2>6, <2>2, <1>2, <1>3 DEF a, x
      <2> QED BY <2>4, <2>5, <2>6
  <1> QED BY <1>2, <1>3, <1>6

\* g_seen untouched.
LEMMA SeenKeeps ==
    ASSUME IInv, now' = now, SafeStays, seen' = seen
    PROVE  SeenOK'
  <1> SUFFICES ASSUME NEW i \in DOMAIN seen
               PROVE  /\ seen'[i].at <= now'
                      /\ \/ seen'[i].at + T <= now'
                         \/ Safe(seen[i].addr, seen[i].at + T - 1)'
      BY DEF SeenOK
  <1>1. seen'[i].at <= now' /\ (seen[i].at + T <= now => seen'[i].at + T <= now')
      BY EntryKeeps
  <1>2. ASSUME NEW a \in Addrs, NEW x \in Int, a = seen[i].addr,
               x = seen[i].at + T - 1, Safe(a, x)'
        PROVE  Safe(seen[i].addr, seen[i].at + T - 1)'
      BY <1>2 DEF Safe
  <1> QED BY <1>1, <1>2, EntryKeeps

\* A step of thread t that leaves it in order keeps the invariant.
LEMMA ThreadStep ==
    ASSUME IInv, NEW t \in Threads, DOMAIN threads' = Threads,
           \A u \in Threads \ {t} : threads'[u] = threads[u],
           now' = now, SafeStays, TypesOK', SeenOK',
           ThreadOK(threads[t])', LookedUpOK(threads[t])'
    PROVE  IInv'
  <1>1. ASSUME NEW u \in Threads
        PROVE  ThreadOK(threads[u])' /\ LookedUpOK(threads[u])'
      BY OthersKeep
  <1> QED BY <1>1 DEF IInv

\* A step that runs no nft and drops no address it was told to add.
LEMMA NoNft ==
    ASSUME lost' = lost, expires' = expires,
           \A u \in Threads : threads[u].fresh \subseteq threads'[u].fresh
    PROVE  SafeStays
  BY DEF SafeStays, Safe

-----------------------------------------------------------------------------
(* The threads' steps.                                                     *)

\* The first states, all idle.
LEMMA InitIInv ==
    ASSUME Init PROVE IInv
  <1>1. TypesOK
      BY DEF Init, TypesOK
  <1>2. SeenOK
      BY DEF Init, SeenOK
  <1>3. ASSUME NEW t \in Threads PROVE ThreadOK(threads[t]) /\ LookedUpOK(threads[t])
      <2>1. threads[t] = Idle
          BY DEF Init
      <2> QED BY <2>1 DEF ThreadOK, LookedUpOK, Idle, Fields, Looking
  <1> QED BY <1>1, <1>2, <1>3 DEF IInv

\* A thread that gives way to one that has found no address yet: a worker that
\* starts, ends or takes its client's next query.
LEMMA BareStep ==
    ASSUME IInv, NEW t \in Threads, NEW pc \in {"idle", "resolve"},
           NEW kind \in {"udp", "tcp"}, NEW listed \in BOOLEAN,
           threads[t].pc \in {"idle", "send"},
           threads' = [threads EXCEPT ![t] =
               [Idle EXCEPT !.pc = pc, !.kind = kind, !.listed = listed]],
           UNCHANGED <<seen, expires, now, lost>>
    PROVE  IInv'
  <1>1. DOMAIN threads = Threads
      BY DEF IInv, TypesOK
  <1>2. threads'[t] = [Idle EXCEPT !.pc = pc, !.kind = kind, !.listed = listed]
      BY <1>1
  <1>3. DOMAIN threads' = Threads /\ \A u \in Threads \ {t} : threads'[u] = threads[u]
      BY <1>1
  <1>4. /\ threads'[t].pc = pc /\ threads'[t].kind = kind /\ threads'[t].fresh = {}
        /\ threads'[t].addrs = {} /\ threads'[t].since = 0
        /\ DOMAIN threads'[t] = Fields
      <2> DEFINE r == threads'[t]
      <2>1. r = [Idle EXCEPT !.pc = pc, !.kind = kind, !.listed = listed]
          BY <1>2
      <2> HIDE DEF r
      <2>2. DOMAIN r = Fields
          BY <2>1 DEF Idle, Fields
      <2>3. /\ r.pc = pc /\ r.kind = kind /\ r.fresh = {} /\ r.addrs = {}
            /\ r.since = 0
          BY <2>1 DEF Idle
      <2> QED BY <2>2, <2>3 DEF r
  <1>5. threads[t].fresh = {}
      BY DEF IInv, ThreadOK
  <1>6. SafeStays
      BY <1>3, <1>5, NoNft
  <1>7. TypesOK' /\ SeenOK'
      BY <1>3, <1>6, SeenKeeps DEF IInv, TypesOK
  <1>8. ThreadOK(threads[t])' /\ LookedUpOK(threads[t])'
      BY <1>4, SMTT(30) DEF ThreadOK, LookedUpOK, Looking
  <1> QED BY <1>3, <1>6, <1>7, <1>8, ThreadStep

\* udp_loop() and tcp_loop() hand a query to a worker.
LEMMA TakeSlotIInv ==
    ASSUME IInv, NEW t \in Threads, NEW kind \in {"udp", "tcp"}, take_slot(t, kind)
    PROVE  IInv'
  <1>1. PICK listed \in BOOLEAN :
            threads' = [threads EXCEPT ![t] =
                [Idle EXCEPT !.pc = "resolve", !.kind = kind, !.listed = listed]]
      BY Zenon DEF take_slot
  <1>2. threads[t].pc \in {"idle", "send"} /\ UNCHANGED <<seen, expires, now, lost>>
      BY SMTT(30) DEF take_slot
  <1> QED BY Zenon, <1>1, <1>2, BareStep

\* worker_ends() sends the answer and gives the slot back.
LEMMA WorkerEndsIInv ==
    ASSUME IInv, NEW t \in Threads, worker_ends(t)
    PROVE  IInv'
  <1>1. threads' = [threads EXCEPT ![t] =
            [Idle EXCEPT !.pc = "idle", !.kind = "udp", !.listed = FALSE]]
      BY Zenon DEF worker_ends, Idle
  <1>2. threads[t].pc \in {"idle", "send"} /\ UNCHANGED <<seen, expires, now, lost>>
      BY DEF worker_ends
  <1> QED BY Zenon, <1>1, <1>2, BareStep

\* tcp_worker() goes on to its client's next query.
LEMMA TcpWorkerIInv ==
    ASSUME IInv, NEW t \in Threads, tcp_worker(t)
    PROVE  IInv'
  <1>1. PICK listed \in BOOLEAN :
            threads' = [threads EXCEPT ![t] =
                [Idle EXCEPT !.pc = "resolve", !.kind = "tcp", !.listed = listed]]
      BY Zenon DEF tcp_worker
  <1>2. threads[t].pc \in {"idle", "send"} /\ UNCHANGED <<seen, expires, now, lost>>
      BY DEF tcp_worker
  <1> QED BY Zenon, <1>1, <1>2, BareStep

\* answer() has the addresses and has looked none of them up.
LEMMA AnswerIInv ==
    ASSUME IInv, NEW t \in Threads, answer(t)
    PROVE  IInv'
  <1>1. /\ DOMAIN threads = Threads /\ now \in Nat /\ ThreadOK(threads[t])
        /\ threads[t].pc = "resolve"
      BY SMTT(30) DEF IInv, TypesOK, answer
  <1>2. PICK src \in Resolved(threads[t].listed), found \in SUBSET Addrs :
            threads' = [threads EXCEPT ![t] = [threads[t] EXCEPT
                !.pc = IF found = {} THEN "send" ELSE "note",
                !.src = src, !.addrs = found, !.todo = found, !.since = now]]
      BY Zenon DEF answer
  <1> DEFINE pc == IF found = {} THEN "send" ELSE "note"
  <1>3. threads'[t] = [threads[t] EXCEPT
            !.pc = pc, !.src = src, !.addrs = found, !.todo = found, !.since = now]
      BY <1>1, <1>2
  <1>4. DOMAIN threads' = Threads /\ \A u \in Threads \ {t} : threads'[u] = threads[u]
      BY <1>1, <1>2
  <1>5. DOMAIN threads[t] = Fields /\ threads[t].fresh = {} /\ threads[t].kind # "conn"
      BY <1>1 DEF ThreadOK
  <1>6. /\ DOMAIN threads'[t] = Fields /\ threads'[t].pc = pc
        /\ threads'[t].kind = threads[t].kind /\ threads'[t].fresh = {}
        /\ threads'[t].addrs = found /\ threads'[t].todo = found
        /\ threads'[t].since = now
      <2> HIDE DEF pc
      <2> QED BY <1>3, <1>5 DEF Fields
  <1>7. UNCHANGED <<seen, expires, now, lost>>
      BY DEF answer
  <1>8. SafeStays
      BY <1>4, <1>5, <1>7, NoNft
  <1>9. TypesOK' /\ SeenOK'
      BY <1>4, <1>7, <1>8, SeenKeeps DEF IInv, TypesOK
  <1>10. ThreadOK(threads[t])'
      BY <1>1, <1>5, <1>6, <1>7, Times DEF ThreadOK, Looking
  <1>11. LookedUpOK(threads[t])'
      BY <1>6 DEF LookedUpOK
  <1> QED BY <1>4, <1>7, <1>8, <1>9, <1>10, <1>11, ThreadStep

\* A connection thread has its one address to look up.
LEMMA SockaddrIInv ==
    ASSUME IInv, NEW t \in Threads, NEW a \in Addrs, tpd_quic_block_sockaddr(t, a)
    PROVE  IInv'
  <1>1. /\ DOMAIN threads = Threads /\ now \in Nat /\ ThreadOK(threads[t])
        /\ threads[t].pc = "idle"
      BY DEF IInv, TypesOK, tpd_quic_block_sockaddr
  <1>2. threads'[t] = [Idle EXCEPT !.pc = "note", !.kind = "conn", !.addrs = {a},
                                   !.todo = {a}, !.since = now]
      BY <1>1 DEF tpd_quic_block_sockaddr
  <1>3. DOMAIN threads' = Threads /\ \A u \in Threads \ {t} : threads'[u] = threads[u]
      BY <1>1 DEF tpd_quic_block_sockaddr
  <1>4. /\ DOMAIN threads'[t] = Fields /\ threads'[t].pc = "note"
        /\ threads'[t].addrs = {a} /\ threads'[t].todo = {a}
        /\ threads'[t].since = now
      BY <1>2 DEF Fields, Idle
  <1>5. UNCHANGED <<seen, expires, now, lost>> /\ threads[t].fresh = {}
      BY <1>1 DEF tpd_quic_block_sockaddr, ThreadOK
  <1>6. SafeStays
      BY <1>3, <1>5, NoNft
  <1>7. TypesOK' /\ SeenOK'
      BY <1>3, <1>5, <1>6, SeenKeeps DEF IInv, TypesOK
  <1>8. ThreadOK(threads[t])'
      BY <1>1, <1>4, <1>5, Times DEF ThreadOK
  <1>9. LookedUpOK(threads[t])'
      BY <1>4 DEF LookedUpOK
  <1> QED BY <1>3, <1>5, <1>6, <1>7, <1>8, <1>9, ThreadStep

\* note() changes one slot, to an entry of this moment, whether it finds the
\* address, has room or overwrites the oldest.
LEMMA NotedEntries ==
    ASSUME TypesOK, NEW a \in Addrs
    PROVE  /\ noted(a) \in Seq(Entries)
           /\ \A i \in DOMAIN noted(a) :
                  \/ noted(a)[i] = [addr |-> a, at |-> now]
                  \/ i \in DOMAIN seen /\ noted(a)[i] = seen[i]
  <1> DEFINE e == [addr |-> a, at |-> now]
  <1>1. e \in Entries /\ seen \in Seq(Entries)
      BY DEF TypesOK, Entries
  <1> HIDE DEF e
  <1>2. CASE Indices(a) # {}
      <2>1. noted(a) = [i \in DOMAIN seen |-> IF i \in Indices(a) THEN e ELSE seen[i]]
          BY <1>2 DEF noted, e
      <2>2. noted(a) \in Seq(Entries)
          BY <2>1, <1>1
      <2> QED BY <2>1, <2>2 DEF e
  <1>3. CASE Indices(a) = {} /\ Len(seen) < QUIC_SEEN_MAX
      <2>1. noted(a) = Append(seen, e)
          BY <1>3 DEF noted, e
      <2>2. noted(a) \in Seq(Entries)
          BY <2>1, <1>1
      <2>3. ASSUME NEW i \in DOMAIN noted(a)
            PROVE  noted(a)[i] = e \/ (i \in DOMAIN seen /\ noted(a)[i] = seen[i])
          BY <2>1, <1>1
      <2> QED BY <2>2, <2>3 DEF e
  <1>4. CASE Indices(a) = {} /\ ~(Len(seen) < QUIC_SEEN_MAX)
      <2>1. noted(a) = [seen EXCEPT ![oldest] = e]
          BY <1>4 DEF noted, e
      <2> DEFINE o == oldest
      <2> HIDE DEF o
      <2>2. noted(a) = [i \in DOMAIN seen |-> IF i = o THEN e ELSE seen[i]]
          BY Zenon, <2>1 DEF o
      <2>3. ASSUME NEW i \in DOMAIN noted(a)
            PROVE  noted(a)[i] = e \/ (i \in DOMAIN seen /\ noted(a)[i] = seen[i])
          BY <2>1
      <2>4. noted(a) \in Seq(Entries)
          BY <2>2, <1>1
      <2> QED BY <2>3, <2>4 DEF e
  <1> QED BY <1>2, <1>3, <1>4

\* What note() leaves alone has more than half of its timeout to go.
LEMMA FreshIsSafe ==
    ASSUME IInv, now' = now, SafeStays, NEW a \in Addrs, still_fresh(a),
           expires' \in [Addrs -> Nat], NEW y \in Int, y <= now + half
    PROVE  Safe(a, y)'
  <1>1. PICK i \in DOMAIN seen : seen[i].addr = a /\ now - seen[i].at < half
      BY DEF still_fresh, Indices
  <1>2. now \in Nat /\ expires \in [Addrs -> Nat]
      BY DEF IInv, TypesOK
  <1>3. seen[i].at \in Nat /\ ~(seen[i].at + T <= now)
      BY <1>1, <1>2, Times, EntryKeeps
  <1>4. PICK x \in Int : x = seen[i].at + T - 1 /\ Safe(a, x)'
      BY <1>1, <1>3, EntryKeeps
  <1>5. x >= y
      BY <1>1, <1>2, <1>3, <1>4, Times
  <1> QED BY <1>4, <1>5 DEF Safe

\* note() for one address: left alone because it is fresh, or noted and put
\* among those to add; with the last one the thread goes on.
LEMMA NoteIInv ==
    ASSUME IInv, NEW t \in Threads, NEW a \in Addrs, note(t, a)
    PROVE  IInv'
  <1> DEFINE th   == threads[t]
             F    == IF ~still_fresh(a) THEN th.fresh \cup {a} ELSE th.fresh
             next == [th EXCEPT !.todo = @ \ {a}, !.fresh = F]
  <1>1. /\ DOMAIN threads = Threads /\ TypesOK /\ now \in Nat /\ ThreadOK(th)
        /\ th.pc = "note"
      BY DEF IInv, TypesOK, note
  <1>2. th.since \in Nat /\ th.addrs \subseteq Addrs /\ DOMAIN th = Fields
      BY <1>1 DEF ThreadOK
  <1>3. threads' = [threads EXCEPT ![t] =
            IF next.todo # {} THEN next
            ELSE IF next.fresh = {} THEN Done(next)
            ELSE [next EXCEPT !.pc = "block"]]
      BY DEF note
  <1>4. /\ DOMAIN next = Fields /\ next.pc = "note" /\ next.todo = th.todo \ {a}
        /\ next.fresh = F /\ next.addrs = th.addrs /\ next.since = th.since
        /\ next.kind = th.kind
      <2> HIDE DEF F
      <2> QED BY <1>1, <1>2 DEF Fields
  <1> DEFINE Next3 ==
          IF next.todo # {} THEN next
          ELSE IF next.fresh = {} THEN Done(next)
          ELSE [next EXCEPT !.pc = "block"]
  <1>5. threads'[t] = Next3
      BY <1>1, <1>3
  <1>6. DOMAIN threads' = Threads /\ \A u \in Threads \ {t} : threads'[u] = threads[u]
      BY <1>1, <1>3
  <1> DEFINE Goes(m) ==
          /\ m.addrs = th.addrs /\ m.since = th.since /\ m.kind = th.kind
          /\ m.fresh = F /\ m.todo = th.todo \ {a}
          /\ \/ m.pc = "note"
             \/ m.pc = "send" /\ m.kind # "conn" /\ F = {} /\ m.todo = {}
             \/ m.pc = "block" /\ m.todo = {}
  <1>7. /\ DOMAIN threads'[t] = Fields
        /\ (threads'[t] = Idle /\ F = {}) \/ Goes(threads'[t])
      <2> HIDE DEF next, F
      <2>1. CASE next.todo # {}
          BY <2>1, <1>4, <1>5
      <2>2. CASE next.todo = {} /\ next.fresh = {} /\ next.kind = "conn"
          <3>1. threads'[t] = Idle
              BY <2>2, <1>5 DEF Done
          <3>2. DOMAIN Idle = Fields
              BY DEF Idle, Fields
          <3> QED BY <3>1, <3>2, <2>2, <1>4
      <2>3. CASE next.todo = {} /\ next.fresh = {} /\ next.kind # "conn"
          <3>1. threads'[t] = [next EXCEPT !.pc = "send", !.todo = {}, !.fresh = {}]
              BY <2>3, <1>5 DEF Done
          <3> QED BY <3>1, <2>3, <1>4 DEF Fields
      <2>4. CASE next.todo = {} /\ next.fresh # {}
          <3>1. threads'[t] = [next EXCEPT !.pc = "block"]
              BY <2>4, <1>5
          <3> QED BY <3>1, <2>4, <1>4 DEF Fields
      <2> QED BY <2>1, <2>2, <2>3, <2>4
  <1>8. threads'[t].fresh = F
      BY <1>7 DEF Idle
  <1>9. UNCHANGED <<expires, now, lost>>
      BY DEF note
  <1>10. SafeStays
      BY <1>6, <1>8, <1>9, NoNft
  <1>11. TypesOK'
      <2>1. seen' \in Seq(Entries)
          BY <1>1, NotedEntries DEF note, TypesOK
      <2> QED BY <2>1, <1>1, <1>6, <1>9 DEF TypesOK
  <1>12. SeenOK'
      <2>1. CASE still_fresh(a)
          <3>1. seen' = seen
              BY <2>1 DEF note
          <3> QED BY <3>1, <1>9, <1>10, SeenKeeps
      <2>2. CASE ~still_fresh(a)
          <3>1. seen' = noted(a)
              BY <2>2 DEF note
          <3> SUFFICES ASSUME NEW i \in DOMAIN seen'
                       PROVE  /\ seen'[i].at <= now'
                              /\ \/ seen'[i].at + T <= now'
                                 \/ Safe(seen[i].addr, seen[i].at + T - 1)'
              BY DEF SeenOK
          <3>2. CASE seen'[i] = [addr |-> a, at |-> now]
              <4>1. seen'[i].addr = a /\ seen'[i].at = now
                  BY <3>2
              <4>2. a \in threads'[t].fresh
                  BY <1>8, <2>2
              <4> QED BY <4>1, <4>2, <1>1, <1>9 DEF Safe
          <3>3. CASE i \in DOMAIN seen /\ seen'[i] = seen[i]
              <4>1. seen'[i].at <= now'
                  BY <3>3, <1>9, <1>10, EntryKeeps
              <4>2. CASE seen[i].at + T <= now
                  BY <4>1, <4>2, <3>3, <1>9
              <4>3. ASSUME NEW b \in Addrs, NEW x \in Int, b = seen[i].addr,
                           x = seen[i].at + T - 1, Safe(b, x)'
                    PROVE  Safe(seen[i].addr, seen[i].at + T - 1)'
                  BY <4>3, <3>3 DEF Safe
              <4> QED BY <4>1, <4>2, <4>3, <3>3, <1>9, <1>10, EntryKeeps
          <3> QED BY <3>1, <3>2, <3>3, <1>1, NotedEntries
      <2> QED BY <2>1, <2>2
  <1>13. ThreadOK(threads[t])'
      <2>1. CASE threads'[t] = Idle
          <3>1. /\ threads'[t].since = 0 /\ threads'[t].addrs = {}
                /\ threads'[t].pc = "idle" /\ threads'[t].fresh = {}
              BY <2>1 DEF Idle
          <3> QED BY <3>1, <1>7 DEF ThreadOK, Looking
      <2>2. CASE Goes(threads'[t])
          <3>1. th.since <= now /\ now <= th.since + MaxStraddle
              BY <1>1 DEF ThreadOK, Looking
          <3> HIDE DEF F
          <3> QED BY <3>1, <2>2, <1>2, <1>7, <1>9 DEF ThreadOK, Looking
      <2> QED BY <2>1, <2>2, <1>7
  <1>14. LookedUpOK(threads[t])'
      <2>1. CASE threads'[t] = Idle
          BY <2>1 DEF LookedUpOK, Looking, Idle
      <2>2. CASE Goes(threads'[t])
          <3> SUFFICES ASSUME NEW b \in th.addrs \ (th.todo \ {a})
                       PROVE  Safe(b, threads[t].since + half)'
              BY <2>2 DEF LookedUpOK
          <3>1. CASE b \notin th.todo
              <4>1. PICK y \in Int : y = th.since + half /\ Safe(b, y)'
                  BY <3>1, <1>1, <1>10, LookedUpStays DEF Looking
              <4> QED BY <4>1, <2>2 DEF Safe
          <3>2. CASE b = a /\ ~still_fresh(a)
              BY <3>2, <1>8 DEF Safe
          <3>3. CASE b = a /\ still_fresh(a)
              <4>1. PICK y \in Int : y = th.since + half /\ y <= now + half
                  BY <1>1, <1>2, Times DEF ThreadOK, Looking
              <4>2. expires' \in [Addrs -> Nat]
                  BY <1>11 DEF TypesOK
              <4>3. Safe(a, y)'
                  BY <3>3, <4>1, <4>2, <1>9, <1>10, FreshIsSafe
              <4> QED BY <3>3, <4>1, <4>3, <2>2 DEF Safe
          <3> QED BY <3>1, <3>2, <3>3
      <2> QED BY <2>1, <2>2, <1>7
  <1> QED BY <1>6, <1>9, <1>10, <1>11, <1>12, <1>13, <1>14, ThreadStep

\* tpp_quic_block(): the run of nft restarts the timeout of every address, or
\* loses them all.
LEMMA BlockIInv ==
    ASSUME IInv, NEW t \in Threads, tpp_quic_block(t)
    PROVE  IInv'
  <1> DEFINE th == threads[t]
  <1>1. /\ DOMAIN threads = Threads /\ now \in Nat /\ ThreadOK(th)
        /\ th.pc = "block" /\ expires \in [Addrs -> Nat]
      BY DEF IInv, TypesOK, tpp_quic_block
  <1>2. /\ th.since \in Nat /\ th.addrs \subseteq Addrs /\ DOMAIN th = Fields
        /\ th.todo = {} /\ th.since <= now /\ now <= th.since + MaxStraddle
      BY <1>1 DEF ThreadOK, Looking
  <1>3. /\ threads'[t] = Done(th) /\ DOMAIN threads' = Threads
        /\ \A u \in Threads \ {t} : threads'[u] = threads[u]
      BY <1>1 DEF tpp_quic_block
  <1>4. UNCHANGED <<seen, now>>
      BY DEF tpp_quic_block
  <1>5. expires' \in [Addrs -> Nat] /\ SafeStays
      <2>1. CASE expires' = set_with(th.fresh) /\ lost' = lost \ th.fresh
          <3>1. /\ expires' \in [Addrs -> Nat]
                /\ \A a \in Addrs : expires'[a] =
                       IF a \in th.fresh THEN now + T ELSE expires[a]
              BY <2>1, <1>1, Times DEF set_with, T
          <3>2. ASSUME NEW a \in Addrs, NEW x \in Int, Safe(a, x), x < now + T
                PROVE  Safe(a, x)'
              <4>1. CASE a \in th.fresh
                  BY <4>1, <3>1, <3>2 DEF Safe
              <4>2. CASE a \notin th.fresh
                  BY <4>2, <3>1, <3>2, <2>1, <1>3 DEF Safe
              <4> QED BY <4>1, <4>2
          <3> QED BY <3>1, <3>2 DEF SafeStays
      <2>2. CASE lost' = lost \cup th.fresh /\ expires' = expires
          <3>1. ASSUME NEW a \in Addrs, NEW x \in Int, Safe(a, x)
                PROVE  Safe(a, x)'
              BY <3>1, <2>2, <1>3 DEF Safe
          <3> QED BY <3>1, <2>2, <1>1 DEF SafeStays
      <2> QED BY <2>1, <2>2 DEF tpp_quic_block
  <1>6. TypesOK' /\ SeenOK'
      BY <1>3, <1>4, <1>5, SeenKeeps DEF IInv, TypesOK
  <1>7. CASE th.kind = "conn"
      <2>1. threads'[t] = Idle
          BY <1>3, <1>7 DEF Done
      <2>2. ThreadOK(threads[t])' /\ LookedUpOK(threads[t])'
          BY <2>1 DEF ThreadOK, LookedUpOK, Idle, Fields, Looking
      <2> QED BY <2>2, <1>3, <1>4, <1>5, <1>6, ThreadStep
  <1>8. CASE th.kind # "conn"
      <2>1. threads'[t] = [th EXCEPT !.pc = "send", !.todo = {}, !.fresh = {}]
          BY <1>3, <1>8 DEF Done
      <2>2. /\ DOMAIN threads'[t] = Fields /\ threads'[t].pc = "send"
            /\ threads'[t].todo = {} /\ threads'[t].fresh = {}
            /\ threads'[t].addrs = th.addrs /\ threads'[t].since = th.since
            /\ threads'[t].kind = th.kind
          BY <2>1, <1>2 DEF Fields
      <2>3. ThreadOK(threads[t])'
          BY <2>2, <1>2, <1>4, <1>8 DEF ThreadOK
      <2>4. ASSUME NEW a \in th.addrs
            PROVE  Safe(a, threads[t].since + half)'
          <3>1. PICK y \in Int : y = th.since + half /\ Safe(a, y)'
              BY <1>1, <1>2, <1>5, LookedUpStays DEF Looking
          <3> QED BY <3>1, <2>2 DEF Safe
      <2>5. LookedUpOK(threads[t])'
          BY <2>2, <2>4 DEF LookedUpOK
      <2> QED BY <2>3, <2>5, <1>3, <1>4, <1>5, <1>6, ThreadStep
  <1> QED BY <1>7, <1>8

-----------------------------------------------------------------------------
(* The main loop's steps, and time.                                        *)

\* The set emptied: check_network(), a new ruleset, a flushed one.  What was
\* blocked is lost; the rest had expired.
LEMMA EmptiedIInv ==
    ASSUME IInv, UNCHANGED <<threads, seen, now>>,
           \/ expires' = Empty /\ lost' = lost \cup {a \in Addrs : Blocked(a)}
           \/ UNCHANGED <<expires, lost>>
    PROVE  IInv'
  <1>1. expires \in [Addrs -> Nat] /\ now \in Nat
      BY DEF IInv, TypesOK
  <1>2. expires' \in [Addrs -> Nat]
      BY <1>1 DEF Empty
  <1>3. SafeStays
      BY <1>1 DEF SafeStays, Safe, Blocked
  <1>4. TypesOK' /\ SeenOK'
      BY <1>2, <1>3, SeenKeeps DEF IInv, TypesOK
  <1>5. ASSUME NEW u \in Threads
        PROVE  ThreadOK(threads[u])' /\ LookedUpOK(threads[u])'
      BY <1>3, OthersKeep
  <1> QED BY <1>4, <1>5 DEF IInv

\* tpd_quic_forget() empties the table.
LEMMA ForgetIInv ==
    ASSUME IInv, tpd_quic_forget
    PROVE  IInv'
  <1>1. seen' = <<>> /\ UNCHANGED <<threads, expires, now, lost>>
      BY DEF tpd_quic_forget
  <1>2. SafeStays
      BY <1>1, NoNft
  <1>3. TypesOK' /\ SeenOK'
      BY <1>1 DEF IInv, TypesOK, SeenOK
  <1>4. ASSUME NEW u \in Threads
        PROVE  ThreadOK(threads[u])' /\ LookedUpOK(threads[u])'
      BY <1>1, <1>2, OthersKeep
  <1> QED BY <1>3, <1>4 DEF IInv

\* Time passes; no thread straddles more than MaxStraddle of it.
LEMMA TickIInv ==
    ASSUME IInv, tick
    PROVE  IInv'
  <1>1. now' = now + 1 /\ UNCHANGED <<threads, seen, expires, lost>>
      BY DEF tick
  <1>2. now \in Nat /\ TypesOK'
      BY <1>1 DEF IInv, TypesOK
  <1>3. SeenOK'
      <2> SUFFICES ASSUME NEW i \in DOMAIN seen
                   PROVE  /\ seen[i].at <= now'
                          /\ \/ seen[i].at + T <= now'
                             \/ Safe(seen[i].addr, seen[i].at + T - 1)
          BY <1>1 DEF SeenOK, Safe
      <2>1. seen[i] \in Entries
          BY DEF IInv, TypesOK
      <2>2. seen[i].at \in Nat
          BY <2>1 DEF Entries
      <2>3. /\ seen[i].at <= now
            /\ seen[i].at + T <= now \/ Safe(seen[i].addr, seen[i].at + T - 1)
          BY DEF IInv, SeenOK
      <2>4. seen[i].at <= now' /\ (seen[i].at + T <= now => seen[i].at + T <= now')
          BY <2>2, <2>3, <1>1, <1>2, Times
      <2> QED BY <2>3, <2>4
  <1>4. ASSUME NEW u \in Threads
        PROVE  ThreadOK(threads[u])' /\ LookedUpOK(threads[u])'
      <2>1. ThreadOK(threads[u]) /\ LookedUpOK(threads[u])
          BY DEF IInv
      <2>2. threads[u].pc \in Looking => now - threads[u].since < MaxStraddle
          BY DEF tick, Looking
      <2>3. ThreadOK(threads[u])'
          BY <2>1, <2>2, <1>1, <1>2, Times DEF ThreadOK
      <2>4. LookedUpOK(threads[u])'
          BY <2>1, <1>1 DEF LookedUpOK, Safe
      <2> QED BY <2>3, <2>4
  <1> QED BY <1>2, <1>3, <1>4 DEF IInv

\* Every step keeps the invariant.
LEMMA StepIInv ==
    ASSUME IInv, [Next]_vars
    PROVE  IInv'
  <1>1. ASSUME NEW t \in Threads, udp_loop(t) PROVE IInv'
      BY <1>1, TakeSlotIInv DEF udp_loop
  <1>2. ASSUME NEW t \in Threads, tcp_loop(t) PROVE IInv'
      BY <1>2, TakeSlotIInv DEF tcp_loop
  <1>3. ASSUME tpp_quic_flush PROVE IInv'
      BY <1>3, EmptiedIInv DEF tpp_quic_flush
  <1>4. ASSUME tpp_refresh PROVE IInv'
      BY <1>4, EmptiedIInv DEF tpp_refresh
  <1>5. ASSUME flush_ruleset PROVE IInv'
      BY <1>5, EmptiedIInv DEF flush_ruleset
  <1>6. ASSUME UNCHANGED vars PROVE IInv'
      BY <1>6, EmptiedIInv DEF vars
  <1> QED BY <1>1, <1>2, <1>3, <1>4, <1>5, <1>6, AnswerIInv, WorkerEndsIInv,
             TcpWorkerIInv, BlockIInv, SockaddrIInv, NoteIInv, ForgetIInv,
             TickIInv DEF Next

-----------------------------------------------------------------------------
(* The slots.                                                              *)

Workers == {t \in Threads : threads[t].pc # "idle" /\ threads[t].kind # "conn"}

\* A step of thread t moves nobody else in or out of the workers.
LEMMA WorkersMove ==
    ASSUME NEW t \in Threads, \A u \in Threads \ {t} : threads'[u] = threads[u]
    PROVE  /\ (t \in Workers <=> t \in Workers') => Workers' = Workers
           /\ t \notin Workers /\ t \in Workers' => Workers' = Workers \cup {t}
           /\ t \in Workers /\ t \notin Workers' => Workers' = Workers \ {t}
  BY DEF Workers

\* A worker is a worker until worker_ends(), and a connection thread never one.
LEMMA WorkersStay ==
    ASSUME IInv, NEW t \in Threads,
           \/ answer(t) \/ tcp_worker(t) \/ tpp_quic_block(t)
           \/ \E a \in Addrs : tpd_quic_block_sockaddr(t, a) \/ note(t, a)
    PROVE  Workers' = Workers /\ inflight' = inflight
  <1>1. DOMAIN threads = Threads /\ ThreadOK(threads[t])
      BY DEF IInv, TypesOK
  <1>2. DOMAIN threads[t] = Fields
      BY <1>1, SMTT(30) DEF ThreadOK
  <1>3. inflight' = inflight /\ \A u \in Threads \ {t} : threads'[u] = threads[u]
      BY Zenon, <1>1 DEF answer, tcp_worker, tpp_quic_block, tpd_quic_block_sockaddr, note
  <1>4. ASSUME NEW th, DOMAIN th = Fields, threads'[t] = Done(th),
               th.kind = threads[t].kind, threads[t].pc # "idle"
        PROVE  t \in Workers <=> t \in Workers'
      <2>1. CASE th.kind = "conn"
          BY <2>1, <1>4 DEF Done, Idle, Workers
      <2>2. CASE th.kind # "conn"
          <3>1. threads'[t] = [th EXCEPT !.pc = "send", !.todo = {}, !.fresh = {}]
              BY <2>2, <1>4 DEF Done
          <3>2. threads'[t].pc = "send" /\ threads'[t].kind = th.kind
              BY <3>1, <1>4 DEF Fields
          <3> QED BY <3>2, <1>4 DEF Workers
      <2> QED BY <2>1, <2>2
  <1>5. CASE answer(t)
      <2>1. PICK src \in Resolved(threads[t].listed), found \in SUBSET Addrs :
                threads'[t] = [threads[t] EXCEPT
                    !.pc = IF found = {} THEN "send" ELSE "note",
                    !.src = src, !.addrs = found, !.todo = found, !.since = now]
          BY Zenon, <1>1, <1>5 DEF answer
      <2> DEFINE pc == IF found = {} THEN "send" ELSE "note"
      <2>2. pc # "idle"
          OBVIOUS
      <2>3. threads'[t].pc = pc /\ threads'[t].kind = threads[t].kind
          <3> HIDE DEF pc
          <3>1. threads'[t] = [threads[t] EXCEPT !.pc = pc,
                    !.src = src, !.addrs = found, !.todo = found, !.since = now]
              BY <2>1, SMTT(30) DEF pc
          <3> QED BY <3>1, <1>2 DEF Fields
      <2>4. t \in Workers <=> t \in Workers'
          <3> HIDE DEF pc
          <3> QED BY Zenon, <2>2, <2>3, <1>5 DEF Workers, answer
      <2> QED BY <2>4, <1>3, WorkersMove, SMTT(30)
  <1>6. CASE tcp_worker(t)
      <2>1. threads[t].pc = "send" /\ threads[t].kind = "tcp"
          BY Zenon, <1>6 DEF tcp_worker
      <2>2. PICK listed \in BOOLEAN : threads'[t] =
                [Idle EXCEPT !.pc = "resolve", !.kind = "tcp", !.listed = listed]
          BY Zenon, <1>1, <1>6 DEF tcp_worker
      <2>3. threads'[t].pc = "resolve" /\ threads'[t].kind = "tcp"
          BY <2>2 DEF Idle
      <2>4. t \in Workers <=> t \in Workers'
          BY <2>1, <2>3 DEF Workers
      <2> QED BY <2>4, <1>3, WorkersMove, SMTT(30)
  <1>7. CASE tpp_quic_block(t)
      <2>1. threads[t].pc = "block" /\ threads'[t] = Done(threads[t])
          BY <1>1, <1>7 DEF tpp_quic_block
      <2>2. t \in Workers <=> t \in Workers'
          BY <2>1, <1>2, <1>4
      <2> QED BY <2>2, <1>3, WorkersMove
  <1>8. ASSUME NEW a \in Addrs, tpd_quic_block_sockaddr(t, a)
        PROVE  Workers' = Workers
      <2>1. threads[t].pc = "idle" /\ threads'[t] =
                [Idle EXCEPT !.pc = "note", !.kind = "conn", !.addrs = {a},
                             !.todo = {a}, !.since = now]
          BY Zenon, <1>1, <1>8 DEF tpd_quic_block_sockaddr
      <2>2. threads'[t].kind = "conn"
          BY <2>1 DEF Idle
      <2>3. t \in Workers <=> t \in Workers'
          BY Zenon, <2>1, <2>2 DEF Workers
      <2> QED BY <2>3, <1>3, WorkersMove, SMTT(30)
  <1>9. ASSUME NEW a \in Addrs, note(t, a)
        PROVE  Workers' = Workers
      <2> DEFINE F    == IF ~still_fresh(a) THEN threads[t].fresh \cup {a}
                                            ELSE threads[t].fresh
                 next == [threads[t] EXCEPT !.todo = @ \ {a}, !.fresh = F]
      <2>1. threads[t].pc = "note" /\ threads'[t] =
                IF next.todo # {} THEN next
                ELSE IF next.fresh = {} THEN Done(next)
                ELSE [next EXCEPT !.pc = "block"]
          BY Zenon, <1>1, <1>9 DEF note
      <2>2. DOMAIN next = Fields /\ next.pc = "note" /\ next.kind = threads[t].kind
          <3> HIDE DEF F
          <3> QED BY <2>1, <1>2 DEF Fields
      <2> HIDE DEF next
      <2>3. CASE threads'[t] = next
          BY <2>1, <2>2, <2>3, <1>3, WorkersMove DEF Workers
      <2>4. CASE threads'[t] = Done(next)
          BY <2>1, <2>2, <2>4, <1>3, <1>4, WorkersMove
      <2>5. CASE threads'[t] = [next EXCEPT !.pc = "block"]
          <3>1. threads'[t].pc = "block" /\ threads'[t].kind = threads[t].kind
              BY <2>2, <2>5 DEF Fields
          <3> QED BY Zenon, <2>1, <3>1, <1>3, WorkersMove DEF Workers
      <2> QED BY <2>1, <2>3, <2>4, <2>5
  <1> QED BY <1>3, <1>5, <1>6, <1>7, <1>8, <1>9

\* take_slot() and give_slot() count one worker in and one out.
LEMMA StepInflight ==
    ASSUME IInv, InflightIsWorkers, [Next]_vars
    PROVE  InflightIsWorkers'
  <1>1. inflight = Cardinality(Workers) /\ IsFiniteSet(Workers)
      BY QuicAssumption, FS_Subset DEF InflightIsWorkers, Workers
  <1>2. InflightIsWorkers' <=> inflight' = Cardinality(Workers')
      BY DEF InflightIsWorkers, Workers
  <1>3. DOMAIN threads = Threads
      BY DEF IInv, TypesOK
  <1>4. ASSUME Workers' = Workers, inflight' = inflight PROVE InflightIsWorkers'
      BY <1>1, <1>2, <1>4
  <1>5. ASSUME NEW t \in Threads, NEW kind \in {"udp", "tcp"}, take_slot(t, kind)
        PROVE  InflightIsWorkers'
      <2>1. PICK listed \in BOOLEAN : threads'[t] =
                [Idle EXCEPT !.pc = "resolve", !.kind = kind, !.listed = listed]
          BY Zenon, <1>3, <1>5 DEF take_slot
      <2>2. threads'[t].pc = "resolve" /\ threads'[t].kind = kind
          BY <2>1 DEF Idle
      <2>3. /\ threads[t].pc = "idle" /\ inflight' = inflight + 1
            /\ \A u \in Threads \ {t} : threads'[u] = threads[u]
          BY <1>3, <1>5 DEF take_slot
      <2>4. t \notin Workers /\ Workers' = Workers \cup {t}
          BY <2>2, <2>3, WorkersMove DEF Workers
      <2> QED BY <2>3, <2>4, <1>1, <1>2, FS_AddElement, SMTT(30)
  <1>6. ASSUME NEW t \in Threads, worker_ends(t)
        PROVE  InflightIsWorkers'
      <2>1. /\ threads[t].pc = "send" /\ threads'[t] = Idle
            /\ inflight' = inflight - 1
            /\ \A u \in Threads \ {t} : threads'[u] = threads[u]
          BY <1>3, <1>6 DEF worker_ends
      <2>2. threads[t].kind # "conn"
          BY <2>1 DEF IInv, ThreadOK
      <2>3. t \in Workers /\ Workers' = Workers \ {t}
          BY <2>1, <2>2, WorkersMove, SMTT(30) DEF Workers, Idle
      <2> QED BY Zenon, <2>1, <2>3, <1>1, <1>2, FS_RemoveElement
  <1>7. ASSUME UNCHANGED <<threads, inflight>> PROVE InflightIsWorkers'
      BY <1>7, <1>4 DEF Workers
  <1>8. CASE \/ tpp_quic_flush \/ tpd_quic_forget \/ tpp_refresh
             \/ flush_ruleset \/ tick \/ UNCHANGED vars
      BY <1>8, <1>7 DEF tpp_quic_flush, tpd_quic_forget, tpp_refresh,
                        flush_ruleset, tick, vars
  <1>9. ASSUME NEW t \in Threads, udp_loop(t) \/ tcp_loop(t)
        PROVE  InflightIsWorkers'
      BY <1>5, <1>9 DEF udp_loop, tcp_loop
  <1>10. ASSUME NEW t \in Threads,
                \/ answer(t) \/ tcp_worker(t) \/ tpp_quic_block(t)
                \/ \E a \in Addrs : tpd_quic_block_sockaddr(t, a) \/ note(t, a)
         PROVE  InflightIsWorkers'
      BY <1>4, <1>10, WorkersStay
  <1> QED BY <1>6, <1>8, <1>9, <1>10 DEF Next

-----------------------------------------------------------------------------
(* The theorems.                                                           *)

\* The invariant holds throughout.
LEMMA AlwaysIInv == Spec => []IInv
  <1>1. Init => IInv
      BY InitIInv
  <1>2. IInv /\ [Next]_vars => IInv'
      BY StepIInv
  <1> QED BY <1>1, <1>2, PTL DEF Spec

\* An address note() would leave alone has more than half its timeout left in
\* the set, unless nft lost it or a thread is about to add it.
THEOREM SpecRememberedStaysBlocked == Spec => []RememberedStaysBlocked
  <1>1. ASSUME IInv PROVE RememberedStaysBlocked
      <2> SUFFICES ASSUME NEW a \in Addrs, still_fresh(a), Adding(a) = {},
                          a \notin lost
                   PROVE  expires[a] - now > half
          BY DEF RememberedStaysBlocked
      <2>1. PICK i \in DOMAIN seen : seen[i].addr = a /\ now - seen[i].at < half
          BY DEF still_fresh, Indices
      <2>2. seen[i] \in Entries
          BY <1>1 DEF IInv, TypesOK
      <2>3. seen[i].at \in Nat /\ now \in Nat /\ expires[a] \in Nat
          BY <1>1, <2>2 DEF IInv, TypesOK, Entries
      <2>4. ~(seen[i].at + T <= now)
          BY <2>1, <2>3, Times
      <2>5. Safe(a, seen[i].at + T - 1)
          BY <1>1, <2>1, <2>4 DEF IInv, SeenOK
      <2>6. expires[a] > seen[i].at + T - 1
          BY <2>5 DEF Safe, Adding
      <2> QED BY <2>1, <2>3, <2>6, Times
  <1> QED BY <1>1, AlwaysIInv, PTL

\* When the answer for a known-blocked name goes out, its addresses are in the
\* set, lost by nft, or about to be added by a thread that noted them.
THEOREM SpecAnsweredIsBlocked == Spec => []AnsweredIsBlocked
  <1>1. ASSUME IInv PROVE AnsweredIsBlocked
      <2> SUFFICES ASSUME NEW t \in Threads, threads[t].pc = "send",
                          NEW a \in threads[t].addrs
                   PROVE  Blocked(a) \/ a \in lost \/ Adding(a) # {}
          BY DEF AnsweredIsBlocked
      <2>1. ThreadOK(threads[t]) /\ LookedUpOK(threads[t])
          BY <1>1 DEF IInv
      <2>2. /\ threads[t].since \in Nat /\ now <= threads[t].since + MaxStraddle
            /\ threads[t].todo = {} /\ a \in Addrs
          BY <2>1 DEF ThreadOK, Looking
      <2>3. Safe(a, threads[t].since + half)
          BY <2>1, <2>2 DEF LookedUpOK, Looking
      <2>4. now \in Nat /\ expires[a] \in Nat
          BY <1>1, <2>2 DEF IInv, TypesOK
      <2>5. CASE expires[a] > threads[t].since + half
          BY <2>2, <2>4, <2>5, Times DEF Blocked
      <2> QED BY <2>3, <2>5 DEF Safe, Adding
  <1> QED BY <1>1, AlwaysIInv, PTL

\* g_inflight is the number of the forwarder's workers.
THEOREM SpecInflightIsWorkers == Spec => []InflightIsWorkers
  <1>1. Init => InflightIsWorkers
      <2> SUFFICES ASSUME Init PROVE InflightIsWorkers
          OBVIOUS
      <2>1. \A t \in Threads : threads[t].pc = "idle"
          BY DEF Init, Idle
      <2>2. {t \in Threads : threads[t].pc # "idle" /\ threads[t].kind # "conn"} = {}
          BY <2>1
      <2> QED BY Zenon, <2>2, FS_EmptySet DEF Init, InflightIsWorkers
  <1>2. IInv /\ InflightIsWorkers /\ [Next]_vars => InflightIsWorkers'
      BY StepInflight
  <1> QED BY <1>1, <1>2, AlwaysIInv, PTL DEF Spec

=============================================================================
