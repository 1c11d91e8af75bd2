--------------------------- MODULE TpDaemonProofs ---------------------------
(***************************************************************************)
(* For any hosts, networks, connections, bounds and resolver answers: the  *)
(* shared state keeps its type, a bypass is only learned from a verified   *)
(* handshake, the direct_bad marks are of the current network, manual      *)
(* rules teach nothing, and the queue repeats a job only after the window. *)
(*                                                                         *)
(* The first section says what the operations on the learned table may     *)
(* change; the rest needs no more about them.                              *)
(***************************************************************************)
EXTENDS TpDaemon, TLAPS

\* An update of one slot leaves the table's type and domain alone, whatever
\* the slot.
LEMMA SlotUpdate ==
    ASSUME NEW n, NEW S, NEW t \in [1..n -> S], NEW i, NEW v \in S
    PROVE  /\ [t EXCEPT ![i] = v] \in [1..n -> S]
           /\ \A k \in DOMAIN [t EXCEPT ![i] = v] :
                  k \in DOMAIN t /\ ([t EXCEPT ![i] = v][k] \in {t[k], v})
  BY Zenon

\* Clearing a host's cooldown touches only the cooldown table.
LEMMA ClearCooldown ==
    ASSUME NEW d \in Tables, NEW h \in Hosts
    PROVE  LET r == clear_cooldown(d, h) IN
           /\ r \in Tables
           /\ r.direct_bad = d.direct_bad /\ r.entries = d.entries
  <1> DEFINE cd == [i \in DOMAIN d.cooldown |->
                      IF d.cooldown[i].host = h THEN [d.cooldown[i] EXCEPT !.host = ""]
                                                ELSE d.cooldown[i]]
  <1>1. d.cooldown \in [1..TP_COOLDOWN_MAX -> Cooldowns]
    BY DEF Tables
  <1>2. cd \in [1..TP_COOLDOWN_MAX -> Cooldowns]
    BY Zenon, <1>1 DEF Cooldowns
  <1>3. clear_cooldown(d, h) = [d EXCEPT !.cooldown = cd]
    BY DEF clear_cooldown, Tables
  <1> HIDE DEF cd
  <1> QED
    BY <1>2, <1>3 DEF Tables

\* Removing a decision touches only the entries.
LEMMA RemoveEntry ==
    ASSUME NEW d \in Tables, NEW h, NEW f, NEW fam
    PROVE  LET r == remove_entry(d, h, f, fam) IN
           /\ r \in Tables
           /\ r.direct_bad = d.direct_bad /\ r.entries \subseteq d.entries
  <1> DEFINE es == d.entries \ find(d, h, f, fam)
  <1>1. es \in SUBSET Decisions
    BY DEF Tables
  <1>2. remove_entry(d, h, f, fam) \in {d, [d EXCEPT !.entries = es, !.dirty = TRUE]}
    BY DEF remove_entry
  <1>3. es \subseteq d.entries
    OBVIOUS
  <1> HIDE DEF es
  <1> QED
    BY Zenon, <1>1, <1>2, <1>3 DEF Tables

\* Making room removes entries and adds none.
LEMMA NewSlot ==
    ASSUME NEW d \in Tables, NEW r \in new_slot(d)
    PROVE  /\ r \in Tables
           /\ r.direct_bad = d.direct_bad /\ r.entries \subseteq d.entries
  <1>1. CASE r = d
    BY <1>1
  <1>2. CASE d.cap < TP_DECISIONS_MAX /\ r = [d EXCEPT !.cap = grown_cap(d.cap)]
    <2>1. grown_cap(d.cap) \in 0..TP_DECISIONS_MAX
      <3>1. d.cap \in 0..TP_DECISIONS_MAX
        BY DEF Tables
      <3>2. TP_DECISIONS_MAX \in Nat /\ TP_DECISIONS_FIRST_CAP \in 0..TP_DECISIONS_MAX
        <4>1. /\ TP_DECISIONS_MAX \in Nat /\ TP_DECISIONS_FIRST_CAP \in Nat
              /\ TP_DECISIONS_FIRST_CAP <= TP_DECISIONS_MAX
          BY Zenon, TableAssumption
        <4> QED
          BY <4>1
      <3>3. CASE d.cap = 0
        BY <3>2, <3>3 DEF grown_cap
      <3>4. CASE d.cap # 0
        <4> DEFINE n == 2 * d.cap
        <4>1. n \in Nat
          BY <3>1, <3>2
        <4>2. grown_cap(d.cap) = IF n > TP_DECISIONS_MAX THEN TP_DECISIONS_MAX ELSE n
          BY <3>4 DEF grown_cap
        <4> HIDE DEF n
        <4> QED
          BY <3>2, <4>1, <4>2
      <3> QED
        BY <3>3, <3>4
    <2> QED
      BY <1>2, <2>1 DEF Tables
  <1>3. CASE r \in evict_oldest(d)
    <2>1. PICK e \in d.entries : r = [d EXCEPT !.entries = d.entries \ {e}]
      BY <1>3 DEF evict_oldest
    <2>2. d.entries \ {e} \in SUBSET Decisions
      BY SMTT(30) DEF Tables
    <2> QED
      BY <2>1, <2>2 DEF Tables
  <1> QED
    BY <1>1, <1>2, <1>3 DEF new_slot

\* Storing an entry adds that entry and no other.
LEMMA Store ==
    ASSUME NEW d \in Tables, NEW e \in Decisions, NEW r \in store(d, e)
    PROVE  /\ r \in Tables
           /\ r.direct_bad = d.direct_bad /\ r.entries \subseteq d.entries \cup {e}
  <1> DEFINE old == find(d, e.host, e.fp, e.family)
             put(t) == [t EXCEPT !.entries = (t.entries \ old) \cup {e}, !.dirty = TRUE]
  <1>1. r = d \/ \E t \in {d} \cup new_slot(d) : r = put(t)
    BY Zenon DEF store
  <1>2. ASSUME NEW t \in {d} \cup new_slot(d), r = put(t)
        PROVE  /\ r \in Tables
               /\ r.direct_bad = d.direct_bad /\ r.entries \subseteq d.entries \cup {e}
    <2>1. t \in Tables /\ t.direct_bad = d.direct_bad /\ t.entries \subseteq d.entries
      BY NewSlot
    <2> DEFINE es == (t.entries \ old) \cup {e}
    <2>2. es \in SUBSET Decisions /\ es \subseteq d.entries \cup {e}
      BY <2>1 DEF Tables
    <2>3. r = [t EXCEPT !.entries = es, !.dirty = TRUE]
      BY <1>2
    <2> HIDE DEF es
    <2> QED
      BY Zenon, <2>1, <2>2, <2>3 DEF Tables
  <1> QED
    BY Zenon, <1>1, <1>2

\* A success adds at most the entry of a bypass on a known network.
LEMMA Success ==
    ASSUME NEW d \in Tables, NEW h \in Hosts, NEW f \in Fingerprints,
           NEW fam \in Families, NEW t \in Nat, NEW step \in Steps,
           NEW r \in tp_decision_success(d, h, f, fam, t, step)
    PROVE  /\ r \in Tables
           /\ r.direct_bad = d.direct_bad
           /\ \A e \in r.entries \ d.entries :
                 /\ ~is_direct(step)
                 /\ e = [host |-> h, fp |-> f, family |-> fam, step |-> step,
                         validated_at |-> t]
  <1> DEFINE c == clear_cooldown(d, h)
             new == [host |-> h, fp |-> f, family |-> fam, step |-> step,
                     validated_at |-> t]
  <1>1. c \in Tables /\ c.direct_bad = d.direct_bad /\ c.entries = d.entries
    BY ClearCooldown
  <1>2. \/ r = c
        \/ r = remove_entry(c, h, f, fam)
        \/ f # NETFP_UNKNOWN /\ ~is_direct(step) /\ r \in store(c, new)
    BY DEF tp_decision_success
  <1>3. CASE r = remove_entry(c, h, f, fam)
    BY <1>1, <1>3, RemoveEntry
  <1>4. CASE f # NETFP_UNKNOWN /\ ~is_direct(step) /\ r \in store(c, new)
    <2>1. step # direct
      BY <1>4 DEF is_direct, direct, step_of, Steps
    <2>2. new \in Decisions
      BY <1>4, <2>1 DEF Decisions, Fingerprints
    <2> QED
      BY <1>1, <1>4, <2>2, Store
  <1> QED
    BY <1>1, <1>2, <1>3, <1>4

\* A failure starts a cooldown and removes at most an entry.
LEMMA Failure ==
    ASSUME NEW d \in Tables, NEW h \in Hosts, NEW f, NEW fam, NEW t \in Nat
    PROVE  LET r == tp_decision_failure(d, h, f, fam, t) IN
           /\ r \in Tables
           /\ r.direct_bad = d.direct_bad /\ r.entries \subseteq d.entries
  <1> DEFINE c == start_cooldown(d, h, t)
             slot == slot_for(d.cooldown, {i \in DOMAIN d.cooldown : d.cooldown[i].host = h}, t)
             v == [host |-> h, until |-> t + TP_COOLDOWN_SECONDS]
             cd == [d.cooldown EXCEPT ![slot] = v]
  <1>1. d.cooldown \in [1..TP_COOLDOWN_MAX -> Cooldowns]
    BY DEF Tables
  <1>2. v \in Cooldowns
    <2>1. TP_COOLDOWN_SECONDS \in Nat
      BY Zenon, TableAssumption
    <2>2. t + TP_COOLDOWN_SECONDS \in Nat
      BY <2>1
    <2> QED
      BY Zenon, <2>2 DEF Cooldowns
  <1>3. c = [d EXCEPT !.cooldown = cd]
    BY DEF start_cooldown, Tables
  <1> HIDE DEF slot, v
  <1>4. cd \in [1..TP_COOLDOWN_MAX -> Cooldowns]
    BY Zenon, <1>1, <1>2, SlotUpdate
  <1> HIDE DEF cd
  <1>5. c \in Tables /\ c.direct_bad = d.direct_bad /\ c.entries = d.entries
    BY <1>3, <1>4 DEF Tables
  <1> HIDE DEF c
  <1>6. tp_decision_failure(d, h, f, fam, t) = remove_entry(c, h, f, fam)
    BY DEF tp_decision_failure, c
  <1> QED
    BY <1>5, <1>6, RemoveEntry

\* A mark changes one slot, to the network it was made for.
LEMMA Mark ==
    ASSUME NEW d \in Tables, NEW h \in Hosts, NEW f \in Fingerprints,
           NEW fam \in Families, NEW t \in Nat
    PROVE  LET r == tp_direct_bad_mark(d, h, f, fam, t) IN
           /\ r \in Tables /\ r.entries = d.entries
           /\ \A k \in DOMAIN r.direct_bad :
                 /\ k \in DOMAIN d.direct_bad
                 /\ r.direct_bad[k] = d.direct_bad[k] \/ r.direct_bad[k].fp = f
  <1> DEFINE r == tp_direct_bad_mark(d, h, f, fam, t)
             slot == slot_for(d.direct_bad, mark_find(d, h, f, fam), t)
             v == [host |-> h, fp |-> f, family |-> fam,
                   until |-> t + TP_DIRECT_BAD_TTL_SECONDS]
             db == [d.direct_bad EXCEPT ![slot] = v]
  <1>1. d.direct_bad \in [1..TP_DIRECT_BAD_MAX -> Marks]
    BY DEF Tables
  <1>2. v \in Marks /\ v.fp = f
    <2>1. TP_DIRECT_BAD_TTL_SECONDS \in Nat
      BY Zenon, TableAssumption
    <2>2. t + TP_DIRECT_BAD_TTL_SECONDS \in Nat
      BY <2>1
    <2> QED
      BY Zenon, <2>2 DEF Marks
  <1>3. r = d \/ r = [d EXCEPT !.direct_bad = db]
    BY DEF tp_direct_bad_mark, Tables
  <1> HIDE DEF slot, v, r
  <1>4. /\ db \in [1..TP_DIRECT_BAD_MAX -> Marks]
        /\ \A k \in DOMAIN db : k \in DOMAIN d.direct_bad /\ db[k] \in {d.direct_bad[k], v}
    BY Zenon, <1>1, <1>2, SlotUpdate
  <1> HIDE DEF db
  <1>5. CASE r = d
    BY <1>5 DEF r
  <1>6. CASE r = [d EXCEPT !.direct_bad = db]
    <2>1. r \in Tables /\ r.entries = d.entries /\ r.direct_bad = db
      BY <1>4, <1>6 DEF Tables
    <2> QED
      BY <1>2, <1>4, <2>1 DEF r
  <1> QED
    BY <1>3, <1>5, <1>6

\* A network change empties both slot tables and keeps the decisions.
LEMMA NetworkChanged ==
    ASSUME NEW d \in Tables
    PROVE  LET r == tp_decisions_network_changed(d) IN
           /\ r \in Tables /\ r.entries = d.entries
           /\ \A k \in DOMAIN r.direct_bad : r.direct_bad[k].host = ""
  <1> DEFINE cd == [i \in DOMAIN d.cooldown |-> NoCooldown]
             db == [i \in DOMAIN d.direct_bad |-> NoMark]
  <1>1. cd \in [1..TP_COOLDOWN_MAX -> Cooldowns]
    BY Zenon DEF Tables, Cooldowns, NoCooldown
  <1>2. /\ db \in [1..TP_DIRECT_BAD_MAX -> Marks]
        /\ \A k \in DOMAIN db : db[k].host = ""
    BY Zenon DEF Tables, Marks, NoMark, Fingerprints
  <1>3. tp_decisions_network_changed(d) = [d EXCEPT !.cooldown = cd, !.direct_bad = db]
    BY DEF tp_decisions_network_changed, Tables
  <1> HIDE DEF cd, db
  <1> QED
    BY Zenon, <1>1, <1>2, <1>3 DEF Tables

-----------------------------------------------------------------------------
\* A busy connection thread has a host and a family, and what it sends to the
\* verifier was not made under a manual rule.
ConnOK(k) ==
    /\ k \in ConnStates
    /\ k.pc # "idle" => k.host \in Hosts /\ k.family \in Families
    /\ k.pc = "submit" => k.src # "MANUAL"

\* The inductive invariant of the first theorems.
IInv ==
    /\ TypeOK
    /\ \A c \in Conns : ConnOK(conns[c])
    /\ DirectBadIsCurrent

\* One thread's new state does for all threads.
LEMMA OneConn ==
    ASSUME conns \in [Conns -> ConnStates], \A c \in Conns : ConnOK(conns[c]),
           NEW c \in Conns, NEW k, ConnOK(k), conns' = [conns EXCEPT ![c] = k]
    PROVE  conns' \in [Conns -> ConnStates] /\ \A x \in Conns : ConnOK(conns'[x])
  BY DEF ConnOK

LEMMA IdleOK == ConnOK(NoConn)
  <1>1. direct \in Steps
    BY DEF direct, step_of, Steps, Targets, StreamStrategies
  <1>2. NETFP_UNKNOWN \in Fingerprints
    BY DEF Fingerprints
  <1> QED
    BY <1>1, <1>2 DEF ConnOK, NoConn, ConnStates, Sources

\* A job put in the queue, or not, keeps queue and ring typed and bounded.
LEMMA Submit ==
    ASSUME TypeOK, NEW job \in Jobs, tpd_verify_submit(job)
    PROVE  /\ queue' \in Seq(Jobs) /\ Len(queue') <= QUEUE_MAX
           /\ recent' \in Seq([key : JobKeys, at : Nat]) /\ Len(recent') <= RECENT_MAX
  <1> DEFINE r == Append(recent, [key |-> job_key(job), at |-> now])
  <1>1. QUEUE_MAX \in Nat /\ RECENT_MAX \in Nat /\ MaxNow \in Nat
    BY DaemonAssumption
  <1>2. job_key(job) \in JobKeys
    BY DEF job_key, Jobs, JobKeys
  <1>3. now \in Nat
    BY <1>1 DEF TypeOK
  <1>4. [key |-> job_key(job), at |-> now] \in [key : JobKeys, at : Nat]
    BY <1>2, <1>3
  <1>5. CASE UNCHANGED <<queue, recent>>
    BY <1>5 DEF TypeOK
  <1>6. CASE /\ ~(Len(queue) >= QUEUE_MAX) /\ queue' = Append(queue, job)
             /\ recent' = IF Len(r) > RECENT_MAX THEN Tail(r) ELSE r
    <2>1. queue' \in Seq(Jobs) /\ Len(queue') <= QUEUE_MAX
      BY <1>1, <1>6 DEF TypeOK
    <2>2. /\ r \in Seq([key : JobKeys, at : Nat])
          /\ Len(r) = Len(recent) + 1 /\ Len(recent) <= RECENT_MAX /\ Len(recent) \in Nat
      BY <1>4 DEF TypeOK
    <2> HIDE DEF r
    <2>3. recent' \in Seq([key : JobKeys, at : Nat]) /\ Len(recent') <= RECENT_MAX
      BY <1>1, <1>6, <2>2
    <2> QED
      BY <2>1, <2>3
  <1> QED
    BY <1>5, <1>6 DEF tpd_verify_submit

LEMMA InitIInv == Init => IInv
  <1> SUFFICES ASSUME Init PROVE IInv
    OBVIOUS
  <1>1. tp_decisions_init \in Tables
    <2>1. 0 \in 0..TP_DECISIONS_MAX
      <3>1. TP_DECISIONS_MAX \in Nat
        BY Zenon, TableAssumption
      <3> QED
        BY <3>1
    <2>2. [i \in 1..TP_COOLDOWN_MAX |-> NoCooldown] \in [1..TP_COOLDOWN_MAX -> Cooldowns]
      BY DEF NoCooldown, Cooldowns
    <2>3. [i \in 1..TP_DIRECT_BAD_MAX |-> NoMark] \in [1..TP_DIRECT_BAD_MAX -> Marks]
      BY DEF NoMark, Marks, Fingerprints
    <2> QED
      BY <2>1, <2>2, <2>3 DEF tp_decisions_init, Tables
  <1>2. \A c \in Conns : conns[c] = NoConn
    BY DEF Init
  <1>3. conns \in [Conns -> ConnStates] /\ \A c \in Conns : ConnOK(conns[c])
    BY <1>2, IdleOK DEF Init, ConnOK
  <1>4. TypeOK
    <2>1. QUEUE_MAX \in Nat /\ RECENT_MAX \in Nat /\ MaxNow \in Nat
      BY DaemonAssumption
    <2>2. now \in 0..MaxNow /\ Len(queue) <= QUEUE_MAX /\ Len(recent) <= RECENT_MAX
      BY <2>1 DEF Init
    <2> QED
      BY <1>1, <1>3, <2>2 DEF Init, TypeOK, Strategies
  <1>5. DirectBadIsCurrent
    BY Zenon DEF Init, DirectBadIsCurrent, tp_decisions_init, NoMark
  <1> QED
    BY <1>3, <1>4, <1>5 DEF IInv

LEMMA NextIInv == IInv /\ [Next]_vars => IInv'
  <1> SUFFICES ASSUME IInv, [Next]_vars PROVE IInv'
    OBVIOUS
  <1>t. /\ TypeOK /\ dec \in Tables /\ conns \in [Conns -> ConnStates]
        /\ \A c \in Conns : ConnOK(conns[c])
    BY DEF IInv, TypeOK
  <1>n. now \in Nat
    <2>1. MaxNow \in Nat
      BY DaemonAssumption
    <2> QED
      BY <2>1, <1>t DEF TypeOK
  <1>j. ASSUME NEW c \in Conns, NEW kind \in {"DIRECT", "CONFIRM"}, conns[c].pc # "idle"
        PROVE  make_job(conns[c], kind) \in Jobs
    BY Zenon, <1>j, <1>t DEF ConnOK, ConnStates, make_job, Jobs
  <1>1. ASSUME NEW c \in Conns, NEW h \in Hosts, NEW f \in Families,
               tpd_handle_connection(c, h, f)
        PROVE  IInv'
    <2>1. PICK o \in [pc : {"pass", "commit", "fail"}, step : Steps, src : Sources] :
              conns' = [conns EXCEPT ![c] = [pc |-> o.pc, host |-> h, family |-> f,
                                             fp |-> fp, step |-> o.step, src |-> o.src]]
      <3>1. [pc |-> "pass", step |-> direct, src |-> "NONE"]
              \in [pc : {"pass", "commit", "fail"}, step : Steps, src : Sources]
        BY DEF direct, step_of, Steps, Targets, StreamStrategies, Sources
      <3>2. \A p : Outcomes(p) \subseteq [pc : {"pass", "commit", "fail"}, step : Steps,
                                         src : Sources]
        BY DEF Outcomes
      <3> QED
        BY Zenon, <1>1, <3>1, <3>2 DEF tpd_handle_connection
    <2> DEFINE k == [pc |-> o.pc, host |-> h, family |-> f, fp |-> fp,
                     step |-> o.step, src |-> o.src]
    <2>2. ConnOK(k)
      BY Zenon, <1>t DEF ConnOK, ConnStates, TypeOK
    <2> HIDE DEF k
    <2>3. conns' \in [Conns -> ConnStates] /\ \A x \in Conns : ConnOK(conns'[x])
      BY Zenon, <1>t, <2>1, <2>2, OneConn DEF k
    <2> QED
      BY Zenon, <1>1, <2>3 DEF tpd_handle_connection, IInv, TypeOK, DirectBadIsCurrent
  <1>2. ASSUME NEW c \in Conns, passthrough(c)
        PROVE  IInv'
    <2>1. conns' \in [Conns -> ConnStates] /\ \A x \in Conns : ConnOK(conns'[x])
      BY Zenon, <1>2, <1>t, IdleOK, OneConn DEF passthrough
    <2> QED
      BY Zenon, <1>2, <2>1 DEF passthrough, IInv, TypeOK, DirectBadIsCurrent
  <1>3. ASSUME NEW c \in Conns, commit(c)
        PROVE  IInv'
    <2> DEFINE k == conns[c]
               pc == IF is_direct(k.step) \/ k.src \in {"MANUAL", "CACHED"}
                       THEN "relay" ELSE "submit"
               k2 == [k EXCEPT !.pc = pc]
    <2>1. k \in ConnStates /\ k.host \in Hosts /\ k.family \in Families
      BY <1>3, <1>t DEF commit, ConnOK
    <2>2. dec' \in Tables /\ dec'.direct_bad = dec.direct_bad
      <3>1. k.fp \in Fingerprints /\ k.step \in Steps
        BY Zenon, <2>1 DEF ConnStates
      <3> QED
        BY <1>3, <1>t, <1>n, <2>1, <3>1, Success DEF commit
    <2>3. ConnOK(k2)
      <3>1. pc \in {"relay", "submit"} /\ (pc = "submit" => k.src # "MANUAL")
        OBVIOUS
      <3> HIDE DEF pc
      <3> QED
        BY Zenon, <2>1, <3>1 DEF ConnOK, ConnStates
    <2>4. conns' = [conns EXCEPT ![c] = k2]
      BY <1>3, <1>t DEF commit
    <2> HIDE DEF k2
    <2>5. conns' \in [Conns -> ConnStates] /\ \A x \in Conns : ConnOK(conns'[x])
      BY Zenon, <1>t, <2>3, <2>4, OneConn
    <2>6. preferred' \in Strategies
      BY Zenon, <1>3, <1>t, <2>1 DEF commit, TypeOK, ConnStates, Steps, StreamStrategies, Strategies
    <2> QED
      BY Zenon, <1>3, <2>2, <2>5, <2>6 DEF commit, IInv, TypeOK, DirectBadIsCurrent
  <1>4. ASSUME NEW c \in Conns, run_plan_fails(c)
        PROVE  IInv'
    <2>1. conns' \in [Conns -> ConnStates] /\ \A x \in Conns : ConnOK(conns'[x])
      BY Zenon, <1>4, <1>t, IdleOK, OneConn DEF run_plan_fails
    <2>2. conns[c].host \in Hosts
      BY <1>4, <1>t DEF run_plan_fails, ConnOK
    <2>3. dec' \in Tables /\ dec'.direct_bad = dec.direct_bad
      BY <1>4, <1>t, <1>n, <2>2, Failure DEF run_plan_fails
    <2> QED
      BY Zenon, <1>4, <2>1, <2>3 DEF run_plan_fails, IInv, TypeOK, DirectBadIsCurrent
  <1>5. ASSUME NEW c \in Conns, submit(c)
        PROVE  IInv'
    <2> DEFINE k2 == [conns[c] EXCEPT !.pc = "relay"]
    <2>1. ConnOK(k2)
      BY Zenon, <1>5, <1>t DEF submit, ConnOK, ConnStates
    <2>2. conns' = [conns EXCEPT ![c] = k2]
      BY <1>5, <1>t DEF submit
    <2> HIDE DEF k2
    <2>3. conns' \in [Conns -> ConnStates] /\ \A x \in Conns : ConnOK(conns'[x])
      BY Zenon, <1>t, <2>1, <2>2, OneConn
    <2>4. /\ queue' \in Seq(Jobs) /\ Len(queue') <= QUEUE_MAX
          /\ recent' \in Seq([key : JobKeys, at : Nat]) /\ Len(recent') <= RECENT_MAX
      BY Zenon, <1>5, <1>t, <1>j, Submit DEF submit
    <2> QED
      BY Zenon, <1>5, <2>3, <2>4 DEF submit, IInv, TypeOK, DirectBadIsCurrent
  <1>6. ASSUME NEW c \in Conns, NEW suspicious \in BOOLEAN, relay_end(c, suspicious)
        PROVE  IInv'
    <2>1. conns' \in [Conns -> ConnStates] /\ \A x \in Conns : ConnOK(conns'[x])
      BY Zenon, <1>6, <1>t, IdleOK, OneConn DEF relay_end
    <2>2. /\ queue' \in Seq(Jobs) /\ Len(queue') <= QUEUE_MAX
          /\ recent' \in Seq([key : JobKeys, at : Nat]) /\ Len(recent') <= RECENT_MAX
      <3>1. CASE suspicious
        BY Zenon, <1>6, <1>t, <1>j, <3>1, Submit DEF relay_end
      <3>2. CASE ~suspicious
        BY <1>6, <1>t, <3>2 DEF relay_end, TypeOK
      <3> QED
        BY <3>1, <3>2
    <2> QED
      BY Zenon, <1>6, <2>1, <2>2 DEF relay_end, IInv, TypeOK, DirectBadIsCurrent
  <1>7. ASSUME NEW r \in {"SUCCESS", "REJECTED", "TIMEOUT"}, verify_job(r)
        PROVE  IInv'
    <2>1. queue \in Seq(Jobs) /\ queue # <<>> /\ Len(queue) <= QUEUE_MAX
      BY <1>7, <1>t DEF verify_job, TypeOK
    <2>2. Head(queue) \in Jobs /\ Tail(queue) \in Seq(Jobs)
      BY <2>1
    <2>3. Len(Tail(queue)) <= QUEUE_MAX
      <3>1. QUEUE_MAX \in Nat
        BY DaemonAssumption
      <3> QED
        BY <2>1, <3>1
    <2>4. [job |-> Head(queue), result |-> r] \in Verdicts
      BY <2>2 DEF Verdicts
    <2>5. verifier' \in {<<>>} \cup {<<v>> : v \in Verdicts}
      BY <1>7, <2>4 DEF verify_job
    <2> QED
      BY Zenon, <1>7, <2>2, <2>3, <2>5 DEF verify_job, IInv, TypeOK, DirectBadIsCurrent
  <1>8. CASE apply_result
    <2> DEFINE j == verifier[1].job
               r == verifier[1].result
    <2>1. j \in Jobs
      BY <1>8, <1>t, SMTT(30) DEF apply_result, TypeOK, Verdicts
    <2>2. j.host \in Hosts /\ j.fp \in Fingerprints /\ j.family \in Families /\ j.step \in Steps
      BY <2>1, SMTT(30) DEF Jobs
    <2>3. CASE /\ fp = j.fp /\ j.kind = "DIRECT" /\ r = "REJECTED"
               /\ dec' = tp_direct_bad_mark(dec, j.host, j.fp, j.family, now)
      <3> HIDE DEF j, r
      <3>1. /\ dec' \in Tables
            /\ \A i \in DOMAIN dec'.direct_bad :
                  /\ i \in DOMAIN dec.direct_bad
                  /\ dec'.direct_bad[i] = dec.direct_bad[i] \/ dec'.direct_bad[i].fp = j.fp
        BY <2>2, <2>3, <1>t, <1>n, Mark
      <3> QED
        BY Zenon, <1>8, <2>3, <3>1 DEF apply_result, IInv, TypeOK, DirectBadIsCurrent
    <2>4. CASE dec' \in tp_decision_success(dec, j.host, j.fp, j.family, now, j.step)
      <3> HIDE DEF j, r
      <3>1. dec' \in Tables /\ dec'.direct_bad = dec.direct_bad
        BY <2>2, <2>4, <1>t, <1>n, Success, SMTT(30)
      <3> QED
        BY Zenon, <1>8, <3>1 DEF apply_result, IInv, TypeOK, DirectBadIsCurrent
    <2>5. CASE dec' = dec
      BY Zenon, <1>8, <2>5 DEF apply_result, IInv, TypeOK, DirectBadIsCurrent
    <2> QED
      BY <1>8, <2>3, <2>4, <2>5 DEF apply_result
  <1>9. ASSUME NEW new \in Fingerprints, check_network(new)
        PROVE  IInv'
    <2>1. /\ dec' \in Tables
          /\ \A i \in DOMAIN dec'.direct_bad : dec'.direct_bad[i].host = ""
      BY Zenon, <1>9, <1>t, NetworkChanged DEF check_network
    <2> QED
      BY Zenon, <1>9, <2>1 DEF check_network, IInv, TypeOK, DirectBadIsCurrent, Strategies
  <1>10. ASSUME NEW h \in Hosts, NEW rule \in ManualRules, load_strategy_conf(h, rule)
         PROVE  IInv'
    BY Zenon, <1>10 DEF load_strategy_conf, IInv, TypeOK, DirectBadIsCurrent
  <1>11. CASE tick
    <2>1. now' \in 0..MaxNow
      <3>1. MaxNow \in Nat
        BY DaemonAssumption
      <3> QED
        BY <1>11, <1>t, <3>1 DEF tick, TypeOK
    <2> QED
      BY Zenon, <1>11, <2>1 DEF tick, IInv, TypeOK, DirectBadIsCurrent
  <1>12. CASE UNCHANGED vars
    BY Zenon, <1>12 DEF vars, IInv, TypeOK, DirectBadIsCurrent
  <1> QED
    BY <1>1, <1>2, <1>3, <1>4, <1>5, <1>6, <1>7, <1>8, <1>9, <1>10, <1>11, <1>12 DEF Next

THEOREM DaemonInvariant == Spec => []IInv
  BY InitIInv, NextIInv, PTL DEF Spec

\* The state g_tpd.lock and g_qlock guard keeps its type and bounds.
THEOREM DaemonTypeCorrect == Spec => []TypeOK
  <1>1. IInv => TypeOK
    BY DEF IInv
  <1> QED
    BY <1>1, DaemonInvariant, PTL

\* fill_plan() never sees a mark made on another network.
THEOREM MarksAreCurrent == Spec => []DirectBadIsCurrent
  <1>1. IInv => DirectBadIsCurrent
    BY DEF IInv
  <1> QED
    BY <1>1, DaemonInvariant, PTL

\* Every entry a step adds, with what apply_result() knew when it did.
AddsVerified ==
    \A e \in dec'.entries \ dec.entries :
        /\ verifier # <<>> /\ verifier' = <<>>
        /\ verifier[1].result = "SUCCESS"
        /\ verifier[1].job = [kind |-> "CONFIRM", host |-> e.host,
                              family |-> e.family, fp |-> fp, step |-> e.step]
        /\ e.fp = fp

LEMMA StepAddsVerified == IInv /\ [Next]_vars => AddsVerified
  <1> SUFFICES ASSUME IInv, [Next]_vars PROVE AddsVerified
    OBVIOUS
  <1>t. /\ TypeOK /\ dec \in Tables /\ conns \in [Conns -> ConnStates]
        /\ \A c \in Conns : ConnOK(conns[c])
    BY DEF IInv, TypeOK
  <1>n. now \in Nat
    <2>1. MaxNow \in Nat
      BY DaemonAssumption
    <2> QED
      BY <2>1, <1>t DEF TypeOK
  <1>0. ASSUME dec'.entries \subseteq dec.entries PROVE AddsVerified
    BY <1>0 DEF AddsVerified
  <1>1. CASE UNCHANGED dec
    BY <1>0, <1>1
  <1>2. ASSUME NEW c \in Conns, commit(c) PROVE AddsVerified
    <2> DEFINE k == conns[c]
    <2>1. k.host \in Hosts /\ k.family \in Families /\ k.fp \in Fingerprints /\ k.step \in Steps
      BY Zenon, <1>2, <1>t DEF commit, ConnOK, ConnStates
    <2>2. CASE ~(is_direct(k.step) /\ k.src # "MANUAL")
      BY <1>1, <1>2, <2>2 DEF commit
    <2>3. CASE is_direct(k.step) /\ k.src # "MANUAL"
      <3>1. dec' \in tp_decision_success(dec, k.host, k.fp, k.family, now, k.step)
        BY <1>2, <2>3 DEF commit
      <3> HIDE DEF k
      <3>2. dec'.entries \subseteq dec.entries
        BY <1>t, <1>n, <2>1, <2>3, <3>1, Success, SMTT(30)
      <3> QED
        BY <3>2, <1>0
    <2> QED
      BY <2>2, <2>3
  <1>3. ASSUME NEW c \in Conns, run_plan_fails(c) PROVE AddsVerified
    <2>1. conns[c].host \in Hosts
      BY <1>3, <1>t DEF run_plan_fails, ConnOK
    <2>2. dec'.entries \subseteq dec.entries
      BY <1>3, <1>t, <1>n, <2>1, Failure DEF run_plan_fails
    <2> QED
      BY <2>2, <1>0
  <1>4. CASE apply_result
    <2> DEFINE j == verifier[1].job
               r == verifier[1].result
    <2>1. j \in Jobs /\ verifier # <<>> /\ verifier' = <<>>
      <3>1. verifier # <<>> /\ verifier' = <<>>
        BY Zenon, <1>4 DEF apply_result
      <3>2. verifier \in {<<>>} \cup {<<v>> : v \in Verdicts}
        BY Zenon, <1>t DEF TypeOK
      <3>3. PICK v \in Verdicts : verifier = <<v>>
        BY Zenon, <3>1, <3>2
      <3>4. verifier[1] = v /\ v.job \in Jobs
        BY <3>3 DEF Verdicts
      <3> QED
        BY Zenon, <3>1, <3>4
    <2>2. j.host \in Hosts /\ j.fp \in Fingerprints /\ j.family \in Families /\ j.step \in Steps
      BY <2>1 DEF Jobs
    <2>3. CASE dec' = tp_direct_bad_mark(dec, j.host, j.fp, j.family, now)
      <3> HIDE DEF j, r
      <3>1. dec'.entries = dec.entries
        BY <2>2, <2>3, <1>t, <1>n, Mark
      <3> QED
        BY <3>1, <1>0
    <2>4. CASE /\ fp = j.fp /\ j.kind = "CONFIRM" /\ r = "SUCCESS"
               /\ dec' \in tp_decision_success(dec, j.host, j.fp, j.family, now, j.step)
      <3> SUFFICES ASSUME NEW e \in dec'.entries \ dec.entries
                   PROVE  /\ r = "SUCCESS" /\ e.fp = fp
                          /\ j = [kind |-> "CONFIRM", host |-> e.host,
                                  family |-> e.family, fp |-> fp, step |-> e.step]
        BY <2>1 DEF AddsVerified
      <3> HIDE DEF j, r
      <3>1. e = [host |-> j.host, fp |-> j.fp, family |-> j.family, step |-> j.step,
                 validated_at |-> now]
        BY <2>2, <2>4, <1>t, <1>n, Success, SMTT(30)
      <3>2. j = [kind |-> j.kind, host |-> j.host, family |-> j.family, fp |-> j.fp,
                 step |-> j.step]
        BY <2>1 DEF Jobs
      <3> QED
        BY <2>4, <3>1, <3>2
    <2>5. CASE dec' = dec
      BY <2>5, <1>1
    <2> QED
      BY <1>4, <2>3, <2>4, <2>5 DEF apply_result
  <1>5. ASSUME NEW new \in Fingerprints, check_network(new) PROVE AddsVerified
    <2>1. dec'.entries = dec.entries
      BY Zenon, <1>5, <1>t, NetworkChanged DEF check_network
    <2> QED
      BY <2>1, <1>0
  <1>6. \/ UNCHANGED dec
        \/ \E c \in Conns : commit(c) \/ run_plan_fails(c)
        \/ apply_result
        \/ \E new \in Fingerprints : check_network(new)
    BY DEF Next, vars, tpd_handle_connection, passthrough, submit, relay_end, verify_job,
           load_strategy_conf, tick
  <1> QED
    BY <1>1, <1>2, <1>3, <1>4, <1>5, <1>6

\* tp.h: "A bypass decision is only cached after an independent, ordinary
\* OpenSSL handshake over the very same step verified the certificate".
THEOREM OnlyVerifiedIsLearned == Spec => LearnedWasVerified
  <1>1. IInv /\ [Next]_vars => [AddsVerified]_vars
    BY StepAddsVerified
  <1>2. Spec => [][AddsVerified]_vars
    BY <1>1, DaemonInvariant, PTL DEF Spec
  <1> QED
    BY <1>2 DEF LearnedWasVerified, AddsVerified

\* What a step of a connection made under a manual rule leaves alone.
ManualStep ==
    \A c \in Conns :
        conns[c].src = "MANUAL" /\ conns'[c] # conns[c]
            => UNCHANGED <<dec, queue, recent>>

LEMMA StepOfManual == IInv /\ [Next]_vars => ManualStep
  <1> SUFFICES ASSUME IInv, [Next]_vars,
                      NEW c \in Conns, conns[c].src = "MANUAL", conns'[c] # conns[c]
               PROVE  UNCHANGED <<dec, queue, recent>>
    BY DEF ManualStep
  <1>t. conns \in [Conns -> ConnStates] /\ ConnOK(conns[c])
    BY DEF IInv, TypeOK
  <1>1. ASSUME NEW x \in Conns, commit(x) PROVE UNCHANGED <<dec, queue, recent>>
    BY <1>1, <1>t DEF commit
  <1>2. ASSUME NEW x \in Conns, run_plan_fails(x) PROVE UNCHANGED <<dec, queue, recent>>
    BY <1>2, <1>t DEF run_plan_fails
  <1>3. ASSUME NEW x \in Conns, submit(x) PROVE FALSE
    BY <1>3, <1>t DEF submit, ConnOK
  <1>4. ASSUME NEW x \in Conns, NEW s \in BOOLEAN, relay_end(x, s)
        PROVE  UNCHANGED <<dec, queue, recent>>
    BY <1>4, <1>t, SMTT(30) DEF relay_end
  <1>5. \/ UNCHANGED <<dec, queue, recent>> \/ UNCHANGED conns
        \/ \E x \in Conns : commit(x) \/ run_plan_fails(x) \/ submit(x)
        \/ \E x \in Conns, s \in BOOLEAN : relay_end(x, s)
    BY Zenon DEF Next, vars, tpd_handle_connection, passthrough, verify_job, apply_result,
           check_network, load_strategy_conf, tick
  <1> QED
    BY <1>1, <1>2, <1>3, <1>4, <1>5

\* strategy.conf overrides and is never overridden by what it led to.
THEOREM ManualTeachesNothing == Spec => ManualLearnsNothing
  <1>1. IInv /\ [Next]_vars => [ManualStep]_vars
    BY StepOfManual
  <1>2. Spec => [][ManualStep]_vars
    BY <1>1, DaemonInvariant, PTL DEF Spec
  <1> QED
    BY <1>2 DEF ManualLearnsNothing, ManualStep

-----------------------------------------------------------------------------
LEMMA ElementOfSeq ==
    ASSUME NEW S, NEW s \in Seq(S), NEW k \in 1..Len(s) PROVE s[k] \in S
  OBVIOUS

\* The end of the ring is the queue, and stays so when a job is accepted: the
\* ring is at least as long as the queue may get.
LEMMA SubmitDedup ==
    ASSUME TypeOK, DedupWindow, NEW job \in Jobs, tpd_verify_submit(job)
    PROVE  DedupWindow'
  <1> DEFINE L == Len(recent)
             Q == Len(queue)
             new == [key |-> job_key(job), at |-> now]
             r == Append(recent, new)
  <1>1. /\ QUEUE_MAX \in Nat /\ RECENT_MAX \in Nat /\ QUEUE_MAX <= RECENT_MAX
        /\ RECENT_WINDOW_S \in Nat
    BY DaemonAssumption
  <1>2. /\ L \in Nat /\ Q \in Nat /\ Q <= L /\ L <= RECENT_MAX
        /\ DOMAIN queue = 1..Q /\ DOMAIN recent = 1..L
    BY DEF TypeOK, DedupWindow
  <1>3. /\ recent \in Seq([key : JobKeys, at : Nat]) /\ now \in Nat
        /\ new \in [key : JobKeys, at : Nat]
    <2>1. now \in Nat
      <3>1. MaxNow \in Nat
        BY DaemonAssumption
      <3> QED
        BY <3>1 DEF TypeOK
    <2> QED
      BY <2>1 DEF TypeOK, job_key, Jobs, JobKeys
  <1>4. /\ \A i \in 1..Q : recent[L - Q + i].key = job_key(queue[i])
        /\ \A i, j \in 1..Q : i < j /\ job_key(queue[i]) = job_key(queue[j])
              => recent[L - Q + j].at - recent[L - Q + i].at >= RECENT_WINDOW_S
    BY Zenon, <1>2 DEF DedupWindow, accepted
  <1>5. CASE UNCHANGED <<queue, recent>>
    BY <1>5 DEF DedupWindow, accepted
  <1>6. CASE /\ ~seen_recently(job) /\ ~(Q >= QUEUE_MAX) /\ queue' = Append(queue, job)
             /\ recent' = IF Len(r) > RECENT_MAX THEN Tail(r) ELSE r
    <2> DEFINE M == Len(recent')
    <2>1. /\ DOMAIN queue' = 1..(Q + 1) /\ Len(queue') = Q + 1
          /\ queue'[Q + 1] = job /\ \A i \in 1..Q : queue'[i] = queue[i]
      BY <1>2, <1>6 DEF TypeOK
    <2>2. /\ r \in Seq([key : JobKeys, at : Nat])
          /\ Len(r) = L + 1 /\ r[L + 1] = new /\ \A i \in 1..L : r[i] = recent[i]
      <3> HIDE DEF new
      <3> QED
        BY <1>3
    <2> HIDE DEF r
    <2>3. M >= Q + 1 /\ M \in Nat
      <3>1. CASE Len(r) > RECENT_MAX
        BY <1>1, <1>2, <1>6, <2>2, <3>1, SMTT(30)
      <3>2. CASE ~(Len(r) > RECENT_MAX)
        BY <1>1, <1>2, <1>6, <2>2, <3>2, SMTT(30)
      <3> QED
        BY <3>1, <3>2
    <2>4. ASSUME NEW i \in 1..(Q + 1) PROVE recent'[M - (Q + 1) + i] = r[L - Q + i]
      <3>1. CASE Len(r) > RECENT_MAX
        <4>1. Len(Tail(r)) = L /\ \A k \in 1..L : Tail(r)[k] = r[k + 1]
          BY <1>2, <2>2
        <4>2. L - (Q + 1) + i \in 1..L /\ (L - (Q + 1) + i) + 1 = L - Q + i
          BY <1>1, <1>2, <1>6, <2>2, <3>1
        <4> QED
          BY <1>6, <3>1, <4>1, <4>2
      <3>2. CASE ~(Len(r) > RECENT_MAX)
        <4>1. (L + 1) - (Q + 1) + i = L - Q + i
          BY <1>2
        <4> QED
          BY <1>6, <2>2, <3>2, <4>1
      <3> QED
        BY <3>1, <3>2
    <2>5. \A i \in 1..Q : /\ recent'[M - (Q + 1) + i] = recent[L - Q + i]
                          /\ L - Q + i \in DOMAIN recent
      <3>1. \A i \in 1..Q : L - Q + i \in 1..L /\ i \in 1..(Q + 1)
        BY <1>2
      <3> HIDE DEF L, Q, M
      <3> QED
        BY <1>2, <2>2, <2>4, <3>1
    <2>6. recent'[M - (Q + 1) + (Q + 1)] = new
      <3>1. L - Q + (Q + 1) = L + 1 /\ Q + 1 \in 1..(Q + 1)
        BY <1>2
      <3> HIDE DEF L, Q, M, new
      <3> QED
        BY <2>2, <2>4, <3>1
    <2>7. \A i \in 1..(Q + 1) : i \in 1..Q \/ i = Q + 1
      BY <1>2
    <2>8. \A i \in 1..(Q + 1) : recent'[M - (Q + 1) + i].key = job_key(queue'[i])
      <3>1. new.key = job_key(job)
        OBVIOUS
      <3> HIDE DEF L, Q, M, new
      <3> QED
        BY <1>4, <2>1, <2>5, <2>6, <2>7, <3>1
    <2>9. ASSUME NEW i \in 1..(Q + 1), NEW j \in 1..(Q + 1), i < j,
                 job_key(queue'[i]) = job_key(queue'[j])
          PROVE  recent'[M - (Q + 1) + j].at - recent'[M - (Q + 1) + i].at >= RECENT_WINDOW_S
      <3>1. i \in 1..Q
        BY <1>2, <2>9
      <3>2. CASE j \in 1..Q
        <4> HIDE DEF L, Q, M
        <4> QED
          BY <1>4, <2>1, <2>5, <2>9, <3>1, <3>2
      <3>3. CASE j = Q + 1
        <4> DEFINE e == recent[L - Q + i]
        <4>1. e.key = job_key(job)
          BY <1>4, <2>1, <2>9, <3>1, <3>3
        <4>2. ~(now - e.at < RECENT_WINDOW_S)
          BY <1>6, <2>5, <3>1, <4>1 DEF seen_recently
        <4>3. e.at \in Nat
          <5>1. \A k \in 1..Len(recent) : recent[k] \in [key : JobKeys, at : Nat]
            BY <1>3, ElementOfSeq, Zenon
          <5>2. e \in [key : JobKeys, at : Nat]
            BY <1>2, <2>5, <3>1, <5>1, Zenon
          <5> QED
            BY <5>2
        <4>4. recent'[M - (Q + 1) + j].at = now /\ recent'[M - (Q + 1) + i].at = e.at
          BY <2>5, <2>6, <3>1, <3>3
        <4> HIDE DEF e
        <4>5. now - e.at >= RECENT_WINDOW_S
          BY <1>1, <1>3, <4>2, <4>3
        <4> QED
          BY <4>4, <4>5
      <3> QED
        BY <3>2, <3>3, <2>7
    <2> QED
      BY Zenon, <2>1, <2>3, <2>8, <2>9 DEF DedupWindow, accepted
  <1> QED
    BY <1>5, <1>6 DEF tpd_verify_submit

\* The verifier takes the oldest job: the queue is still the end of the ring.
LEMMA VerifyDedup ==
    ASSUME TypeOK, DedupWindow, NEW r, verify_job(r)
    PROVE  DedupWindow'
  <1> DEFINE L == Len(recent)
             Q == Len(queue)
  <1>1. /\ L \in Nat /\ Q \in Nat /\ Q <= L /\ Q > 0
        /\ DOMAIN queue = 1..Q
    BY DEF TypeOK, DedupWindow, verify_job
  <1>2. /\ \A i \in 1..Q : recent[L - Q + i].key = job_key(queue[i])
        /\ \A i, j \in 1..Q : i < j /\ job_key(queue[i]) = job_key(queue[j])
              => recent[L - Q + j].at - recent[L - Q + i].at >= RECENT_WINDOW_S
    BY Zenon, <1>1 DEF DedupWindow, accepted
  <1>3. /\ DOMAIN queue' = 1..(Q - 1) /\ Len(queue') = Q - 1
        /\ \A i \in 1..(Q - 1) : queue'[i] = queue[i + 1]
        /\ recent' = recent
    BY <1>1 DEF TypeOK, verify_job
  <1>4. \A i \in 1..(Q - 1) : L - (Q - 1) + i = L - Q + (i + 1) /\ i + 1 \in 1..Q
    BY <1>1
  <1>5. \A i, j \in 1..(Q - 1) : i < j => i + 1 < j + 1
    BY <1>1
  <1>6. Q - 1 <= L
    BY <1>1
  <1> HIDE DEF L, Q
  <1>7. /\ \A i \in 1..(Q - 1) : recent[L - (Q - 1) + i].key = job_key(queue'[i])
        /\ \A i, j \in 1..(Q - 1) : i < j /\ job_key(queue'[i]) = job_key(queue'[j])
              => recent[L - (Q - 1) + j].at - recent[L - (Q - 1) + i].at >= RECENT_WINDOW_S
    BY <1>2, <1>3, <1>4, <1>5, SMTT(30)
  <1> QED
    BY Zenon, <1>3, <1>6, <1>7 DEF DedupWindow, accepted, L, Q

LEMMA NextDedup == IInv /\ DedupWindow /\ [Next]_vars => DedupWindow'
  <1> SUFFICES ASSUME IInv, DedupWindow, [Next]_vars PROVE DedupWindow'
    OBVIOUS
  <1>t. TypeOK /\ \A c \in Conns : ConnOK(conns[c])
    BY DEF IInv
  <1>j. ASSUME NEW c \in Conns, NEW kind \in {"DIRECT", "CONFIRM"}, conns[c].pc # "idle"
        PROVE  make_job(conns[c], kind) \in Jobs
    BY Zenon, <1>j, <1>t DEF ConnOK, ConnStates, make_job, Jobs
  <1>1. CASE UNCHANGED <<queue, recent>>
    BY <1>1 DEF DedupWindow, accepted
  <1>2. ASSUME NEW c \in Conns, submit(c) PROVE DedupWindow'
    BY <1>2, <1>t, <1>j, SubmitDedup DEF submit
  <1>3. ASSUME NEW c \in Conns, NEW s \in BOOLEAN, relay_end(c, s) PROVE DedupWindow'
    <2>1. CASE s
      BY <1>3, <1>t, <1>j, <2>1, SubmitDedup DEF relay_end
    <2>2. CASE ~s
      BY <1>1, <1>3, <2>2 DEF relay_end
    <2> QED
      BY <2>1, <2>2
  <1>4. ASSUME NEW r, verify_job(r) PROVE DedupWindow'
    BY <1>4, <1>t, VerifyDedup
  <1>5. \/ UNCHANGED <<queue, recent>>
        \/ \E c \in Conns : submit(c)
        \/ \E c \in Conns, s \in BOOLEAN : relay_end(c, s)
        \/ \E r \in {"SUCCESS", "REJECTED", "TIMEOUT"} : verify_job(r)
    BY DEF Next, vars, tpd_handle_connection, passthrough, commit, run_plan_fails,
           apply_result, check_network, load_strategy_conf, tick
  <1> QED
    BY <1>1, <1>2, <1>3, <1>4, <1>5

\* verify.c: a ring at least as long as the queue is enough for the dedup
\* window to hold for everything still queued.
THEOREM QueueKeepsWindow == Spec => []DedupWindow
  <1>1. Init => DedupWindow
    BY DEF Init, DedupWindow
  <1> QED
    BY <1>1, NextDedup, DaemonInvariant, PTL DEF Spec

=============================================================================
