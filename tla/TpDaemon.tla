------------------------------ MODULE TpDaemon ------------------------------
(***************************************************************************)
(* Learning in transparent mode: connection threads (conn.c), the verifier *)
(* thread and its queue (verify.c), and the main loop's network check and  *)
(* reload (transparent.c), around the state g_tpd.lock guards.             *)
(*                                                                         *)
(* A thread's steps are the stretches between its critical sections.  The  *)
(* walk of a plan touches no shared state, so a connection's attempts, up  *)
(* to the critical section that ends them, are one step (PlanRun has them  *)
(* one by one).  QUIC blocking is QuicBlock's, statistics are left out.    *)
(***************************************************************************)
EXTENDS TpDecisions

CONSTANTS
    Conns,              \* connection threads
    Listed,             \* hosts of tp_host_listed()
    ManualRules,        \* what strategy.conf may say of a host: "none", or
                        \* the first action of the rule's chain
    TrustAnswers,       \* what the trusted resolver may say of the original
                        \* address: MATCH, MISMATCH or NONE
    QUEUE_MAX, RECENT_MAX, RECENT_WINDOW_S,
    MaxNow              \* bound on the clock

ASSUME DaemonAssumption ==
    /\ Listed \subseteq Hosts /\ ManualRules \subseteq Strategies \cup {"none"}
    /\ "none" \in ManualRules /\ TrustAnswers \subseteq Trusts \ {"UNKNOWN"}
    /\ QUEUE_MAX \in Nat \ {0} /\ RECENT_MAX \in Nat /\ QUEUE_MAX <= RECENT_MAX
    /\ RECENT_WINDOW_S \in Nat /\ MaxNow \in Nat

VARIABLES
    fp,             \* g_tpd.fp
    preferred,      \* g_tpd.preferred
    cfg,            \* g_tpd.cfg: each host's manual rule
    dec,            \* g_tpd.dec
    conns,          \* the connection threads' t_conn
    queue,          \* g_queue: jobs for the verifier
    recent,         \* g_recent, newest last: jobs accepted not long ago
    verifier,       \* <<>>, or the job whose handshake has ended
    now             \* the wall clock, in ticks

vars == <<fp, preferred, cfg, dec, conns, queue, recent, verifier, now>>

Sources == {"NONE", "MANUAL", "CACHED", "LADDER", "COOLDOWN"}

\* t_conn between two critical sections; an idle thread has no connection.
ConnStates == [pc : {"idle", "pass", "commit", "fail", "submit", "relay"},
               host : Hosts \cup {""}, family : Families \cup {0},
               fp : Fingerprints, step : Steps, src : Sources]

Jobs == [kind : {"DIRECT", "CONFIRM"}, host : Hosts, family : Families,
         fp : Fingerprints, step : Steps]

JobKeys == [kind : {"DIRECT", "CONFIRM"}, host : Hosts, family : Families,
            step : Steps]

\* PROBE_SUCCESS, PROBE_REMOTE_REJECTED and PROBE_TIMEOUT.
Verdicts == [job : Jobs, result : {"SUCCESS", "REJECTED", "TIMEOUT"}]

-----------------------------------------------------------------------------
(* A connection's walk, from its filled plan to its outcome.               *)

fill_plan(h, f) ==
    LET d == tp_decision_lookup(dec, h, fp, f, now)
    IN  [tp_plan_init EXCEPT
            !.has_host = TRUE, !.listed = h \in Listed, !.preferred = preferred,
            !.has_manual = cfg[h] # "none",
            !.manual = IF cfg[h] # "none" THEN cfg[h] ELSE "PASS",
            !.has_cached = d # {},
            !.cached = IF d # {} THEN (CHOOSE e \in d : TRUE).step ELSE direct,
            !.in_cooldown = tp_in_cooldown(dec, h, now),
            !.direct_bad = tp_direct_bad(dec, h, fp, f, now)]

\* The plans one call of tp_plan_next() later.  An alert counts as OK, and a
\* reset, a close or garbage as a timeout: the plan makes no difference.
Walk(p) ==
    LET n == tp_plan_next(p)
    IN  IF n.next = "NEED_DNS"
          THEN {[p EXCEPT !.trust = t] : t \in TrustAnswers}
        ELSE IF n.next = "ATTEMPT"
          THEN {tp_plan_record(p, n.step, r) : r \in {"OK", "TIMEOUT", "CONNECT_FAIL"}}
        ELSE {p}

\* All plans run_plan() may end with (one lookup, TP_MAX_ATTEMPTS attempts).
Ends(p) ==
    LET walked[k \in 0..(TP_MAX_ATTEMPTS + 1)] ==
            IF k = 0 THEN {p} ELSE UNION {Walk(q) : q \in walked[k - 1]}
    IN  walked[TP_MAX_ATTEMPTS + 1]

Succeeded(q) == Len(q.tried) > 0 /\ q.results[Len(q.tried)] = "OK"

\* How a walk of p may end: with the step that got an answer, or without one.
\* tp_plan_source() does not look at what the walk changes but for tried.
Outcomes(p) ==
    LET ends == Ends(p)
        src(q) == tp_plan_source([p EXCEPT !.tried = q.tried])
    IN  {o \in [pc : {"commit", "fail"}, step : Steps, src : Sources] :
            \E q \in ends :
                /\ o.src = src(q)
                /\ IF Succeeded(q) THEN o.pc = "commit" /\ o.step = q.tried[Len(q.tried)]
                                   ELSE o.pc = "fail" /\ o.step = direct}

-----------------------------------------------------------------------------
(* A connection thread.                                                    *)

NoConn == [pc |-> "idle", host |-> "", family |-> 0, fp |-> NETFP_UNKNOWN,
           step |-> direct, src |-> "NONE"]

Init ==
    /\ fp \in Fingerprints /\ preferred = "PASS"
    /\ cfg \in [Hosts -> ManualRules]
    /\ dec = tp_decisions_init
    /\ conns = [c \in Conns |-> NoConn]
    /\ queue = <<>> /\ recent = <<>> /\ verifier = <<>>
    /\ now = 0

\* A redirected connection whose ClientHello names h: fill_plan() reads the
\* shared state under the lock, then the plan is walked (run_plan) or, for
\* three kinds of plan, the client is passed through.
tpd_handle_connection(c, h, f) ==
    LET p == fill_plan(h, f) IN
    /\ conns[c].pc = "idle"
    /\ \E o \in IF PassesThrough(p) THEN {[pc |-> "pass", step |-> direct, src |-> "NONE"]}
                                   ELSE Outcomes(p) :
          conns' = [conns EXCEPT ![c] = [pc |-> o.pc, host |-> h, family |-> f,
                                         fp |-> fp, step |-> o.step, src |-> o.src]]
    /\ UNCHANGED <<fp, preferred, cfg, dec, queue, recent, verifier, now>>

\* passthrough() relays and learns nothing.
passthrough(c) ==
    /\ conns[c].pc = "pass"
    /\ conns' = [conns EXCEPT ![c] = NoConn]
    /\ UNCHANGED <<fp, preferred, cfg, dec, queue, recent, verifier, now>>

\* Mutant: the step that carried a connection is stored at once.
commit_learns(c) ==
    LET k == conns[c] IN
    /\ k.pc = "commit"
    /\ dec' \in IF k.src # "MANUAL"
                  THEN tp_decision_success(dec, k.host, k.fp, k.family, now, k.step)
                  ELSE {dec}
    /\ preferred' = IF is_direct(k.step) THEN preferred ELSE k.step.strategy
    /\ conns' = [conns EXCEPT ![c].pc =
                    IF is_direct(k.step) \/ k.src \in {"MANUAL", "CACHED"}
                      THEN "relay" ELSE "submit"]
    /\ UNCHANGED <<fp, cfg, queue, recent, verifier, now>>

\* commit()'s critical section: DIRECT is a success at once, a bypass becomes
\* the preferred one and is learned only through the verifier.
commit(c) ==
    LET k == conns[c] IN
    /\ k.pc = "commit"
    /\ dec' \in IF is_direct(k.step) /\ k.src # "MANUAL"
                  THEN tp_decision_success(dec, k.host, k.fp, k.family, now, k.step)
                  ELSE {dec}
    /\ preferred' = IF is_direct(k.step) THEN preferred ELSE k.step.strategy
    /\ conns' = [conns EXCEPT ![c].pc =
                    IF is_direct(k.step) \/ k.src \in {"MANUAL", "CACHED"}
                      THEN "relay" ELSE "submit"]
    /\ UNCHANGED <<fp, cfg, queue, recent, verifier, now>>

\* Mutant: a failure counts whatever rule led to it.
run_plan_fails_manual(c) ==
    LET k == conns[c] IN
    /\ k.pc = "fail"
    /\ dec' = tp_decision_failure(dec, k.host, k.fp, k.family, now)
    /\ conns' = [conns EXCEPT ![c] = NoConn]
    /\ UNCHANGED <<fp, preferred, cfg, queue, recent, verifier, now>>

\* The end of run_plan() when nothing answered: a manual rule's failure
\* teaches nothing.
run_plan_fails(c) ==
    LET k == conns[c] IN
    /\ k.pc = "fail"
    /\ dec' = IF k.src = "MANUAL" THEN dec
              ELSE tp_decision_failure(dec, k.host, k.fp, k.family, now)
    /\ conns' = [conns EXCEPT ![c] = NoConn]
    /\ UNCHANGED <<fp, preferred, cfg, queue, recent, verifier, now>>

make_job(k, kind) ==
    [kind |-> kind, host |-> k.host, family |-> k.family, fp |-> k.fp,
     step |-> k.step]

\* What t_recent keeps of a job: not its network.
job_key(j) ==
    [kind |-> j.kind, host |-> j.host, family |-> j.family, step |-> j.step]

seen_recently(job) ==
    \E i \in DOMAIN recent :
        now - recent[i].at < RECENT_WINDOW_S /\ recent[i].key = job_key(job)

\* Mutant: the ring forgets to advance once it is full.
tpd_verify_submit_stuck_ring(job) ==
    IF seen_recently(job) \/ Len(queue) >= QUEUE_MAX
      THEN UNCHANGED <<queue, recent>>
      ELSE /\ queue' = Append(queue, job)
           /\ recent' = IF Len(recent) = RECENT_MAX THEN recent
                        ELSE Append(recent, [key |-> job_key(job), at |-> now])

\* Drops the job if it ran recently or the queue is full; never blocks.
tpd_verify_submit(job) ==
    IF seen_recently(job) \/ Len(queue) >= QUEUE_MAX
      THEN UNCHANGED <<queue, recent>>
      ELSE /\ queue' = Append(queue, job)
           /\ recent' = LET r == Append(recent, [key |-> job_key(job), at |-> now])
                        IN  IF Len(r) > RECENT_MAX THEN Tail(r) ELSE r

\* commit(), after the lock: a new bypass is sent to the verifier.
submit(c) ==
    /\ conns[c].pc = "submit"
    /\ tpd_verify_submit(make_job(conns[c], "CONFIRM"))
    /\ conns' = [conns EXCEPT ![c].pc = "relay"]
    /\ UNCHANGED <<fp, preferred, cfg, dec, verifier, now>>

\* commit(), after the relay: a plain connection the client gave up early on
\* makes the verifier look at the original address.
relay_end(c, suspicious) ==
    LET k == conns[c] IN
    /\ k.pc = "relay"
    /\ suspicious => is_direct(k.step) /\ k.src # "MANUAL"
    /\ IF suspicious THEN tpd_verify_submit(make_job(k, "DIRECT"))
                     ELSE UNCHANGED <<queue, recent>>
    /\ conns' = [conns EXCEPT ![c] = NoConn]
    /\ UNCHANGED <<fp, preferred, cfg, dec, verifier, now>>

-----------------------------------------------------------------------------
(* The verifier thread.                                                    *)

\* Mutant: the newest job goes first.
verify_job_newest(r) ==
    /\ verifier = <<>> /\ queue # <<>>
    /\ verifier' = <<[job |-> queue[Len(queue)], result |-> r]>>
    /\ queue' = SubSeq(queue, 1, Len(queue) - 1)
    /\ UNCHANGED <<fp, preferred, cfg, dec, conns, recent, now>>

\* Takes the oldest job and makes its handshake, with any outcome.
verify_job(r) ==
    /\ verifier = <<>> /\ queue # <<>>
    /\ verifier' = <<[job |-> Head(queue), result |-> r]>>
    /\ queue' = Tail(queue)
    /\ UNCHANGED <<fp, preferred, cfg, dec, conns, recent, now>>

\* Mutant: the verdict is applied whatever network the daemon is on.
apply_result_anywhere ==
    /\ verifier # <<>>
    /\ LET j == verifier[1].job
           r == verifier[1].result
       IN  dec' \in
            IF j.kind = "DIRECT" /\ r = "REJECTED"
              THEN {tp_direct_bad_mark(dec, j.host, j.fp, j.family, now)}
            ELSE IF j.kind = "CONFIRM" /\ r = "SUCCESS"
              THEN tp_decision_success(dec, j.host, j.fp, j.family, now, j.step)
            ELSE {dec}
    /\ verifier' = <<>>
    /\ UNCHANGED <<fp, preferred, cfg, conns, queue, recent, now>>

\* The critical section that applies the outcome.
apply_result ==
    /\ verifier # <<>>
    /\ LET j == verifier[1].job
           r == verifier[1].result
           current == fp = j.fp
       IN  dec' \in
            IF current /\ j.kind = "DIRECT" /\ r = "REJECTED"
              THEN {tp_direct_bad_mark(dec, j.host, j.fp, j.family, now)}
            ELSE IF current /\ j.kind = "CONFIRM" /\ r = "SUCCESS"
              THEN tp_decision_success(dec, j.host, j.fp, j.family, now, j.step)
            ELSE {dec}
    /\ verifier' = <<>>
    /\ UNCHANGED <<fp, preferred, cfg, conns, queue, recent, now>>

-----------------------------------------------------------------------------
(* The main thread.                                                        *)

check_network(new) ==
    /\ new # fp
    /\ fp' = new /\ preferred' = "PASS"
    /\ dec' = tp_decisions_network_changed(dec)
    /\ UNCHANGED <<cfg, conns, queue, recent, verifier, now>>

\* SIGHUP after strategy.conf was edited.
load_strategy_conf(h, rule) ==
    /\ cfg[h] # rule /\ cfg' = [cfg EXCEPT ![h] = rule]
    /\ UNCHANGED <<fp, preferred, dec, conns, queue, recent, verifier, now>>

tick ==
    /\ now < MaxNow /\ now' = now + 1
    /\ UNCHANGED <<fp, preferred, cfg, dec, conns, queue, recent, verifier>>

Next ==
    \/ \E c \in Conns, h \in Hosts, f \in Families : tpd_handle_connection(c, h, f)
    \/ \E c \in Conns : passthrough(c) \/ commit(c) \/ run_plan_fails(c) \/ submit(c)
    \/ \E c \in Conns, suspicious \in BOOLEAN : relay_end(c, suspicious)
    \/ \E r \in {"SUCCESS", "REJECTED", "TIMEOUT"} : verify_job(r)
    \/ apply_result
    \/ \E new \in Fingerprints : check_network(new)
    \/ \E h \in Hosts, rule \in ManualRules : load_strategy_conf(h, rule)
    \/ tick

\* The verifier thread is scheduled, and every handshake has a deadline.
Fairness ==
    /\ WF_vars(\E r \in {"SUCCESS", "REJECTED", "TIMEOUT"} : verify_job(r))
    /\ WF_vars(apply_result)

Spec == Init /\ [][Next]_vars /\ Fairness

-----------------------------------------------------------------------------
\* Every variable keeps its type, the learned table and the queue their bounds.
TypeOK ==
    /\ fp \in Fingerprints /\ preferred \in Strategies
    /\ cfg \in [Hosts -> ManualRules] /\ dec \in Tables
    /\ conns \in [Conns -> ConnStates]
    /\ queue \in Seq(Jobs) /\ Len(queue) <= QUEUE_MAX
    /\ recent \in Seq([key : JobKeys, at : Nat]) /\ Len(recent) <= RECENT_MAX
    /\ verifier \in {<<>>} \cup {<<v>> : v \in Verdicts}
    /\ now \in 0..MaxNow

\* The direct_bad marks are all about the network the daemon is on, although
\* the verifier's handshake may outlast a network change: apply_result()
\* compares fingerprints under the lock and check_network() clears the table.
DirectBadIsCurrent ==
    \A i \in DOMAIN dec.direct_bad :
        dec.direct_bad[i].host # "" => dec.direct_bad[i].fp = fp

\* A bypass enters the table, or is renewed, only by a verdict whose handshake
\* succeeded over that very step for that host and family, and only while the
\* daemon is on the network the connection was made on: no connection thread
\* learns a bypass by itself.
LearnedWasVerified ==
    [][\A e \in dec'.entries \ dec.entries :
          /\ verifier # <<>> /\ verifier' = <<>>
          /\ verifier[1].result = "SUCCESS"
          /\ verifier[1].job = [kind |-> "CONFIRM", host |-> e.host,
                                family |-> e.family, fp |-> fp, step |-> e.step]
          /\ e.fp = fp]_vars

\* A connection made under a manual rule adds nothing to the decisions, cooldowns
\* and marks and submits no job, whether it works, fails or is cut short, and
\* whatever was reloaded meanwhile.  (commit() does make its step the preferred one.)
ManualLearnsNothing ==
    [][\A c \in Conns :
          conns[c].src = "MANUAL" /\ conns'[c] # conns[c]
            => UNCHANGED <<dec, queue, recent>>]_vars

\* When the i-th queued job was accepted: the queue is the end of the ring.
accepted(i) == recent[Len(recent) - Len(queue) + i]

\* The ring remembers every job still queued, and the same job is queued twice
\* only if a whole dedup window lies between: "a busy browser can't turn this
\* into a burst of handshakes".
DedupWindow ==
    /\ Len(queue) <= Len(recent)
    /\ \A i \in DOMAIN queue : accepted(i).key = job_key(queue[i])
    /\ \A i, j \in DOMAIN queue :
          i < j /\ job_key(queue[i]) = job_key(queue[j])
            => accepted(j).at - accepted(i).at >= RECENT_WINDOW_S

\* Every queued job is judged, however many jobs follow it.
JobsAreJudged ==
    \A j \in Jobs :
        (\E i \in DOMAIN queue : queue[i] = j)
            ~> (verifier # <<>> /\ verifier[1].job = j)

-----------------------------------------------------------------------------
(* What comments and docs say, and the code does not keep.                 *)

\* tpd.h of preferred: "last bypass step strategy that carried a connection on
\* this network (reset on network change)".  commit() writes it without
\* comparing the connection's network with the current one.
PreferredIsOfThisNetwork ==
    [][preferred' # preferred /\ fp' = fp =>
          \E c \in Conns : conns[c].pc = "commit" /\ conns'[c] # conns[c]
                           /\ conns[c].fp = fp]_vars

\* tp.h: "manual strategy.conf rule  >  cached decision  >  ladder".  A failure
\* over the other address family puts the host, not the address, in cooldown,
\* and the connection is passed through past its cached decision.
CachedDecisionUsed ==
    [][\A c \in Conns :
          conns[c].pc = "idle" /\ conns'[c].pc = "pass" =>
            LET k == conns'[c] IN
            \/ cfg[k.host] = "PASS"
            \/ tp_decision_lookup(dec, k.host, fp, k.family, now) = {}]_vars

=============================================================================
