------------------------------ MODULE PlanRun -------------------------------
(***************************************************************************)
(* One redirected connection, from its ClientHello to its outcome          *)
(* (conn.c: tpd_handle_connection, run_plan): it is passed through, or it  *)
(* walks the plan of TpPlan, one upstream attempt at a time, until one is  *)
(* answered (the attempt is committed) or nothing is left (it gave up).    *)
(*                                                                         *)
(* The network is the environment: an attempt may end in any result, the   *)
(* trusted resolver may answer anything.  The inputs of the plan are every *)
(* combination fill_plan can produce.                                      *)
(***************************************************************************)
EXTENDS TpPlan

VARIABLES
    plan,       \* c->plan
    phase,      \* where the handler is: start, walk, or how it ended
    asked       \* how often resolve_trusted was called

vars == <<plan, phase, asked>>

Phases == {"start", "walk", "passthrough", "committed", "gave_up"}

\* What fill_plan can leave in c->plan.  Without a host name it stays all
\* zero, and so do manual and cached without a rule or a decision; a cached
\* decision is never DIRECT (tp_decision_success and parse_line refuse it).
fill_plan ==
    {p \in [has_host : BOOLEAN, listed : BOOLEAN, preferred : StreamStrategies,
            has_manual : BOOLEAN, manual : Strategies,
            has_cached : BOOLEAN, cached : Steps,
            in_cooldown : BOOLEAN, direct_bad : BOOLEAN, trust : {"UNKNOWN"},
            tried : {<<>>}, results : {<<>>}] :
        /\ ~p.has_host => p = tp_plan_init
        /\ ~p.has_manual => p.manual = "PASS"
        /\ p.has_cached <=> p.cached # direct}

Init ==
    /\ plan \in fill_plan
    /\ phase = "start"
    /\ asked = 0

passthrough ==
    /\ phase = "start" /\ PassesThrough(plan)
    /\ phase' = "passthrough"
    /\ UNCHANGED <<plan, asked>>

start_plan ==
    /\ phase = "start" /\ ~PassesThrough(plan)
    /\ phase' = "walk"
    /\ UNCHANGED <<plan, asked>>

resolve_trusted ==
    /\ phase = "walk" /\ tp_plan_next(plan).next = "NEED_DNS"
    /\ \E t \in Trusts \ {"UNKNOWN"} : plan' = [plan EXCEPT !.trust = t]
    /\ asked' = asked + 1
    /\ UNCHANGED phase

attempt ==
    /\ phase = "walk" /\ tp_plan_next(plan).next = "ATTEMPT"
    /\ \E r \in AttemptResults :
          /\ plan' = tp_plan_record(plan, tp_plan_next(plan).step, r)
          /\ phase' = IF r \in Answered THEN "committed" ELSE "walk"
    /\ UNCHANGED asked

\* Mutant: DONE sends the loop round again instead of ending it.
give_up_loops ==
    /\ phase = "walk" /\ tp_plan_next(plan).next = "DONE"
    /\ UNCHANGED vars

give_up ==
    /\ phase = "walk" /\ tp_plan_next(plan).next = "DONE"
    /\ phase' = "gave_up"
    /\ UNCHANGED <<plan, asked>>

Next == passthrough \/ start_plan \/ resolve_trusted \/ attempt \/ give_up

\* Every call of the handler is bounded by a timeout, so it always goes on.
Spec == Init /\ [][Next]_vars /\ WF_vars(Next)

-----------------------------------------------------------------------------
Tried == 1..Len(plan.tried)

\* The plan is walked by the ladder itself: no manual rule, no cooldown.
OnLadder == plan.has_host /\ ~plan.has_manual /\ ~plan.in_cooldown

\* Type correctness of the handler's state: every attempt has its result,
\* at most TP_MAX_ATTEMPTS of them, and only the last one may be answered.
TypeOK ==
    /\ plan \in Plans
    /\ phase \in Phases
    /\ asked \in Nat
    /\ Len(plan.results) = Len(plan.tried)
    /\ Len(plan.tried) <= TP_MAX_ATTEMPTS

\* attempt() reads c->trusted, which only resolve_trusted's mismatch branch
\* fills in: a step to the trusted address is taken only after a mismatch.
TrustedOnlyOnMismatch ==
    \A i \in Tried : plan.tried[i].target = "TRUSTED" => plan.trust = "MISMATCH"

\* No attempt is spent on a step that already failed in this connection.
NoStepTwice ==
    \A i, j \in Tried : plan.tried[i] = plan.tried[j] => i = j

\* Once the original address refused or dropped a connect, no later attempt
\* goes there ("no rewrite of the ClientHello can help there").
NoOriginalAfterConnectFail ==
    \A i, j \in Tried :
        /\ i < j
        /\ plan.tried[i].target = "ORIGINAL"
        /\ plan.results[i] = "CONNECT_FAIL"
        => plan.tried[j].target = "TRUSTED"

\* The decision "trusted address, untouched ClientHello", which normalize
\* turns into DIRECT whenever the resolver does not report a mismatch.
CachedTrustedPass ==
    plan.has_cached /\ plan.cached = step_of("TRUSTED", "PASS")

\* A known-blocked host's DIRECT is tried only after both bypasses of its
\* own address were ("no DIRECT probe that would only time out first").
ListedBypassBeforeDirect ==
    OnLadder /\ plan.listed =>
        \A j \in Tried : is_direct(plan.tried[j]) =>
            \A s \in {"TLSREC", "TLSREC_SPLIT"} :
                \E i \in 1..(j - 1) : plan.tried[i] = step_of("ORIGINAL", s)

\* The same, for every host but one with a cached trusted-address decision.
ListedBypassBeforeDirectUnlessCached ==
    ~CachedTrustedPass => ListedBypassBeforeDirect

\* A host whose DIRECT was verified bad never gets a DIRECT attempt from the
\* ladder, whatever else fails ("next connections skip DIRECT to it").
DirectBadSkipsDirect ==
    OnLadder /\ plan.direct_bad => ~was_tried(plan, direct)

\* The same, for every host but one with a cached trusted-address decision;
\* that one can get DIRECT only as its first attempt, without a mismatch.
DirectBadSkipsDirectUnlessCached ==
    OnLadder /\ plan.direct_bad =>
        \A i \in Tried : is_direct(plan.tried[i]) =>
            i = 1 /\ CachedTrustedPass /\ plan.trust \in {"NONE", "MATCH"}

\* The trusted resolver is asked at most once, and only for a manual rule, a
\* cached trusted step, or once DIRECT is out ("now, and only now").
ResolverOnlyWhenNeeded ==
    /\ asked <= 1
    /\ asked = 1 <=> plan.trust # "UNKNOWN"
    /\ asked = 1 =>
          \/ plan.has_manual
          \/ plan.has_cached /\ plan.cached.target = "TRUSTED"
          \/ plan.direct_bad
          \/ original_unreachable(plan)
          \/ was_tried(plan, direct)

\* A ladder that gave up below its budget has nothing left to try: the
\* resolver was asked, and either all three trusted steps failed, or the
\* original address is unreachable or failed both bypasses.
GivesUpOnlyWhenExhausted ==
    phase = "gave_up" /\ OnLadder /\ Len(plan.tried) < TP_MAX_ATTEMPTS =>
        \/ /\ plan.trust = "MISMATCH"
           /\ \A s \in StreamStrategies : was_tried(plan, step_of("TRUSTED", s))
        \/ /\ plan.trust \in {"NONE", "MATCH"}
           /\ \/ original_unreachable(plan)
              \/ \A s \in {"TLSREC", "TLSREC_SPLIT"} :
                    was_tried(plan, step_of("ORIGINAL", s))

\* A manual rule is obeyed outside a cooldown: one attempt, with the rule's
\* treatment of the ClientHello, and never a ladder after it.
ManualRuleObeyed ==
    plan.has_manual /\ ~plan.in_cooldown =>
        /\ Len(plan.tried) <= 1
        /\ \A i \in Tried : plan.tried[i].strategy = stream_strategy(plan.manual)

\* commit() does not send a CACHED step to the verifier: the source is CACHED
\* only when the answered step is the cached decision itself.
CachedSourceIsCachedStep ==
    phase = "committed" /\ tp_plan_source(plan) = "CACHED" =>
        plan.tried[Len(plan.tried)] = normalize(plan, plan.cached)

\* Every connection is decided: passed through, committed or given up.
EventuallyDecided ==
    <>(phase \in {"passthrough", "committed", "gave_up"})

=============================================================================
