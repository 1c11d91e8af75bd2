---------------------------- MODULE PolicyProofs ----------------------------
(***************************************************************************)
(* The two halves of policy.c.                                             *)
(*                                                                         *)
(* The plan (PlanRun): what the plan of one connection guarantees for      *)
(* every attempt budget TP_MAX_ATTEMPTS and every sequence of attempt      *)
(* results and resolver answers.                                           *)
(*                                                                         *)
(* The decisions (DecisionStore): what the learned table and its file keep *)
(* for any hosts, networks, table sizes and times to live, with writes     *)
(* that fail and a crash at any point.                                     *)
(***************************************************************************)
EXTENDS PlanRun, DecisionStore, WellFoundedInduction, NaturalsInduction,
        FiniteSetTheorems, TLAPS

\* The plan's attempts so far are well formed (the part of TypeOK that
\* tp_plan_next and tp_plan_record rely on).
WellFormed(p) ==
    /\ p \in Plans
    /\ Len(p.results) = Len(p.tried)
    /\ Len(p.tried) <= TP_MAX_ATTEMPTS

\* The plan is walked by the ladder itself (OnLadder, for any plan).
OnLadderP(p) == p.has_host /\ ~p.has_manual /\ ~p.in_cooldown

\* The ladder's first attempt was its cached decision, if it had one.
CachedFirst(p) ==
    OnLadderP(p) /\ p.has_cached /\ Len(p.tried) > 0
    => /\ p.tried[1] = normalize(p, p.cached)
       /\ p.cached.target = "TRUSTED" => p.trust # "UNKNOWN"

-----------------------------------------------------------------------------
\* normalize() yields a step, and a trusted one only on a mismatch.
LEMMA NormalizeFacts ==
    ASSUME NEW p \in Plans,
           NEW s \in [target : Targets, strategy : Strategies]
    PROVE  /\ normalize(p, s) \in Steps
           /\ normalize(p, s).target = "TRUSTED" => p.trust = "MISMATCH"
           /\ normalize(p, s).strategy = stream_strategy(s.strategy)
           /\ is_direct(normalize(p, s)) =>
                 s.strategy = "PASS" /\ (s.target = "TRUSTED" => p.trust # "MISMATCH")
BY DEF normalize, is_direct, direct, step_of, stream_strategy, Steps, Targets,
       StreamStrategies, Strategies, Plans

\* What next_bypass() offers: an untried bypass step to that target.
LEMMA NextBypassFacts ==
    ASSUME NEW p \in Plans, NEW target \in Targets,
           next_bypass(p, target) # <<>>
    PROVE  /\ next_bypass(p, target)[1] \in Steps
           /\ next_bypass(p, target)[1].target = target
           /\ next_bypass(p, target)[1].strategy \in {"TLSREC", "TLSREC_SPLIT"}
           /\ ~was_tried(p, next_bypass(p, target)[1])
BY DEF next_bypass, step_of, first_bypass, second_bypass, Steps, Targets,
       StreamStrategies

\* What a step that tp_plan_next() offers is like: it is new, a trusted one
\* needs a mismatch, an original one a reachable address.
GoodOffer(p, s) ==
    /\ s \in Steps
    /\ ~was_tried(p, s)
    /\ s.target = "TRUSTED" => p.trust = "MISMATCH"
    /\ s.target = "ORIGINAL" => ~original_unreachable(p)

\* When the ladder itself may offer DIRECT.
DirectAllowed(p) ==
    /\ ~p.direct_bad
    /\ p.listed => /\ was_tried(p, step_of("ORIGINAL", "TLSREC"))
                    /\ was_tried(p, step_of("ORIGINAL", "TLSREC_SPLIT"))

\* The rungs below DIRECT only make good offers.
LEMMA AfterDirectFacts ==
    ASSUME NEW p \in Plans, after_direct(p).next = "ATTEMPT"
    PROVE  GoodOffer(p, after_direct(p).step)
<1>1. CASE p.trust = "MISMATCH" /\ ~was_tried(p, step_of("TRUSTED", "PASS"))
  BY <1>1 DEF after_direct, GoodOffer, offer, need_dns, done, step_of, Steps,
              Targets, StreamStrategies
<1>2. CASE p.trust = "MISMATCH" /\ was_tried(p, step_of("TRUSTED", "PASS"))
  <2>1. after_direct(p) = offer_bypass(p, "TRUSTED")
    BY <1>2 DEF after_direct
  <2>2. next_bypass(p, "TRUSTED") # <<>>
    BY <2>1 DEF offer_bypass, done
  <2>3. after_direct(p).step = next_bypass(p, "TRUSTED")[1]
    BY <2>1, <2>2 DEF offer_bypass, offer
  <2>. QED  BY <1>2, <2>2, <2>3, NextBypassFacts DEF GoodOffer, Targets
<1>3. CASE p.trust # "MISMATCH"
  <2>1. /\ after_direct(p) = offer_bypass(p, "ORIGINAL")
        /\ ~original_unreachable(p)
    BY <1>3 DEF after_direct, need_dns, done
  <2>2. next_bypass(p, "ORIGINAL") # <<>>
    BY <2>1 DEF offer_bypass, done
  <2>3. after_direct(p).step = next_bypass(p, "ORIGINAL")[1]
    BY <2>1, <2>2 DEF offer_bypass, offer
  <2>. QED  BY <1>3, <2>1, <2>2, <2>3, NextBypassFacts DEF GoodOffer, Targets
<1>. QED  BY <1>1, <1>2, <1>3

\* The rungs below DIRECT never offer DIRECT.
LEMMA AfterDirectNotDirect ==
    ASSUME NEW p \in Plans, after_direct(p).next = "ATTEMPT"
    PROVE  after_direct(p).step # direct
<1>1. \A target \in Targets : next_bypass(p, target) # <<>> =>
         next_bypass(p, target)[1].strategy # "PASS"
  BY NextBypassFacts
<1>2. ASSUME NEW target \in Targets, offer_bypass(p, target).next = "ATTEMPT"
      PROVE  offer_bypass(p, target).step # direct
  BY <1>1, <1>2 DEF offer_bypass, offer, done, direct, step_of
<1>. QED  BY <1>2 DEF after_direct, need_dns, done, offer, direct, step_of, Targets

\* An exhausted next_bypass() has tried both variants.
LEMMA NoBypassLeft ==
    ASSUME NEW p \in Plans, NEW target \in Targets,
           next_bypass(p, target) = <<>>
    PROVE  /\ was_tried(p, step_of(target, "TLSREC"))
           /\ was_tried(p, step_of(target, "TLSREC_SPLIT"))
BY DEF next_bypass, first_bypass, second_bypass

\* The automatic ladder only makes good offers, and DIRECT only when it may.
LEMMA LadderFacts ==
    ASSUME NEW p \in Plans, ladder(p).next = "ATTEMPT"
    PROVE  /\ GoodOffer(p, ladder(p).step)
           /\ ladder(p).step = direct => DirectAllowed(p)
<1>1. CASE /\ p.listed /\ ~original_unreachable(p)
           /\ next_bypass(p, "ORIGINAL") # <<>>
  <2>1. ladder(p).step = next_bypass(p, "ORIGINAL")[1]
    BY <1>1 DEF ladder, offer
  <2>2. ladder(p).step.strategy # "PASS"
    BY <1>1, <2>1, NextBypassFacts DEF Targets
  <2>. QED  BY <1>1, <2>1, <2>2, NextBypassFacts
            DEF GoodOffer, Targets, direct, step_of
<1>2. CASE /\ ~(/\ p.listed /\ ~original_unreachable(p)
                /\ next_bypass(p, "ORIGINAL") # <<>>)
           /\ ~p.direct_bad /\ ~original_unreachable(p) /\ ~was_tried(p, direct)
  <2>1. ladder(p).step = direct
    BY <1>2 DEF ladder, offer
  <2>2. GoodOffer(p, direct)
    BY <1>2 DEF GoodOffer, direct, step_of, Steps, Targets, StreamStrategies
  <2>3. DirectAllowed(p)
    BY <1>2, NoBypassLeft DEF DirectAllowed, Targets
  <2>. QED  BY <2>1, <2>2, <2>3
<1>3. CASE /\ ~(/\ p.listed /\ ~original_unreachable(p)
                /\ next_bypass(p, "ORIGINAL") # <<>>)
           /\ ~(~p.direct_bad /\ ~original_unreachable(p) /\ ~was_tried(p, direct))
  <2>1. ladder(p) = after_direct(p)
    BY <1>3 DEF ladder
  <2>. QED  BY <2>1, AfterDirectFacts, AfterDirectNotDirect
<1>. QED  BY <1>1, <1>2, <1>3

\* Every offer of tp_plan_next() is a good one, within the budget.  Under a
\* manual rule it is the rule's; with a cached decision the first one is that
\* decision; any other DIRECT of the ladder is one the ladder allows.
LEMMA PlanNextFacts ==
    ASSUME NEW p, WellFormed(p), CachedFirst(p),
           tp_plan_next(p).next = "ATTEMPT"
    PROVE  /\ GoodOffer(p, tp_plan_next(p).step)
           /\ Len(p.tried) < TP_MAX_ATTEMPTS
           /\ OnLadderP(p) /\ p.has_cached /\ Len(p.tried) = 0 =>
                 /\ tp_plan_next(p).step = normalize(p, p.cached)
                 /\ p.cached.target = "TRUSTED" => p.trust # "UNKNOWN"
           /\ OnLadderP(p) /\ tp_plan_next(p).step = direct =>
                 \/ Len(p.tried) = 0 /\ p.has_cached
                 \/ DirectAllowed(p)
           /\ p.has_host /\ p.has_manual /\ ~p.in_cooldown =>
                 /\ Len(p.tried) = 0
                 /\ tp_plan_next(p).step.strategy = stream_strategy(p.manual)
<1> DEFINE s == tp_plan_next(p).step
<1>1. p \in Plans /\ Len(p.tried) \in Nat /\ TP_MAX_ATTEMPTS \in Nat
  BY MaxAttemptsAssumption DEF WellFormed, Plans
<1>2. Len(p.tried) < TP_MAX_ATTEMPTS
  BY <1>1 DEF tp_plan_next, done
<1>3. ASSUME Len(p.tried) = 0
      PROVE  \A t : ~was_tried(p, t) /\ ~original_unreachable(p)
  BY <1>3 DEF was_tried, original_unreachable
<1>4. CASE ~OnLadderP(p)
  <2>1. Len(p.tried) = 0
    BY <1>2, <1>4 DEF tp_plan_next, done, need_dns, OnLadderP
  <2>2. step_of("TRUSTED", p.manual) \in [target : Targets, strategy : Strategies]
    BY <1>1 DEF step_of, Targets, Plans
  <2>3. s \in {direct, step_of("ORIGINAL", first_bypass(p)),
               normalize(p, step_of("TRUSTED", p.manual))}
    BY <1>2, <1>4, <2>1 DEF tp_plan_next, done, need_dns, offer, OnLadderP
  <2>4. s \in Steps /\ (s.target = "TRUSTED" => p.trust = "MISMATCH")
    BY <1>1, <2>2, <2>3, NormalizeFacts
       DEF direct, step_of, first_bypass, Steps, Targets, StreamStrategies
  <2>5. ASSUME p.has_host, p.has_manual, ~p.in_cooldown
        PROVE  s.strategy = stream_strategy(p.manual)
    <3>1. s \in {direct, normalize(p, step_of("TRUSTED", p.manual))}
      BY <1>2, <2>1, <2>5 DEF tp_plan_next, done, need_dns, offer
    <3>2. s = direct => stream_strategy(p.manual) = "PASS"
      BY <1>1, <1>2, <2>1, <2>2, <2>5, NormalizeFacts
         DEF tp_plan_next, done, need_dns, offer, direct, step_of
    <3>. QED  BY <1>1, <2>2, <3>1, <3>2, NormalizeFacts DEF direct, step_of
  <2>. QED  BY <1>2, <1>3, <1>4, <2>1, <2>4, <2>5 DEF GoodOffer
<1>5. CASE OnLadderP(p)
  <2>1. tp_plan_next(p) = cached_then_ladder(p) /\ ~p.has_manual
    BY <1>5 DEF tp_plan_next, done, OnLadderP
  <2>2. CASE p.has_cached /\ ~was_tried(p, normalize(p, p.cached))
    <3>1. /\ s = normalize(p, p.cached)
          /\ p.cached.target = "TRUSTED" => p.trust # "UNKNOWN"
      BY <2>1, <2>2 DEF cached_then_ladder, need_dns, offer
    <3>2. Len(p.tried) = 0
      BY <1>1, <1>5, <2>2 DEF CachedFirst, was_tried
    <3>3. p.cached \in [target : Targets, strategy : Strategies]
      BY <1>1 DEF Plans, Steps, StreamStrategies, Strategies
    <3>4. s \in Steps /\ (s.target = "TRUSTED" => p.trust = "MISMATCH")
      BY <1>1, <3>1, <3>3, NormalizeFacts
    <3>. QED  BY <1>2, <1>3, <2>1, <2>2, <3>1, <3>2, <3>4 DEF GoodOffer
  <2>3. CASE p.has_cached /\ was_tried(p, normalize(p, p.cached))
    <3>1. tp_plan_next(p) = ladder(p)
      BY <2>1, <2>3 DEF cached_then_ladder, need_dns
    <3>2. Len(p.tried) # 0
      BY <1>3, <2>3
    <3>. QED  BY <1>1, <1>2, <2>1, <3>1, <3>2, LadderFacts
  <2>4. CASE ~p.has_cached
    <3>1. tp_plan_next(p) = ladder(p)
      BY <2>1, <2>4 DEF cached_then_ladder
    <3>. QED  BY <1>1, <1>2, <2>1, <2>4, <3>1, LadderFacts
  <2>. QED  BY <2>2, <2>3, <2>4
<1>. QED  BY <1>4, <1>5

\* The places of the plan that need the trusted resolver's opinion.
ResolverReason(p) ==
    \/ p.has_manual
    \/ p.has_cached /\ p.cached.target = "TRUSTED"
    \/ p.direct_bad
    \/ original_unreachable(p)
    \/ was_tried(p, direct)

\* When tp_plan_next() asks for the resolver, it was not asked before and the
\* plan has a reason to.
LEMMA NeedDnsFacts ==
    ASSUME NEW p, tp_plan_next(p).next = "NEED_DNS"
    PROVE  /\ p.trust = "UNKNOWN"
           /\ ResolverReason(p)
<1>1. CASE p.has_manual
  BY <1>1 DEF tp_plan_next, done, offer, ResolverReason, cached_then_ladder
<1>2. CASE ~p.has_manual
  <2>1. tp_plan_next(p) = cached_then_ladder(p)
    BY <1>2 DEF tp_plan_next, done, offer
  <2>2. CASE p.has_cached /\ p.cached.target = "TRUSTED" /\ p.trust = "UNKNOWN"
    BY <2>2 DEF ResolverReason
  <2>3. CASE ~(p.has_cached /\ p.cached.target = "TRUSTED" /\ p.trust = "UNKNOWN")
    <3>1. ladder(p).next = "NEED_DNS"
      BY <2>1, <2>3 DEF cached_then_ladder, offer
    <3>2. /\ after_direct(p).next = "NEED_DNS"
          /\ p.direct_bad \/ original_unreachable(p) \/ was_tried(p, direct)
      BY <3>1 DEF ladder, offer
    <3>3. p.trust = "UNKNOWN"
      BY <3>2 DEF after_direct, offer, offer_bypass, done
    <3>. QED  BY <3>2, <3>3 DEF ResolverReason
  <2>. QED  BY <2>2, <2>3
<1>. QED  BY <1>1, <1>2

\* The ladder of p has nothing left to try.
Exhausted(p) ==
    \/ /\ p.trust = "MISMATCH"
       /\ \A s \in StreamStrategies : was_tried(p, step_of("TRUSTED", s))
    \/ /\ p.trust \in {"NONE", "MATCH"}
       /\ \/ original_unreachable(p)
          \/ \A s \in {"TLSREC", "TLSREC_SPLIT"} :
                was_tried(p, step_of("ORIGINAL", s))

\* tp_plan_next() ends an unanswered ladder below the budget only when it is
\* exhausted.
LEMMA DoneFacts ==
    ASSUME NEW p, WellFormed(p), OnLadderP(p),
           Len(p.tried) < TP_MAX_ATTEMPTS,
           Len(p.tried) > 0 => p.results[Len(p.tried)] \notin Answered,
           tp_plan_next(p).next = "DONE"
    PROVE  Exhausted(p)
<1>1. p \in Plans /\ Len(p.tried) \in Nat /\ TP_MAX_ATTEMPTS \in Nat
  BY MaxAttemptsAssumption DEF WellFormed, Plans
<1>2. tp_plan_next(p) = cached_then_ladder(p)
  BY <1>1 DEF tp_plan_next, OnLadderP
<1>3. ladder(p).next = "DONE"
  BY <1>2 DEF cached_then_ladder, need_dns, offer
<1>4. after_direct(p).next = "DONE"
  BY <1>3 DEF ladder, offer
<1>5. ASSUME NEW target \in Targets, offer_bypass(p, target).next = "DONE"
      PROVE  /\ was_tried(p, step_of(target, "TLSREC"))
             /\ was_tried(p, step_of(target, "TLSREC_SPLIT"))
  BY <1>1, <1>5, NoBypassLeft DEF offer_bypass, offer
<1>6. CASE p.trust = "MISMATCH"
  <2>1. was_tried(p, step_of("TRUSTED", "PASS")) /\ offer_bypass(p, "TRUSTED").next = "DONE"
    BY <1>4, <1>6 DEF after_direct, offer
  <2>. QED  BY <1>5, <1>6, <2>1 DEF Exhausted, StreamStrategies, Targets
<1>7. CASE p.trust # "MISMATCH"
  <2>1. p.trust \in {"NONE", "MATCH"}
    BY <1>1, <1>4, <1>7 DEF after_direct, need_dns, Plans, Trusts
  <2>2. original_unreachable(p) \/ offer_bypass(p, "ORIGINAL").next = "DONE"
    BY <1>4, <2>1 DEF after_direct
  <2>. QED  BY <1>5, <2>1, <2>2 DEF Exhausted, Targets
<1>. QED  BY <1>6, <1>7

\* Walking a plan changes none of its inputs.
SameInputs(p, q) ==
    /\ q.has_host = p.has_host /\ q.listed = p.listed
    /\ q.preferred = p.preferred /\ q.has_manual = p.has_manual
    /\ q.manual = p.manual /\ q.has_cached = p.has_cached
    /\ q.cached = p.cached /\ q.in_cooldown = p.in_cooldown
    /\ q.direct_bad = p.direct_bad

\* What tp_plan_record() does to a plan with room for one more attempt.
LEMMA RecordFacts ==
    ASSUME NEW p, WellFormed(p), Len(p.tried) < TP_MAX_ATTEMPTS,
           NEW s \in Steps, NEW r \in AttemptResults,
           NEW q, q = tp_plan_record(p, s, r)
    PROVE  /\ WellFormed(q)
           /\ Len(q.tried) = Len(p.tried) + 1
           /\ \A i \in 1..Len(p.tried) : /\ q.tried[i] = p.tried[i]
                                         /\ q.results[i] = p.results[i]
           /\ q.tried[Len(q.tried)] = s /\ q.results[Len(q.tried)] = r
           /\ SameInputs(p, q) /\ q.trust = p.trust
<1>1. /\ p.tried \in Seq(Steps) /\ p.results \in Seq(AttemptResults)
      /\ p \in Plans /\ Len(p.tried) \in Nat /\ TP_MAX_ATTEMPTS \in Nat
      /\ Len(p.results) = Len(p.tried)
  BY MaxAttemptsAssumption DEF WellFormed, Plans
<1>2. q = [p EXCEPT !.tried = Append(p.tried, s), !.results = Append(p.results, r)]
  BY <1>1 DEF tp_plan_record
<1>3. q.tried = Append(p.tried, s) /\ q.results = Append(p.results, r)
  BY <1>1, <1>2 DEF Plans
<1>4. SameInputs(p, q) /\ q.trust = p.trust
  BY <1>1, <1>2 DEF Plans, SameInputs
<1>5. Append(p.tried, s) \in Seq(Steps) /\ Append(p.results, r) \in Seq(AttemptResults)
  BY <1>1
<1>6. q \in Plans
  <2> DEFINE a == Append(p.tried, s)
             b == Append(p.results, r)
  <2>1. a \in Seq(Steps) /\ b \in Seq(AttemptResults)
    BY <1>5
  <2>2. q = [p EXCEPT !.tried = a, !.results = b]
    BY <1>2
  <2> HIDE DEF a, b
  <2>. QED  BY Zenon, <1>1, <2>1, <2>2 DEF Plans
<1>. QED  BY <1>1, <1>3, <1>4, <1>6 DEF WellFormed

-----------------------------------------------------------------------------
\* The inductive invariant: the properties of PlanRun, and the two facts they
\* rest on (the cached decision came first; an answered attempt was the last).
IInv ==
    /\ WellFormed(plan) /\ phase \in Phases /\ asked \in Nat
    /\ plan.has_manual => plan.has_host
    /\ plan.has_cached => plan.cached # direct
    /\ CachedFirst(plan)
    /\ phase = "start" => Len(plan.tried) = 0
    /\ phase = "walk" /\ Len(plan.tried) > 0 =>
          plan.results[Len(plan.tried)] \notin Answered
    /\ phase = "committed" => Len(plan.tried) > 0
    /\ TrustedOnlyOnMismatch
    /\ NoStepTwice
    /\ NoOriginalAfterConnectFail
    /\ ListedBypassBeforeDirectUnlessCached
    /\ DirectBadSkipsDirectUnlessCached
    /\ ResolverOnlyWhenNeeded
    /\ GivesUpOnlyWhenExhausted
    /\ ManualRuleObeyed

\* The invariant holds for every plan fill_plan() can produce.
LEMMA InitInv == Init => IInv
<1> SUFFICES ASSUME Init PROVE IInv
  OBVIOUS
<1>1. /\ plan \in Plans /\ plan.tried = <<>> /\ plan.results = <<>>
      /\ plan.trust = "UNKNOWN"
      /\ plan.has_manual => plan.has_host
      /\ plan.has_cached => plan.cached # direct
  <2>1. <<>> \in Seq(Steps) /\ <<>> \in Seq(AttemptResults)
    OBVIOUS
  <2>2. /\ plan \in [has_host : BOOLEAN, listed : BOOLEAN,
                    preferred : StreamStrategies,
                    has_manual : BOOLEAN, manual : Strategies,
                    has_cached : BOOLEAN, cached : Steps,
                    in_cooldown : BOOLEAN, direct_bad : BOOLEAN,
                    trust : {"UNKNOWN"}, tried : {<<>>}, results : {<<>>}]
        /\ ~plan.has_host => plan = tp_plan_init
        /\ plan.has_cached <=> plan.cached # direct
    BY DEF Init, fill_plan
  <2>3. plan.tried = <<>> /\ plan.results = <<>> /\ plan.trust = "UNKNOWN"
    BY <2>2
  <2>4. plan \in Plans
    BY Zenon, <2>1, <2>2 DEF Plans, Trusts
  <2>5. plan.has_manual => plan.has_host
    BY <2>2 DEF tp_plan_init
  <2>. QED  BY <2>2, <2>3, <2>4, <2>5
<1>2. Len(plan.tried) = 0 /\ Len(plan.results) = 0 /\ phase = "start" /\ asked = 0
  BY <1>1 DEF Init
<1>3. WellFormed(plan) /\ CachedFirst(plan)
  BY <1>1, <1>2, MaxAttemptsAssumption DEF WellFormed, CachedFirst
<1>. QED  BY <1>1, <1>2, <1>3
     DEF IInv, Phases, TrustedOnlyOnMismatch, NoStepTwice,
         NoOriginalAfterConnectFail, ListedBypassBeforeDirectUnlessCached,
         ListedBypassBeforeDirect, DirectBadSkipsDirectUnlessCached,
         ResolverOnlyWhenNeeded, GivesUpOnlyWhenExhausted, ManualRuleObeyed,
         Tried

\* A step that leaves the plan and the resolver alone keeps what the invariant
\* says of them.
LEMMA SamePlanInv ==
    ASSUME IInv, UNCHANGED <<plan, asked>>
    PROVE  /\ WellFormed(plan)' /\ (asked \in Nat)'
           /\ (plan.has_manual => plan.has_host)'
           /\ (plan.has_cached => plan.cached # direct)'
           /\ CachedFirst(plan)'
           /\ TrustedOnlyOnMismatch' /\ NoStepTwice'
           /\ NoOriginalAfterConnectFail'
           /\ ListedBypassBeforeDirectUnlessCached'
           /\ DirectBadSkipsDirectUnlessCached'
           /\ ResolverOnlyWhenNeeded'
           /\ ManualRuleObeyed'
<1>1. plan' = plan /\ asked' = asked
  BY Zenon
<1>2. /\ WellFormed(plan)' /\ (asked \in Nat)' /\ CachedFirst(plan)'
      /\ (plan.has_manual => plan.has_host)'
      /\ (plan.has_cached => plan.cached # direct)'
  BY Zenon, <1>1 DEF IInv
<1>3. Tried' = Tried /\ OnLadder' = OnLadder /\ CachedTrustedPass' = CachedTrustedPass
  BY Zenon, <1>1 DEF Tried, OnLadder, CachedTrustedPass
<1>4. TrustedOnlyOnMismatch' /\ NoStepTwice'
  <2>1. TrustedOnlyOnMismatch /\ NoStepTwice
    BY Zenon DEF IInv
  <2>2. TrustedOnlyOnMismatch'
    BY Zenon, <1>1, <1>3, <2>1 DEF TrustedOnlyOnMismatch
  <2>3. NoStepTwice'
    BY Zenon, <1>1, <1>3, <2>1 DEF NoStepTwice
  <2>. QED  BY Zenon, <2>2, <2>3
<1>5. NoOriginalAfterConnectFail'
  BY Zenon, <1>1, <1>3 DEF IInv, NoOriginalAfterConnectFail
<1>6. ListedBypassBeforeDirectUnlessCached'
  BY Zenon, <1>1, <1>3 DEF IInv, ListedBypassBeforeDirectUnlessCached,
                           ListedBypassBeforeDirect
<1>7. DirectBadSkipsDirectUnlessCached'
  BY Zenon, <1>1, <1>3 DEF IInv, DirectBadSkipsDirectUnlessCached
<1>8. ResolverOnlyWhenNeeded' /\ ManualRuleObeyed'
  BY Zenon, <1>1, <1>3 DEF IInv, ResolverOnlyWhenNeeded, ManualRuleObeyed
<1>. QED  BY Zenon, <1>2, <1>4, <1>5, <1>6, <1>7, <1>8

\* Recording the attempt that tp_plan_next() offered preserves the invariant.
LEMMA AttemptInv == IInv /\ attempt => IInv'
<1> SUFFICES ASSUME IInv, attempt PROVE IInv'
  OBVIOUS
<1> DEFINE s == tp_plan_next(plan).step
           n == Len(plan.tried)
<1>1. PICK r \in AttemptResults :
         /\ plan' = tp_plan_record(plan, s, r)
         /\ phase' = IF r \in Answered THEN "committed" ELSE "walk"
  BY DEF attempt
<1>2. /\ WellFormed(plan) /\ CachedFirst(plan) /\ phase = "walk"
      /\ asked' = asked /\ asked \in Nat /\ n \in Nat
      /\ tp_plan_next(plan).next = "ATTEMPT"
  BY DEF IInv, attempt, WellFormed, Plans
<1>3. /\ GoodOffer(plan, s)
      /\ n < TP_MAX_ATTEMPTS
      /\ OnLadderP(plan) /\ plan.has_cached /\ n = 0 =>
            /\ s = normalize(plan, plan.cached)
            /\ plan.cached.target = "TRUSTED" => plan.trust # "UNKNOWN"
      /\ OnLadderP(plan) /\ s = direct =>
            (n = 0 /\ plan.has_cached) \/ DirectAllowed(plan)
      /\ plan.has_host /\ plan.has_manual /\ ~plan.in_cooldown =>
            n = 0 /\ s.strategy = stream_strategy(plan.manual)
  BY <1>2, PlanNextFacts
<1>4. s \in Steps
  BY <1>3 DEF GoodOffer
<1>5. /\ WellFormed(plan')
      /\ Len(plan'.tried) = n + 1
      /\ \A i \in 1..n : /\ plan'.tried[i] = plan.tried[i]
                         /\ plan'.results[i] = plan.results[i]
      /\ plan'.tried[n + 1] = s /\ plan'.results[n + 1] = r
      /\ SameInputs(plan, plan') /\ plan'.trust = plan.trust
  <2>1. \A q : q = tp_plan_record(plan, s, r) =>
           /\ WellFormed(q) /\ Len(q.tried) = n + 1
           /\ \A i \in 1..n : /\ q.tried[i] = plan.tried[i]
                              /\ q.results[i] = plan.results[i]
           /\ q.tried[Len(q.tried)] = s /\ q.results[Len(q.tried)] = r
           /\ SameInputs(plan, q) /\ q.trust = plan.trust
    BY <1>2, <1>3, <1>4, RecordFacts
  <2>. QED  BY <1>1, <2>1
<1> HIDE DEF s, n
<1>6. CachedFirst(plan')
  <2>1. CASE n = 0
    BY <1>2, <1>3, <1>5, <2>1 DEF CachedFirst, OnLadderP, SameInputs, normalize
  <2>2. CASE n > 0
    BY <1>2, <1>5, <2>2 DEF CachedFirst, OnLadderP, SameInputs, normalize, n
  <2>. QED  BY <1>2, <2>1, <2>2
<1>7. /\ Tried' = 1..(n + 1) /\ Tried = 1..n
      /\ \A i \in 1..(n + 1) : i \in 1..n \/ i = n + 1
  BY <1>2, <1>5 DEF Tried, n
<1>8. TrustedOnlyOnMismatch'
  BY <1>3, <1>5, <1>7 DEF IInv, TrustedOnlyOnMismatch, GoodOffer
<1>9. NoStepTwice'
  <2>1. \A i \in 1..n : plan'.tried[i] # s
    BY <1>3, <1>5 DEF GoodOffer, was_tried, n
  <2>. QED  BY <1>5, <1>7, <2>1 DEF IInv, NoStepTwice
<1>10. NoOriginalAfterConnectFail'
  <2>1. ASSUME NEW i \in 1..n, plan'.tried[i].target = "ORIGINAL",
               plan'.results[i] = "CONNECT_FAIL"
        PROVE  s.target = "TRUSTED"
    BY <1>3, <1>4, <1>5, <2>1 DEF GoodOffer, original_unreachable, Steps, Targets, n
  <2>2. \A i, j \in 1..(n + 1) : i < j => i \in 1..n
    BY <1>2
  <2>. QED  BY <1>5, <1>7, <2>1, <2>2 DEF IInv, NoOriginalAfterConnectFail
<1>11. \A t : /\ was_tried(plan, t) <=> \E i \in 1..n : plan'.tried[i] = t
              /\ was_tried(plan, t) => was_tried(plan', t)
  BY <1>2, <1>5, <1>7, SMTT(30) DEF was_tried, n
<1>12. original_unreachable(plan) => original_unreachable(plan')
  <2>1. \A i \in 1..n : i \in 1..(n + 1)
    BY <1>2
  <2>2. 1..Len(plan.tried) = 1..n /\ 1..Len(plan'.tried) = 1..(n + 1)
    BY Zenon, <1>5 DEF n
  <2>. QED  BY Zenon, <1>5, <2>1, <2>2 DEF original_unreachable
<1>13. OnLadder' = OnLadder /\ CachedTrustedPass' = CachedTrustedPass
  BY <1>5 DEF OnLadder, CachedTrustedPass, SameInputs
<1>14. OnLadder /\ s = direct => (n = 0 /\ plan.has_cached) \/ DirectAllowed(plan)
  BY <1>3 DEF OnLadder, OnLadderP
<1>15. OnLadder /\ s = direct /\ n = 0 /\ plan.has_cached =>
          CachedTrustedPass /\ plan.trust \in {"NONE", "MATCH"}
  <2>1. ASSUME OnLadder, s = direct, n = 0, plan.has_cached
        PROVE  CachedTrustedPass /\ plan.trust \in {"NONE", "MATCH"}
    <3>1. /\ direct = normalize(plan, plan.cached)
          /\ plan.cached.target = "TRUSTED" => plan.trust # "UNKNOWN"
      BY <1>3, <2>1 DEF OnLadder, OnLadderP
    <3>2. plan.cached \in Steps /\ plan.cached # direct /\ plan.trust \in Trusts
      BY <1>2, <2>1 DEF IInv, WellFormed, Plans
    <3>3. plan.cached.strategy = "PASS"
          /\ (plan.cached.target = "TRUSTED" => plan.trust # "MISMATCH")
      BY <3>1, <3>2 DEF normalize, direct, step_of, stream_strategy, Steps,
                        StreamStrategies
    <3>4. plan.cached = step_of("TRUSTED", "PASS")
      BY <3>2, <3>3 DEF step_of, direct, Steps, Targets
    <3>. QED  BY <2>1, <3>1, <3>2, <3>3, <3>4
              DEF CachedTrustedPass, step_of, Trusts
  <2>. QED  BY <2>1
<1>16. ListedBypassBeforeDirectUnlessCached'
  <2>1. ASSUME ~CachedTrustedPass, OnLadder, plan.listed, s = direct,
               NEW t \in {"TLSREC", "TLSREC_SPLIT"}
        PROVE  \E i \in 1..n : plan'.tried[i] = step_of("ORIGINAL", t)
    BY <1>11, <1>14, <1>15, <2>1 DEF DirectAllowed
  <2>2. \A j \in 1..n : 1..(j - 1) \subseteq 1..n
    BY <1>2
  <2>3. n + 1 - 1 = n /\ plan'.listed = plan.listed
    BY <1>2, <1>5 DEF SameInputs
  <2>. QED  BY <1>5, <1>7, <1>13, <2>1, <2>2, <2>3, SMTT(30)
            DEF IInv, ListedBypassBeforeDirectUnlessCached,
                ListedBypassBeforeDirect, is_direct
<1>17. DirectBadSkipsDirectUnlessCached'
  <2>1. OnLadder /\ plan.direct_bad /\ s = direct =>
           n + 1 = 1 /\ CachedTrustedPass /\ plan.trust \in {"NONE", "MATCH"}
    BY <1>14, <1>15 DEF DirectAllowed
  <2>. QED  BY <1>5, <1>7, <1>13, <2>1
            DEF IInv, DirectBadSkipsDirectUnlessCached, SameInputs, is_direct
<1>18. ResolverOnlyWhenNeeded'
  <2>1. ResolverOnlyWhenNeeded
    BY Zenon DEF IInv
  <2>2. was_tried(plan, direct) => was_tried(plan', direct)
    BY Zenon, <1>11
  <2>. QED  BY Zenon, <1>2, <1>5, <1>12, <2>1, <2>2 DEF ResolverOnlyWhenNeeded, SameInputs
<1>19. ManualRuleObeyed'
  <2>1. CASE ~(plan'.has_manual /\ ~plan'.in_cooldown)
    BY Zenon, <2>1 DEF ManualRuleObeyed
  <2>2. CASE plan'.has_manual /\ ~plan'.in_cooldown
    <3>1. plan.has_manual /\ ~plan.in_cooldown /\ plan'.manual = plan.manual
      BY Zenon, <1>5, <2>2 DEF SameInputs
    <3>2. plan.has_host
      BY Zenon, <3>1 DEF IInv
    <3>3. n = 0 /\ s.strategy = stream_strategy(plan'.manual)
      BY Zenon, <1>3, <3>1, <3>2
    <3>4. PICK m : m = Len(plan'.tried)
      BY Zenon
    <3>5. m = n + 1
      BY Zenon, <1>5, <3>4
    <3>6. m <= 1 /\ \A i \in 1..(n + 1) : i = n + 1
      BY <3>3, <3>5
    <3>. QED  BY Zenon, <1>5, <1>7, <2>2, <3>3, <3>4, <3>6 DEF ManualRuleObeyed
  <2>. QED  BY Zenon, <2>1, <2>2
<1>20. /\ phase' \in Phases
       /\ phase' = "walk" => plan'.results[Len(plan'.tried)] \notin Answered
       /\ phase' \notin {"start", "gave_up"} /\ Len(plan'.tried) > 0
  BY <1>1, <1>2, <1>5 DEF Phases
<1>21. GivesUpOnlyWhenExhausted'
  BY <1>20 DEF GivesUpOnlyWhenExhausted
<1>22. /\ plan'.has_manual => plan'.has_host
       /\ plan'.has_cached => plan'.cached # direct
  BY <1>5 DEF IInv, SameInputs
<1>. QED  BY <1>2, <1>5, <1>6, <1>8, <1>9, <1>10, <1>16, <1>17, <1>18, <1>19,
             <1>20, <1>21, <1>22 DEF IInv

\* The resolver's answer preserves the invariant: no trusted step was tried
\* before it, and the cached decision is not yet reinterpreted by it.
LEMMA ResolveInv == IInv /\ resolve_trusted => IInv'
<1> SUFFICES ASSUME IInv, resolve_trusted PROVE IInv'
  OBVIOUS
<1>1. PICK t \in Trusts \ {"UNKNOWN"} : plan' = [plan EXCEPT !.trust = t]
  BY DEF resolve_trusted
<1>2. /\ WellFormed(plan) /\ plan \in Plans /\ phase = "walk"
      /\ asked' = asked + 1 /\ phase' = phase
      /\ tp_plan_next(plan).next = "NEED_DNS"
  BY DEF IInv, resolve_trusted, WellFormed
<1>3. plan.trust = "UNKNOWN" /\ ResolverReason(plan) /\ asked = 0
  BY <1>2, NeedDnsFacts DEF IInv, ResolverOnlyWhenNeeded
<1>4. /\ SameInputs(plan, plan') /\ plan'.trust = t
      /\ plan'.tried = plan.tried /\ plan'.results = plan.results
  BY <1>1, <1>2 DEF Plans, SameInputs
<1>5. plan' \in Plans
  BY <1>1, <1>2, SMTT(30) DEF Plans
<1>6. \A i \in Tried : plan.tried[i].target # "TRUSTED"
  BY <1>3 DEF IInv, TrustedOnlyOnMismatch
<1>7. CachedFirst(plan')
  <2>1. ASSUME OnLadderP(plan), plan.has_cached, Len(plan.tried) > 0
        PROVE  normalize(plan', plan.cached) = normalize(plan, plan.cached)
    <3>1. plan.cached.target # "TRUSTED"
      BY <1>3, <2>1 DEF IInv, CachedFirst
    <3>. QED  BY <3>1 DEF normalize
  <2>. QED  BY <1>4, <2>1 DEF IInv, CachedFirst, OnLadderP, SameInputs
<1>8. \A i \in Tried : is_direct(plan.tried[i]) /\ OnLadder =>
         ~plan.direct_bad
  BY <1>3 DEF IInv, DirectBadSkipsDirectUnlessCached
<1>9. ResolverOnlyWhenNeeded'
  <2>1. /\ original_unreachable(plan') = original_unreachable(plan)
        /\ was_tried(plan', direct) = was_tried(plan, direct)
    BY <1>4, SMTT(30) DEF original_unreachable, was_tried
  <2>. QED  BY <1>2, <1>3, <1>4, <2>1
            DEF ResolverOnlyWhenNeeded, ResolverReason, SameInputs
<1>10. TrustedOnlyOnMismatch' /\ NoStepTwice' /\ NoOriginalAfterConnectFail'
  <2>1. Tried' = Tried
    BY Zenon, <1>4 DEF Tried
  <2>2. NoStepTwice /\ NoOriginalAfterConnectFail
    BY Zenon DEF IInv
  <2>3. TrustedOnlyOnMismatch'
    BY Zenon, <1>4, <1>6, <2>1 DEF TrustedOnlyOnMismatch
  <2>4. NoStepTwice'
    BY Zenon, <1>4, <2>1, <2>2 DEF NoStepTwice
  <2>5. NoOriginalAfterConnectFail'
    <3> SUFFICES ASSUME NEW i \in Tried, NEW j \in Tried, i < j,
                        plan.tried[i].target = "ORIGINAL",
                        plan.results[i] = "CONNECT_FAIL"
                 PROVE  plan.tried[j].target = "TRUSTED"
      <4>1. plan'.tried = plan.tried /\ plan'.results = plan.results
        BY Zenon, <1>4
      <4> QED
        BY Zenon, <2>1, <4>1 DEF NoOriginalAfterConnectFail
    <3> QED
      BY Zenon, <2>2 DEF NoOriginalAfterConnectFail
  <2>. QED  BY Zenon, <2>3, <2>4, <2>5
<1>11. ListedBypassBeforeDirectUnlessCached'
  BY <1>4 DEF IInv, ListedBypassBeforeDirectUnlessCached, SameInputs, OnLadder,
              ListedBypassBeforeDirect, Tried, CachedTrustedPass
<1>12. DirectBadSkipsDirectUnlessCached'
  BY <1>4, <1>8 DEF DirectBadSkipsDirectUnlessCached, SameInputs, OnLadder, Tried
<1>13. ManualRuleObeyed' /\ GivesUpOnlyWhenExhausted'
  BY <1>2, <1>4 DEF IInv, ManualRuleObeyed, GivesUpOnlyWhenExhausted, SameInputs,
                    Tried
<1>14. /\ plan'.has_manual => plan'.has_host
       /\ plan'.has_cached => plan'.cached # direct
  BY <1>4 DEF IInv, SameInputs
<1>15. WellFormed(plan')
  BY <1>2, <1>4, <1>5 DEF WellFormed
<1>. QED  BY <1>2, <1>3, <1>4, <1>7, <1>9, <1>10, <1>11, <1>12, <1>13, <1>14,
             <1>15 DEF IInv

\* Every step of the handler preserves the invariant.
LEMMA NextInv == IInv /\ [Next]_vars => IInv'
<1> SUFFICES ASSUME IInv, [Next]_vars PROVE IInv'
  OBVIOUS
<1>1. CASE passthrough
  BY <1>1, SamePlanInv DEF IInv, passthrough, Phases, GivesUpOnlyWhenExhausted
<1>2. CASE start_plan
  BY <1>2, SamePlanInv DEF IInv, start_plan, Phases, GivesUpOnlyWhenExhausted
<1>3. CASE resolve_trusted
  BY <1>3, ResolveInv
<1>4. CASE attempt
  BY <1>4, AttemptInv
<1>5. CASE give_up
  <2>1. phase' = "gave_up" /\ UNCHANGED <<plan, asked>>
    BY <1>5 DEF give_up
  <2>2. OnLadder /\ Len(plan.tried) < TP_MAX_ATTEMPTS => Exhausted(plan)
    BY <1>5, DoneFacts DEF IInv, give_up, OnLadder, OnLadderP
  <2>3. GivesUpOnlyWhenExhausted'
    BY <2>1, <2>2 DEF GivesUpOnlyWhenExhausted, Exhausted, OnLadder
  <2>. QED  BY <2>1, <2>3, SamePlanInv DEF IInv, Phases
<1>6. CASE UNCHANGED vars
  BY <1>6, SamePlanInv DEF IInv, vars, GivesUpOnlyWhenExhausted, OnLadder
<1>. QED  BY <1>1, <1>2, <1>3, <1>4, <1>5, <1>6 DEF Next

\* The invariant holds throughout every connection.
THEOREM PlanInvariant == Spec => []IInv
BY InitInv, NextInv, PTL DEF Spec

-----------------------------------------------------------------------------
\* Type correctness of tp_plan_next and tp_plan_record for every budget.
THEOREM TypeCorrect == Spec => []TypeOK
<1>1. IInv => TypeOK
  BY DEF IInv, TypeOK, WellFormed
<1>. QED  BY <1>1, PlanInvariant, PTL

\* attempt() never connects to a trusted address that was not resolved.
THEOREM TrustedStepsAreBacked == Spec => []TrustedOnlyOnMismatch
<1>1. IInv => TrustedOnlyOnMismatch
  BY DEF IInv
<1>. QED  BY <1>1, PlanInvariant, PTL

\* tp_plan_next never repeats a failed step within a connection.
THEOREM AttemptsAreDistinct == Spec => []NoStepTwice
<1>1. IInv => NoStepTwice
  BY DEF IInv
<1>. QED  BY <1>1, PlanInvariant, PTL

\* After a connect failure at the original address every later attempt goes
\* to the trusted one.
THEOREM UnreachableIsLeftAlone == Spec => []NoOriginalAfterConnectFail
<1>1. IInv => NoOriginalAfterConnectFail
  BY DEF IInv
<1>. QED  BY <1>1, PlanInvariant, PTL

\* A known-blocked host gets its two bypasses before any plain attempt, cached
\* trusted-address decisions aside.
THEOREM ListedGetsBypassFirst == Spec => []ListedBypassBeforeDirectUnlessCached
<1>1. IInv => ListedBypassBeforeDirectUnlessCached
  BY DEF IInv
<1>. QED  BY <1>1, PlanInvariant, PTL

\* A host whose DIRECT was verified bad gets no DIRECT from the ladder, cached
\* trusted-address decisions aside.
THEOREM DirectBadIsSkipped == Spec => []DirectBadSkipsDirectUnlessCached
<1>1. IInv => DirectBadSkipsDirectUnlessCached
  BY DEF IInv
<1>. QED  BY <1>1, PlanInvariant, PTL

\* resolve_trusted is called at most once, and only with a reason.
THEOREM ResolverAskedOnce == Spec => []ResolverOnlyWhenNeeded
<1>1. IInv => ResolverOnlyWhenNeeded
  BY DEF IInv
<1>. QED  BY <1>1, PlanInvariant, PTL

\* run_plan gives up below its budget only when no rung is left.
THEOREM GivesUpExhausted == Spec => []GivesUpOnlyWhenExhausted
<1>1. IInv => GivesUpOnlyWhenExhausted
  BY DEF IInv
<1>. QED  BY <1>1, PlanInvariant, PTL

\* A manual rule is one attempt with its own strategy, outside a cooldown.
THEOREM ManualIsObeyed == Spec => []ManualRuleObeyed
<1>1. IInv => ManualRuleObeyed
  BY DEF IInv
<1>. QED  BY <1>1, PlanInvariant, PTL

\* commit() exempts from verification only the cached step itself.
THEOREM CachedSourceIsSound == Spec => []CachedSourceIsCachedStep
<1>1. IInv => CachedSourceIsCachedStep
  <2> SUFFICES ASSUME IInv, phase = "committed", tp_plan_source(plan) = "CACHED"
               PROVE  plan.tried[Len(plan.tried)] = normalize(plan, plan.cached)
    BY DEF CachedSourceIsCachedStep
  <2>1. OnLadderP(plan) /\ plan.has_cached /\ Len(plan.tried) <= 1
    BY DEF tp_plan_source, OnLadderP
  <2>2. Len(plan.tried) \in Nat /\ Len(plan.tried) > 0
    BY DEF IInv, WellFormed, Plans
  <2>3. Len(plan.tried) = 1
    <3>1. \A k \in Nat : k > 0 /\ k <= 1 => k = 1
      OBVIOUS
    <3>. QED  BY Zenon, <2>1, <2>2, <3>1
  <2>. QED  BY <2>1, <2>3 DEF IInv, CachedFirst
<1>. QED  BY <1>1, PlanInvariant, PTL

-----------------------------------------------------------------------------
(* The decision store.                                                     *)

\* A set of entries that an array of capacity n can hold.
Storable(es, n) ==
    /\ es \subseteq Decisions
    /\ IsFiniteSet(es) /\ Cardinality(es) <= n
    /\ \A a, b \in es :
          a.host = b.host /\ a.fp = b.fp /\ a.family = b.family => a = b

\* OneSlotPerHost, for any cooldown table.
OneSlot(t) ==
    \A i, j \in DOMAIN t : t[i].host = t[j].host /\ i # j => t[i].host = ""

\* Key of a decision or of a line.
KeyOf(x) == <<x.host, x.fp, x.family>>

\* The keys of the lines that parse_line() has a use for.
UsableKeys(lines) == {KeyOf(l) : l \in {x \in lines : usable(x)}}

\* Some entry of es has the key of x.
HasKey(es, x) == \E y \in es : y.host = x.host /\ y.fp = x.fp /\ y.family = x.family

\* SavedComesBack while the file is still being loaded.
KeptSoFar ==
    /\ ~dec.dirty /\ pending = <<>> /\ ~write_failed /\ ~load_failed
    /\ Cardinality(UsableKeys(file)) <= TP_DECISIONS_MAX
    => \A l \in file : usable(l) => l \in unread \/ HasKey(dec.entries, l)

\* What is still to be loaded comes from the file, and nobody else is there.
LoadOK ==
    /\ unread \subseteq Lines /\ \A u \in unread : Recorded(u)
    /\ unread # {} => ~dec.dirty /\ pending = <<>>

\* The inductive invariant of the decision store: the table and what is being
\* written could each be the table of a fresh process, a save under way holds
\* the entries unless they changed since it began, and a load under way has
\* put into the table what it has taken from the file.
StoreInv ==
    /\ dec \in Tables /\ Storable(dec.entries, dec.cap) /\ OneSlot(dec.cooldown)
    /\ now \in Nat
    /\ file \subseteq Lines /\ IsFiniteSet(file)
    /\ LoadOK
    /\ pending # <<>> =>
          /\ pending = <<pending[1]>> /\ Storable(pending[1], TP_DECISIONS_MAX)
          /\ ~dec.dirty => pending[1] = dec.entries
    /\ FileCurrentUnlessWriteFailed
    /\ KeptSoFar

-----------------------------------------------------------------------------
\* A set of numbers has a least one.
LEMMA LeastNumber ==
    ASSUME NEW S, S \subseteq Nat, S # {}
    PROVE  \E x \in S : \A y \in S : x <= y
  <1> DEFINE R == OpToRel(<, Nat)
  <1>1. PICK x \in S : \A y \in S : ~(<<y, x>> \in R)
    <2> HIDE DEF R
    <2>1. IsWellFoundedOn(R, Nat)
      BY NatLessThanWellFounded, Zenon DEF R
    <2> QED
      BY <2>1, WFMin, Zenon
  <1>2. \A y \in S : <<y, x>> \in R <=> y < x
    <2>1. R = {ss \in Nat \X Nat : ss[1] < ss[2]}
      BY Zenon DEF OpToRel
    <2> HIDE DEF R
    <2> QED
      BY <2>1
  <1> HIDE DEF R
  <1>3. \A y \in S : ~(y < x)
    BY <1>1, <1>2, Zenon
  <1> QED
    BY <1>3

\* Min finds it.
LEMMA MinIsMember ==
    ASSUME NEW S, S \subseteq Nat, S # {}
    PROVE  Min(S) \in S
  BY LeastNumber, Zenon DEF Min

\* An array that is not yet at its limit grows, and never past it.
LEMMA GrownCap ==
    ASSUME NEW cap \in 0..TP_DECISIONS_MAX
    PROVE  /\ grown_cap(cap) \in 0..TP_DECISIONS_MAX
           /\ cap < TP_DECISIONS_MAX => cap + 1 <= grown_cap(cap)
  <1>1. /\ TP_DECISIONS_MAX \in Nat /\ TP_DECISIONS_FIRST_CAP \in Nat
        /\ 1 <= TP_DECISIONS_FIRST_CAP /\ TP_DECISIONS_FIRST_CAP <= TP_DECISIONS_MAX
    <2>1. /\ TP_DECISIONS_MAX \in Nat /\ TP_DECISIONS_FIRST_CAP \in Nat \ {0}
          /\ TP_DECISIONS_FIRST_CAP <= TP_DECISIONS_MAX
      BY TableAssumption, Zenon
    <2> QED
      BY <2>1
  <1>2. CASE cap = 0
    BY <1>1, <1>2 DEF grown_cap
  <1>3. CASE cap # 0
    <2>1. PICK n : n = 2 * cap
      OBVIOUS
    <2>2. n \in Nat /\ cap + 1 <= n
      BY <1>1, <1>3, <2>1
    <2>3. grown_cap(cap) = IF n > TP_DECISIONS_MAX THEN TP_DECISIONS_MAX ELSE n
      BY <1>3, <2>1 DEF grown_cap
    <2> QED
      BY <1>1, <2>2, <2>3
  <1> QED
    BY <1>2, <1>3

-----------------------------------------------------------------------------
\* A part of what an array holds fits into it.
LEMMA StorablePart ==
    ASSUME NEW es, NEW n, Storable(es, n), n \in Nat, NEW part \in SUBSET es
    PROVE  Storable(part, n) /\ Cardinality(part) <= Cardinality(es)
  <1>1. IsFiniteSet(es) /\ IsFiniteSet(part) /\ Cardinality(part) <= Cardinality(es)
    BY FS_Subset DEF Storable
  <1>2. Cardinality(es) \in Nat /\ Cardinality(part) \in Nat
    BY <1>1, FS_CardinalityType
  <1> QED
    BY <1>1, <1>2 DEF Storable

\* An entry with a new key fits where there is room for one more.
LEMMA StorableAdd ==
    ASSUME NEW es, NEW m, NEW n \in Nat, Storable(es, m), NEW e \in Decisions,
           \A x \in es : ~(x.host = e.host /\ x.fp = e.fp /\ x.family = e.family),
           Cardinality(es) + 1 <= n
    PROVE  Storable(es \cup {e}, n)
  <1>1. IsFiniteSet(es) /\ IsFiniteSet(es \cup {e})
        /\ Cardinality(es \cup {e}) = IF e \in es THEN Cardinality(es) ELSE Cardinality(es) + 1
    BY FS_AddElement DEF Storable
  <1>2. Cardinality(es) \in Nat
    BY <1>1, FS_CardinalityType
  <1>3. Cardinality(es \cup {e}) <= n
    BY <1>1, <1>2
  <1> QED
    BY <1>1, <1>3 DEF Storable

\* A capacity is a number.
LEMMA CapIsNat == TP_DECISIONS_MAX \in Nat /\ \A d \in Tables : d.cap \in Nat
  <1>1. TP_DECISIONS_MAX \in Nat
    BY TableAssumption, Zenon
  <1>2. \A d \in Tables : d.cap \in 0..TP_DECISIONS_MAX
    BY DEF Tables
  <1> QED
    BY <1>1, <1>2

\* EvictsOldest, for a step from table d to table r.
Evicts(d, r) ==
    LET lost == {e \in d.entries : find(r, e.host, e.fp, e.family) = {}}
        kept == d.entries \cap r.entries
    IN  ~(r.entries \subseteq d.entries) =>
            /\ Cardinality(lost) <= 1
            /\ \A e \in lost, k \in kept : e.validated_at <= k.validated_at

\* The entries are as they were, or the table is dirty and can be held; what
\* a new entry drove out was the oldest.
Changed(d, r) ==
    /\ r \in Tables /\ Storable(r.entries, r.cap)
    /\ r.dirty = TRUE \/ (r.entries = d.entries /\ r.dirty = d.dirty)
    /\ Evicts(d, r)

\* Fewer entries drive nothing out.
LEMMA NoNewEntry ==
    ASSUME NEW d, NEW r, r.entries \subseteq d.entries
    PROVE  Evicts(d, r)
  BY DEF Evicts

\* r is the table d without the entry of a key.
Removed(d, h, f, fam, r) == r = remove_entry(d, h, f, fam)

\* remove_entry() drops the entry of a key and marks the table dirty.
LEMMA RemoveChanged ==
    ASSUME NEW d \in Tables, Storable(d.entries, d.cap), NEW h, NEW f, NEW fam,
           NEW r, Removed(d, h, f, fam, r)
    PROVE  Changed(d, r) /\ r.cooldown = d.cooldown
  <1>1. PICK es : es = d.entries \ find(d, h, f, fam)
    BY Zenon
  <1>2. d.cap \in Nat /\ es \in SUBSET d.entries /\ es \in SUBSET Decisions
    BY <1>1, CapIsNat DEF Tables
  <1>3. CASE r = d
    BY <1>3, NoNewEntry DEF Changed
  <1>4. CASE r = [d EXCEPT !.entries = es, !.dirty = TRUE]
    <2>1. /\ r \in Tables /\ r.entries = es /\ r.dirty = TRUE
          /\ r.cap = d.cap /\ r.cooldown = d.cooldown
      BY Zenon, <1>2, <1>4 DEF Tables
    <2>2. Storable(r.entries, r.cap)
      BY <1>2, <2>1, StorablePart
    <2> QED
      BY <1>2, <2>1, <2>2, NoNewEntry DEF Changed
  <1> QED
    BY <1>1, <1>3, <1>4 DEF remove_entry, Removed

\* Table t made room by giving up at most x, the oldest entry of d.
MadeRoom(d, t, x) ==
    /\ t.entries \subseteq d.entries /\ d.entries \ t.entries \subseteq {x}
    /\ x \in d.entries \ t.entries =>
          \A y \in d.entries : x.validated_at <= y.validated_at

\* Entry e in the place of the entries old.
Put(t, old, e) == [t EXCEPT !.entries = (@ \ old) \cup {e}, !.dirty = TRUE]

\* Entry e put into table t, which has room, in the place of its key's in table d.
PutIn(d, t, e, r) ==
    /\ d \in Tables /\ e \in Decisions /\ t \in Tables /\ Storable(t.entries, t.cap)
    /\ Cardinality(t.entries \ find(d, e.host, e.fp, e.family)) + 1 <= t.cap
    /\ r = Put(t, find(d, e.host, e.fp, e.family), e)

\* Table r is a changed d, with the cooldown slots of t.
ChangedBy(d, t, r) == Changed(d, r) /\ r.cooldown = t.cooldown

\* An entry put into a table that made room for it.
LEMMA PutChanged ==
    ASSUME NEW d, NEW e, NEW x, NEW t, MadeRoom(d, t, x), NEW r, PutIn(d, t, e, r)
    PROVE  ChangedBy(d, t, r)
  <1>0. d \in Tables /\ e \in Decisions /\ t \in Tables /\ Storable(t.entries, t.cap)
    BY Zenon DEF PutIn
  <1> USE <1>0
  <1>1. PICK old : /\ old = find(d, e.host, e.fp, e.family) /\ r = Put(t, old, e)
                   /\ Cardinality(t.entries \ old) + 1 <= t.cap
    BY Zenon DEF PutIn
  <1>2. PICK es : es = (t.entries \ old) \cup {e}
    BY Zenon
  <1>3. t.cap \in Nat /\ t.entries \subseteq Decisions
    BY CapIsNat DEF Storable
  <1>4. /\ r \in Tables /\ r.entries = es /\ r.dirty = TRUE
        /\ r.cap = t.cap /\ r.cooldown = t.cooldown
    <2>1. es \in SUBSET Decisions
      BY <1>2, <1>3
    <2>2. r = [t EXCEPT !.entries = es, !.dirty = TRUE]
      BY <1>1, <1>2 DEF Put
    <2> QED
      BY Zenon, <2>1, <2>2 DEF Tables
  <1>5. Storable(es, t.cap)
    <2>1. Storable(t.entries \ old, t.cap)
      BY <1>3, StorablePart
    <2>2. \A y \in t.entries \ old :
              ~(y.host = e.host /\ y.fp = e.fp /\ y.family = e.family)
      BY <1>1 DEF find, MadeRoom
    <2>3. PICK part : part = t.entries \ old
      BY Zenon
    <2>4. Cardinality(part) + 1 <= t.cap /\ Storable(part, t.cap) /\ t.cap \in Nat
      BY Zenon, <1>1, <1>3, <2>1, <2>3
    <2>5. \A y \in part : ~(y.host = e.host /\ y.fp = e.fp /\ y.family = e.family)
      BY Zenon, <2>2, <2>3
    <2>6. Storable(part \cup {e}, t.cap)
      BY Zenon, <2>4, <2>5, StorableAdd
    <2> QED
      BY Zenon, <1>2, <2>3, <2>6
  <1>6. PICK lost : lost = {l \in d.entries : find(r, l.host, l.fp, l.family) = {}}
    BY Zenon
  <1>7. \A l \in lost : l = x /\ x \in d.entries \ t.entries
    <2> TAKE l \in lost
    <2>1. l \in d.entries /\ \A y \in es : ~(y.host = l.host /\ y.fp = l.fp /\ y.family = l.family)
      BY <1>4, <1>6 DEF find
    <2>2. l \notin old
      BY <1>1, <1>2, <2>1 DEF find
    <2>3. l \notin t.entries
      BY <1>2, <2>1, <2>2
    <2> QED
      BY <2>1, <2>3 DEF MadeRoom
  <1>8. Cardinality(lost) <= 1
    <2>1. lost = {} \/ lost = {x}
      BY <1>7
    <2>2. Cardinality(lost) = 0 \/ Cardinality(lost) = 1
      BY <2>1, FS_EmptySet, FS_Singleton, Zenon
    <2> QED
      BY <2>2
  <1>9. Evicts(d, r)
    BY <1>6, <1>7, <1>8 DEF Evicts, MadeRoom
  <1> QED
    BY <1>4, <1>5, <1>9, Zenon DEF Changed, ChangedBy

\* What new_slot() returns has room for one entry, and gave up at most the
\* oldest one.
LEMMA NewSlotFacts ==
    ASSUME NEW d \in Tables, Storable(d.entries, d.cap), NEW t \in new_slot(d)
    PROVE  /\ t \in Tables /\ t.cooldown = d.cooldown
           /\ Storable(t.entries, t.cap) /\ Cardinality(t.entries) + 1 <= t.cap
           /\ \E x : MadeRoom(d, t, x)
  <1>1. d.cap \in Nat /\ Cardinality(d.entries) \in Nat /\ Cardinality(d.entries) <= d.cap
    BY CapIsNat, FS_CardinalityType DEF Storable
  <1>2. CASE Cardinality(d.entries) < d.cap /\ t = d
    BY <1>1, <1>2 DEF MadeRoom
  <1>3. CASE d.cap < TP_DECISIONS_MAX /\ t = [d EXCEPT !.cap = grown_cap(d.cap)]
    <2>1. PICK c : c = grown_cap(d.cap)
      OBVIOUS
    <2>2. c \in 0..TP_DECISIONS_MAX /\ d.cap + 1 <= c
      <3>1. d.cap \in 0..TP_DECISIONS_MAX
        BY DEF Tables
      <3> QED
        BY <1>3, <2>1, <3>1, GrownCap
    <2>3. t \in Tables /\ t.cooldown = d.cooldown /\ t.entries = d.entries /\ t.cap = c
      BY <1>3, <2>1, <2>2 DEF Tables
    <2>4. c \in Nat
      BY <2>2, CapIsNat
    <2>5. Storable(t.entries, c) /\ Cardinality(t.entries) + 1 <= c
      BY <1>1, <2>2, <2>3, <2>4 DEF Storable
    <2> QED
      BY <2>3, <2>5 DEF MadeRoom
  <1>4. CASE t \in evict_oldest(d)
    <2>1. PICK x \in d.entries : /\ \A y \in d.entries : x.validated_at <= y.validated_at
                                 /\ t = [d EXCEPT !.entries = d.entries \ {x}]
      BY <1>4 DEF evict_oldest
    <2>2. PICK es : es = d.entries \ {x}
      BY Zenon
    <2>3. es \in SUBSET Decisions
      BY <2>2 DEF Storable
    <2>4. t \in Tables /\ t.cooldown = d.cooldown /\ t.entries = es /\ t.cap = d.cap
      BY <2>1, <2>2, <2>3 DEF Tables
    <2>5. Storable(es, d.cap)
      BY <1>1, <2>2, StorablePart
    <2>6. Cardinality(es) = Cardinality(d.entries) - 1
      BY Zenon, <2>2, FS_RemoveElement DEF Storable
    <2>7. Cardinality(es) + 1 <= d.cap
      BY <1>1, <2>6
    <2> QED
      BY <2>1, <2>2, <2>4, <2>5, <2>7 DEF MadeRoom
  <1> QED
    BY <1>2, <1>3, <1>4 DEF new_slot

\* store(): the entry replaces the one of its key, or takes a slot.
LEMMA StoreChanged ==
    ASSUME NEW d \in Tables, Storable(d.entries, d.cap), NEW e \in Decisions,
           NEW r \in store(d, e)
    PROVE  Changed(d, r) /\ r.cooldown = d.cooldown
  <1>1. PICK old : old = find(d, e.host, e.fp, e.family)
    OBVIOUS
  <1>2. \/ r = d
        \/ old # {} /\ r = Put(d, old, e)
        \/ old = {} /\ \E t \in new_slot(d) : r = Put(t, old, e)
    BY Zenon, <1>1 DEF store, Put
  <1>3. CASE r = d
    <2>1. r \in Tables /\ Storable(r.entries, r.cap) /\ r.entries \subseteq d.entries
      BY Zenon, <1>3
    <2>2. Evicts(d, r)
      BY Zenon, <2>1, NoNewEntry
    <2> QED
      BY Zenon, <1>3, <2>1, <2>2 DEF Changed
  <1>4. CASE old # {} /\ r = Put(d, old, e)
    <2>1. PICK o : o \in old
      BY <1>4
    <2>2. o \in d.entries /\ d.entries \ old \subseteq d.entries \ {o}
      BY <1>1, <2>1 DEF find
    <2>3. /\ IsFiniteSet(d.entries \ {o})
          /\ Cardinality(d.entries \ {o}) = Cardinality(d.entries) - 1
      BY Zenon, <2>2, FS_RemoveElement DEF Storable
    <2>4. Cardinality(d.entries \ old) <= Cardinality(d.entries \ {o})
          /\ IsFiniteSet(d.entries \ old)
      BY <2>2, <2>3, FS_Subset
    <2>5. /\ Cardinality(d.entries \ old) \in Nat /\ Cardinality(d.entries) \in Nat
          /\ d.cap \in Nat /\ Cardinality(d.entries) <= d.cap
      BY <2>4, CapIsNat, FS_CardinalityType DEF Storable
    <2>6. Cardinality(d.entries \ old) + 1 <= d.cap
      <3>1. PICK a, b, c : /\ a = Cardinality(d.entries \ old)
                           /\ b = Cardinality(d.entries) /\ c = d.cap
        BY Zenon
      <3>2. a \in Nat /\ b \in Nat /\ c \in Nat /\ b <= c
        BY Zenon, <2>5, <3>1
      <3>3. a <= b - 1
        BY Zenon, <2>3, <2>4, <3>1
      <3>4. a + 1 <= c
        BY <3>2, <3>3
      <3> QED
        BY Zenon, <3>1, <3>4
    <2>7. MadeRoom(d, d, o)
      BY SMTT(30) DEF MadeRoom
    <2>8. PutIn(d, d, e, r)
      BY Zenon, <1>1, <1>4, <2>6 DEF PutIn
    <2>9. ChangedBy(d, d, r)
      BY Zenon, <2>7, <2>8, PutChanged
    <2> QED
      BY Zenon, <2>9 DEF ChangedBy
  <1>5. CASE old = {} /\ \E t \in new_slot(d) : r = Put(t, old, e)
    <2>1. PICK t \in new_slot(d) : r = Put(t, old, e)
      BY <1>5
    <2>2. t.entries \ old = t.entries
      BY <1>5
    <2>3. /\ t \in Tables /\ t.cooldown = d.cooldown
          /\ Storable(t.entries, t.cap) /\ Cardinality(t.entries) + 1 <= t.cap
      BY NewSlotFacts
    <2>4. PICK x : MadeRoom(d, t, x)
      BY NewSlotFacts
    <2>5. PutIn(d, t, e, r)
      BY Zenon, <1>1, <2>1, <2>2, <2>3 DEF PutIn
    <2>6. ChangedBy(d, t, r)
      BY Zenon, <2>4, <2>5, PutChanged
    <2> QED
      BY Zenon, <2>3, <2>6 DEF ChangedBy
  <1> QED
    BY Zenon, <1>2, <1>3, <1>4, <1>5

\* Cooldown slots are freed, and none is taken.
OnlyFrees(t, u) ==
    /\ DOMAIN u = DOMAIN t
    /\ \A i \in DOMAIN t : u[i].host = t[i].host \/ u[i].host = ""

\* A success frees the host's cooldown slots.
LEMMA ClearFacts ==
    ASSUME NEW d \in Tables, NEW h \in Hosts
    PROVE  LET c == clear_cooldown(d, h) IN
           /\ c \in Tables
           /\ c.entries = d.entries /\ c.cap = d.cap /\ c.dirty = d.dirty
           /\ OnlyFrees(d.cooldown, c.cooldown)
  <1> DEFINE Freed(x) == IF x.host = h THEN [x EXCEPT !.host = ""] ELSE x
             cd == [i \in DOMAIN d.cooldown |-> Freed(d.cooldown[i])]
  <1>1. d.cooldown \in [1..TP_COOLDOWN_MAX -> Cooldowns]
    BY DEF Tables
  <1>2. \A x \in Cooldowns : Freed(x) \in Cooldowns
                             /\ (Freed(x).host = x.host \/ Freed(x).host = "")
    BY Zenon DEF Cooldowns
  <1>3. clear_cooldown(d, h) = [d EXCEPT !.cooldown = cd]
    BY DEF clear_cooldown, Tables
  <1> HIDE DEF Freed
  <1>4. /\ cd \in [1..TP_COOLDOWN_MAX -> Cooldowns] /\ DOMAIN cd = DOMAIN d.cooldown
        /\ \A i \in DOMAIN d.cooldown :
              cd[i].host = d.cooldown[i].host \/ cd[i].host = ""
    BY Zenon, <1>1, <1>2
  <1> HIDE DEF cd
  <1>5. PICK c : c = [d EXCEPT !.cooldown = cd]
    BY Zenon
  <1>6. /\ c \in Tables /\ c.cooldown = cd
        /\ c.entries = d.entries /\ c.cap = d.cap /\ c.dirty = d.dirty
    BY Zenon, <1>4, <1>5 DEF Tables
  <1> QED
    BY <1>3, <1>4, <1>5, <1>6, Zenon DEF OnlyFrees

\* tp_decision_success(): slots are freed and none is taken.
LEMMA SuccessFacts ==
    ASSUME NEW d \in Tables, Storable(d.entries, d.cap), NEW h \in Hosts,
           NEW f \in Fingerprints, NEW fam \in Families, NEW t \in Nat,
           NEW step \in Steps, NEW r \in tp_decision_success(d, h, f, fam, t, step)
    PROVE  /\ Changed(d, r)
           /\ OnlyFrees(d.cooldown, r.cooldown)
  <1>1. PICK c : c = clear_cooldown(d, h)
    OBVIOUS
  <1>2. PICK new : new = [host |-> h, fp |-> f, family |-> fam, step |-> step,
                          validated_at |-> t]
    BY Zenon
  <1>3. /\ c \in Tables
        /\ c.entries = d.entries /\ c.cap = d.cap /\ c.dirty = d.dirty
        /\ OnlyFrees(d.cooldown, c.cooldown)
    BY <1>1, ClearFacts, Zenon
  <1>4. Storable(c.entries, c.cap)
    BY <1>3
  <1>5. \/ r = c
        \/ r = remove_entry(c, h, f, fam)
        \/ f # NETFP_UNKNOWN /\ ~is_direct(step) /\ r \in store(c, new)
    BY <1>1, <1>2 DEF tp_decision_success
  <1>6. Changed(c, r) /\ r.cooldown = c.cooldown
    <2>1. CASE r = c
      <3>1. /\ r \in Tables /\ Storable(r.entries, r.cap)
            /\ r.entries = c.entries /\ r.dirty = c.dirty /\ r.cooldown = c.cooldown
        BY Zenon, <1>3, <1>4, <2>1
      <3>2. r.entries \subseteq c.entries
        BY Zenon, <3>1
      <3>3. Evicts(c, r)
        BY Zenon, <3>2, NoNewEntry
      <3> QED
        BY Zenon, <3>1, <3>3 DEF Changed
    <2>2. CASE r = remove_entry(c, h, f, fam)
      <3>1. c \in Tables
        BY Zenon, <1>3
      <3>2. Removed(c, h, f, fam, r)
        BY Zenon, <2>2 DEF Removed
      <3> QED
        BY Zenon, <1>4, <3>1, <3>2, RemoveChanged
    <2>3. CASE f # NETFP_UNKNOWN /\ ~is_direct(step) /\ r \in store(c, new)
      <3>1. step # direct /\ f \in Nets
        BY <2>3 DEF is_direct, Fingerprints
      <3>2. new \in Decisions
        BY <1>2, <3>1 DEF Decisions
      <3> QED
        BY Zenon, <1>3, <1>4, <2>3, <3>2, StoreChanged
    <2> QED
      BY Zenon, <1>5, <2>1, <2>2, <2>3
  <1>7. Changed(d, r)
    BY Zenon, <1>3, <1>6 DEF Changed, Evicts
  <1> QED
    BY Zenon, <1>3, <1>6, <1>7

\* The slot k that slot_for() chooses among 1..n: the key's own, else a free
\* one, else one of those that end soonest.
SlotChosen(n, t, mine, clk, k) ==
    /\ k \in 1..n
    /\ mine # {} => k \in mine
    /\ mine = {} =>
          \/ t[k].host = "" \/ t[k].until <= clk
          \/ \A j \in 1..n : /\ t[j].host # "" /\ ~(t[j].until <= clk)
                             /\ t[k].until <= t[j].until

\* "Later" and "not yet over" are the same.
LEMMA Later == \A a, b \in Nat : b > a <=> ~(b <= a)
  OBVIOUS

\* What slot_for() returns.
LEMMA SlotChoice ==
    ASSUME NEW n \in Nat \ {0}, NEW t, t \in [1..n -> Cooldowns],
           NEW mine \in SUBSET (1..n), NEW clk \in Nat
    PROVE  SlotChosen(n, t, mine, clk, slot_for(t, mine, clk))
  <1>1. PICK free : free = {i \in 1..n : t[i].host = "" \/ t[i].until <= clk}
    BY Zenon
  <1>2. PICK soonest : soonest = {i \in 1..n : \A j \in 1..n : t[i].until <= t[j].until}
    BY Zenon
  <1>3. PICK S : S = IF mine # {} THEN mine ELSE IF free # {} THEN free ELSE soonest
    OBVIOUS
  <1>4. slot_for(t, mine, clk) = Min(S)
    <2>1. DOMAIN t = 1..n
      OBVIOUS
    <2> QED
      BY Zenon, <1>1, <1>2, <1>3, <2>1 DEF slot_for
  <1>5. soonest # {}
    <2>1. PICK U : U = {t[i].until : i \in 1..n}
      BY Zenon
    <2>2. \A i \in 1..n : t[i].until \in Nat
      BY Zenon DEF Cooldowns
    <2>3. U \subseteq Nat
      BY <2>1, <2>2
    <2>4. U # {}
      <3>1. 1 \in 1..n
        OBVIOUS
      <3> QED
        BY Zenon, <2>1, <3>1
    <2>5. PICK u \in U : \A y \in U : u <= y
      BY Zenon, <2>3, <2>4, LeastNumber
    <2>6. PICK i \in 1..n : u = t[i].until
      BY <2>1
    <2>7. \A j \in 1..n : t[i].until <= t[j].until
      BY <2>1, <2>5, <2>6
    <2> QED
      BY <1>2, <2>7
  <1>6. S \subseteq 1..n /\ S # {}
    BY Zenon, <1>1, <1>2, <1>3, <1>5
  <1>7. S \subseteq Nat
    BY <1>6
  <1>8. PICK k : k = Min(S) /\ k \in S
    BY Zenon, <1>6, <1>7, MinIsMember
  <1>9. k \in 1..n
    BY <1>6, <1>8
  <1>10. mine = {} => \/ t[k].host = "" \/ t[k].until <= clk
                      \/ \A j \in 1..n : /\ t[j].host # "" /\ ~(t[j].until <= clk)
                                         /\ t[k].until <= t[j].until
    BY Zenon, <1>1, <1>2, <1>3, <1>8
  <1>11. mine # {} => k \in mine
    BY <1>3, <1>8
  <1> QED
    BY <1>4, <1>8, <1>9, <1>10, <1>11, Zenon DEF SlotChosen

\* A cooldown table in which host h took the slot that slot_for() gives it:
\* a running cooldown of another host is lost only if all are running, and
\* then the one that ends soonest.
Overwrites(t, u, clk) ==
    \A i, j \in DOMAIN t :
        /\ t[i].host # "" /\ t[i].until > clk
        /\ u[i].host \notin {"", t[i].host}
        => /\ t[j].host # "" /\ t[j].until > clk
           /\ t[i].until <= t[j].until

\* start_cooldown(): one slot per host stays one, and the soonest goes first.
LEMMA StartFacts ==
    ASSUME NEW d \in Tables, OneSlot(d.cooldown), NEW h \in Hosts, NEW clk \in Nat
    PROVE  \E c \in Tables :
              /\ c = start_cooldown(d, h, clk)
              /\ c.entries = d.entries /\ c.cap = d.cap /\ c.dirty = d.dirty
              /\ OneSlot(c.cooldown) /\ Overwrites(d.cooldown, c.cooldown, clk)
  <1>1. PICK t : t = d.cooldown
    OBVIOUS
  <1>2. PICK n : n = TP_COOLDOWN_MAX
    OBVIOUS
  <1>3. n \in Nat \ {0} /\ TP_COOLDOWN_SECONDS \in Nat
    BY <1>2, TableAssumption, Zenon
  <1>4. t \in [1..n -> Cooldowns]
    BY <1>1, <1>2 DEF Tables
  <1>5. PICK mine : mine = {i \in 1..n : t[i].host = h}
    BY Zenon
  <1>6. PICK k : k = slot_for(t, mine, clk) /\ SlotChosen(n, t, mine, clk, k)
    <2>1. mine \in SUBSET (1..n)
      BY <1>5
    <2> QED
      BY <1>3, <1>4, <2>1, SlotChoice, Zenon
  <1>6k. k \in 1..n /\ (mine # {} => k \in mine)
    BY Zenon, <1>6 DEF SlotChosen
  <1>7. PICK v : v = [host |-> h, until |-> clk + TP_COOLDOWN_SECONDS]
    BY Zenon
  <1>8. v \in Cooldowns /\ v.host = h
    <2>1. clk + TP_COOLDOWN_SECONDS \in Nat
      BY <1>3
    <2> QED
      BY Zenon, <1>7, <2>1 DEF Cooldowns
  <1>9. PICK u : u = [t EXCEPT ![k] = v]
    BY Zenon
  <1>10. u \in [1..n -> Cooldowns] /\ u[k] = v /\ \A i \in 1..n : i # k => u[i] = t[i]
    BY <1>4, <1>6k, <1>8, <1>9
  <1>11. PICK c : c = [d EXCEPT !.cooldown = u]
    BY Zenon
  <1>12. c \in Tables /\ c.cooldown = u
         /\ c.entries = d.entries /\ c.cap = d.cap /\ c.dirty = d.dirty
    BY <1>2, <1>10, <1>11 DEF Tables
  <1>13. start_cooldown(d, h, clk) = c
    <2>1. DOMAIN d.cooldown = 1..n
      BY <1>1, <1>4
    <2>2. mine = {i \in DOMAIN d.cooldown : d.cooldown[i].host = h}
      BY <1>1, <1>5, <2>1
    <2>3. k = slot_for(d.cooldown, {i \in DOMAIN d.cooldown : d.cooldown[i].host = h}, clk)
      BY <1>1, <1>6, <2>2
    <2>4. start_cooldown(d, h, clk) = [d EXCEPT !.cooldown[k] = v]
      BY <1>7, <2>3, Zenon DEF start_cooldown
    <2> QED
      BY <1>1, <1>9, <1>11, <2>4 DEF Tables
  <1>14. OneSlot(u)
    <2>1. \A i \in 1..n : i # k => t[i].host # h
      BY Zenon, <1>1, <1>4, <1>5, <1>6k, TableAssumption DEF OneSlot
    <2>2. \A i, j \in 1..n : t[i].host = t[j].host /\ i # j => t[i].host = ""
      BY Zenon, <1>1, <1>4 DEF OneSlot
    <2>3. DOMAIN u = 1..n
      BY <1>10
    <2> QED
      BY Zenon, <1>8, <1>10, <2>1, <2>2, <2>3 DEF OneSlot
  <1>15. Overwrites(t, u, clk)
    <2> SUFFICES ASSUME NEW i \in 1..n, NEW j \in 1..n,
                        t[i].host # "" /\ t[i].until > clk,
                        u[i].host \notin {"", t[i].host}
                 PROVE  /\ t[j].host # "" /\ t[j].until > clk
                        /\ t[i].until <= t[j].until
      BY Zenon, <1>4 DEF Overwrites
    <2>1. i = k
      BY Zenon, <1>10
    <2>2. mine = {}
      BY Zenon, <1>5, <1>6k, <1>8, <1>10, <2>1
    <2>3. t[i].until \in Nat /\ t[j].until \in Nat
      BY Zenon, <1>4 DEF Cooldowns
    <2>4. ~(t[i].until <= clk)
      BY <2>3, Later, Zenon
    <2>5. t[j].host # "" /\ ~(t[j].until <= clk) /\ t[k].until <= t[j].until
      BY <1>6, <2>1, <2>2, <2>4, Zenon DEF SlotChosen
    <2>6. t[j].until > clk
      BY <2>3, <2>5, Later, ZenonT(30)
    <2> QED
      BY <2>1, <2>5, <2>6, Zenon
  <1> QED
    BY <1>1, <1>12, <1>13, <1>14, <1>15

\* tp_decision_failure(): the cooldown starts and the decision goes.
LEMMA FailureFacts ==
    ASSUME NEW d \in Tables, Storable(d.entries, d.cap), OneSlot(d.cooldown),
           NEW h \in Hosts, NEW f, NEW fam, NEW clk \in Nat,
           NEW r, r = tp_decision_failure(d, h, f, fam, clk)
    PROVE  /\ Changed(d, r)
           /\ OneSlot(r.cooldown) /\ Overwrites(d.cooldown, r.cooldown, clk)
  <1>1. PICK c \in Tables :
           /\ c = start_cooldown(d, h, clk)
           /\ c.entries = d.entries /\ c.cap = d.cap /\ c.dirty = d.dirty
           /\ OneSlot(c.cooldown) /\ Overwrites(d.cooldown, c.cooldown, clk)
    BY StartFacts
  <1>2. Removed(c, h, f, fam, r)
    BY <1>1, Zenon DEF tp_decision_failure, Removed
  <1>3. Storable(c.entries, c.cap)
    BY Zenon, <1>1
  <1>4. Changed(c, r) /\ r.cooldown = c.cooldown
    BY Zenon, <1>2, <1>3, RemoveChanged
  <1>5. Changed(d, r)
    BY Zenon, <1>1, <1>4 DEF Changed, Evicts
  <1> QED
    BY Zenon, <1>1, <1>4, <1>5

\* The table a process starts with.
LEMMA InitTable ==
    /\ tp_decisions_init \in Tables /\ tp_decisions_init.entries = {}
    /\ tp_decisions_init.dirty = FALSE
    /\ Storable({}, tp_decisions_init.cap) /\ OneSlot(tp_decisions_init.cooldown)
    /\ \A i \in DOMAIN tp_decisions_init.cooldown : tp_decisions_init.cooldown[i].host = ""
  <1>1. PICK cd : cd = [i \in 1..TP_COOLDOWN_MAX |-> NoCooldown]
    BY Zenon
  <1>2. PICK db : db = [i \in 1..TP_DIRECT_BAD_MAX |-> NoMark]
    BY Zenon
  <1>3. cd \in [1..TP_COOLDOWN_MAX -> Cooldowns] /\ \A i \in DOMAIN cd : cd[i].host = ""
    BY Zenon, <1>1 DEF NoCooldown, Cooldowns
  <1>4. db \in [1..TP_DIRECT_BAD_MAX -> Marks]
    BY Zenon, <1>2 DEF NoMark, Marks, Fingerprints
  <1>5. PICK r : r = tp_decisions_init
    BY Zenon
  <1>6. r = [entries |-> {}, cap |-> 0, cooldown |-> cd, direct_bad |-> db, dirty |-> FALSE]
    BY Zenon, <1>1, <1>2, <1>5 DEF tp_decisions_init
  <1>7. 0 \in 0..TP_DECISIONS_MAX
    BY CapIsNat
  <1>8. r \in Tables /\ r.entries = {} /\ r.cap = 0 /\ r.cooldown = cd /\ r.dirty = FALSE
    BY Zenon, <1>3, <1>4, <1>6, <1>7 DEF Tables
  <1>9. Storable({}, 0)
    BY FS_EmptySet DEF Storable
  <1>10. OneSlot(cd)
    BY Zenon, <1>3 DEF OneSlot
  <1> QED
    BY Zenon, <1>3, <1>5, <1>8, <1>9, <1>10

\* The line m as it stands in the file, or cut in its last field.
CutFrom(m, l) == /\ m = [l EXCEPT !.validated_at = m.validated_at]
                 /\ m.validated_at <= l.validated_at

\* What read_file() returns are lines of the file, one of them perhaps cut.
LEMMA ReadFileFacts ==
    ASSUME NEW lines, lines \subseteq Lines, NEW text \in read_file(lines), NEW u \in text
    PROVE  /\ u \in Lines
           /\ u \in lines \/ (text # lines /\ \E l \in lines : CutFrom(u, l))
  <1>1. CASE u \in lines
    BY <1>1
  <1>2. CASE u \notin lines
    <2>1. PICK l \in lines : \E rest \in SUBSET (lines \ {l}), c \in cut(l) : text = rest \cup {c}
      <3>1. text \notin SUBSET lines
        BY Zenon, <1>2
      <3>2. PICK l \in lines :
               text \in {rest \cup {c} : rest \in SUBSET (lines \ {l}), c \in cut(l)}
        BY <3>1 DEF read_file
      <3> QED
        BY <3>2
    <2>2. PICK t \in 0..l.validated_at : u = [l EXCEPT !.validated_at = t]
      BY Zenon, <1>2, <2>1 DEF cut
    <2>3. l.validated_at \in Nat
      BY DEF Lines
    <2>4. t \in Nat /\ t <= l.validated_at
      BY <2>2, <2>3
    <2>5. u \in Lines /\ u.validated_at = t
      BY <2>2, <2>4 DEF Lines
    <2>6. CutFrom(u, l)
      BY Zenon, <2>2, <2>4, <2>5 DEF CutFrom
    <2> QED
      BY Zenon, <1>2, <2>5, <2>6
  <1> QED
    BY Zenon, <1>1, <1>2

\* A usable line is a decision, and a decision a usable line.
LEMMA UsableLines ==
    /\ \A l \in Lines : usable(l) => l \in Decisions
    /\ \A e \in Decisions : usable(e) /\ e \in Lines
  <1>1. NETFP_UNKNOWN \notin Nets
    BY TableAssumption, Zenon
  <1> QED
    BY <1>1 DEF usable, is_direct, Lines, Decisions, Fingerprints

\* What is in the text of the file is recorded in the file.
LEMMA RecordedByCut ==
    ASSUME NEW u, u \in file \/ (load_failed /\ \E l \in file : CutFrom(u, l))
    PROVE  Recorded(u)
  BY Zenon DEF Recorded, CutFrom

\* store() adds its entry and no other.
LEMMA StoreAdds ==
    ASSUME NEW d \in Tables, Storable(d.entries, d.cap), NEW e \in Decisions,
           NEW r \in store(d, e)
    PROVE  r.entries \subseteq d.entries \cup {e}
  <1>1. PICK old : old = find(d, e.host, e.fp, e.family)
    OBVIOUS
  <1>2. \/ r = d \/ r = Put(d, old, e)
        \/ \E t \in new_slot(d) : r = Put(t, old, e)
    BY Zenon, <1>1 DEF store, Put
  <1>3. \A t \in Tables : Put(t, old, e).entries = (t.entries \ old) \cup {e}
    BY DEF Put, Tables
  <1>4. CASE r = d
    BY <1>4
  <1>5. CASE r = Put(d, old, e)
    BY Zenon, <1>3, <1>5
  <1>6. ASSUME NEW t \in new_slot(d), r = Put(t, old, e)
        PROVE  r.entries \subseteq d.entries \cup {e}
    <2>1. t \in Tables /\ \E x : MadeRoom(d, t, x)
      BY Zenon, NewSlotFacts
    <2>2. t.entries \subseteq d.entries
      BY Zenon, <2>1 DEF MadeRoom
    <2> QED
      BY Zenon, <1>3, <1>6, <2>1, <2>2
  <1> QED
    BY Zenon, <1>2, <1>4, <1>5, <1>6

\* store() in a table below its limit costs no key, if no realloc() failed.
LEMMA StoreKeeps ==
    ASSUME NEW d \in Tables, Storable(d.entries, d.cap), NEW e \in Decisions,
           NEW r \in store(d, e), ~realloc_failed(d, r, e),
           find(d, e.host, e.fp, e.family) = {} => Cardinality(d.entries) < TP_DECISIONS_MAX
    PROVE  /\ \A x : HasKey(d.entries, x) => HasKey(r.entries, x)
           /\ HasKey(r.entries, e)
  <1>1. PICK old : old = find(d, e.host, e.fp, e.family)
    OBVIOUS
  <1>2. \A t \in Tables : /\ Put(t, old, e).entries = (t.entries \ old) \cup {e}
                          /\ Put(t, old, e).cap = t.cap
    BY DEF Put, Tables
  <1>3. ASSUME NEW t \in Tables, t.entries = d.entries, r = Put(t, old, e)
        PROVE  /\ \A x : HasKey(d.entries, x) => HasKey(r.entries, x)
               /\ HasKey(r.entries, e)
    <2>1. r.entries = (d.entries \ old) \cup {e}
      BY Zenon, <1>2, <1>3
    <2>2. \A y \in old : y.host = e.host /\ y.fp = e.fp /\ y.family = e.family
      BY Zenon, <1>1 DEF find
    <2> QED
      BY Zenon, <2>1, <2>2 DEF HasKey
  <1>4. CASE old # {}
    <2>1. r = Put(d, old, e)
      BY Zenon, <1>1, <1>4 DEF store, Put
    <2> QED
      BY Zenon, <1>3, <2>1
  <1>5. CASE old = {}
    <2>1. /\ d.cap \in Nat /\ Cardinality(d.entries) \in Nat
          /\ Cardinality(d.entries) <= d.cap /\ TP_DECISIONS_MAX \in Nat
      BY CapIsNat, FS_CardinalityType DEF Storable
    <2>2. Cardinality(d.entries) < TP_DECISIONS_MAX
      BY Zenon, <1>1, <1>5
    <2>3. ~(Cardinality(d.entries) = d.cap /\ d.cap < TP_DECISIONS_MAX /\ r.cap = d.cap)
      BY Zenon, <1>1, <1>5 DEF realloc_failed
    <2>4. r # d
      <3>1. r = d => d.cap = 0
        <4>1. \A t \in new_slot(d) : e \in Put(t, old, e).entries
          BY Zenon, <1>2, NewSlotFacts
        <4>2. e \notin d.entries
          BY Zenon, <1>1, <1>5 DEF find
        <4> QED
          BY Zenon, <1>1, <1>5, <4>1, <4>2 DEF store, Put
      <3> QED
        BY <2>1, <2>2, <2>3, <3>1
    <2>5. PICK t \in new_slot(d) : r = Put(t, old, e)
      BY Zenon, <1>1, <1>5, <2>4 DEF store, Put
    <2>6. t \in Tables
      BY Zenon, NewSlotFacts
    <2>7. t \notin evict_oldest(d) \/ Cardinality(d.entries) < d.cap
      <3>1. t \in evict_oldest(d) => t.cap = d.cap
        BY DEF evict_oldest, Tables
      <3>2. r.cap = t.cap
        BY Zenon, <1>2, <2>5, <2>6
      <3> QED
        BY <2>1, <2>2, <2>3, <3>1, <3>2
    <2>8. t.entries = d.entries
      <3>1. [d EXCEPT !.cap = grown_cap(@)].entries = d.entries
        BY DEF Tables
      <3>2. Cardinality(d.entries) < d.cap => t = d
        BY Zenon, <2>5 DEF new_slot
      <3>3. ~(Cardinality(d.entries) < d.cap) =>
               t = [d EXCEPT !.cap = grown_cap(@)] \/ t \in evict_oldest(d)
        BY Zenon, <2>5 DEF new_slot
      <3> QED
        BY Zenon, <2>7, <3>1, <3>2, <3>3
    <2> QED
      BY Zenon, <1>3, <2>5, <2>6, <2>8
  <1> QED
    BY Zenon, <1>4, <1>5

\* parse_line() leaves a table that can be held, as clean as it was, with the
\* line as its only new entry.
LEMMA ParseLineFacts ==
    ASSUME NEW d \in Tables, Storable(d.entries, d.cap), NEW l \in Lines,
           NEW r \in parse_line(d, l)
    PROVE  /\ r \in Tables /\ Storable(r.entries, r.cap) /\ Evicts(d, r)
           /\ r.dirty = d.dirty /\ r.cooldown = d.cooldown
           /\ r.entries \subseteq d.entries \cup {l}
  <1>1. CASE ~usable(l)
    <2>1. r = d
      BY Zenon, <1>1 DEF parse_line
    <2> QED
      BY <2>1, NoNewEntry
  <1>2. CASE usable(l)
    <2>1. l \in Decisions
      BY Zenon, <1>2, UsableLines
    <2>2. PICK t \in store(d, l) : r = [t EXCEPT !.dirty = d.dirty]
      BY Zenon, <1>2 DEF parse_line
    <2>3. Changed(d, t) /\ t.cooldown = d.cooldown
      BY Zenon, <2>1, StoreChanged
    <2>4. t \in Tables /\ Storable(t.entries, t.cap) /\ Evicts(d, t)
      BY Zenon, <2>3 DEF Changed
    <2>5. d.dirty \in BOOLEAN
      BY DEF Tables
    <2>6. /\ r \in Tables /\ r.entries = t.entries /\ r.cap = t.cap
          /\ r.cooldown = t.cooldown /\ r.dirty = d.dirty
      BY Zenon, <2>2, <2>4, <2>5 DEF Tables
    <2>7. t.entries \subseteq d.entries \cup {l}
      BY Zenon, <2>1, StoreAdds
    <2>8. Evicts(d, r)
      BY Zenon, <2>4, <2>6 DEF Evicts, find
    <2> QED
      BY Zenon, <2>3, <2>4, <2>6, <2>7, <2>8
  <1> QED
    BY Zenon, <1>1, <1>2

\* A file has finitely many keys.
LEMMA KeysFinite ==
    ASSUME NEW lines, IsFiniteSet(lines)
    PROVE  IsFiniteSet(UsableKeys(lines))
  <1>1. PICK K : K = UsableKeys(lines)
    BY Zenon
  <1>2. PICK S : S = {x \in lines : usable(x)}
    BY Zenon
  <1>3. IsFiniteSet(S)
    <2>1. S \in SUBSET lines
      BY Zenon, <1>2
    <2> QED
      BY Zenon, <2>1, FS_Subset
  <1>4. PICK g : g = [x \in S |-> KeyOf(x)]
    BY Zenon
  <1>5. K = {KeyOf(x) : x \in S}
    BY Zenon, <1>1, <1>2 DEF UsableKeys
  <1>6. g \in [S -> K] /\ \A k \in K : \E x \in S : g[x] = k
    BY Zenon, <1>4, <1>5
  <1>7. g \in Surjection(S, K)
    BY Zenon, <1>6 DEF Surjection
  <1> QED
    BY Zenon, <1>1, <1>3, <1>7, FS_Surjection

\* Entries of different keys, all of them keys of usable lines of the file,
\* are no more than these keys.
LEMMA EntriesFit ==
    ASSUME NEW es, NEW n, Storable(es, n), NEW lines, lines \subseteq Lines,
           IsFiniteSet(lines), es \subseteq lines, NEW l \in lines, usable(l),
           ~HasKey(es, l)
    PROVE  Cardinality(es) < Cardinality(UsableKeys(lines))
  <1>1. PICK K : K = UsableKeys(lines)
    BY Zenon
  <1>2. PICK S : S = {x \in lines : usable(x)}
    BY Zenon
  <1>4. IsFiniteSet(K) /\ Cardinality(K) \in Nat
    BY Zenon, <1>1, KeysFinite, FS_CardinalityType
  <1>5. PICK T : T = es \cup {l}
    BY Zenon
  <1>6. l \notin es
    BY Zenon DEF HasKey
  <1>7. T \subseteq S
    BY Zenon, <1>2, <1>5, UsableLines DEF Storable
  <1>8. PICK f : f = [x \in T |-> KeyOf(x)]
    BY Zenon
  <1>9. f \in [T -> K]
    BY Zenon, <1>1, <1>2, <1>7, <1>8 DEF UsableKeys
  <1>10. \A a, b \in T : f[a] = f[b] => a = b
    <2>1. \A a, b \in T : KeyOf(a) = KeyOf(b) =>
              a.host = b.host /\ a.fp = b.fp /\ a.family = b.family
      BY DEF KeyOf
    <2>2. \A a, b \in es : KeyOf(a) = KeyOf(b) => a = b
      <3>1. es \subseteq T
        BY Zenon, <1>5
      <3>2. \A a, b \in es : a.host = b.host /\ a.fp = b.fp /\ a.family = b.family => a = b
        BY Zenon DEF Storable
      <3> QED
        BY Zenon, <2>1, <3>1, <3>2
    <2>3. \A a \in es : KeyOf(a) # KeyOf(l)
      BY Zenon, <1>5, <2>1 DEF HasKey
    <2>4. \A a, b \in T : KeyOf(a) = KeyOf(b) => a = b
      BY Zenon, <1>5, <2>2, <2>3
    <2> QED
      BY Zenon, <1>8, <2>4
  <1>11. f \in Injection(T, K)
    BY Zenon, <1>9, <1>10 DEF Injection, IsInjective
  <1>12. Cardinality(T) <= Cardinality(K)
    BY Zenon, <1>4, <1>11, FS_Injection
  <1>13. IsFiniteSet(es) /\ Cardinality(es) \in Nat /\ Cardinality(T) = Cardinality(es) + 1
    BY Zenon, <1>5, <1>6, FS_AddElement, FS_CardinalityType DEF Storable
  <1>14. Cardinality(es) < Cardinality(K)
    BY <1>4, <1>12, <1>13
  <1> QED
    BY Zenon, <1>1, <1>14

\* A process starts with an empty table and a file to load.
LEMMA StoreInitInv == StoreInit => StoreInv
  <1> SUFFICES ASSUME StoreInit PROVE StoreInv
    OBVIOUS
  <1>1. /\ dec = tp_decisions_init /\ now = 0 /\ pending = <<>>
        /\ unread \in read_file(file) /\ load_failed = (unread # file)
    BY DEF StoreInit
  <1>2. file \subseteq Lines /\ IsFiniteSet(file)
    BY Zenon, StoreAssumption DEF StoreInit
  <1>3. /\ dec \in Tables /\ dec.entries = {} /\ Storable(dec.entries, dec.cap)
        /\ OneSlot(dec.cooldown) /\ dec.dirty = FALSE
    BY Zenon, <1>1, InitTable
  <1>4. LoadOK
    <2>1. \A u \in unread : u \in Lines /\ Recorded(u)
      BY Zenon, <1>1, <1>2, ReadFileFacts, RecordedByCut
    <2> QED
      BY <1>1, <1>3, <2>1 DEF LoadOK
  <1>5. FileCurrentUnlessWriteFailed
    BY Zenon, <1>3 DEF FileCurrentUnlessWriteFailed
  <1>6. KeptSoFar
    BY Zenon, <1>1 DEF KeptSoFar
  <1> QED
    BY <1>1, <1>2, <1>3, <1>4, <1>5, <1>6 DEF StoreInv

\* What connections and the verifier may do to the table keeps the invariant.
LEMMA ChangedInv ==
    ASSUME StoreInv, Changed(dec, dec'), OneSlot(dec'.cooldown), unread = {},
           UNCHANGED <<now, unread, load_failed, files>>
    PROVE  StoreInv'
  <1>0. /\ now' = now /\ unread' = {} /\ load_failed' = load_failed /\ unread' = unread
        /\ file' = file /\ pending' = pending /\ write_failed' = write_failed
    BY DEF files
  <1>1. dec \in Tables /\ dec' \in Tables /\ Storable(dec'.entries, dec'.cap)
    BY DEF StoreInv, Changed
  <1>2. ~dec'.dirty => dec'.entries = dec.entries /\ ~dec.dirty
    BY DEF Changed
  <1>3. pending # <<>> /\ ~dec'.dirty => pending[1] = dec'.entries
    BY <1>2, SMTT(30) DEF StoreInv
  <1>4. FileCurrentUnlessWriteFailed'
    <2>1. \A e : Recorded(e) => Recorded(e)'
      <3>1. file' = file /\ (load_failed => load_failed')
        BY <1>0
      <3> QED
        BY Zenon, <3>1 DEF Recorded
    <2>2. FileCurrentUnlessWriteFailed
      BY DEF StoreInv
    <2> QED
      BY Zenon, <1>0, <1>2, <2>1, <2>2 DEF FileCurrentUnlessWriteFailed
  <1>5. LoadOK'
    BY Zenon, <1>0 DEF LoadOK
  <1>6. KeptSoFar'
    <2>1. KeptSoFar
      BY DEF StoreInv
    <2> QED
      BY <1>0, <1>2, <2>1 DEF KeptSoFar
  <1>7. /\ now' \in Nat /\ file' \subseteq Lines /\ IsFiniteSet(file')
        /\ pending' # <<>> => pending' = <<pending'[1]>> /\ Storable(pending'[1], TP_DECISIONS_MAX)
    BY Zenon, <1>0 DEF StoreInv
  <1> QED
    BY Zenon, <1>0, <1>1, <1>3, <1>4, <1>5, <1>6, <1>7 DEF StoreInv

\* A round of the load keeps the invariant: the table gains nothing but the
\* line, and loses no key as long as no realloc() failed.
LEMMA ParseInv ==
    ASSUME StoreInv, NEW l \in unread, tp_decisions_parse(l)
    PROVE  StoreInv'
  <1>0. /\ dec \in Tables /\ Storable(dec.entries, dec.cap) /\ OneSlot(dec.cooldown)
        /\ file \subseteq Lines /\ IsFiniteSet(file) /\ now \in Nat
        /\ FileCurrentUnlessWriteFailed /\ KeptSoFar
    BY DEF StoreInv
  <1>1. /\ unread \subseteq Lines /\ \A u \in unread : Recorded(u)
        /\ ~dec.dirty /\ pending = <<>>
    BY Zenon DEF StoreInv, LoadOK
  <1>2. /\ unread' = unread \ {l} /\ dec' \in parse_line(dec, l)
        /\ UNCHANGED <<now, file, pending, write_failed>>
        /\ load_failed' = (load_failed \/ (usable(l) /\ realloc_failed(dec, dec', l)))
    BY DEF tp_decisions_parse, files
  <1>3. l \in Lines
    BY Zenon, <1>1
  <1>4. /\ dec' \in Tables /\ Storable(dec'.entries, dec'.cap)
        /\ dec'.dirty = dec.dirty /\ dec'.cooldown = dec.cooldown
        /\ dec'.entries \subseteq dec.entries \cup {l}
    BY Zenon, <1>0, <1>2, <1>3, ParseLineFacts
  <1>5. \A e : Recorded(e) => Recorded(e)'
    BY Zenon, <1>2 DEF Recorded
  <1>6. LoadOK'
    BY Zenon, <1>1, <1>2, <1>4, <1>5 DEF LoadOK
  <1>7. FileCurrentUnlessWriteFailed'
    <2>1. ~write_failed => \A e \in dec.entries : Recorded(e)
      BY Zenon, <1>0, <1>1 DEF FileCurrentUnlessWriteFailed
    <2>2. ~write_failed => \A e \in dec'.entries : Recorded(e)'
      BY Zenon, <1>1, <1>4, <1>5, <2>1
    <2> QED
      BY Zenon, <1>2, <2>2 DEF FileCurrentUnlessWriteFailed
  <1>8. KeptSoFar'
    <2> SUFFICES ASSUME ~write_failed, ~load_failed', Cardinality(UsableKeys(file)) <= TP_DECISIONS_MAX,
                        NEW m \in file, usable(m), m \notin unread'
                 PROVE  HasKey(dec'.entries, m)
      BY Zenon, <1>2 DEF KeptSoFar
    <2>1. ~load_failed /\ ~(usable(l) /\ realloc_failed(dec, dec', l))
      BY Zenon, <1>2
    <2>2. \A x \in file : usable(x) => x \in unread \/ HasKey(dec.entries, x)
      BY Zenon, <1>0, <1>1, <2>1 DEF KeptSoFar
    <2>3. CASE ~usable(l)
      <3>1. dec' = dec /\ m # l
        BY Zenon, <1>2, <2>3 DEF parse_line
      <3>2. m \notin unread
        BY Zenon, <1>2, <3>1
      <3> QED
        BY Zenon, <2>2, <3>1, <3>2
    <2>4. CASE usable(l)
      <3>1. l \in Decisions /\ l \in file
        BY Zenon, <1>1, <1>3, <2>1, <2>4, UsableLines DEF Recorded
      <3>2. PICK t \in store(dec, l) : dec' = [t EXCEPT !.dirty = dec.dirty]
        BY Zenon, <1>2, <2>4 DEF parse_line
      <3>3. t \in Tables
        BY Zenon, <1>0, <3>1, StoreChanged DEF Changed
      <3>4. dec'.entries = t.entries /\ dec'.cap = t.cap
        BY Zenon, <3>2, <3>3 DEF Tables
      <3>5. ~realloc_failed(dec, t, l)
        BY Zenon, <2>1, <2>4, <3>4 DEF realloc_failed
      <3>6. dec.entries \subseteq file
        BY Zenon, <1>0, <1>1, <2>1 DEF FileCurrentUnlessWriteFailed, Recorded
      <3>7. find(dec, l.host, l.fp, l.family) = {} => Cardinality(dec.entries) < TP_DECISIONS_MAX
        <4> SUFFICES ASSUME find(dec, l.host, l.fp, l.family) = {}
                     PROVE  Cardinality(dec.entries) < TP_DECISIONS_MAX
          OBVIOUS
        <4>1. ~HasKey(dec.entries, l)
          BY Zenon DEF find, HasKey
        <4>2. Cardinality(dec.entries) < Cardinality(UsableKeys(file))
          BY Zenon, <1>0, <2>4, <3>1, <3>6, <4>1, EntriesFit
        <4>3. Cardinality(dec.entries) \in Nat /\ TP_DECISIONS_MAX \in Nat
          BY Zenon, <1>0, CapIsNat, FS_CardinalityType DEF Storable
        <4>4. Cardinality(UsableKeys(file)) \in Nat
          BY Zenon, <1>0, KeysFinite, FS_CardinalityType
        <4>5. PICK a, b, c : /\ a = Cardinality(dec.entries) /\ b = Cardinality(UsableKeys(file))
                             /\ c = TP_DECISIONS_MAX
          BY Zenon
        <4>6. a \in Nat /\ b \in Nat /\ c \in Nat /\ a < b /\ b <= c
          BY Zenon, <4>2, <4>3, <4>4, <4>5
        <4>7. a < c
          BY <4>6
        <4> QED
          BY Zenon, <4>5, <4>7
      <3>8. /\ \A x : HasKey(dec.entries, x) => HasKey(t.entries, x)
            /\ HasKey(t.entries, l)
        BY Zenon, <1>0, <3>1, <3>5, <3>7, StoreKeeps
      <3>9. m = l \/ HasKey(dec.entries, m)
        BY Zenon, <1>2, <2>2
      <3> QED
        BY Zenon, <3>4, <3>8, <3>9
    <2> QED
      BY Zenon, <2>3, <2>4
  <1> QED
    BY Zenon, <1>0, <1>1, <1>2, <1>4, <1>6, <1>7, <1>8 DEF StoreInv

\* Every step keeps the invariant.
LEMMA StoreNextInv == StoreInv /\ [StoreNext]_store_vars => StoreInv'
  <1> SUFFICES ASSUME StoreInv, [StoreNext]_store_vars PROVE StoreInv'
    OBVIOUS
  <1>0. dec \in Tables /\ Storable(dec.entries, dec.cap) /\ OneSlot(dec.cooldown) /\ now \in Nat
    BY DEF StoreInv
  <1>1. ASSUME NEW h \in Hosts, NEW n \in Fingerprints, NEW f \in Families,
               NEW s \in LearnSteps, succeed(h, n, f, s)
        PROVE  StoreInv'
    <2>1. s \in Steps
      BY StoreAssumption
    <2>2. dec' \in tp_decision_success(dec, h, n, f, now, s)
      BY <1>1 DEF succeed
    <2>3. Changed(dec, dec') /\ OnlyFrees(dec.cooldown, dec'.cooldown)
      BY <1>0, <2>1, <2>2, SuccessFacts, SMTT(30)
    <2>4. OneSlot(dec'.cooldown)
      BY Zenon, <1>0, <2>3 DEF OneSlot, OnlyFrees
    <2> QED
      <3>1. unread = {} /\ UNCHANGED <<now, unread, load_failed, files>>
        BY Zenon, <1>1 DEF succeed
      <3> QED
        BY Zenon, <2>3, <2>4, <3>1, ChangedInv
  <1>2. ASSUME NEW h \in Hosts, NEW n \in Fingerprints, NEW f \in Families, fail(h, n, f)
        PROVE  StoreInv'
    <2>1. Changed(dec, dec') /\ OneSlot(dec'.cooldown)
      BY <1>0, <1>2, FailureFacts DEF fail
    <2> QED
      <3>1. unread = {} /\ UNCHANGED <<now, unread, load_failed, files>>
        BY Zenon, <1>2 DEF fail
      <3> QED
        BY Zenon, <2>1, <3>1, ChangedInv
  <1>3. CASE network_changed
    <2>1. PICK cd : cd = [i \in DOMAIN dec.cooldown |-> NoCooldown]
      BY Zenon
    <2>2. PICK db : db = [i \in DOMAIN dec.direct_bad |-> NoMark]
      BY Zenon
    <2>3. dec' = [dec EXCEPT !.cooldown = cd, !.direct_bad = db]
      BY <1>3, <2>1, <2>2 DEF network_changed, tp_decisions_network_changed
    <2>4. cd \in [1..TP_COOLDOWN_MAX -> Cooldowns]
      BY Zenon, <1>0, <2>1 DEF Tables, NoCooldown, Cooldowns
    <2>4h. \A i \in DOMAIN cd : cd[i].host = ""
      BY Zenon, <2>1 DEF NoCooldown
    <2>5. db \in [1..TP_DIRECT_BAD_MAX -> Marks]
      BY Zenon, <1>0, <2>2 DEF Tables, NoMark, Marks, Fingerprints
    <2>6. /\ dec' \in Tables /\ dec'.cooldown = cd
          /\ dec'.entries = dec.entries /\ dec'.cap = dec.cap /\ dec'.dirty = dec.dirty
      BY Zenon, <1>0, <2>3, <2>4, <2>5 DEF Tables
    <2>7. OneSlot(dec'.cooldown)
      BY Zenon, <2>4h, <2>6 DEF OneSlot
    <2>8. Changed(dec, dec')
      BY <1>0, <2>6, NoNewEntry DEF Changed
    <2> QED
      <3>1. unread = {} /\ UNCHANGED <<now, unread, load_failed, files>>
        BY Zenon, <1>3 DEF network_changed
      <3> QED
        BY Zenon, <2>7, <2>8, <3>1, ChangedInv
  <1>4. CASE save_begin
    <2>1. /\ dec' \in Tables /\ dec'.cooldown = dec.cooldown /\ dec'.entries = dec.entries
          /\ dec'.cap = dec.cap /\ dec'.dirty = FALSE
      BY Zenon, <1>0, <1>4 DEF save_begin, Tables
    <2>2. pending' = <<dec.entries>> /\ pending' # <<>> /\ pending'[1] = dec.entries
      BY <1>4 DEF save_begin, tp_decisions_serialize
    <2>3. Storable(dec.entries, TP_DECISIONS_MAX)
      <3>1. dec.cap \in 0..TP_DECISIONS_MAX
        BY <1>0 DEF Tables
      <3>2. Cardinality(dec.entries) \in Nat
        BY <1>0, FS_CardinalityType DEF Storable
      <3> QED
        BY <1>0, <3>1, <3>2, CapIsNat DEF Storable
    <2>4. FileCurrentUnlessWriteFailed' /\ KeptSoFar'
      BY <2>2 DEF FileCurrentUnlessWriteFailed, KeptSoFar
    <2>5. unread = {} /\ UNCHANGED <<now, unread, load_failed, file, write_failed>>
      BY <1>4 DEF save_begin
    <2>6. LoadOK'
      BY Zenon, <2>5 DEF LoadOK
    <2>7. file' \subseteq Lines /\ IsFiniteSet(file') /\ now' \in Nat
      BY Zenon, <2>5 DEF StoreInv
    <2> QED
      BY Zenon, <1>0, <2>1, <2>2, <2>3, <2>4, <2>6, <2>7 DEF StoreInv
  <1>5. CASE write_file_atomic
    <2>1. /\ pending # <<>> /\ pending' = <<>> /\ UNCHANGED <<dec, now, unread>>
          /\ \/ file' = pending[1]
             \/ file' = file /\ write_failed' = TRUE
      BY <1>5 DEF write_file_atomic
    <2>2. Storable(pending[1], TP_DECISIONS_MAX) /\ (~dec.dirty => pending[1] = dec.entries)
      BY <2>1 DEF StoreInv
    <2>3. unread = {}
      BY Zenon, <2>1 DEF StoreInv, LoadOK
    <2>4. LoadOK'
      BY Zenon, <2>1, <2>3 DEF LoadOK
    <2>5. file' \subseteq Lines /\ IsFiniteSet(file')
      BY Zenon, <2>1, <2>2, UsableLines DEF StoreInv, Storable
    <2>6. FileCurrentUnlessWriteFailed'
      BY Zenon, <2>1, <2>2 DEF FileCurrentUnlessWriteFailed, Recorded
    <2>7. KeptSoFar'
      BY Zenon, <2>1, <2>2 DEF KeptSoFar, HasKey
    <2> QED
      BY Zenon, <1>0, <2>1, <2>4, <2>5, <2>6, <2>7 DEF StoreInv
  <1>6. CASE restart
    <2>1. /\ dec' = tp_decisions_init /\ pending' = <<>> /\ UNCHANGED <<now, file>>
          /\ unread' \in read_file(file) /\ load_failed' = (unread' # file)
      BY <1>6 DEF restart
    <2>2. /\ dec' \in Tables /\ dec'.entries = {} /\ Storable(dec'.entries, dec'.cap)
          /\ OneSlot(dec'.cooldown) /\ dec'.dirty = FALSE
      BY Zenon, <2>1, InitTable
    <2>3. file \subseteq Lines /\ IsFiniteSet(file)
      BY Zenon DEF StoreInv
    <2>4. LoadOK'
      <3>1. \A u \in unread' :
               u \in Lines /\ (u \in file \/ (load_failed' /\ \E l \in file : CutFrom(u, l)))
        BY Zenon, <2>1, <2>3, ReadFileFacts
      <3>2. \A u \in unread' : Recorded(u)'
        BY Zenon, <2>1, <3>1 DEF Recorded, CutFrom
      <3> QED
        BY Zenon, <2>1, <2>2, <3>1, <3>2 DEF LoadOK
    <2>5. FileCurrentUnlessWriteFailed'
      BY Zenon, <2>2 DEF FileCurrentUnlessWriteFailed
    <2>6. KeptSoFar'
      BY Zenon, <2>1 DEF KeptSoFar
    <2> QED
      BY Zenon, <1>0, <2>1, <2>2, <2>3, <2>4, <2>5, <2>6 DEF StoreInv
  <1>7. CASE UNCHANGED <<dec, unread, load_failed, files>> /\ now' \in Nat
    <2>1. UNCHANGED <<dec, unread, load_failed, file, pending, write_failed>>
      BY <1>7 DEF files
    <2>2. LoadOK' /\ FileCurrentUnlessWriteFailed' /\ KeptSoFar'
      BY Zenon, <2>1 DEF StoreInv, LoadOK, FileCurrentUnlessWriteFailed, KeptSoFar, Recorded
    <2> QED
      BY Zenon, <1>7, <2>1, <2>2 DEF StoreInv
  <1>8. tick \/ UNCHANGED store_vars => UNCHANGED <<dec, unread, load_failed, files>> /\ now' \in Nat
    BY <1>0 DEF tick, store_vars
  <1>9. ASSUME NEW l \in unread, tp_decisions_parse(l) PROVE StoreInv'
    BY Zenon, <1>9, ParseInv
  <1> QED
    BY Zenon, <1>1, <1>2, <1>3, <1>4, <1>5, <1>6, <1>7, <1>8, <1>9 DEF StoreNext

\* The invariant holds throughout.
LEMMA SpecStoreInv == StoreSpec => []StoreInv
  BY StoreInitInv, StoreNextInv, PTL DEF StoreSpec

\* The table always fits its array, with one entry per key and neither a
\* plain step nor an unknown network in it (policy.c find, new_slot,
\* tp_decision_success).
THEOREM SpecStoreTypeOK == StoreSpec => []StoreTypeOK
  <1>1. StoreInv => StoreTypeOK
    BY DEF StoreInv, StoreTypeOK, Storable
  <1> QED
    BY <1>1, SpecStoreInv, PTL

\* No host ever owns two cooldown slots, however failures, successes and
\* network changes follow each other: the first slot that tp_in_cooldown()
\* finds is the host's only one.
THEOREM SpecOneSlotPerHost == StoreSpec => []OneSlotPerHost
  <1>1. StoreInv => OneSlotPerHost
    BY Zenon DEF StoreInv, OneSlotPerHost, OneSlot
  <1> QED
    BY <1>1, SpecStoreInv, PTL

\* Although save_decisions() clears dirty before the file is written, no
\* decision learned between the two is forgotten, and neither a crash at any
\* point nor a load that fails leaves a clean table with a decision the file
\* does not have (transparent.c save_decisions, load_decisions, read_file).
THEOREM SpecFileCurrentUnlessWriteFailed ==
    StoreSpec => []FileCurrentUnlessWriteFailed
  <1>1. StoreInv => FileCurrentUnlessWriteFailed
    BY DEF StoreInv
  <1> QED
    BY <1>1, SpecStoreInv, PTL

\* As long as no call fails and the keys of the file fit, a restart costs no
\* saved decision, however many times the load is cut off by a crash and
\* whatever the order of the lines; and what was removed from the table is
\* gone from the file before the table is clean again (policy.c
\* tp_decisions_parse, new_slot, remove_entry; transparent.c save_decisions).
THEOREM SpecSavedComesBack == StoreSpec => []SavedComesBack
  <1>1. ASSUME StoreInv PROVE SavedComesBack
    <2>1. KeptSoFar
      BY <1>1 DEF StoreInv
    <2>2. PICK saved : saved = {l \in file : usable(l)}
      BY Zenon
    <2>3. UsableKeys(file) = {<<l.host, l.fp, l.family>> : l \in saved}
      BY Zenon, <2>2 DEF UsableKeys, KeyOf
    <2>4. \A l : HasKey(dec.entries, l) => find(dec, l.host, l.fp, l.family) # {}
      BY Zenon DEF HasKey, find
    <2> QED
      BY Zenon, <2>1, <2>2, <2>3, <2>4 DEF SavedComesBack, KeptSoFar
  <1>2. StoreInv => SavedComesBack
    BY Zenon, <1>1
  <1> QED
    BY <1>2, SpecStoreInv, PTL

\* What a step does to the table: an eviction takes the oldest entry, a
\* cooldown the slot that ends soonest.
LEMMA StoreStep ==
    ASSUME StoreInv, [StoreNext]_store_vars
    PROVE  Evicts(dec, dec') /\ Overwrites(dec.cooldown, dec'.cooldown, now)
  <1>0. dec \in Tables /\ Storable(dec.entries, dec.cap) /\ OneSlot(dec.cooldown) /\ now \in Nat
    BY DEF StoreInv
  <1>1. ASSUME NEW h \in Hosts, NEW n \in Fingerprints, NEW f \in Families,
               NEW s \in LearnSteps, succeed(h, n, f, s)
        PROVE  Evicts(dec, dec') /\ Overwrites(dec.cooldown, dec'.cooldown, now)
    <2>1. s \in Steps
      BY StoreAssumption
    <2>2. dec' \in tp_decision_success(dec, h, n, f, now, s)
      BY <1>1 DEF succeed
    <2>3. Changed(dec, dec') /\ OnlyFrees(dec.cooldown, dec'.cooldown)
      BY <1>0, <2>1, <2>2, SuccessFacts, SMTT(30)
    <2>4. Overwrites(dec.cooldown, dec'.cooldown, now)
      BY <2>3, ZenonT(30) DEF Overwrites, OnlyFrees
    <2> QED
      BY <2>3, <2>4 DEF Changed
  <1>2. ASSUME NEW h \in Hosts, NEW n \in Fingerprints, NEW f \in Families, fail(h, n, f)
        PROVE  Evicts(dec, dec') /\ Overwrites(dec.cooldown, dec'.cooldown, now)
    BY Zenon, <1>0, <1>2, FailureFacts DEF fail, Changed
  <1>3. CASE network_changed
    <2>1. /\ dec'.entries = dec.entries
          /\ dec'.cooldown = [i \in DOMAIN dec.cooldown |-> NoCooldown]
      BY <1>0, <1>3 DEF network_changed, tp_decisions_network_changed, Tables
    <2>2. OnlyFrees(dec.cooldown, dec'.cooldown)
      <3>1. NoCooldown.host = ""
        BY DEF NoCooldown
      <3> QED
        BY <2>1, <3>1, Zenon DEF OnlyFrees
    <2> QED
      BY <2>1, <2>2, NoNewEntry, Zenon DEF Overwrites, OnlyFrees
  <1>4. CASE restart
    <2>1. dec' = tp_decisions_init
      BY <1>4 DEF restart
    <2>2. /\ dec' \in Tables /\ dec'.entries = {}
          /\ \A i \in DOMAIN dec'.cooldown : dec'.cooldown[i].host = ""
      BY Zenon, <2>1, InitTable
    <2>3. DOMAIN dec'.cooldown = DOMAIN dec.cooldown
      BY Zenon, <1>0, <2>2 DEF Tables
    <2>4. Evicts(dec, dec')
      BY Zenon, <2>2, NoNewEntry
    <2> QED
      BY <2>2, <2>3, <2>4, Zenon DEF Overwrites
  <1>5. CASE dec'.entries = dec.entries /\ dec'.cooldown = dec.cooldown
    BY <1>5, NoNewEntry, Zenon DEF Overwrites
  <1>6. save_begin \/ write_file_atomic \/ tick \/ UNCHANGED store_vars =>
           dec'.entries = dec.entries /\ dec'.cooldown = dec.cooldown
    BY <1>0 DEF save_begin, write_file_atomic, tick, store_vars, Tables
  <1>7. ASSUME NEW l \in unread, tp_decisions_parse(l)
        PROVE  Evicts(dec, dec') /\ Overwrites(dec.cooldown, dec'.cooldown, now)
    <2>1. l \in Lines /\ dec' \in parse_line(dec, l)
      BY Zenon, <1>7 DEF tp_decisions_parse, StoreInv, LoadOK
    <2>2. Evicts(dec, dec') /\ dec'.cooldown = dec.cooldown
      BY Zenon, <1>0, <2>1, ParseLineFacts
    <2> QED
      BY <2>2, Zenon DEF Overwrites
  <1> QED
    BY Zenon, <1>1, <1>2, <1>3, <1>4, <1>5, <1>6, <1>7 DEF StoreNext

\* Making room for a decision costs at most one other key its decision, the
\* least recently validated, whatever the array's limit (policy.c new_slot).
THEOREM SpecEvictsOldest == StoreSpec => EvictsOldest
  <1> DEFINE A == LET lost == {e \in dec.entries : find(dec', e.host, e.fp, e.family) = {}}
                      kept == dec.entries \cap dec'.entries
                  IN  ~(dec'.entries \subseteq dec.entries) =>
                          /\ Cardinality(lost) <= 1
                          /\ \A e \in lost, k \in kept : e.validated_at <= k.validated_at
  <1>1. StoreInv /\ [StoreNext]_store_vars => [A]_store_vars
    BY StoreStep, Zenon DEF Evicts
  <1>2. StoreSpec => [][A]_store_vars
    BY <1>1, SpecStoreInv, PTL DEF StoreSpec
  <1> QED
    BY <1>2, PTL DEF EvictsOldest

\* A running cooldown is overwritten only when all slots run, and then the one
\* that ends soonest (policy.c tp_decision_failure).
THEOREM SpecCooldownOverwritesSoonest == StoreSpec => CooldownOverwritesSoonest
  <1>1. StoreInv /\ [StoreNext]_store_vars =>
           [Overwrites(dec.cooldown, dec'.cooldown, now)]_store_vars
    BY StoreStep
  <1>2. StoreSpec => [][Overwrites(dec.cooldown, dec'.cooldown, now)]_store_vars
    BY <1>1, SpecStoreInv, PTL DEF StoreSpec
  <1> QED
    BY <1>2 DEF CooldownOverwritesSoonest, Overwrites
=============================================================================
