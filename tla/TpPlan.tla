------------------------------- MODULE TpPlan -------------------------------
(***************************************************************************)
(* The attempt plan of one connection (policy.c, "attempt planning").      *)
(*                                                                         *)
(* tp_plan_next is a pure function: from the inputs of a connection (is    *)
(* the host known, listed, under a manual rule, cached, in cooldown, known *)
(* bad when DIRECT), the trusted resolver's opinion and what was already   *)
(* tried, it names the next thing to do.  The operators below are that     *)
(* function and its helpers, under their C names.                          *)
(***************************************************************************)
EXTENDS Naturals, Sequences

\* TP_MAX_ATTEMPTS: upstream connections one client connection may cost.
CONSTANT TP_MAX_ATTEMPTS

ASSUME MaxAttemptsAssumption == TP_MAX_ATTEMPTS \in Nat \ {0}

Targets == {"ORIGINAL", "TRUSTED"}

\* SPLIT stands for every strategy that only packet mode implements.
Strategies == {"PASS", "TLSREC", "TLSREC_SPLIT", "SPLIT"}

\* What a stream proxy can do with a ClientHello.
StreamStrategies == {"PASS", "TLSREC", "TLSREC_SPLIT"}

Steps == [target : Targets, strategy : StreamStrategies]

\* What an attempt may end in (SKIPPED is internal to tp_plan_next).
AttemptResults == {"OK", "ALERT", "CONNECT_FAIL", "RESET", "CLOSED",
                   "TIMEOUT", "NOT_TLS"}

\* The two answers that make an attempt the connection.
Answered == {"OK", "ALERT"}

Trusts == {"UNKNOWN", "NONE", "MATCH", "MISMATCH"}

Plans == [has_host : BOOLEAN, listed : BOOLEAN, preferred : StreamStrategies,
          has_manual : BOOLEAN, manual : Strategies,
          has_cached : BOOLEAN, cached : Steps,
          in_cooldown : BOOLEAN, direct_bad : BOOLEAN, trust : Trusts,
          tried : Seq(Steps), results : Seq(AttemptResults)]

step_of(target, strategy) == [target |-> target, strategy |-> strategy]

direct == step_of("ORIGINAL", "PASS")

is_direct(s) == s = direct

stream_strategy(s) ==
    IF s \in {"PASS", "TLSREC_SPLIT"} THEN s ELSE "TLSREC"

first_bypass(p) ==
    IF p.preferred = "TLSREC_SPLIT" THEN "TLSREC_SPLIT" ELSE "TLSREC"

second_bypass(p) ==
    IF first_bypass(p) = "TLSREC" THEN "TLSREC_SPLIT" ELSE "TLSREC"

\* An all-zero plan (PASS and ORIGINAL are the zero values).
tp_plan_init ==
    [has_host |-> FALSE, listed |-> FALSE, preferred |-> "PASS",
     has_manual |-> FALSE, manual |-> "PASS",
     has_cached |-> FALSE, cached |-> direct,
     in_cooldown |-> FALSE, direct_bad |-> FALSE, trust |-> "UNKNOWN",
     tried |-> <<>>, results |-> <<>>]

\* tpd_handle_connection's test for "no attempt classification".
PassesThrough(p) ==
    \/ ~p.has_host
    \/ p.in_cooldown /\ ~p.listed
    \/ p.has_manual /\ p.manual = "PASS"

normalize(p, s) ==
    step_of(IF s.target = "TRUSTED" /\ p.trust # "MISMATCH"
              THEN "ORIGINAL" ELSE s.target,
            stream_strategy(s.strategy))

was_tried(p, s) == \E i \in 1..Len(p.tried) : p.tried[i] = s

\* Mutant: only the last attempt's connect failure is remembered.
original_unreachable_last(p) ==
    /\ Len(p.tried) > 0
    /\ p.tried[Len(p.tried)] = direct
    /\ p.results[Len(p.tried)] = "CONNECT_FAIL"

original_unreachable(p) ==
    \E i \in 1..Len(p.tried) :
        p.tried[i].target = "ORIGINAL" /\ p.results[i] = "CONNECT_FAIL"

\* Mutant: the second variant is forgotten.
next_bypass_one(p, target) ==
    LET a == step_of(target, first_bypass(p))
    IN  IF ~was_tried(p, a) THEN <<a>> ELSE <<>>

\* The bypass variants of target not tried yet, preferred one first; the
\* empty sequence is next_bypass() returning 0.
next_bypass(p, target) ==
    LET a == step_of(target, first_bypass(p))
        b == step_of(target, second_bypass(p))
    IN  IF ~was_tried(p, a) THEN <<a>>
        ELSE IF ~was_tried(p, b) THEN <<b>> ELSE <<>>

offer(s)  == [next |-> "ATTEMPT", step |-> s]
need_dns  == [next |-> "NEED_DNS", step |-> direct]
done      == [next |-> "DONE", step |-> direct]

\* offer(next_bypass(p, target)), or DONE when neither variant is left.
offer_bypass(p, target) ==
    IF next_bypass(p, target) # <<>>
      THEN offer(next_bypass(p, target)[1]) ELSE done

\* The last rungs, below DIRECT: ask the resolver, then the trusted address
\* (if it differs) or the bypasses at the original one (if it is reachable;
\* a direct_result of CONNECT_FAIL is a case of original_unreachable).
after_direct(p) ==
    IF p.trust = "UNKNOWN" THEN need_dns
    ELSE IF p.trust = "MISMATCH"
      THEN IF ~was_tried(p, step_of("TRUSTED", "PASS"))
             THEN offer(step_of("TRUSTED", "PASS"))
             ELSE offer_bypass(p, "TRUSTED")
    ELSE IF original_unreachable(p) THEN done
    ELSE offer_bypass(p, "ORIGINAL")

\* Mutant: a listed host gets the plain attempt first, too.
ladder_direct_first(p) ==
    IF ~p.direct_bad /\ ~original_unreachable(p) /\ ~was_tried(p, direct)
      THEN offer(direct)
    ELSE after_direct(p)

\* Mutant: the direct_bad mark is not looked at.
ladder_ignoring_mark(p) ==
    IF ~p.listed /\ ~original_unreachable(p) /\ ~was_tried(p, direct)
      THEN offer(direct)
    ELSE after_direct(p)

\* The automatic ladder: a listed host's bypasses, DIRECT, then the rest.
ladder(p) ==
    IF p.listed /\ ~original_unreachable(p)
                /\ next_bypass(p, "ORIGINAL") # <<>>
      THEN offer(next_bypass(p, "ORIGINAL")[1])
    ELSE IF ~p.direct_bad /\ ~original_unreachable(p) /\ ~was_tried(p, direct)
      THEN offer(direct)
    ELSE after_direct(p)

cached_then_ladder(p) ==
    IF p.has_cached /\ p.cached.target = "TRUSTED" /\ p.trust = "UNKNOWN"
      THEN need_dns
    ELSE IF p.has_cached /\ ~was_tried(p, normalize(p, p.cached))
      THEN offer(normalize(p, p.cached))
    ELSE ladder(p)

tp_plan_next(p) ==
    LET once(s) == IF Len(p.tried) = 0 THEN offer(s) ELSE done
    IN  IF \/ Len(p.tried) >= TP_MAX_ATTEMPTS
           \/ Len(p.tried) > 0 /\ p.results[Len(p.tried)] \in Answered
          THEN done
        ELSE IF \/ ~p.has_host
                \/ p.has_manual /\ stream_strategy(p.manual) = "PASS"
          THEN once(direct)
        ELSE IF p.in_cooldown
          THEN once(IF p.listed THEN step_of("ORIGINAL", first_bypass(p))
                                ELSE direct)
        ELSE IF p.has_manual
          THEN IF Len(p.tried) = 0 /\ p.trust = "UNKNOWN" THEN need_dns
               ELSE once(normalize(p, step_of("TRUSTED", p.manual)))
        ELSE cached_then_ladder(p)

tp_plan_record(p, s, r) ==
    IF Len(p.tried) >= TP_MAX_ATTEMPTS THEN p
    ELSE [p EXCEPT !.tried = Append(@, s), !.results = Append(@, r)]

tp_plan_source(p) ==
    IF ~p.has_host THEN "NONE"
    ELSE IF p.has_manual THEN "MANUAL"
    ELSE IF p.in_cooldown THEN "COOLDOWN"
    ELSE IF p.has_cached /\ Len(p.tried) <= 1 THEN "CACHED"
    ELSE "LADDER"

=============================================================================
