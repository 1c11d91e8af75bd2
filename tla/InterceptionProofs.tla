------------------------- MODULE InterceptionProofs -------------------------
(***************************************************************************)
(* For any set of instances, any of them run by systemd, and any heartbeat *)
(* that comes before the elements expire: the type, fail-open, no gap, and *)
(* the promise of FailOpenPath.                                            *)
(*                                                                         *)
(* The argument: only the one instance that holds the listeners installs   *)
(* rules, and only for ports it listens on (Owner, OwnRules); a heartbeat  *)
(* comes only from it, so it never arms a redirect that leads nowhere, and *)
(* from the last heartbeat on the kernel counts the element down while     *)
(* dead counts up (Counting).  For NoGap the same element is as old as the *)
(* instance's last heartbeat (Fresh).                                      *)
(***************************************************************************)
EXTENDS Interception, TLAPS

\* An instance has listeners from tpd_listen to its end; two never do.
Owner ==
    /\ \A d \in Daemons : stage[d] \in {"off", "init", "post"} <=> listeners[d] = {}
    /\ \A d \in Daemons : listeners[d] # {} => "tcp4" \in listeners[d]
    /\ \A d \in Daemons : "dns6" \in listeners[d] => "dns4" \in listeners[d]
    /\ \A d, e \in Daemons : listeners[d] # {} /\ listeners[e] # {} => d = e

\* A table there is while an instance has its rules installed is its table.
OwnRules ==
    \A d \in Daemons : stage[d] \in {"ruleset", "running", "hung"}
                           => rules \in {{}, ruleset(listeners[d])}

\* The kernel counts down while dead counts up.
Counting ==
    /\ alive_dns \in {0, alive}
    /\ dead + alive <= ALIVE
    /\ Dead = {} => dead = 0

\* The element of an undisturbed running instance is as old as its heartbeat.
Fresh ==
    \A d \in Daemons : stage[d] = "running" /\ ~disturbed =>
        /\ rules = ruleset(listeners[d]) /\ alive + due[d] = ALIVE
        /\ "dns4" \in rules => alive_dns = alive

IInv == TypeOK /\ Owner /\ OwnRules /\ Counting /\ Fresh

\* Rules are only made for ports that are listened on, DNS over IPv6 never
\* without DNS over IPv4, and never none.
LEMMA RulesetFacts ==
    ASSUME NEW ports \in SUBSET Ports, "tcp4" \in ports,
           "dns6" \in ports => "dns4" \in ports
    PROVE  /\ ruleset(ports) \subseteq ports /\ "tcp4" \in ruleset(ports)
           /\ "dns6" \in ruleset(ports) => "dns4" \in ruleset(ports)
  BY DEF ruleset, Ports

\* A ruleset redirects something, and nothing but ports.
LEMMA OwnRulesetType == \A ports : ruleset(ports) \subseteq Ports /\ ruleset(ports) # {}
  <1> SUFFICES ASSUME NEW ports
               PROVE  ruleset(ports) \subseteq Ports /\ "tcp4" \in ruleset(ports)
    OBVIOUS
  <1> QED
    BY DEF ruleset, Ports

\* A redirect needs an element.
LEMMA RedirectNeedsElement ==
    ASSUME TypeOK, Counting, Redirected # {}
    PROVE  alive > 0
  <1>1. PICK p \in rules : IF p \in DnsPorts THEN alive_dns > 0 ELSE alive > 0
    BY DEF Redirected
  <1>2. alive \in Nat /\ alive_dns \in {0, alive}
    BY InterceptionAssumption DEF TypeOK, Counting
  <1> QED
    BY <1>1, <1>2

\* The constants as numbers.
LEMMA Numbers ==
    /\ HEARTBEAT \in Nat /\ ALIVE \in Nat /\ MaxLate \in Nat
    /\ HEARTBEAT + MaxLate < ALIVE /\ 0 < ALIVE /\ Units \subseteq Daemons
  BY InterceptionAssumption

\* Init establishes the invariant.
LEMMA InitIInv == Init => IInv
  <1> SUFFICES ASSUME Init PROVE IInv
    OBVIOUS
  <1>1. TypeOK
    <2>1. 0 \in 0..ALIVE /\ 0 \in 0..(HEARTBEAT + MaxLate) /\ 0 \in Nat
      BY Numbers
    <2> QED
      BY <2>1, Zenon DEF Init, TypeOK, Stages
  <1>2. Owner /\ OwnRules /\ Fresh
    BY DEF Init, Owner, OwnRules, Fresh
  <1>3. Counting
    BY Numbers DEF Init, Counting
  <1> QED
    BY <1>1, <1>2, <1>3 DEF IInv

\* A heartbeat of the instance that listens arms redirects that are all served.
LEMMA HeartbeatServes ==
    ASSUME NEW d \in Daemons, NEW r \in {rules, ruleset(listeners[d])},
           IInv, stage[d] \in {"ruleset", "running"}, r # {},
           nft_heartbeat(r), UNCHANGED listeners, stage'[d] = "running"
    PROVE  Dead' = {} /\ r = ruleset(listeners[d])
  <1>1. r = ruleset(listeners[d])
    BY DEF IInv, OwnRules
  <1>2. /\ listeners[d] \in SUBSET Ports /\ "tcp4" \in listeners[d]
        /\ "dns6" \in listeners[d] => "dns4" \in listeners[d]
    BY DEF IInv, Owner, TypeOK
  <1>3. ruleset(listeners[d]) \subseteq listeners[d]
    BY <1>2, RulesetFacts
  <1>4. \A p \in rules' : p \in listeners'[d] /\ stage'[d] = "running"
    BY <1>1, <1>3 DEF nft_heartbeat
  <1> QED
    BY <1>1, <1>4 DEF Dead, Redirected, Served

\* Either summand of a bounded sum may be cleared.
LEMMA Sums ==
    ASSUME NEW a \in Nat, NEW b \in Nat, NEW x \in Nat, NEW m \in Nat,
           b <= m, x + a <= m
    PROVE  0 + b <= m /\ x + 0 <= m
  OBVIOUS

\* What a step that takes no time does to the counting.
LEMMA TimelessCounting ==
    ASSUME IInv, TypeOK', alive_dns' \in {0, alive'},
           dead' = IF Dead' = {} THEN 0 ELSE dead,
           alive' = 0 \/ alive' = alive \/ Dead' = {}
    PROVE  Counting'
  <1>1. /\ alive \in Nat /\ alive' \in Nat /\ alive' <= ALIVE /\ ALIVE \in Nat
        /\ dead \in Nat /\ dead + alive <= ALIVE
    BY Numbers DEF IInv, TypeOK, Counting
  <1>2. 0 + alive' <= ALIVE /\ dead + 0 <= ALIVE
    BY Zenon, <1>1, Sums
  <1>3. dead' + alive' <= ALIVE
    BY <1>1, <1>2, Zenon
  <1> QED
    BY <1>3, Zenon DEF Counting

\* A heartbeat preserves the invariant.
LEMMA BeatIInv ==
    ASSUME IInv, NEW d \in Daemons, NEW r \in {rules, ruleset(listeners[d])},
           stage[d] \in {"ruleset", "running"}, r # {}, nft_heartbeat(r),
           UNCHANGED listeners, stage' = [stage EXCEPT ![d] = "running"],
           due' = [due EXCEPT ![d] = 0], disturbed' = FALSE,
           dead' = IF Dead' = {} THEN 0 ELSE dead
    PROVE  IInv'
  <1> USE Numbers
  <1>1. stage'[d] = "running"
    BY DEF IInv, TypeOK
  <1>2. Dead' = {} /\ r = ruleset(listeners[d])
    BY <1>1, HeartbeatServes
  <1>3. dead' = 0
    BY <1>2, Zenon
  <1>4. \A e \in Daemons : e # d => stage[e] \in {"off", "init", "post"}
    BY DEF IInv, Owner
  <1>5. TypeOK'
    <2>1. stage' \in [Daemons -> Stages] /\ due' \in [Daemons -> 0..(HEARTBEAT + MaxLate)]
      BY DEF IInv, TypeOK, Stages
    <2>2. alive' \in 0..ALIVE /\ alive_dns' \in 0..ALIVE
      BY DEF nft_heartbeat
    <2>3. rules' \subseteq Ports /\ rules' # {}
      BY <1>2, OwnRulesetType DEF nft_heartbeat
    <2>4. dead' \in Nat
      BY <1>3
    <2> QED
      BY Zenon, <2>1, <2>2, <2>3, <2>4 DEF IInv, TypeOK
  <1>6. Owner'
    BY DEF IInv, TypeOK, Owner
  <1>7. OwnRules'
    BY <1>2, <1>4 DEF IInv, TypeOK, OwnRules, nft_heartbeat
  <1>8. Counting'
    BY <1>2, <1>5, TimelessCounting DEF nft_heartbeat
  <1>9. Fresh'
    BY <1>2, <1>4 DEF IInv, TypeOK, Fresh, nft_heartbeat
  <1> QED
    BY <1>5, <1>6, <1>7, <1>8, <1>9 DEF IInv

\* A step of one instance preserves the invariant.
LEMMA StepIInv ==
    ASSUME IInv, NEW d \in Daemons, Timeless(Step(d))
    PROVE  IInv'
  <1> USE Numbers
  <1>1. dead' = IF Dead' = {} THEN 0 ELSE dead
    BY DEF Timeless
  <1>2. CASE start(d) \/ hang(d) \/ on_signal(d) \/ resume(d)
    <2>1. TypeOK'
      <3>1. dead' \in Nat /\ HEARTBEAT \in 0..(HEARTBEAT + MaxLate)
        BY <1>1 DEF IInv, TypeOK
      <3>2. disturbed' \in BOOLEAN
        BY Zenon, <1>2 DEF IInv, TypeOK, start, hang, on_signal, resume
      <3> QED
        BY <1>2, <3>1, <3>2
        DEF IInv, TypeOK, Stages, start, hang, on_signal, resume, To
    <2>2. Owner'
      BY <1>2 DEF IInv, TypeOK, Owner, start, hang, on_signal, resume, To
    <2>3. OwnRules'
      BY <1>2 DEF IInv, TypeOK, OwnRules, start, hang, on_signal, resume, To
    <2>4. Counting'
      BY <1>1, <1>2, <2>1, TimelessCounting
      DEF IInv, Counting, start, hang, on_signal, resume
    <2>5. Fresh'
      BY <1>2 DEF IInv, TypeOK, Fresh, start, hang, on_signal, resume, To
    <2> QED
      BY <2>1, <2>2, <2>3, <2>4, <2>5 DEF IInv
  <1>3. CASE tpd_listen(d)
    <2>1. TypeOK'
      BY <1>1, <1>3 DEF IInv, TypeOK, Stages, tpd_listen, To, Ended, Ports
    <2>2. Owner'
      BY <1>3 DEF IInv, TypeOK, Owner, tpd_listen, To, Ended
    <2>3. OwnRules'
      BY <1>3 DEF IInv, TypeOK, OwnRules, tpd_listen, To, Ended
    <2>4. Counting'
      BY <1>1, <1>3, <2>1, TimelessCounting DEF IInv, Counting, tpd_listen
    <2>5. Fresh'
      BY <1>3 DEF IInv, TypeOK, Fresh, tpd_listen, To, Ended
    <2> QED
      BY <2>1, <2>2, <2>3, <2>4, <2>5 DEF IInv
  <1>4. CASE exit(d)
    <2>1. TypeOK'
      BY <1>1, <1>4 DEF IInv, TypeOK, Stages, exit, To, Ended, Ports
    <2>2. Owner'
      BY <1>4 DEF IInv, TypeOK, Owner, exit, To, Ended
    <2>3. OwnRules'
      BY <1>4 DEF IInv, TypeOK, OwnRules, exit, To, Ended
    <2>4. Counting'
      BY <1>1, <1>4, <2>1, TimelessCounting DEF IInv, Counting, exit
    <2>5. Fresh'
      BY <1>4 DEF IInv, TypeOK, Fresh, exit, To, Ended
    <2> QED
      BY <2>1, <2>2, <2>3, <2>4, <2>5 DEF IInv
  <1>5. CASE tpp_install(d) \/ tpp_remove(d)
    <2>1. listeners[d] # {} /\ \A e \in Daemons : e # d => listeners[e] = {}
      BY <1>5 DEF IInv, Owner, tpp_install, tpp_remove
    <2>2. \A e \in Daemons : e # d => stage[e] \in {"off", "init", "post"}
      BY <2>1 DEF IInv, Owner
    <2>3. rules' \in SUBSET Ports /\ (rules' = {} => alive' = 0 /\ alive_dns' = 0)
      BY <1>5, OwnRulesetType
      DEF IInv, TypeOK, tpp_install, tpp_remove, nft_ruleset, nft_delete, nft_fails
    <2>4. TypeOK'
      <3>1. dead' \in Nat
        BY <1>1 DEF IInv, TypeOK
      <3>2. alive' \in 0..ALIVE /\ alive_dns' \in 0..ALIVE
        BY <1>5 DEF IInv, TypeOK, tpp_install, tpp_remove, nft_ruleset,
                    nft_delete, nft_fails
      <3> QED
        BY <1>5, <2>3, <3>1, <3>2
        DEF IInv, TypeOK, Stages, tpp_install, tpp_remove, To
    <2>5. Owner'
      BY <1>5 DEF IInv, TypeOK, Owner, tpp_install, tpp_remove, To
    <2>6. OwnRules'
      BY <1>5, <2>2 DEF IInv, TypeOK, OwnRules, tpp_install, tpp_remove, To,
                        nft_ruleset
    <2>7. Counting'
      <3>1. alive' \in {0, alive} /\ alive_dns' \in {0, alive'}
        BY <1>5 DEF IInv, Counting, tpp_install, tpp_remove, nft_ruleset,
                    nft_delete, nft_fails
      <3> QED
        BY <1>1, <2>4, <3>1, TimelessCounting
    <2>8. Fresh'
      BY <1>5, <2>2 DEF IInv, TypeOK, Fresh, tpp_install, tpp_remove, To
    <2> QED
      BY <2>4, <2>5, <2>6, <2>7, <2>8 DEF IInv
  <1>6. CASE first_heartbeat(d)
    <2>1. CASE rules # {} /\ nft_heartbeat(rules) /\ To(d, "running")
               /\ due' = [due EXCEPT ![d] = 0] /\ disturbed' = FALSE
      BY Zenon, <1>1, <1>6, <2>1, BeatIInv DEF first_heartbeat, To
    <2>2. CASE nft_fails /\ To(d, "remove") /\ UNCHANGED <<due, disturbed>>
      <3> USE <1>6, <2>2 DEF first_heartbeat, nft_fails, To
      <3>1. TypeOK'
        <4>1. dead' \in Nat
          BY <1>1 DEF IInv, TypeOK
        <4> QED
          BY <4>1 DEF IInv, TypeOK, Stages
      <3>2. Owner'
        BY DEF IInv, TypeOK, Owner
      <3>3. OwnRules'
        BY DEF IInv, TypeOK, OwnRules
      <3>4. Counting'
        BY <1>1, <3>1, TimelessCounting DEF IInv, Counting
      <3>5. Fresh'
        BY DEF IInv, TypeOK, Fresh
      <3> QED
        BY <3>1, <3>2, <3>3, <3>4, <3>5 DEF IInv
    <2> QED
      BY Zenon, <1>6, <2>1, <2>2 DEF first_heartbeat
  <1>7. CASE tpp_refresh(d)
    <2>1. CASE \/ rules # {} /\ nft_heartbeat(rules) /\ disturbed' = FALSE
               \/ nft_heartbeat(ruleset(listeners[d])) /\ disturbed' = FALSE
      <3>1. stage' = [stage EXCEPT ![d] = "running"]
        BY <1>7 DEF IInv, TypeOK, tpp_refresh
      <3>2. ruleset(listeners[d]) # {}
        BY OwnRulesetType
      <3> QED
        BY Zenon, <1>1, <1>7, <2>1, <3>1, <3>2, BeatIInv DEF tpp_refresh
    <2>2. CASE (nft_ruleset(d) \/ nft_fails) /\ disturbed' = TRUE
      <3> USE <1>7, <2>2 DEF tpp_refresh, nft_ruleset, nft_fails
      <3>1. rules' \in SUBSET Ports /\ (rules' = {} => alive' = 0 /\ alive_dns' = 0)
        BY OwnRulesetType DEF IInv, TypeOK
      <3>2. TypeOK'
        <4>1. dead' \in Nat
          BY <1>1 DEF IInv, TypeOK
        <4>2. alive' \in 0..ALIVE /\ alive_dns' \in 0..ALIVE
          BY DEF IInv, TypeOK
        <4>3. due' \in [Daemons -> 0..(HEARTBEAT + MaxLate)]
          BY DEF IInv, TypeOK
        <4> QED
          BY <3>1, <4>1, <4>2, <4>3, Zenon DEF IInv, TypeOK
      <3>3. \A e \in Daemons : e # d => stage[e] \in {"off", "init", "post"}
        BY DEF IInv, Owner
      <3>4. Owner'
        BY DEF IInv, Owner
      <3>5. OwnRules'
        BY <3>3 DEF IInv, OwnRules
      <3>6. Counting'
        BY <1>1, <3>2, TimelessCounting DEF IInv, Counting
      <3>7. Fresh'
        BY DEF Fresh
      <3> QED
        BY <3>2, <3>4, <3>5, <3>6, <3>7 DEF IInv
    <2> QED
      BY Zenon, <1>7, <2>1, <2>2 DEF tpp_refresh
  <1>8. CASE ExecStopPost(d)
    <2>1. TypeOK'
      <3>1. dead' \in Nat
        BY <1>1 DEF IInv, TypeOK
      <3>2. disturbed' \in BOOLEAN
        BY Zenon, <1>8 DEF IInv, TypeOK, ExecStopPost
      <3> QED
        BY <1>8, <3>1, <3>2
        DEF IInv, TypeOK, Stages, ExecStopPost, To, nft_delete, nft_fails
    <2>2. Owner'
      BY <1>8 DEF IInv, TypeOK, Owner, ExecStopPost, To
    <2>3. OwnRules'
      BY <1>8 DEF IInv, TypeOK, OwnRules, ExecStopPost, To, nft_delete, nft_fails
    <2>4. Counting'
      <3>1. alive' \in {0, alive} /\ alive_dns' \in {0, alive'}
        BY <1>8 DEF IInv, Counting, ExecStopPost, nft_delete, nft_fails
      <3> QED
        BY <1>1, <2>1, <3>1, TimelessCounting
    <2>5. Fresh'
      BY <1>8 DEF IInv, TypeOK, Fresh, ExecStopPost, To, nft_delete, nft_fails
    <2> QED
      BY <2>1, <2>2, <2>3, <2>4, <2>5 DEF IInv
  <1> QED
    BY <1>2, <1>3, <1>4, <1>5, <1>6, <1>7, <1>8 DEF Timeless, Step

\* Time preserves the invariant: it ages the element of an undisturbed
\* instance by as much as it moves its next heartbeat nearer.
LEMMA TickIInv ==
    ASSUME IInv, tick
    PROVE  IInv'
  <1> USE Numbers DEF tick
  <1>1. /\ alive \in Nat /\ alive_dns \in Nat /\ dead \in Nat
        /\ alive <= ALIVE /\ alive_dns <= ALIVE /\ dead + alive <= ALIVE
        /\ alive_dns \in {0, alive}
    BY DEF IInv, TypeOK, Counting
  <1>2. /\ alive' \in 0..ALIVE /\ alive_dns' \in {0, alive'}
        /\ alive' = 0 \/ alive' = alive - 1
    BY <1>1
  <1>3. dead' \in {0, dead + 1} /\ (Dead' = {} => dead' = 0)
    BY Zenon
  <1>4. TypeOK'
    <2>1. alive_dns' \in 0..ALIVE /\ dead' \in Nat
      BY <1>1, <1>2, <1>3
    <2>2. due' \in [Daemons -> 0..(HEARTBEAT + MaxLate)]
      BY DEF IInv, TypeOK
    <2>3. rules = {} => alive' = 0 /\ alive_dns' = 0
      BY DEF IInv, TypeOK
    <2> QED
      BY <1>2, <2>1, <2>2, <2>3 DEF IInv, TypeOK
  <1>5. Owner' /\ OwnRules'
    BY DEF IInv, Owner, OwnRules
  <1>6. Counting'
    <2>1. CASE Dead' = {}
      <3>1. dead' = 0
        BY <1>3, <2>1
      <3>2. 0 + alive' <= ALIVE
        BY <1>2
      <3> QED
        BY <1>2, <3>1, <3>2, Zenon DEF Counting
    <2>2. CASE Dead' # {}
      <3>1. Redirected' # {}
        BY <2>2 DEF Dead
      <3>2. \E p \in rules : IF p \in DnsPorts THEN alive_dns' > 0 ELSE alive' > 0
        BY <3>1 DEF Redirected
      <3>3. alive' > 0
        BY <1>2, <3>2
      <3>4. alive' = alive - 1
        BY <1>2, <3>3
      <3>5. dead' + alive' <= ALIVE
        <4>1. 0 + alive' <= ALIVE /\ dead + 1 + alive' <= ALIVE
          BY <1>1, <1>2, <3>4
        <4> QED
          BY <1>3, <4>1, Zenon
      <3> QED
        BY <1>2, <1>3, <3>5, Zenon DEF Counting
    <2> QED
      BY <2>1, <2>2
  <1>7. Fresh'
    <2> SUFFICES ASSUME NEW d \in Daemons, stage[d] = "running", ~disturbed
                 PROVE  /\ rules = ruleset(listeners[d]) /\ alive' + due'[d] = ALIVE
                        /\ "dns4" \in rules => alive_dns' = alive'
      BY DEF Fresh
    <2>1. /\ rules = ruleset(listeners[d]) /\ alive + due[d] = ALIVE
          /\ "dns4" \in rules => alive_dns = alive
      BY DEF IInv, Fresh
    <2>2. due[d] \in Nat /\ due[d] < HEARTBEAT + MaxLate /\ due'[d] = due[d] + 1
      BY DEF IInv, TypeOK
    <2>3. alive > 0
      BY <1>1, <2>1, <2>2
    <2> QED
      BY <1>1, <2>1, <2>2, <2>3
  <1> QED
    BY <1>4, <1>5, <1>6, <1>7 DEF IInv

\* Every step preserves the invariant.
LEMMA NextIInv == IInv /\ [Next]_vars => IInv'
  <1> SUFFICES ASSUME IInv, [Next]_vars PROVE IInv'
    OBVIOUS
  <1>1. CASE \E d \in Daemons : Timeless(Step(d))
    BY <1>1, StepIInv
  <1>2. CASE Timeless(flush_ruleset)
    <2> USE <1>2 DEF Timeless, flush_ruleset, nft_delete
    <2>1. dead' = IF Dead' = {} THEN 0 ELSE dead
      OBVIOUS
    <2>2. TypeOK'
      <3>1. dead' \in Nat /\ 0 \in 0..ALIVE
        BY <2>1, Numbers DEF IInv, TypeOK
      <3> QED
        BY <3>1, Zenon DEF IInv, TypeOK
    <2>3. Owner' /\ OwnRules' /\ Fresh'
      BY DEF IInv, Owner, OwnRules, Fresh
    <2>4. Counting'
      BY <2>1, <2>2, TimelessCounting
    <2> QED
      BY <2>2, <2>3, <2>4 DEF IInv
  <1>3. CASE tick
    BY <1>3, TickIInv
  <1>4. CASE UNCHANGED vars
    BY <1>4 DEF vars, IInv, TypeOK, Owner, OwnRules, Counting, Fresh, Dead,
                Redirected, Served
  <1> QED
    BY <1>1, <1>2, <1>3, <1>4 DEF Next

\* The invariant holds in every state.
THEOREM SpecIInv == Spec => []IInv
  BY InitIInv, NextIInv, PTL DEF Spec

\* The type, for any instances.
THEOREM SpecTypeOK == Spec => []TypeOK
  <1>1. IInv => TypeOK
    BY DEF IInv
  <1> QED
    BY <1>1, SpecIInv, PTL

\* In the states of the invariant the table fails open.
LEMMA InvFailOpen == IInv => FailOpen
  <1> SUFFICES ASSUME IInv PROVE dead < ALIVE
    BY DEF FailOpen
  <1>1. dead \in Nat /\ alive \in Nat /\ dead + alive <= ALIVE
    BY Numbers DEF IInv, TypeOK, Counting
  <1>2. CASE Dead = {}
    BY <1>2, Numbers DEF IInv, Counting
  <1>3. CASE Dead # {}
    <2>1. Redirected # {}
      BY <1>3 DEF Dead
    <2>2. alive > 0
      BY <2>1, RedirectNeedsElement DEF IInv
    <2> QED
      BY <1>1, <2>2, Numbers
  <1> QED
    BY <1>2, <1>3

\* Whatever instances are started, killed, hung or replaced, and whichever runs
\* of nft fail, no redirect leads nowhere for TP_ALIVE_TIMEOUT_S (the elements
\* that tp_nft_heartbeat adds expire first).
THEOREM SpecFailOpen == Spec => []FailOpen
  BY InvFailOpen, SpecIInv, PTL

\* A running instance that beats at most MaxLate late intercepts everything it
\* installed rules for, unless the table was disturbed since its heartbeat.
THEOREM SpecNoGap == Spec => []NoGap
  <1>1. IInv => NoGap
    <2> SUFFICES ASSUME IInv, NEW d \in Daemons, stage[d] = "running", ~disturbed
                 PROVE  Redirected = ruleset(listeners[d])
      BY DEF NoGap
    <2>1. /\ rules = ruleset(listeners[d]) /\ alive + due[d] = ALIVE
          /\ "dns4" \in rules => alive_dns = alive
      BY DEF IInv, Fresh
    <2>2. /\ alive \in Nat /\ due[d] \in Nat /\ due[d] <= HEARTBEAT + MaxLate
      BY Numbers DEF IInv, TypeOK
    <2>3. alive > 0
      BY <2>1, <2>2, Numbers
    <2>4. "dns6" \in rules => "dns4" \in rules
      <3>1. /\ listeners[d] \in SUBSET Ports /\ "tcp4" \in listeners[d]
            /\ "dns6" \in listeners[d] => "dns4" \in listeners[d]
        BY DEF IInv, Owner, TypeOK
      <3> QED
        BY <2>1, <3>1, RulesetFacts
    <2> QED
      BY <2>1, <2>3, <2>4 DEF Redirected, DnsPorts
  <1> QED
    BY <1>1, SpecIInv, PTL

-----------------------------------------------------------------------------
(* The table and the daemon implement the promise.                         *)

\* How a port fares, as the promise sees it.
Path == [p \in Ports |-> IF p \notin Redirected THEN "open"
                         ELSE IF Served(p) THEN "served" ELSE "dead"]

\* A step that takes no time and redirects nothing new, or leaves no redirect
\* that leads nowhere, is a rerouting.
LEMMA TimelessReroutes ==
    ASSUME IInv, IInv', dead' = IF Dead' = {} THEN 0 ELSE dead,
           Redirected' \subseteq Redirected \/ Dead' = {}
    PROVE  Promise!Next
  <1>1. Path' \in [Ports -> {"open", "served", "dead"}]
    BY DEF Path
  <1>2. \A p \in Ports : Path[p] = "open" => Path'[p] # "dead"
    BY DEF Path, Dead
  <1>3. Promise!SomeDead(Path)' <=> Dead' # {}
    BY DEF IInv, Promise!SomeDead, Path, Dead, Redirected, TypeOK
  <1>4. dead' = IF Promise!SomeDead(Path)' THEN dead ELSE 0
    BY <1>3, Zenon
  <1> QED
    BY <1>1, <1>2, <1>4
    DEF Promise!Next, Promise!Reroute, Promise!Modes, Promise!SomeDead, Path

\* A step of an instance redirects nothing new unless it beats, and then all
\* that is redirected is served.
LEMMA StepArmsServed ==
    ASSUME IInv, NEW d \in Daemons, Step(d)
    PROVE  Redirected' \subseteq Redirected \/ Dead' = {}
  <1>1. CASE UNCHANGED <<rules, alive, alive_dns>>
    BY <1>1 DEF Redirected
  <1>2. CASE alive' = 0 /\ alive_dns' = 0
    <2>1. Redirected' = {}
      BY <1>2 DEF Redirected
    <2> QED
      BY <2>1
  <1>3. CASE /\ stage[d] \in {"ruleset", "running"} /\ stage'[d] = "running"
             /\ UNCHANGED listeners
             /\ \E r \in {rules, ruleset(listeners[d])} : r # {} /\ nft_heartbeat(r)
    BY <1>3, HeartbeatServes
  <1>4. CASE first_heartbeat(d)
    BY <1>1, <1>3, <1>4 DEF first_heartbeat, nft_fails, To, IInv, TypeOK
  <1>5. CASE tpp_refresh(d)
    BY <1>1, <1>2, <1>3, <1>5, OwnRulesetType DEF tpp_refresh, nft_fails, nft_ruleset
  <1>6. CASE tpp_install(d) \/ tpp_remove(d) \/ ExecStopPost(d)
    BY <1>1, <1>2, <1>6
    DEF tpp_install, tpp_remove, ExecStopPost, nft_fails, nft_ruleset, nft_delete
  <1>7. CASE start(d) \/ tpd_listen(d) \/ hang(d) \/ resume(d) \/ on_signal(d) \/ exit(d)
    BY <1>1, <1>7 DEF start, tpd_listen, hang, resume, on_signal, exit
  <1> QED
    BY <1>4, <1>5, <1>6, <1>7 DEF Step

\* Time passes for the promise when it passes for the table.
LEMMA TickTicks ==
    ASSUME IInv, IInv', tick
    PROVE  Promise!Next
  <1>1. Path' \in [Ports -> {"open", "served", "dead"}]
    BY DEF Path
  <1>2. Redirected' \subseteq Redirected
    BY Numbers DEF tick, Redirected, IInv, TypeOK
  <1>3. \A p \in Ports : Served(p)' <=> Served(p)
    BY DEF tick, Served
  <1>4. \A p \in Ports : Path'[p] \in {Path[p], "open"}
    BY <1>2, <1>3 DEF Path
  <1>5. Promise!SomeDead(Path)' <=> Dead' # {}
    BY DEF IInv, Promise!SomeDead, Path, Dead, Redirected, TypeOK
  <1>6. dead < ALIVE /\ dead' < ALIVE
    <2>1. FailOpen /\ FailOpen'
      BY InvFailOpen, PTL
    <2> QED
      BY <2>1 DEF FailOpen
  <1>7. dead' = IF ~Promise!SomeDead(Path)' THEN 0
                ELSE IF dead < ALIVE THEN dead + 1 ELSE ALIVE
    BY <1>5, <1>6, Zenon DEF tick
  <1> QED
    BY <1>1, <1>4, <1>6, <1>7
    DEF Promise!Next, Promise!Tick, Promise!Modes, Promise!SomeDead, Path

\* The table, its expiring elements and the daemon's life keep the promise's
\* initial state and its steps: somebody is there to serve before a port is
\* redirected, and no port stays dead for TP_ALIVE_TIMEOUT_S.
THEOREM SpecPromise == Spec => Promise!Safety
  <1>1. Init => Promise!Init
    BY DEF Init, Promise!Init, Redirected
  <1>2. IInv /\ IInv' /\ [Next]_vars => [Promise!Next]_(Promise!vars)
    <2> SUFFICES ASSUME IInv, IInv', [Next]_vars
                 PROVE  Promise!Next \/ UNCHANGED Promise!vars
      OBVIOUS
    <2>1. CASE \E d \in Daemons : Timeless(Step(d))
      BY <2>1, StepArmsServed, TimelessReroutes DEF Timeless
    <2>2. CASE Timeless(flush_ruleset)
      <3>1. Redirected' \subseteq Redirected
        BY <2>2 DEF Timeless, flush_ruleset, nft_delete, Redirected
      <3> QED
        BY <2>2, <3>1, TimelessReroutes DEF Timeless
    <2>3. CASE tick
      BY <2>3, TickTicks
    <2>4. CASE UNCHANGED vars
      BY <2>4 DEF vars, Promise!vars, Redirected, Served
    <2> QED
      BY <2>1, <2>2, <2>3, <2>4 DEF Next
  <1> QED
    BY <1>1, <1>2, SpecIInv, PTL DEF Spec, Promise!Safety
=============================================================================
