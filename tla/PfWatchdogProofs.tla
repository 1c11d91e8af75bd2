-------------------------- MODULE PfWatchdogProofs --------------------------
(***************************************************************************)
(* Fail-open interception on macOS, for any number of watchdogs, timeout,  *)
(* tokens and faults: rules that lead nowhere are gone in time (FailOpen), *)
(* which is the safety part of FailOpenPath, and a daemon's reference to   *)
(* PF is never released by the watchdog of an earlier daemon.              *)
(*                                                                         *)
(* The argument: a dead daemon's rules have a watchdog at the end of its   *)
(* pipe, which acts before time passes.  A hung daemon's have one that has *)
(* counted at least as many ticks without a heartbeat as the rules have led*)
(* nowhere, and that is still armed: it disarms itself only by removing the*)
(* rules, and the daemon loads them again only after a heartbeat.          *)
(***************************************************************************)
EXTENDS PfWatchdog, NaturalsInduction, WellFoundedInduction, TLAPS

-----------------------------------------------------------------------------
(* The inductive invariant.                                                *)

DaemonFields == {"pc", "token", "wd", "boot", "due"}

WatchdogFields ==
    {"pc", "token", "flushed", "last", "in_token", "in_beat", "eof"}

TypesOK ==
    /\ DOMAIN daemon = DaemonFields /\ daemon.wd \in Watchdogs \cup {0}
    /\ DOMAIN wds = Watchdogs
    /\ \A w \in Watchdogs :
           DOMAIN wds[w] = WatchdogFields /\ wds[w].last \in 0..(ALIVE + 1)
    /\ dead \in 0..(ALIVE + 2) /\ 0 \notin refs /\ unguarded \in BOOLEAN

\* Nobody but the daemon and its watchdog knows the daemon's token.
TokenOwned ==
    /\ \A w \in Watchdogs :
           wds[w].pc = "gone" => wds[w].token = 0 /\ wds[w].in_token = 0
    /\ daemon.token # 0 => \A w \in Watchdogs \ {daemon.wd} :
           wds[w].token # daemon.token /\ wds[w].in_token # daemon.token

\* From the heartbeat of a refresh to the end of an installation.
Installing == {"check", "load", "enable", "write", "beat"}

\* Before its first installation a daemon has no watchdog.
Unborn == {"off", "stale_flush", "stale_release"}

\* A watchdog that polls is armed, or will read a beat before it looks again.
Armed ==
    /\ daemon.pc \in Unborn => daemon.wd = 0
    /\ daemon.wd # 0 /\ wds[daemon.wd].pc = "poll" =>
           /\ (anchor \/ daemon.pc \in Installing) /\ wds[daemon.wd].flushed
                  => wds[daemon.wd].in_beat
           /\ daemon.pc \in Installing /\ wds[daemon.wd].last > ALIVE
                  => wds[daemon.wd].in_beat

Cleaning(w) == w.pc = "flush" \/ (w.pc = "poll" /\ w.eof)

InTime ==
    /\ ~LeadNowhere => dead = 0
    /\ daemon.pc \in {"release", "quit"} => ~anchor
    /\ daemon.pc = "off" /\ anchor /\ ~unguarded =>
           dead <= ALIVE + 1 /\ \E w \in Watchdogs : Cleaning(wds[w])
    /\ daemon.pc = "hung" /\ anchor /\ ~unguarded =>
           /\ Guarded /\ dead <= ALIVE + 1
           /\ wds[daemon.wd].pc = "poll" =>
                  /\ dead <= wds[daemon.wd].last
                  /\ wds[daemon.wd].in_beat => dead = 0

IInv == TypesOK /\ TokenOwned /\ Armed /\ InTime

\* The first state: no daemon, no rules.
LEMMA InitIInv ==
    ASSUME Init PROVE IInv
  <1>1. /\ daemon.pc = "off" /\ daemon.token = 0 /\ daemon.wd = 0
        /\ DOMAIN daemon = DaemonFields
      BY DEF Init, Off, DaemonFields
  <1>2. ASSUME NEW w \in Watchdogs
        PROVE  /\ wds[w].pc = "gone" /\ wds[w].token = 0 /\ wds[w].in_token = 0
               /\ wds[w].last = 0 /\ DOMAIN wds[w] = WatchdogFields
      BY DEF Init, NoWatchdog, WatchdogFields
  <1>3. TypesOK
      <2>1. 0 \in 0..(ALIVE + 1) /\ 0 \in 0..(ALIVE + 2)
          BY PfAssumption
      <2>2. DOMAIN wds = Watchdogs /\ dead = 0 /\ refs = {} /\ unguarded \in BOOLEAN
          BY Zenon DEF Init
      <2> QED BY <1>1, <1>2, <2>1, <2>2 DEF TypesOK
  <1> QED BY <1>1, <1>2, <1>3 DEF IInv, TokenOwned, Armed, InTime, Init

-----------------------------------------------------------------------------
(* What kinds of steps keep.                                               *)

\* A step that takes no time.
Quick == dead' = IF LeadNowhere' THEN dead ELSE 0

\* After a step into a state that serves, or installs, nothing leads nowhere.
LEMMA AwakeInTime ==
    ASSUME Quick, daemon'.pc \notin {"off", "hung"},
           daemon'.pc \in {"release", "quit"} => ~anchor'
    PROVE  InTime'
  BY DEF Quick, InTime, LeadNowhere

\* The clock stays in its range.
LEMMA QuickClock ==
    ASSUME IInv, Quick
    PROVE  dead' \in 0..(ALIVE + 2) /\ dead' \in {dead, 0}
  BY PfAssumption DEF IInv, TypesOK, Quick

\* A step of the daemon that leaves the watchdogs alone: it loads rules only
\* while it installs, and its token is its old one, none or one nobody knows.
LEMMA DaemonKeeps ==
    ASSUME IInv, Quick, wds' = wds, DOMAIN daemon' = DaemonFields,
           daemon'.wd = daemon.wd,
           \/ daemon'.token \in {daemon.token, 0}
           \/ \A w \in Watchdogs : /\ wds[w].token # daemon'.token
                                   /\ wds[w].in_token # daemon'.token,
           0 \notin refs', unguarded' \in BOOLEAN,
           anchor' => anchor \/ daemon.pc \in Installing,
           daemon'.pc \in Installing => daemon.pc \in Installing \/ daemon.wd = 0,
           daemon'.pc \in Unborn => daemon.wd = 0
    PROVE  TypesOK' /\ TokenOwned' /\ Armed'
  <1>1. TypesOK'
      BY QuickClock DEF IInv, TypesOK
  <1>2. TokenOwned'
      BY DEF IInv, TokenOwned
  <1>3. Armed'
      BY DEF IInv, Armed
  <1> QED BY <1>1, <1>2, <1>3

-----------------------------------------------------------------------------
(* The daemon.                                                             *)

\* A daemon starts and cleans up after the one before.
LEMMA StartIInv ==
    ASSUME IInv, Quick, start \/ stale_flush \/ stale_release
    PROVE  IInv'
  <1>1. DOMAIN daemon = DaemonFields /\ 0 \notin refs /\ unguarded \in BOOLEAN
      BY DEF IInv, TypesOK
  <1>2. /\ daemon.pc \in Unborn /\ wds' = wds /\ refs' \subseteq refs
        /\ unguarded' = unguarded \/ unguarded' = FALSE
        /\ anchor' = anchor \/ anchor' = FALSE
      BY DEF Unborn, start, stale_flush, stale_release
  <1>3. daemon.wd = 0 /\ 0 \notin refs'
      BY <1>1, <1>2 DEF IInv, Armed
  <1>4. anchor' => anchor
      BY <1>2, Zenon
  <1>5. unguarded' \in BOOLEAN
      BY Zenon, <1>1, <1>2
  <1>6. /\ DOMAIN daemon' = DaemonFields /\ daemon'.wd = 0
        /\ daemon'.token \in {daemon.token, 0}
        /\ daemon'.pc \in {"stale_flush", "stale_release", "load"}
      <2>1. CASE start
          BY <2>1 DEF start, Off, DaemonFields
      <2>2. CASE stale_flush
          BY <2>2, <1>1, <1>3 DEF stale_flush, DaemonFields
      <2>3. CASE stale_release
          BY <2>3, <1>1, <1>3 DEF stale_release, DaemonFields
      <2> QED BY <2>1, <2>2, <2>3
  <1>7. TypesOK' /\ TokenOwned' /\ Armed'
      BY <1>2, <1>6, <1>3, <1>4, <1>5, DaemonKeeps DEF Unborn
  <1>8. InTime'
      BY <1>6, AwakeInTime
  <1> QED BY <1>7, <1>8 DEF IInv

\* anchor_load(), and the look at the rules before it.
LEMMA LoadIInv ==
    ASSUME IInv, Quick, anchor_load \/ check
    PROVE  IInv'
  <1>1. DOMAIN daemon = DaemonFields /\ 0 \notin refs /\ unguarded \in BOOLEAN
      BY DEF IInv, TypesOK
  <1>2. /\ wds' = wds /\ refs' = refs /\ unguarded' = unguarded
        /\ daemon.pc \in Installing
      BY DEF anchor_load, check, Installing
  <1>3. /\ DOMAIN daemon' = DaemonFields /\ daemon'.wd = daemon.wd
        /\ daemon'.token = daemon.token
        /\ daemon'.pc \in {"flush", "running", "enable", "load"}
      BY <1>1 DEF anchor_load, check, Failed, DaemonFields
  <1>4. TypesOK' /\ TokenOwned' /\ Armed'
      BY <1>1, <1>2, <1>3, DaemonKeeps DEF Unborn
  <1>5. InTime'
      BY <1>3, AwakeInTime
  <1> QED BY <1>4, <1>5 DEF IInv

\* Min of FiniteSetsExt, for numbers.
LEMMA MinIsMember ==
    ASSUME NEW S, S \subseteq Nat, S # {}
    PROVE  Min(S) \in S
  <1> DEFINE R == OpToRel(<, Nat)
  <1>1. PICK x \in S : \A y \in S : ~(<<y, x>> \in R)
      <2> HIDE DEF R
      <2>1. IsWellFoundedOn(R, Nat)
          BY NatLessThanWellFounded, Zenon DEF R
      <2> QED BY <2>1, WFMin, Zenon
  <1>2. \A y \in S : <<y, x>> \in R <=> y < x
      <2>1. R = {ss \in Nat \X Nat : ss[1] < ss[2]}
          BY Zenon DEF OpToRel
      <2> HIDE DEF R
      <2> QED BY <2>1
  <1> HIDE DEF R
  <1>3. \A y \in S : ~(y < x)
      BY <1>1, <1>2, Zenon
  <1>4. \A y \in S : x <= y
      BY <1>3
  <1> QED BY <1>4, Zenon DEF Min

\* pf_enable() takes a token nobody knows.
LEMMA EnableIInv ==
    ASSUME IInv, Quick, pf_enable
    PROVE  IInv'
  <1>1. DOMAIN daemon = DaemonFields /\ 0 \notin refs /\ unguarded \in BOOLEAN
      BY DEF IInv, TypesOK
  <1>2. /\ wds' = wds /\ unguarded' = unguarded /\ daemon.pc = "enable"
        /\ anchor' => anchor
      BY DEF pf_enable
  <1>3. ASSUME Unused # {} PROVE Min(Unused) \in Unused
      <2>1. Unused \subseteq Nat
          BY PfAssumption DEF Unused, Tokens
      <2> QED BY Zenon, <1>3, <2>1, MinIsMember
  <1> DEFINE m == Min(Unused)
  <1>4. CASE /\ Unused # {}
             /\ daemon' = [daemon EXCEPT !.pc = "write", !.token = m]
             /\ refs' = (refs \ {daemon.token}) \cup {m}
      <2>1. m \in Unused
          BY <1>3, <1>4
      <2>2. m # 0 /\ \A w \in Watchdogs : wds[w].token # m /\ wds[w].in_token # m
          BY Zenon, <2>1 DEF Unused
      <2> HIDE DEF m
      <2>3. /\ DOMAIN daemon' = DaemonFields /\ daemon'.wd = daemon.wd
            /\ daemon'.token = m /\ daemon'.pc = "write"
          BY <1>1, <1>4 DEF DaemonFields
      <2>4. 0 \notin refs'
          BY <1>1, <1>4, <2>2
      <2>5. TypesOK' /\ TokenOwned' /\ Armed'
          BY <1>1, <1>2, <2>2, <2>3, <2>4, DaemonKeeps DEF Installing, Unborn
      <2>6. InTime'
          BY <2>3, AwakeInTime
      <2> QED BY <2>5, <2>6 DEF IInv
  <1>5. CASE /\ \/ daemon' = [daemon EXCEPT !.pc = "beat"]
                \/ daemon' = Failed([daemon EXCEPT !.token = 0])
             /\ refs' \subseteq refs
      <2>1. /\ DOMAIN daemon' = DaemonFields /\ daemon'.wd = daemon.wd
            /\ daemon'.token \in {daemon.token, 0}
            /\ daemon'.pc \in {"beat", "flush", "running"}
          BY Zenon, <1>1, <1>5 DEF Failed, DaemonFields
      <2>2. TypesOK' /\ TokenOwned' /\ Armed'
          BY <1>1, <1>2, <1>5, <2>1, DaemonKeeps DEF Installing, Unborn
      <2>3. InTime'
          BY <2>1, AwakeInTime
      <2> QED BY <2>2, <2>3 DEF IInv
  <1> QED BY <1>4, <1>5 DEF pf_enable

\* The main loop wakes up, or is told to stop, and tpp_remove() runs.
LEMMA RemoveIInv ==
    ASSUME IInv, Quick, resume \/ on_signal \/ remove_flush \/ remove_release
    PROVE  IInv'
  <1>1. /\ DOMAIN daemon = DaemonFields /\ 0 \notin refs /\ unguarded \in BOOLEAN
        /\ daemon.pc \in {"release", "quit"} => ~anchor
      BY DEF IInv, TypesOK, InTime
  <1>2. /\ wds' = wds /\ refs' \subseteq refs
        /\ unguarded' = unguarded \/ unguarded' = FALSE
        /\ anchor' = anchor \/ anchor' = FALSE
      BY DEF resume, on_signal, remove_flush, remove_release
  <1>3. /\ DOMAIN daemon' = DaemonFields /\ daemon'.wd = daemon.wd
        /\ daemon'.token \in {daemon.token, 0}
        /\ daemon'.pc \in {"running", "flush", "release", "quit"}
      BY Zenon, <1>1 DEF resume, on_signal, remove_flush, remove_release, DaemonFields
  <1>4. daemon'.pc \in {"release", "quit"} => ~anchor'
      <2>1. CASE resume \/ on_signal
          BY Zenon, <2>1, <1>1 DEF resume, on_signal, DaemonFields
      <2>2. CASE remove_flush
          BY <2>2 DEF remove_flush
      <2>3. CASE remove_release
          BY <2>3, <1>1 DEF remove_release
      <2> QED BY <2>1, <2>2, <2>3
  <1>5. anchor' => anchor
      BY <1>2, Zenon
  <1>6. 0 \notin refs' /\ unguarded' \in BOOLEAN
      BY Zenon, <1>1, <1>2
  <1>7. TypesOK' /\ TokenOwned' /\ Armed'
      BY <1>2, <1>3, <1>5, <1>6, DaemonKeeps DEF Installing, Unborn
  <1>8. InTime'
      BY <1>3, <1>4, AwakeInTime
  <1> QED BY <1>7, <1>8 DEF IInv

\* The daemon hangs: from now on its watchdog counts.
LEMMA HangIInv ==
    ASSUME IInv, Quick, hang
    PROVE  IInv'
  <1>1. DOMAIN daemon = DaemonFields /\ 0 \notin refs /\ unguarded \in BOOLEAN
      BY DEF IInv, TypesOK
  <1>2. /\ wds' = wds /\ refs' = refs /\ anchor' = anchor
        /\ unguarded' = (unguarded \/ ~Guarded) /\ daemon.pc = "running"
      BY DEF hang
  <1>3. /\ DOMAIN daemon' = DaemonFields /\ daemon'.wd = daemon.wd
        /\ daemon'.token = daemon.token /\ daemon'.pc = "hung"
      BY <1>1 DEF hang, DaemonFields
  <1>4. TypesOK' /\ TokenOwned' /\ Armed'
      BY <1>1, <1>2, <1>3, DaemonKeeps DEF Installing, Unborn
  <1>5. dead' = 0
      BY <1>2 DEF IInv, InTime, LeadNowhere, Quick
  <1>6. Guarded => Guarded'
      BY <1>2, <1>3 DEF Guarded
  <1>7. Guarded => dead' <= wds'[daemon.wd].last
      <2>1. \A w \in Watchdogs : 0 <= wds'[w].last
          BY <1>2, PfAssumption DEF IInv, TypesOK
      <2> QED BY <1>5, <2>1 DEF Guarded, IInv, TypesOK
  <1>8. dead' <= ALIVE + 1
      BY <1>5, PfAssumption
  <1>9. ~unguarded' => Guarded
      BY Zenon, <1>2
  <1>10. InTime'
      BY <1>3, <1>5, <1>6, <1>7, <1>8, <1>9, Zenon DEF InTime
  <1> QED BY <1>4, <1>10 DEF IInv

\* Somebody runs `pfctl -d`: nothing leads anywhere any more.
LEMMA DisableIInv ==
    ASSUME IInv, Quick, pf_disable
    PROVE  IInv'
  <1>1. /\ DOMAIN daemon = DaemonFields /\ unguarded \in BOOLEAN
        /\ dead \in 0..(ALIVE + 2)
      BY DEF IInv, TypesOK
  <1>2. UNCHANGED <<daemon, wds, anchor, unguarded>> /\ refs' = {}
      BY DEF pf_disable
  <1>3. TypesOK' /\ TokenOwned' /\ Armed'
      <2>1. daemon.pc \in Unborn => daemon.wd = 0
          BY DEF IInv, Armed
      <2> QED BY <1>1, <1>2, <2>1, DaemonKeeps
  <1>4. dead' = 0
      BY <1>2 DEF Quick, LeadNowhere
  <1>5. InTime'
      <2>1. \A w \in Watchdogs : wds'[w].last >= 0
          BY <1>2, PfAssumption DEF IInv, TypesOK
      <2>2. 0 <= ALIVE + 1
          BY PfAssumption
      <2>3. Guarded => wds[daemon.wd].last >= 0
          BY <1>2, <2>1 DEF Guarded, IInv, TypesOK
      <2> QED BY <1>2, <1>4, <2>2, <2>3 DEF InTime, IInv, Guarded, Cleaning
  <1> QED BY <1>3, <1>5 DEF IInv

-----------------------------------------------------------------------------
(* The watchdogs.                                                          *)

\* A step of one watchdog: it learns a token only from its pipe.
LEMMA WatchdogKeeps ==
    ASSUME IInv, Quick, NEW w \in Watchdogs, daemon' = daemon,
           DOMAIN wds' = Watchdogs,
           \A v \in Watchdogs \ {w} : wds'[v] = wds[v],
           DOMAIN wds'[w] = WatchdogFields, wds'[w].last \in 0..(ALIVE + 1),
           wds'[w].token \in {wds[w].token, wds[w].in_token, 0},
           wds'[w].in_token \in {wds[w].in_token, 0},
           wds'[w].pc = "gone" => wds'[w].token = 0 /\ wds'[w].in_token = 0,
           anchor' => anchor, 0 \notin refs', unguarded' \in BOOLEAN,
           w = daemon.wd /\ wds'[w].pc = "poll" =>
               /\ (anchor' \/ daemon.pc \in Installing) /\ wds'[w].flushed
                      => wds'[w].in_beat
               /\ daemon.pc \in Installing /\ wds'[w].last > ALIVE
                      => wds'[w].in_beat
    PROVE  TypesOK' /\ TokenOwned' /\ Armed'
  <1>1. TypesOK'
      BY QuickClock DEF IInv, TypesOK
  <1>2. TokenOwned'
      <2>1. ASSUME NEW v \in Watchdogs, wds'[v].pc = "gone"
            PROVE  wds'[v].token = 0 /\ wds'[v].in_token = 0
          BY <2>1 DEF IInv, TokenOwned
      <2>2. ASSUME daemon.token # 0, NEW v \in Watchdogs \ {daemon.wd}
            PROVE  wds'[v].token # daemon.token /\ wds'[v].in_token # daemon.token
          BY <2>2 DEF IInv, TokenOwned
      <2> QED BY <2>1, <2>2 DEF TokenOwned
  <1>3. Armed'
      <2>1. daemon.wd \in Watchdogs \cup {0}
          BY DEF IInv, TypesOK
      <2>2. CASE w = daemon.wd
          BY <2>2 DEF IInv, Armed
      <2>3. CASE w # daemon.wd
          BY <2>1, <2>3 DEF IInv, Armed
      <2> QED BY <2>2, <2>3
  <1> QED BY <1>1, <1>2, <1>3

\* A watchdog that guards leaves its place only with the rules gone; a beat it
\* reads from a hung daemon is one from before any time passed.
LEMMA WatchdogInTime ==
    ASSUME IInv, Quick, NEW w \in Watchdogs, daemon' = daemon,
           \A v \in Watchdogs \ {w} : wds'[v] = wds[v],
           unguarded' = unguarded, anchor' => anchor,
           \/ ~anchor'
           \/ wds'[w].pc = "flush"
           \/ wds[w].pc \notin {"poll", "flush"}
           \/ /\ wds'[w].pc = "poll" /\ wds[w].pc = "poll"
              /\ wds'[w].eof = wds[w].eof
              /\ wds'[w].in_beat => wds[w].in_beat
              /\ \/ wds'[w].last = wds[w].last
                 \/ wds[w].in_beat /\ wds'[w].last = 0
    PROVE  InTime'
  <1>1. dead \in Nat /\ ALIVE \in Nat /\ daemon.wd \in Watchdogs \cup {0}
      BY PfAssumption DEF IInv, TypesOK
  <1>2. ASSUME ~LeadNowhere' PROVE dead' = 0
      BY <1>2 DEF Quick
  <1>3. daemon'.pc \in {"release", "quit"} => ~anchor'
      BY DEF IInv, InTime
  <1>4. dead' = dead \/ dead' = 0
      BY DEF Quick
  <1>5. ASSUME daemon.pc = "off", anchor', ~unguarded
        PROVE  dead' <= ALIVE + 1 /\ \E v \in Watchdogs : Cleaning(wds'[v])
      <2>1. PICK v \in Watchdogs : Cleaning(wds[v])
          BY <1>5 DEF IInv, InTime
      <2>2. dead <= ALIVE + 1
          BY <1>5 DEF IInv, InTime
      <2>3. Cleaning(wds'[v])
          BY <2>1, <1>5 DEF Cleaning
      <2> QED BY <2>2, <2>3, <1>1, <1>4
  <1>6. ASSUME daemon.pc = "hung", anchor', ~unguarded
        PROVE  /\ Guarded' /\ dead' <= ALIVE + 1
               /\ wds'[daemon.wd].pc = "poll" =>
                      /\ dead' <= wds'[daemon.wd].last
                      /\ wds'[daemon.wd].in_beat => dead' = 0
      <2>1. /\ Guarded /\ dead <= ALIVE + 1
            /\ wds[daemon.wd].pc = "poll" =>
                   /\ dead <= wds[daemon.wd].last
                   /\ wds[daemon.wd].in_beat => dead = 0
          BY <1>6 DEF IInv, InTime
      <2>2. daemon.wd \in Watchdogs /\ wds[daemon.wd].pc \in {"poll", "flush"}
          BY <2>1, <1>1 DEF Guarded
      <2>3. wds[daemon.wd].last \in Nat
          BY <2>2 DEF IInv, TypesOK
      <2>4. dead' <= ALIVE + 1
          BY <2>1, <1>1, <1>4
      <2>5. CASE daemon.wd # w
          BY <2>1, <2>2, <2>3, <2>4, <2>5, <1>4 DEF Guarded
      <2>6. CASE daemon.wd = w /\ wds'[w].pc = "flush"
          BY <2>1, <2>4, <2>6 DEF Guarded
      <2>7. CASE /\ daemon.wd = w /\ wds'[w].pc = "poll" /\ wds[w].pc = "poll"
                 /\ wds'[w].in_beat => wds[w].in_beat
                 /\ \/ wds'[w].last = wds[w].last
                    \/ wds[w].in_beat /\ wds'[w].last = 0
          <3>1. Guarded'
              BY <2>1, <2>7 DEF Guarded
          <3>2. dead' <= wds'[w].last /\ (wds'[w].in_beat => dead' = 0)
              BY <2>1, <2>3, <2>7, <1>1, <1>4
          <3> QED BY <2>4, <2>7, <3>1, <3>2
      <2> QED BY <1>6, <2>2, <2>5, <2>6, <2>7
  <1> QED BY <1>2, <1>3, <1>5, <1>6 DEF InTime

\* The watchdog takes what is in its pipe: a token, a beat that arms it again.
LEMMA ReadIInv ==
    ASSUME IInv, Quick, NEW w \in Watchdogs, wd_read(w)
    PROVE  IInv'
  <1> DEFINE x == wds[w]
             token == IF x.in_token # 0 THEN x.in_token ELSE x.token
             flushed == x.flushed /\ ~x.in_beat
             last == IF x.in_beat THEN 0 ELSE x.last
  <1>1. /\ DOMAIN wds = Watchdogs /\ DOMAIN x = WatchdogFields
        /\ x.last \in 0..(ALIVE + 1) /\ 0 \notin refs /\ unguarded \in BOOLEAN
      BY DEF IInv, TypesOK
  <1>2. /\ daemon' = daemon /\ anchor' = anchor /\ refs' = refs
        /\ unguarded' = unguarded /\ x.pc = "poll"
      BY DEF wd_read
  <1>3. /\ wds'[w] = [x EXCEPT !.token = token, !.flushed = flushed, !.last = last,
                               !.in_token = 0, !.in_beat = FALSE]
        /\ DOMAIN wds' = Watchdogs /\ \A v \in Watchdogs \ {w} : wds'[v] = wds[v]
      <2>1. wds' = [wds EXCEPT ![w] =
                [x EXCEPT !.token = token, !.flushed = flushed, !.last = last,
                          !.in_token = 0, !.in_beat = FALSE]]
          BY DEF wd_read
      <2> HIDE DEF token, flushed, last
      <2> QED BY <1>1, <2>1
  <1>4. /\ DOMAIN wds'[w] = WatchdogFields /\ wds'[w].pc = "poll"
        /\ wds'[w].token = token /\ wds'[w].flushed = flushed
        /\ wds'[w].last = last /\ wds'[w].in_token = 0
        /\ wds'[w].in_beat = FALSE /\ wds'[w].eof = x.eof
      <2> HIDE DEF x, token, flushed, last
      <2> QED BY <1>1, <1>2, <1>3 DEF WatchdogFields
  <1>5. token \in {x.token, x.in_token} /\ last \in 0..(ALIVE + 1)
      BY <1>1, PfAssumption
  <1>6. w = daemon.wd =>
            /\ (anchor \/ daemon.pc \in Installing) => ~flushed
            /\ daemon.pc \in Installing => ~(last > ALIVE)
      <2>1. ASSUME w = daemon.wd
            PROVE  /\ (anchor \/ daemon.pc \in Installing) /\ x.flushed => x.in_beat
                   /\ daemon.pc \in Installing /\ x.last > ALIVE => x.in_beat
          BY <1>2, <2>1, PfAssumption DEF IInv, Armed
      <2>2. ~(0 > ALIVE)
          BY PfAssumption
      <2>3. ASSUME x.in_beat PROVE last = 0
          BY <2>3
      <2>4. ASSUME ~x.in_beat PROVE last = x.last
          BY <2>4
      <2> QED BY <2>1, <2>2, <2>3, <2>4
  <1>7. (x.in_beat /\ last = 0) \/ last = x.last
      OBVIOUS
  <1> HIDE DEF x, token, flushed, last
  <1>8. TypesOK' /\ TokenOwned' /\ Armed'
      <2>1. wds'[w].token \in {wds[w].token, wds[w].in_token, 0}
          BY <1>4, <1>5 DEF x
      <2> QED BY Zenon, <2>1, <1>1, <1>2, <1>3, <1>4, <1>5, <1>6, WatchdogKeeps
  <1>9. InTime'
      BY Zenon, <1>2, <1>3, <1>4, <1>7, WatchdogInTime DEF x
  <1> QED BY <1>8, <1>9 DEF IInv

\* The end of the pipe, or SIGTERM: the watchdog will clean up.
LEMMA EofIInv ==
    ASSUME IInv, Quick, NEW w \in Watchdogs, wds[w].pc = "poll",
           wds' = [wds EXCEPT ![w].pc = "flush"],
           UNCHANGED <<daemon, anchor, refs, unguarded>>
    PROVE  IInv'
  <1>1. /\ DOMAIN wds = Watchdogs /\ DOMAIN wds[w] = WatchdogFields
        /\ wds[w].last \in 0..(ALIVE + 1) /\ 0 \notin refs /\ unguarded \in BOOLEAN
      BY DEF IInv, TypesOK
  <1>2. /\ DOMAIN wds' = Watchdogs /\ \A v \in Watchdogs \ {w} : wds'[v] = wds[v]
        /\ wds'[w] = [wds[w] EXCEPT !.pc = "flush"]
      BY <1>1
  <1>3. /\ DOMAIN wds'[w] = WatchdogFields /\ wds'[w].pc = "flush"
        /\ wds'[w].token = wds[w].token /\ wds'[w].in_token = wds[w].in_token
        /\ wds'[w].last = wds[w].last
      BY <1>1, <1>2 DEF WatchdogFields
  <1>4. TypesOK' /\ TokenOwned' /\ Armed'
      BY <1>1, <1>2, <1>3, WatchdogKeeps
  <1>5. InTime'
      BY <1>2, <1>3, WatchdogInTime
  <1> QED BY <1>4, <1>5 DEF IInv

\* No beat for too long: the rules go, and the watchdog disarms itself.
LEMMA HungIInv ==
    ASSUME IInv, Quick, NEW w \in Watchdogs, wd_hung(w)
    PROVE  IInv'
  <1>1. /\ DOMAIN wds = Watchdogs /\ DOMAIN wds[w] = WatchdogFields
        /\ wds[w].last \in 0..(ALIVE + 1) /\ 0 \notin refs /\ unguarded \in BOOLEAN
      BY DEF IInv, TypesOK
  <1>2. /\ daemon' = daemon /\ refs' = refs /\ unguarded' = unguarded
        /\ anchor' = FALSE /\ wds[w].pc = "poll" /\ wds[w].last > ALIVE
      BY DEF wd_hung
  <1>3. /\ DOMAIN wds' = Watchdogs /\ \A v \in Watchdogs \ {w} : wds'[v] = wds[v]
        /\ wds'[w] = [wds[w] EXCEPT !.flushed = TRUE]
      BY <1>1 DEF wd_hung
  <1>4. /\ DOMAIN wds'[w] = WatchdogFields /\ wds'[w].pc = "poll"
        /\ wds'[w].token = wds[w].token /\ wds'[w].in_token = wds[w].in_token
        /\ wds'[w].last = wds[w].last /\ wds'[w].in_beat = wds[w].in_beat
      BY <1>1, <1>2, <1>3 DEF WatchdogFields
  <1>5. w = daemon.wd /\ daemon.pc \in Installing => wds[w].in_beat
      BY <1>2, PfAssumption DEF IInv, Armed
  <1>6. TypesOK' /\ TokenOwned' /\ Armed'
      BY Zenon, <1>1, <1>2, <1>3, <1>4, <1>5, WatchdogKeeps
  <1>7. InTime'
      BY <1>2, <1>3, WatchdogInTime
  <1> QED BY <1>6, <1>7 DEF IInv

\* A watchdog that goes from one step of wd_cleanup() to the next, or ends,
\* with its rules gone or none to look after.
LEMMA CleanupKeeps ==
    ASSUME IInv, Quick, NEW w \in Watchdogs, NEW pc,
           pc \notin {"gone", "poll"},
           \/ wds' = [wds EXCEPT ![w] = NoWatchdog]
           \/ wds' = [wds EXCEPT ![w] = [wds[w] EXCEPT !.pc = pc]],
           daemon' = daemon, anchor' => anchor, 0 \notin refs',
           unguarded' \in BOOLEAN
    PROVE  /\ TypesOK' /\ TokenOwned' /\ Armed'
           /\ \A v \in Watchdogs \ {w} : wds'[v] = wds[v]
  <1>1. /\ DOMAIN wds = Watchdogs /\ DOMAIN wds[w] = WatchdogFields
        /\ wds[w].last \in 0..(ALIVE + 1)
      BY DEF IInv, TypesOK
  <1>2. /\ DOMAIN wds' = Watchdogs /\ \A v \in Watchdogs \ {w} : wds'[v] = wds[v]
        /\ wds'[w] = NoWatchdog \/ wds'[w] = [wds[w] EXCEPT !.pc = pc]
      BY <1>1
  <1>3. CASE wds'[w] = NoWatchdog
      <2>1. /\ DOMAIN wds'[w] = WatchdogFields /\ wds'[w].pc = "gone"
            /\ wds'[w].token = 0 /\ wds'[w].in_token = 0 /\ wds'[w].last = 0
          BY <1>3 DEF WatchdogFields, NoWatchdog
      <2>2. 0 \in 0..(ALIVE + 1)
          BY PfAssumption
      <2>3. TypesOK' /\ TokenOwned' /\ Armed'
          BY <1>2, <2>1, <2>2, WatchdogKeeps
      <2> QED BY <2>3, <1>2
  <1>4. CASE wds'[w] = [wds[w] EXCEPT !.pc = pc]
      <2>1. /\ DOMAIN wds'[w] = WatchdogFields /\ wds'[w].pc = pc
            /\ wds'[w].token = wds[w].token /\ wds'[w].in_token = wds[w].in_token
            /\ wds'[w].last = wds[w].last
          BY <1>1, <1>4 DEF WatchdogFields
      <2>2. TypesOK' /\ TokenOwned' /\ Armed'
          BY <1>1, <1>2, <2>1, WatchdogKeeps
      <2> QED BY <2>2, <1>2
  <1> QED BY <1>2, <1>3, <1>4

\* wd_cleanup(), step by step.
LEMMA CleanupIInv ==
    ASSUME IInv, Quick, NEW w \in Watchdogs,
           wd_flush(w) \/ wd_release(w) \/ wd_forget_read(w) \/ wd_forget_unlink(w)
    PROVE  IInv'
  <1>1. 0 \notin refs /\ unguarded \in BOOLEAN /\ DOMAIN wds = Watchdogs
      BY DEF IInv, TypesOK
  <1>2. /\ daemon' = daemon /\ unguarded' = unguarded /\ 0 \notin refs'
        /\ anchor' = anchor \/ anchor' = FALSE
        /\ \/ wds' = [wds EXCEPT ![w] = NoWatchdog]
           \/ wds' = [wds EXCEPT ![w] = [wds[w] EXCEPT !.pc = "release"]]
           \/ wds' = [wds EXCEPT ![w] = [wds[w] EXCEPT !.pc = "read"]]
           \/ wds' = [wds EXCEPT ![w] = [wds[w] EXCEPT !.pc = "unlink"]]
      <2>1. CASE wd_flush(w)
          BY Zenon, <1>1, <2>1 DEF wd_flush
      <2>2. CASE wd_release(w)
          BY <1>1, <2>2 DEF wd_release
      <2>3. CASE wd_forget_read(w)
          BY Zenon, <1>1, <2>3 DEF wd_forget_read
      <2>4. CASE wd_forget_unlink(w)
          BY <1>1, <2>4 DEF wd_forget_unlink
      <2> QED BY Zenon, <2>1, <2>2, <2>3, <2>4
  <1>3. anchor' => anchor
      BY <1>2, Zenon
  <1>4. /\ TypesOK' /\ TokenOwned' /\ Armed'
        /\ \A v \in Watchdogs \ {w} : wds'[v] = wds[v]
      BY <1>1, <1>2, <1>3, CleanupKeeps
  <1>5. ~anchor' \/ wds[w].pc \notin {"poll", "flush"}
      BY DEF wd_flush, wd_release, wd_forget_read, wd_forget_unlink
  <1>6. InTime'
      BY <1>2, <1>3, <1>4, <1>5, WatchdogInTime
  <1> QED BY <1>4, <1>6 DEF IInv

\* A watchdog is killed, or told to end.
LEMMA KillWatchdogIInv ==
    ASSUME IInv, Quick, NEW w \in Watchdogs, kill_watchdog(w)
    PROVE  IInv'
  <1>1. /\ 0 \notin refs /\ unguarded \in BOOLEAN
        /\ daemon.pc \in {"release", "quit"} => ~anchor
      BY DEF IInv, TypesOK, InTime
  <1>2. UNCHANGED <<daemon, anchor, refs>>
      BY DEF kill_watchdog
  <1>3. CASE /\ wds' = [wds EXCEPT ![w] = NoWatchdog]
             /\ unguarded' = (unguarded \/ daemon.pc \in {"off", "hung"})
      <2>1. TypesOK' /\ TokenOwned' /\ Armed'
          <3>1. unguarded' \in BOOLEAN
              BY <1>3
          <3>2. anchor' => anchor
              BY <1>2, Zenon
          <3>3. 0 \notin refs' /\ daemon' = daemon /\ "read" \notin {"gone", "poll"}
              BY <1>1, <1>2
          <3> QED BY <1>3, <3>1, <3>2, <3>3, CleanupKeeps, Zenon
      <2>2. daemon.pc \in {"off", "hung"} => unguarded'
          BY Zenon, <1>3
      <2>3. InTime'
          BY <1>1, <1>2, <2>2 DEF InTime, Quick
      <2> QED BY <2>1, <2>3 DEF IInv
  <1>4. CASE /\ wds[w].pc = "poll" /\ wds' = [wds EXCEPT ![w].pc = "flush"]
             /\ unguarded' = unguarded
      BY Zenon, <1>2, <1>4, EofIInv
  <1> QED BY <1>3, <1>4 DEF kill_watchdog

-----------------------------------------------------------------------------
(* Both sides of the pipe.                                                 *)

\* The token goes to the file and to the daemon's own watchdog.
LEMMA WriteIInv ==
    ASSUME IInv, Quick, token_file_write
    PROVE  IInv'
  <1>1. /\ DOMAIN daemon = DaemonFields /\ 0 \notin refs /\ unguarded \in BOOLEAN
        /\ DOMAIN wds = Watchdogs /\ daemon.wd \in Watchdogs \cup {0}
        /\ \A w \in Watchdogs : DOMAIN wds[w] = WatchdogFields
        /\ \A w \in Watchdogs : wds[w].last \in 0..(ALIVE + 1)
      BY DEF IInv, TypesOK
  <1>2. /\ UNCHANGED <<anchor, refs, unguarded>> /\ daemon.pc = "write"
        /\ wds' = wd_send_token(daemon.token)
      BY DEF token_file_write
  <1>3. /\ DOMAIN daemon' = DaemonFields /\ daemon'.wd = daemon.wd
        /\ daemon'.token = daemon.token /\ daemon'.pc = "beat"
      BY <1>1 DEF token_file_write, DaemonFields
  <1>4. /\ DOMAIN wds' = Watchdogs
        /\ \A w \in Watchdogs :
               /\ DOMAIN wds'[w] = WatchdogFields
               /\ wds'[w].pc = wds[w].pc /\ wds'[w].token = wds[w].token
               /\ wds'[w].flushed = wds[w].flushed
               /\ wds'[w].in_beat = wds[w].in_beat /\ wds'[w].last = wds[w].last
        /\ \A w \in Watchdogs : \/ wds'[w].in_token = wds[w].in_token
                                \/ w = daemon.wd /\ wds[w].pc # "gone"
      <2>1. CASE ~Alive(daemon.wd)
          BY <1>1, <1>2, <2>1 DEF wd_send_token
      <2>2. CASE Alive(daemon.wd)
          <3> DEFINE u == daemon.wd
          <3>1. u \in Watchdogs /\ wds[u].pc # "gone"
              BY <1>1, <2>2 DEF Alive
          <3>2. wds' = [wds EXCEPT ![u] = [wds[u] EXCEPT !.in_token = daemon.token]]
              BY <1>1, <1>2, <2>2 DEF wd_send_token
          <3> HIDE DEF u
          <3>3. /\ DOMAIN wds' = Watchdogs
                /\ \A w \in Watchdogs \ {u} : wds'[w] = wds[w]
                /\ wds'[u] = [wds[u] EXCEPT !.in_token = daemon.token]
              BY <1>1, <3>1, <3>2
          <3>4. /\ DOMAIN wds'[u] = WatchdogFields
                /\ wds'[u].pc = wds[u].pc /\ wds'[u].token = wds[u].token
                /\ wds'[u].flushed = wds[u].flushed
                /\ wds'[u].in_beat = wds[u].in_beat /\ wds'[u].last = wds[u].last
              BY <1>1, <3>1, <3>3 DEF WatchdogFields
          <3> QED BY Zenon, <1>1, <3>1, <3>3, <3>4 DEF u
      <2> QED BY <2>1, <2>2
  <1>5. TypesOK'
      BY <1>1, <1>2, <1>3, <1>4, QuickClock DEF TypesOK
  <1>6. TokenOwned'
      BY <1>3, <1>4 DEF IInv, TokenOwned
  <1>7. Armed'
      BY <1>1, <1>2, <1>3, <1>4 DEF IInv, Armed, Installing, Unborn
  <1>8. InTime'
      BY <1>3, AwakeInTime
  <1> QED BY <1>5, <1>6, <1>7, <1>8 DEF IInv

\* wd_beat(): a beat for the watchdog, or a new watchdog that knows the token.
LEMMA BeatIInv ==
    ASSUME IInv, Quick, NEW pc \in {"flush", "running", "check"}, NEW boot,
           wd_beat(pc, boot), UNCHANGED <<anchor, refs, unguarded>>
    PROVE  IInv'
  <1>1. /\ DOMAIN daemon = DaemonFields /\ 0 \notin refs /\ unguarded \in BOOLEAN
        /\ DOMAIN wds = Watchdogs /\ daemon.wd \in Watchdogs \cup {0}
        /\ \A w \in Watchdogs : DOMAIN wds[w] = WatchdogFields
        /\ \A w \in Watchdogs : wds[w].last \in 0..(ALIVE + 1)
      BY DEF IInv, TypesOK
  <1>2. CASE Alive(daemon.wd)
      <2> DEFINE u == daemon.wd
      <2>1. u \in Watchdogs /\ wds[u].pc # "gone"
          BY <1>1, <1>2 DEF Alive
      <2>2. /\ wds' = [wds EXCEPT ![u] = [wds[u] EXCEPT !.in_beat = TRUE]]
            /\ daemon' = [daemon EXCEPT !.pc = pc, !.boot = boot, !.due = 0]
          BY <1>1, <1>2 DEF wd_beat
      <2>3. /\ DOMAIN daemon' = DaemonFields /\ daemon'.wd = u
            /\ daemon'.token = daemon.token /\ daemon'.pc = pc
          BY <1>1, <2>2 DEF DaemonFields
      <2> HIDE DEF u
      <2>4. /\ DOMAIN wds' = Watchdogs
            /\ \A w \in Watchdogs \ {u} : wds'[w] = wds[w]
            /\ wds'[u] = [wds[u] EXCEPT !.in_beat = TRUE]
          BY <1>1, <2>1, <2>2
      <2>5. /\ DOMAIN wds'[u] = WatchdogFields /\ wds'[u].in_beat = TRUE
            /\ wds'[u].pc = wds[u].pc /\ wds'[u].token = wds[u].token
            /\ wds'[u].in_token = wds[u].in_token /\ wds'[u].last = wds[u].last
          BY <1>1, <2>1, <2>4 DEF WatchdogFields
      <2>6. TypesOK'
        <3>1. \A w \in Watchdogs :
                 DOMAIN wds'[w] = WatchdogFields /\ wds'[w].last = wds[w].last
            BY <1>1, <2>4, <2>5, Zenon
        <3>2. \A w \in Watchdogs :
                 DOMAIN wds'[w] = WatchdogFields /\ wds'[w].last \in 0..(ALIVE + 1)
            BY <1>1, <3>1, Zenon
        <3>3. daemon'.wd \in Watchdogs \cup {0}
            BY <1>1, <2>1, <2>3, Zenon
        <3> QED
            BY <1>1, <2>3, <2>4, <3>2, <3>3, QuickClock, Zenon DEF TypesOK
      <2>7. TokenOwned'
          <3>1. \A w \in Watchdogs :
                    /\ wds'[w].pc = wds[w].pc /\ wds'[w].token = wds[w].token
                    /\ wds'[w].in_token = wds[w].in_token
              BY Zenon, <2>4, <2>5
          <3>2. daemon'.wd = daemon.wd
              BY <2>3 DEF u
          <3> QED BY <3>1, <3>2, <2>3 DEF IInv, TokenOwned
      <2>8. Armed'
          BY <2>3, <2>5 DEF Armed, Unborn
      <2>9. InTime'
          BY <2>3, AwakeInTime
      <2> QED BY <2>6, <2>7, <2>8, <2>9 DEF IInv
  <1>3. CASE ~Alive(daemon.wd)
      <2> DEFINE new == [NoWatchdog EXCEPT !.pc = "poll", !.in_token = daemon.token]
      <2>1. PICK w \in Slots :
                /\ wds' = [v \in Watchdogs |-> IF v # w THEN wds[v] ELSE new]
                /\ daemon' = [daemon EXCEPT !.pc = pc, !.boot = boot, !.due = 0,
                                            !.wd = w]
          BY Zenon, <1>3 DEF wd_beat
      <2>2. w = 0 \/ (w \in Watchdogs /\ wds[w].pc = "gone")
          <3> DEFINE free == {v \in Watchdogs : wds[v].pc = "gone"}
          <3>1. ASSUME free # {} PROVE Min(free) \in free
              BY Zenon, <3>1, MinIsMember, PfAssumption
          <3> QED BY <2>1, <3>1 DEF Slots
      <2>3. /\ DOMAIN new = WatchdogFields /\ new.pc = "poll" /\ new.token = 0
            /\ new.in_token = daemon.token /\ new.flushed = FALSE /\ new.last = 0
          BY DEF NoWatchdog, WatchdogFields
      <2>4. /\ DOMAIN daemon' = DaemonFields /\ daemon'.wd = w
            /\ daemon'.token = daemon.token /\ daemon'.pc = pc
          BY <1>1, <2>1 DEF DaemonFields
      <2> HIDE DEF new
      <2>5. /\ DOMAIN wds' = Watchdogs
            /\ \A v \in Watchdogs \ {w} : wds'[v] = wds[v]
            /\ w \in Watchdogs => wds'[w] = new
          BY <2>1
      <2>6. 0 \in 0..(ALIVE + 1) /\ ~(0 > ALIVE) /\ 0 \notin Watchdogs
          BY PfAssumption
      <2>7. TypesOK'
          BY <1>1, <2>2, <2>3, <2>4, <2>5, <2>6, QuickClock DEF TypesOK
      <2>8. TokenOwned'
          <3>1. \A v \in Watchdogs :
                    wds[v].pc = "gone" => wds[v].token = 0 /\ wds[v].in_token = 0
              BY DEF IInv, TokenOwned
          <3>2. ASSUME NEW v \in Watchdogs, wds'[v].pc = "gone"
                PROVE  wds'[v].token = 0 /\ wds'[v].in_token = 0
              BY <3>1, <3>2, <2>3, <2>5
          <3>3. ASSUME daemon.token # 0, NEW v \in Watchdogs, v # w
                PROVE  wds'[v].token # daemon.token /\ wds'[v].in_token # daemon.token
              <4>1. CASE v = daemon.wd
                  <5>1. wds[v].pc = "gone"
                      BY <4>1, <1>3, <2>6, <3>3 DEF Alive
                  <5> QED BY <5>1, <3>1, <3>3, <2>5
              <4>2. CASE v # daemon.wd
                  BY <4>2, <3>3, <2>5 DEF IInv, TokenOwned
              <4> QED BY <4>1, <4>2
          <3> QED BY <3>2, <3>3, <2>4 DEF TokenOwned
      <2>9. Armed'
          BY <2>2, <2>3, <2>4, <2>5, <2>6 DEF Armed, Unborn
      <2>10. InTime'
          BY <2>4, AwakeInTime
      <2> QED BY <2>7, <2>8, <2>9, <2>10 DEF IInv
  <1> QED BY <1>2, <1>3

\* The daemon ends in order: its rules are gone, and so is its watchdog.
LEMMA StopIInv ==
    ASSUME IInv, Quick, wd_stop
    PROVE  IInv'
  <1>1. /\ 0 \notin refs /\ unguarded \in BOOLEAN /\ DOMAIN wds = Watchdogs
        /\ \A w \in Watchdogs : DOMAIN wds[w] = WatchdogFields
        /\ \A w \in Watchdogs : wds[w].last \in 0..(ALIVE + 1)
      BY DEF IInv, TypesOK
  <1>2. UNCHANGED <<anchor, refs, unguarded>> /\ daemon.pc = "quit"
      BY DEF wd_stop
  <1>3. /\ DOMAIN daemon' = DaemonFields /\ daemon'.wd = 0 /\ daemon'.token = 0
        /\ daemon'.pc = "off"
      BY DEF wd_stop, Off, DaemonFields
  <1>4. /\ DOMAIN wds' = Watchdogs
        /\ \A w \in Watchdogs : wds'[w] = NoWatchdog \/ wds'[w] = wds[w]
      BY DEF wd_stop
  <1>5. /\ DOMAIN NoWatchdog = WatchdogFields /\ NoWatchdog.last = 0
        /\ NoWatchdog.token = 0 /\ NoWatchdog.in_token = 0
      BY DEF NoWatchdog, WatchdogFields
  <1>6. 0 \in 0..(ALIVE + 1)
      BY PfAssumption
  <1>7. TypesOK'
      BY <1>1, <1>2, <1>3, <1>4, <1>5, <1>6, QuickClock DEF TypesOK
  <1>8. TokenOwned'
      BY <1>3, <1>4, <1>5 DEF IInv, TokenOwned
  <1>9. Armed'
      BY <1>3 DEF Armed
  <1>10. ~anchor'
      BY <1>2 DEF IInv, InTime
  <1>11. InTime'
      BY <1>3, <1>10 DEF InTime, Quick, LeadNowhere
  <1> QED BY <1>7, <1>8, <1>9, <1>11 DEF IInv

\* The daemon is killed: its watchdog, if it has one, sees the end of the pipe.
LEMMA KillDaemonIInv ==
    ASSUME IInv, Quick, kill_daemon
    PROVE  IInv'
  <1>1. /\ 0 \notin refs /\ unguarded \in BOOLEAN /\ DOMAIN wds = Watchdogs
        /\ daemon.wd \in Watchdogs \cup {0}
        /\ \A w \in Watchdogs : DOMAIN wds[w] = WatchdogFields
        /\ \A w \in Watchdogs : wds[w].last \in 0..(ALIVE + 1)
      BY DEF IInv, TypesOK
  <1>2. /\ UNCHANGED <<anchor, refs>> /\ daemon.pc # "off" /\ wds' = Hangup
        /\ unguarded' = (unguarded \/ ~Guarded)
      BY DEF kill_daemon
  <1>3. /\ DOMAIN daemon' = DaemonFields /\ daemon'.wd = 0 /\ daemon'.token = 0
        /\ daemon'.pc = "off"
      BY DEF kill_daemon, Off, DaemonFields
  <1>4. /\ DOMAIN wds' = Watchdogs
        /\ \A w \in Watchdogs :
               /\ DOMAIN wds'[w] = WatchdogFields
               /\ wds'[w].pc = wds[w].pc /\ wds'[w].token = wds[w].token
               /\ wds'[w].in_token = wds[w].in_token /\ wds'[w].last = wds[w].last
        /\ Guarded => wds'[daemon.wd].eof /\ daemon.wd \in Watchdogs
      <2>1. CASE ~Alive(daemon.wd)
          BY <1>1, <1>2, <2>1 DEF Hangup, Alive, Guarded
      <2>2. CASE Alive(daemon.wd)
          <3> DEFINE u == daemon.wd
          <3>1. u \in Watchdogs
              BY <1>1, <2>2 DEF Alive
          <3>2. wds' = [wds EXCEPT ![u] = [wds[u] EXCEPT !.eof = TRUE]]
              BY <1>1, <1>2, <2>2 DEF Hangup
          <3> HIDE DEF u
          <3>3. /\ DOMAIN wds' = Watchdogs
                /\ \A w \in Watchdogs \ {u} : wds'[w] = wds[w]
                /\ wds'[u] = [wds[u] EXCEPT !.eof = TRUE]
              BY <1>1, <3>1, <3>2
          <3>4. /\ DOMAIN wds'[u] = WatchdogFields /\ wds'[u].eof = TRUE
                /\ wds'[u].pc = wds[u].pc /\ wds'[u].token = wds[u].token
                /\ wds'[u].in_token = wds[u].in_token /\ wds'[u].last = wds[u].last
              BY <1>1, <3>1, <3>3 DEF WatchdogFields
          <3> QED BY Zenon, <1>1, <3>1, <3>3, <3>4 DEF u
      <2> QED BY <2>1, <2>2
  <1>5. unguarded' \in BOOLEAN
      BY <1>2
  <1>6. TypesOK'
      BY <1>1, <1>2, <1>3, <1>4, <1>5, QuickClock DEF TypesOK
  <1>7. TokenOwned' /\ Armed'
      BY <1>3, <1>4 DEF IInv, TokenOwned, Armed
  <1>8. ~unguarded' => Guarded /\ ~unguarded
      BY Zenon, <1>1, <1>2
  <1>9. ASSUME anchor, ~unguarded
        PROVE  dead' <= ALIVE + 1
      <2>1. CASE daemon.pc = "hung"
          BY <1>9, <2>1, QuickClock, PfAssumption DEF IInv, InTime
      <2>2. CASE daemon.pc # "hung"
          <3>1. dead = 0
              BY <1>2, <2>2 DEF IInv, InTime, LeadNowhere
          <3> QED BY <3>1, QuickClock, PfAssumption
      <2> QED BY <2>1, <2>2
  <1>10. Guarded => Cleaning(wds'[daemon.wd]) /\ daemon.wd \in Watchdogs
      BY <1>4 DEF Guarded, Cleaning
  <1>11. InTime'
      BY <1>2, <1>3, <1>8, <1>9, <1>10 DEF InTime, Quick
  <1> QED BY <1>6, <1>7, <1>11 DEF IInv

-----------------------------------------------------------------------------
(* Time, and every step.                                                   *)

\* A tick finds no watchdog that is cleaning up, and an armed one counts it.
LEMMA TickIInv ==
    ASSUME IInv, tick
    PROVE  IInv'
  <1>1. /\ DOMAIN daemon = DaemonFields /\ DOMAIN wds = Watchdogs
        /\ daemon.wd \in Watchdogs \cup {0}
        /\ \A w \in Watchdogs : DOMAIN wds[w] = WatchdogFields
        /\ \A w \in Watchdogs : wds[w].last \in 0..(ALIVE + 1)
        /\ dead \in 0..(ALIVE + 2)
      BY DEF IInv, TypesOK
  <1>2. /\ UNCHANGED <<anchor, refs, unguarded>>
        /\ daemon.pc \in {"off", "running", "hung"}
      BY DEF tick
  <1>3. /\ DOMAIN daemon' = DaemonFields /\ daemon'.wd = daemon.wd
        /\ daemon'.token = daemon.token /\ daemon'.pc = daemon.pc
      <2> DEFINE due == IF daemon.pc = "running" THEN 1 ELSE daemon.due
      <2>1. daemon' = [daemon EXCEPT !.due = due]
          BY DEF tick
      <2> HIDE DEF due
      <2> QED BY <1>1, <2>1 DEF DaemonFields
  <1>4. ALIVE \in Nat
      BY PfAssumption
  <1>5. ASSUME NEW w \in Watchdogs
        PROVE  /\ DOMAIN wds'[w] = WatchdogFields
               /\ wds'[w].pc = wds[w].pc /\ wds'[w].token = wds[w].token
               /\ wds'[w].in_token = wds[w].in_token
               /\ wds'[w].in_beat = wds[w].in_beat
               /\ wds'[w].flushed = wds[w].flushed
               /\ wds'[w].last = IF wds[w].pc # "poll" \/ wds[w].last > ALIVE
                                   THEN wds[w].last ELSE wds[w].last + 1
      <2>1. CASE wds[w].pc # "poll" \/ wds[w].last > ALIVE
          <3>1. wds'[w] = wds[w]
              BY <2>1 DEF tick
          <3> QED BY <1>1, <2>1, <3>1
      <2>2. CASE ~(wds[w].pc # "poll" \/ wds[w].last > ALIVE)
          <3> DEFINE n == wds[w].last + 1
          <3>1. wds'[w] = [wds[w] EXCEPT !.last = n]
              BY <2>2 DEF tick
          <3> HIDE DEF n
          <3>2. /\ DOMAIN wds'[w] = WatchdogFields /\ wds'[w].last = n
                /\ wds'[w].pc = wds[w].pc /\ wds'[w].token = wds[w].token
                /\ wds'[w].in_token = wds[w].in_token
                /\ wds'[w].in_beat = wds[w].in_beat
                /\ wds'[w].flushed = wds[w].flushed
              BY <1>1, <3>1 DEF WatchdogFields
          <3> QED BY <2>2, <3>2 DEF n
      <2> QED BY <2>1, <2>2
  <1>6. dead' = IF ~LeadNowhere THEN 0
                ELSE IF dead > ALIVE + 1 THEN dead ELSE dead + 1
      BY DEF tick
  <1>7. TypesOK'
      <2>1. dead' \in 0..(ALIVE + 2)
          BY <1>1, <1>4, <1>6
      <2>2. \A w \in Watchdogs : wds'[w].last \in 0..(ALIVE + 1)
          BY <1>1, <1>4, <1>5
      <2>3. DOMAIN wds' = Watchdogs
          BY DEF tick
      <2>4. 0 \notin refs' /\ unguarded' \in BOOLEAN
          BY <1>2 DEF IInv, TypesOK
      <2> QED BY <1>1, <1>3, <1>5, <2>1, <2>2, <2>3, <2>4 DEF TypesOK
  <1>8. TokenOwned'
      BY <1>3, <1>5 DEF IInv, TokenOwned
  <1>9. Armed'
      <2>1. daemon.pc \notin Installing
          BY <1>2 DEF Installing
      <2> QED BY <1>1, <1>2, <1>3, <1>5, <2>1 DEF IInv, Armed
  <1>10. InTime'
      <2>1. LeadNowhere' <=> LeadNowhere
          BY <1>2, <1>3 DEF LeadNowhere
      <2>2. ~LeadNowhere' => dead' = 0
          BY <2>1, <1>6
      <2>3. \A w \in Watchdogs : ~Cleaning(wds[w])
          BY DEF tick, Cleaning
      <2>4. ~(daemon.pc = "off" /\ anchor /\ ~unguarded)
          BY <2>3 DEF IInv, InTime
      <2>5. ASSUME daemon.pc = "hung", anchor, ~unguarded
            PROVE  /\ Guarded' /\ dead' <= ALIVE + 1
                   /\ dead' <= wds'[daemon.wd].last /\ ~wds'[daemon.wd].in_beat
          <3> DEFINE u == daemon.wd
          <3>1. Guarded /\ (wds[u].pc = "poll" => dead <= wds[u].last)
              BY <2>5 DEF IInv, InTime
          <3>2. u # 0 /\ u \in Watchdogs /\ wds[u].pc = "poll"
              BY <1>1, <2>3, <3>1 DEF Guarded, Cleaning
          <3>3. ~wds[u].in_beat /\ (wds[u].last > ALIVE => wds[u].flushed)
              BY <3>2 DEF tick, Pending
          <3>4. ~wds[u].flushed
              BY <2>5, <3>2, <3>3 DEF IInv, Armed
          <3> HIDE DEF u
          <3>5. ~(wds[u].last > ALIVE)
              BY <3>3, <3>4
          <3>6. wds'[u].last = wds[u].last + 1 /\ wds[u].last \in Nat
              BY <1>1, <1>4, <1>5, <3>2, <3>5
          <3>7. dead <= wds[u].last
              BY <3>1, <3>2
          <3>8. dead' <= wds'[u].last /\ wds'[u].last <= ALIVE + 1 /\ dead' \in Nat
              BY <1>1, <1>4, <1>6, <3>5, <3>6, <3>7
          <3>9. wds'[u].last \in Nat
              BY <3>6
          <3>10. dead' <= ALIVE + 1
              BY <3>8, <3>9, <1>4
          <3>11. Guarded' /\ ~wds'[u].in_beat
              BY <1>3, <1>5, <3>2, <3>3 DEF Guarded, u
          <3> QED BY <3>8, <3>10, <3>11 DEF u
      <2> QED BY <1>2, <1>3, <2>2, <2>4, <2>5 DEF InTime
  <1> QED BY <1>7, <1>8, <1>9, <1>10 DEF IInv

\* Every step keeps the invariant.
LEMMA StepIInv ==
    ASSUME IInv, [Next]_vars
    PROVE  IInv'
  <1>1. CASE Timeless(DaemonStep)
      <2>1. Quick /\ DaemonStep
          BY <1>1 DEF Timeless, Quick
      <2>2. CASE install_beat
          <3> DEFINE pc == IF daemon.boot /\ ~anchor THEN "flush" ELSE "running"
          <3>1. pc \in {"flush", "running", "check"}
              OBVIOUS
          <3>2. wd_beat(pc, FALSE) /\ UNCHANGED <<anchor, refs, unguarded>>
              BY Zenon, <2>2 DEF install_beat
          <3> HIDE DEF pc
          <3> QED BY Zenon, <2>1, <3>1, <3>2, BeatIInv
      <2>3. CASE tpp_refresh
          <3>1. wd_beat("check", FALSE) /\ UNCHANGED <<anchor, refs, unguarded>>
              BY Zenon, <2>3 DEF tpp_refresh
          <3> QED BY Zenon, <2>1, <3>1, BeatIInv
      <2> QED BY <2>1, <2>2, <2>3, StartIInv, LoadIInv, EnableIInv, WriteIInv,
                 RemoveIInv, StopIInv DEF DaemonStep
  <1>2. CASE Timeless(Environment)
      <2>1. Quick /\ Environment
          BY <1>2 DEF Timeless, Quick
      <2> QED BY <2>1, StartIInv, HangIInv, RemoveIInv, KillDaemonIInv,
                 DisableIInv, KillWatchdogIInv DEF Environment
  <1>3. ASSUME NEW w \in Watchdogs, Timeless(WatchdogStep(w))
        PROVE  IInv'
      <2>1. Quick /\ WatchdogStep(w)
          BY <1>3 DEF Timeless, Quick
      <2>2. CASE wd_eof(w)
          BY Zenon, <2>1, <2>2, EofIInv DEF wd_eof
      <2> QED BY <2>1, <2>2, ReadIInv, HungIInv, CleanupIInv DEF WatchdogStep
  <1>4. CASE tick
      BY <1>4, TickIInv
  <1>5. CASE UNCHANGED vars
      BY <1>5 DEF vars, IInv, TypesOK, TokenOwned, Armed, InTime, LeadNowhere,
                  Guarded, Cleaning
  <1> QED BY <1>1, <1>2, <1>3, <1>4, <1>5 DEF Next

-----------------------------------------------------------------------------
(* The theorems.                                                           *)

\* The invariant holds throughout.
LEMMA AlwaysIInv == Spec => []IInv
  <1>1. Init => IInv
      BY InitIInv
  <1>2. IInv /\ [Next]_vars => IInv'
      BY StepIInv
  <1> QED BY <1>1, <1>2, PTL DEF Spec

\* The invariant bounds the time in which the rules lead nowhere.
LEMMA InvFailOpen ==
    ASSUME IInv PROVE FailOpen
  <1>1. dead \in Nat /\ ALIVE \in Nat
      BY PfAssumption DEF IInv, TypesOK
  <1>2. SUFFICES ASSUME dead > ALIVE + 1, ~unguarded PROVE FALSE
      BY DEF FailOpen
  <1>3. LeadNowhere
      BY <1>1, <1>2 DEF IInv, InTime
  <1>4. dead <= ALIVE + 1
      BY <1>2, <1>3 DEF IInv, InTime, LeadNowhere
  <1> QED BY <1>1, <1>2, <1>4

\* Rules that lead nowhere are gone within TP_ALIVE_TIMEOUT_S, as long as the
\* daemon's watchdog is there when it dies or hangs, and is not killed too.
THEOREM SpecFailOpen == Spec => []FailOpen
  BY AlwaysIInv, InvFailOpen, PTL

Counted == faults \in Nat

\* The faults are counted.
LEMMA AlwaysCounted == Spec => []Counted
  <1>1. Init => Counted
      BY DEF Init, Counted
  <1>2. ASSUME faults \in Nat, [Next]_vars PROVE faults' \in Nat
      <2>1. CASE Timeless(DaemonStep)
          BY Zenon, <1>2, <2>1 DEF Timeless, DaemonStep, stale_flush, stale_release,
             anchor_load, pf_enable, token_file_write, install_beat, tpp_refresh,
             check, remove_flush, remove_release, wd_stop
      <2>2. CASE Timeless(Environment)
          <3>1. ASSUME NEW w \in Watchdogs, kill_watchdog(w) PROVE faults' \in Nat
              BY <1>2, <3>1 DEF kill_watchdog
          <3>2. CASE kill_daemon \/ pf_disable
              BY <1>2, <3>2 DEF kill_daemon, pf_disable
          <3>3. CASE start \/ hang \/ resume \/ on_signal
              BY <1>2, <3>3 DEF start, hang, resume, on_signal
          <3> QED BY <2>2, <3>1, <3>2, <3>3 DEF Timeless, Environment
      <2>3. ASSUME NEW w \in Watchdogs, Timeless(WatchdogStep(w))
            PROVE  faults' \in Nat
          BY <1>2, <2>3 DEF Timeless, WatchdogStep, wd_read, wd_eof, wd_hung,
             wd_flush, wd_release, wd_forget_read, wd_forget_unlink
      <2>4. CASE tick \/ UNCHANGED vars
          BY <1>2, <2>4 DEF tick, vars
      <2> QED BY <1>2, <2>1, <2>2, <2>3, <2>4 DEF Next
  <1>3. Counted /\ [Next]_vars => Counted'
      BY <1>2 DEF Counted
  <1> QED BY <1>1, <1>3, PTL DEF Spec

\* The reference that keeps PF enabled for a daemon is never released by the
\* watchdog of an earlier daemon, however late that one cleans up.
THEOREM SpecReleasedByOwner == Spec => ReleasedByOwner
  <1>1. ASSUME IInv, faults \in Nat, [Next]_vars, daemon.token \in refs \ refs',
               daemon' = daemon, faults' = faults
        PROVE  daemon.wd # 0 /\ wds[daemon.wd].pc = "release"
      <2>1. daemon.token # 0 /\ DOMAIN daemon = DaemonFields
          BY <1>1 DEF IInv, TypesOK
      <2>2. refs' # refs
          BY <1>1
      <2>3. PICK w \in Watchdogs : wd_release(w)
          <3>1. ASSUME NEW w \in Watchdogs, Timeless(WatchdogStep(w))
                PROVE  wd_release(w)
              BY <2>2, <3>1 DEF Timeless, WatchdogStep, wd_read, wd_eof, wd_hung,
                     wd_flush, wd_forget_read, wd_forget_unlink
          <3>2. ~Timeless(Environment)
              <4>1. ASSUME NEW w \in Watchdogs PROVE ~kill_watchdog(w)
                  BY <2>2 DEF kill_watchdog
              <4>2. ~pf_disable
                  <5>1. ASSUME pf_disable PROVE faults' = faults + 1
                      BY <5>1 DEF pf_disable
                  <5> QED BY <5>1, <1>1
              <4> QED BY <2>2, <4>1, <4>2 DEF Timeless, Environment, start, hang,
                         resume, on_signal, kill_daemon
          <3>3. ~Timeless(DaemonStep)
              <4>1. ~stale_release /\ ~remove_release /\ ~pf_enable
                  BY Zenon, <1>1, <2>1
                     DEF stale_release, remove_release, pf_enable, Failed, DaemonFields
              <4> QED BY Zenon, <2>2, <4>1 DEF Timeless, DaemonStep, stale_flush,
                         anchor_load, token_file_write, install_beat, tpp_refresh,
                         check, remove_flush, wd_stop
          <3>4. ~tick
              BY <2>2 DEF tick
          <3> QED BY <1>1, <2>2, <3>1, <3>2, <3>3, <3>4 DEF Next, vars
      <2>4. wds[w].pc = "release" /\ wds[w].token = daemon.token
          BY <1>1, <2>3 DEF wd_release
      <2>5. w = daemon.wd
          BY <1>1, <2>1, <2>4 DEF IInv, TokenOwned
      <2> QED BY <2>4, <2>5, PfAssumption
  <1>2. IInv /\ Counted /\ [Next]_vars =>
            [daemon.token \in refs \ refs' =>
                \/ daemon' # daemon \/ faults' # faults
                \/ (daemon.wd # 0 /\ wds[daemon.wd].pc = "release")]_vars
      BY <1>1 DEF Counted
  <1> QED BY <1>2, AlwaysIInv, AlwaysCounted, PTL DEF Spec, ReleasedByOwner

-----------------------------------------------------------------------------
(* The anchor, the token and the watchdog implement the promise.           *)

\* How the traffic fares, as the promise sees it.
Path == [p \in {"all"} |-> IF ~anchor \/ refs = {} THEN "open"
                           ELSE IF LeadNowhere THEN "dead" ELSE "served"]

\* While no daemon serves, nobody loads rules or enables PF, and the exception
\* ends only with the state it is about.
LEMMA NobodyTakesOver ==
    ASSUME IInv, DaemonStep \/ Environment \/ \E w \in Watchdogs : WatchdogStep(w),
           daemon'.pc \in {"off", "hung"}
    PROVE  (anchor' => anchor) /\ refs' \subseteq refs /\ (unguarded => unguarded')
  <1>1. DOMAIN daemon = DaemonFields
      BY DEF IInv, TypesOK
  <1>2. CASE DaemonStep
      <2>1. ~stale_flush /\ ~stale_release /\ ~token_file_write /\ ~check
            /\ ~remove_flush /\ ~remove_release
          BY Zenon, <1>1 DEF stale_flush, stale_release, token_file_write, check,
                      remove_flush, remove_release, DaemonFields
      <2>2. ~anchor_load /\ ~pf_enable
          BY Zenon, <1>1 DEF anchor_load, pf_enable, Failed, DaemonFields
      <2>3. ~install_beat /\ ~tpp_refresh
          BY Zenon, <1>1 DEF install_beat, tpp_refresh, wd_beat, DaemonFields
      <2> QED BY <1>2, <2>1, <2>2, <2>3 DEF DaemonStep, wd_stop
  <1>3. CASE Environment
      <2>1. ~start /\ ~resume /\ ~on_signal
          BY Zenon, <1>1 DEF start, resume, on_signal, Off, DaemonFields
      <2>2. ASSUME NEW w \in Watchdogs, kill_watchdog(w)
            PROVE  /\ UNCHANGED <<anchor, refs>>
                   /\ unguarded' = unguarded
                      \/ unguarded' = (unguarded \/ daemon.pc \in {"off", "hung"})
          BY <2>2 DEF kill_watchdog
      <2>3. CASE hang \/ kill_daemon
          <3>1. /\ UNCHANGED <<anchor, refs>>
                /\ unguarded' = (unguarded \/ ~Guarded)
              BY <2>3 DEF hang, kill_daemon
          <3> QED BY Zenon, <3>1
      <2>4. CASE pf_disable
          BY <2>4 DEF pf_disable
      <2> QED BY Zenon, <1>3, <2>1, <2>2, <2>3, <2>4 DEF Environment
  <1>4. ASSUME NEW w \in Watchdogs, WatchdogStep(w)
        PROVE  (anchor' => anchor) /\ refs' \subseteq refs /\ (unguarded => unguarded')
      <2>1. /\ anchor' = anchor \/ anchor' = FALSE
            /\ refs' \subseteq refs /\ unguarded' = unguarded
          <3>1. CASE wd_hung(w) \/ wd_flush(w)
              BY <3>1 DEF wd_hung, wd_flush
          <3>2. CASE wd_release(w)
              BY <3>2 DEF wd_release
          <3>3. CASE wd_read(w) \/ wd_eof(w) \/ wd_forget_read(w) \/ wd_forget_unlink(w)
              BY <3>3 DEF wd_read, wd_eof, wd_forget_read, wd_forget_unlink
          <3> QED BY Zenon, <1>4, <3>1, <3>2, <3>3 DEF WatchdogStep
      <2>2. anchor' => anchor
          BY <2>1, Zenon
      <2>3. unguarded => unguarded'
          BY <2>1, Zenon
      <2> QED BY <2>1, <2>2, <2>3
  <1> QED BY <1>2, <1>3, <1>4

\* A step that takes no time is a rerouting.
LEMMA QuickReroutes ==
    ASSUME IInv, IInv', Quick,
           DaemonStep \/ Environment \/ \E w \in Watchdogs : WatchdogStep(w)
    PROVE  Promise!Next
  <1>1. Path' \in [{"all"} -> {"open", "served", "dead"}]
      BY DEF Path
  <1>2. LeadNowhere' => anchor /\ refs # {} /\ (unguarded => unguarded')
      BY NobodyTakesOver DEF LeadNowhere
  <1>3. \A p \in {"all"} : Path[p] = "open" => Path'[p] # "dead"
      BY <1>2 DEF Path
  <1>4. Promise!SomeDead(Path)' <=> LeadNowhere'
      BY DEF Promise!SomeDead, Path, LeadNowhere
  <1>5. dead' = IF Promise!SomeDead(Path)' THEN dead ELSE 0
      BY <1>4, Zenon DEF Quick
  <1>6. unguarded' \in BOOLEAN /\ (unguarded /\ ~unguarded' => ~Promise!SomeDead(Path)')
      BY <1>2, <1>4 DEF IInv, TypesOK
  <1> QED BY <1>1, <1>3, <1>5, <1>6
          DEF Promise!Next, Promise!Reroute, Promise!Modes, Promise!SomeDead, Path

\* Time passes for the promise when it passes for the watchdogs.
LEMMA TickTicks ==
    ASSUME IInv, IInv', tick
    PROVE  Promise!Next
  <1>1. UNCHANGED <<anchor, refs, unguarded>> /\ daemon'.pc = daemon.pc
      BY DEF tick, IInv, TypesOK, DaemonFields
  <1>2. LeadNowhere' <=> LeadNowhere
      BY <1>1 DEF LeadNowhere
  <1>3. Path' \in [{"all"} -> {"open", "served", "dead"}]
      BY DEF Path
  <1>4. \A p \in {"all"} : Path'[p] \in {Path[p], "open"}
      BY <1>1, <1>2 DEF Path
  <1>5. Promise!SomeDead(Path)' <=> LeadNowhere'
      BY DEF Promise!SomeDead, Path, LeadNowhere
  <1>6. dead \in 0..(ALIVE + 2) /\ dead' \in 0..(ALIVE + 2) /\ ALIVE \in Nat
      BY PfAssumption DEF IInv, TypesOK
  <1>7. dead' = IF ~LeadNowhere' THEN 0
                ELSE IF dead < ALIVE + 2 THEN dead + 1 ELSE ALIVE + 2
      BY <1>2, <1>6 DEF tick
  <1>8. dead' = IF ~Promise!SomeDead(Path)' THEN 0
                ELSE IF dead < ALIVE + 2 THEN dead + 1 ELSE ALIVE + 2
      BY <1>5, <1>7, Zenon
  <1>9. dead' < ALIVE + 2 \/ unguarded
      <2>1. FailOpen'
          BY InvFailOpen, PTL
      <2> QED BY <1>1, <1>6, <2>1 DEF FailOpen
  <1> QED BY <1>1, <1>3, <1>4, <1>8, <1>9
          DEF Promise!Next, Promise!Tick, Promise!Modes, Promise!SomeDead, Path

\* The anchor, the token and the watchdogs keep the promise's initial state and
\* its steps: somebody serves before traffic is redirected, and it does not lead
\* nowhere for longer than TP_ALIVE_TIMEOUT_S while the daemon is guarded.
THEOREM SpecPromise == Spec => Promise!Safety
  <1>1. Init => Promise!Init
      BY DEF Init, Promise!Init
  <1>2. IInv /\ IInv' /\ [Next]_vars => [Promise!Next]_(Promise!vars)
      <2> SUFFICES ASSUME IInv, IInv', [Next]_vars
                   PROVE  Promise!Next \/ UNCHANGED Promise!vars
          OBVIOUS
      <2>1. CASE \/ Timeless(DaemonStep) \/ Timeless(Environment)
                 \/ \E w \in Watchdogs : Timeless(WatchdogStep(w))
          BY <2>1, QuickReroutes DEF Timeless, Quick
      <2>2. CASE tick
          BY <2>2, TickTicks
      <2>3. CASE UNCHANGED vars
          BY <2>3 DEF vars, Promise!vars, LeadNowhere
      <2> QED BY <2>1, <2>2, <2>3 DEF Next
  <1> QED BY <1>1, <1>2, AlwaysIInv, PTL DEF Spec, Promise!Safety

=============================================================================
