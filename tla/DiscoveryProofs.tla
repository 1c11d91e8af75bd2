-------------------------- MODULE DiscoveryProofs ---------------------------
(***************************************************************************)
(* dpictl probe for any number of probes, domains, networks, ladders and   *)
(* attempts, whatever works: what probes leave behind, the service's rules *)
(* after them, and the results the cache file keeps.                       *)
(*                                                                         *)
(* The argument: an engine has the queue exactly while it runs, and a      *)
(* probe's engine only lives while the probe waits for it; as long as      *)
(* nobody is committed to start the service again, it is down and the      *)
(* table is there only for a probe that will remove it; a service started  *)
(* while no probe is on is on its way up or up only until a probe begins,  *)
(* which stops it; and the copy of the file a process read has lost no     *)
(* domain when it is saved.                                                *)
(***************************************************************************)
EXTENDS Discovery, WellFoundedInduction, NaturalsInduction, TLAPS

-----------------------------------------------------------------------------
(* The inductive invariant.                                                *)

Fields == {"pc", "domain", "restart", "fp", "cache", "ladder_idx", "attempt", "result"}

\* Of a probe only where it is and whether it restarts the service matter.
TypeOK ==
    /\ DOMAIN probers = Probers /\ \A p \in Probers : DOMAIN probers[p] = Fields
    /\ engines \in [Probers \cup {Service} ->
                      {"none", "loaded", "applied", "run", "term", "exiting"}]
    /\ queue \in Probers \cup {Service, Nobody}
    /\ table \in BOOLEAN /\ wanted \in BOOLEAN /\ during \in BOOLEAN

At(p, pcs) == probers[p].pc \in pcs

\* The probes that will start the service again.
Restarting == {p \in Probers : Running(p) /\ probers[p].restart = TRUE}

EnginesOK ==
    /\ \A p \in Probers : engines[p] # "none" => At(p, {"check", "kill", "reap"})
    /\ \A e \in Probers \cup {Service} : engines[e] \in {"run", "term"} <=> queue = e

\* The service will be started again, or it is down and the table, if there is one,
\* is a probe's to remove.
Accounted ==
    \/ wanted = TRUE \/ Restarting # {}
    \/ /\ engines[Service] = "none"
       /\ table = TRUE => \E p \in Probers : At(p, {"check", "kill", "reap", "clean"})

\* A service that is coming up or up, started with no probe on, is wanted, no probe
\* is on and, once applied, its table is there.
Clear ==
    /\ engines[Service] \in {"loaded", "applied", "run"}
          => wanted = TRUE /\ \A p \in Probers : ~Probing(p)
    /\ engines[Service] \in {"applied", "run"} => table = TRUE

IInv == TypeOK /\ EnginesOK /\ Accounted /\ (during = FALSE => Clear)

-----------------------------------------------------------------------------
(* Steps of one probe.                                                     *)

Waiting == {"check", "kill", "reap"}
Using == {"cmd", "probe", "check", "kill", "reap", "clean"}

\* Its own record changes.
LEMMA Moved ==
    ASSUME TypeOK, NEW p \in Probers, NEW r, DOMAIN r = Fields, ProberIs(p, r)
    PROVE  /\ DOMAIN probers' = Probers /\ \A q \in Probers : DOMAIN probers'[q] = Fields
           /\ probers'[p] = r /\ \A q \in Probers : q # p => probers'[q] = probers[q]
  BY DEF TypeOK, ProberIs

\* The record of a probe that has not begun, ...
LEMMA IdleFields ==
    DOMAIN Idle = Fields /\ Idle.pc = "idle" /\ Idle.restart = FALSE
  BY DEF Idle, Fields

\* ... of one that only has to start the service again (the end of run_probe), ...
LEMMA EndedFields ==
    ASSUME NEW r
    PROVE  DOMAIN Ended(r) = Fields /\ Ended(r).pc = "end" /\ Ended(r).restart = r.restart
  BY IdleFields DEF Ended, Fields

\* ... and of one that has a cache to save.
LEMMA SavingFields ==
    ASSUME NEW c, NEW b
    PROVE  DOMAIN Saving(c, b) = Fields /\ Saving(c, b).pc = "save" /\ Saving(c, b).restart = b
  BY IdleFields DEF Saving, Fields

\* Where discovery_run() goes after an attempt: the next one, the save or the end.
LEMMA DiscoveryRunFields ==
    ASSUME NEW r, DOMAIN r = Fields, NEW result
    PROVE  LET m == discovery_run(r, result) IN
           DOMAIN m = Fields /\ m.pc \in {"probe", "save", "end"} /\ m.restart = r.restart
  <1> DEFINE next == [r EXCEPT !.ladder_idx = @ + 1, !.attempt = 0, !.result = "NONE"]
             n == [next EXCEPT !.pc = "probe"]
             a == [r EXCEPT !.pc = "probe", !.attempt = @ + 1, !.result = "NONE"]
             s == Saving(discovery_cache_set(r.cache, r.domain,
                           g_discovery_ladder[r.ladder_idx], r.fp, now), r.restart)
  <1>1. DOMAIN n = Fields /\ n.pc = "probe" /\ n.restart = r.restart
    BY DEF Fields
  <1>2. DOMAIN a = Fields /\ a.pc = "probe" /\ a.restart = r.restart
    BY DEF Fields
  <1>3. DOMAIN s = Fields /\ s.pc = "save" /\ s.restart = r.restart
    BY SavingFields, Zenon
  <1>4. discovery_run(r, result) \in {s, a, n, Ended(r)}
    BY Zenon DEF discovery_run
  <1> HIDE DEF n, a, s
  <1> QED
    BY <1>1, <1>2, <1>3, <1>4, EndedFields, Zenon

\* A running probe goes on, and the engines, the queue and the service are left
\* alone; the table goes only while the probe is on.
LEMMA GoesOn ==
    ASSUME IInv, NEW p \in Probers, NEW r, DOMAIN r = Fields, ProberIs(p, r),
           UNCHANGED <<engines, queue, wanted, during>>,
           Running(p), r.pc \notin {"idle", "exited", "ctl"},
           r.restart = probers[p].restart,
           engines[p] # "none" => r.pc \in Waiting,
           r.pc \in Using => probers[p].pc \in Using,
           \/ /\ table' = table
              /\ probers[p].pc \in Waiting \cup {"clean"} => r.pc \in Waiting \cup {"clean"}
           \/ table' = FALSE /\ probers[p].pc \in Using
    PROVE  IInv'
  <1>1. /\ DOMAIN probers' = Probers /\ \A q \in Probers : DOMAIN probers'[q] = Fields
        /\ probers'[p] = r /\ \A q \in Probers : q # p => probers'[q] = probers[q]
    BY Moved, Zenon DEF IInv
  <1>2. TypeOK'
    BY Zenon, <1>1 DEF IInv, TypeOK
  <1>3. EnginesOK'
    BY <1>1 DEF IInv, EnginesOK, At, Waiting
  <1>4. \A q \in Probers : Running(q)' <=> Running(q)
    BY <1>1 DEF Running
  <1>5. Restarting' = Restarting
    BY <1>1, <1>4 DEF Restarting
  <1>6. Accounted'
    BY <1>1, <1>5 DEF IInv, Accounted, At, Waiting
  <1>7. ASSUME during' = FALSE PROVE Clear'
    BY <1>1, <1>7 DEF IInv, Clear, Probing, Using
  <1> QED
    BY <1>2, <1>3, <1>6, <1>7, Zenon DEF IInv

\* cmd_probe() goes on to the ladder with what it read, or ends; a copy that is not
\* stale is the file.
LEMMA CmdMoves ==
    ASSUME NEW p \in Probers, DOMAIN probers[p] = Fields, NEW force, cmd_probe(p, force)
    PROVE  \E m : /\ ProberIs(p, m) /\ DOMAIN m = Fields /\ m.pc \in {"probe", "end"}
                  /\ m.restart = probers[p].restart
                  /\ m.pc = "probe" /\ p \notin stale' => m.cache = file
                  /\ \A q \in Probers : q # p /\ q \notin stale' => q \notin stale
  <1> DEFINE r == probers[p]
             Up(c) == [r EXCEPT !.pc = "probe", !.cache = c, !.fp = net, !.ladder_idx = 1]
  <1>1. /\ DOMAIN Ended(r) = Fields /\ Ended(r).pc = "end" /\ Ended(r).restart = r.restart
        /\ "end" # "probe"
    BY EndedFields
  <1>2. CASE ProberIs(p, Ended(r)) /\ stale' = stale
    BY <1>1, <1>2, Zenon
  <1>3. ASSUME NEW c, Loaded(p, c), ProberIs(p, Up(c)) \/ ProberIs(p, Ended(r))
        PROVE  \E m : /\ ProberIs(p, m) /\ DOMAIN m = Fields /\ m.pc \in {"probe", "end"}
                      /\ m.restart = probers[p].restart
                      /\ m.pc = "probe" /\ p \notin stale' => m.cache = file
                      /\ \A q \in Probers : q # p /\ q \notin stale' => q \notin stale
    <2>1. (p \notin stale' => c = file) /\ \A q \in Probers : q # p /\ q \notin stale' => q \notin stale
      BY <1>3, Zenon DEF Loaded
    <2>2. /\ DOMAIN Up(c) = Fields /\ Up(c).pc = "probe" /\ Up(c).restart = r.restart
          /\ Up(c).cache = c
      BY DEF Fields
    <2> HIDE DEF Up
    <2> QED
      BY <1>1, <1>3, <2>1, <2>2, Zenon
  <1> QED
    BY <1>2, <1>3, Zenon DEF cmd_probe

\* cmd_probe() up to the ladder keeps the invariant.
LEMMA CmdStep ==
    ASSUME IInv, NEW p \in Probers, NEW force, cmd_probe(p, force)
    PROVE  IInv'
  <1>1. DOMAIN probers[p] = Fields
    BY DEF IInv, TypeOK
  <1>2. probers[p].pc = "cmd" /\ UNCHANGED <<engines, table, queue, wanted, during>>
    BY Zenon DEF cmd_probe
  <1>3. engines[p] = "none" /\ Running(p)
    BY <1>2 DEF IInv, EnginesOK, At, Running
  <1>4. PICK m : /\ ProberIs(p, m) /\ DOMAIN m = Fields /\ m.pc \in {"probe", "end"}
                 /\ m.restart = probers[p].restart
    BY <1>1, CmdMoves, Zenon
  <1> QED
    BY Zenon, <1>2, <1>3, <1>4, GoesOn DEF Using, Waiting

\* run_openssl_check() keeps it.
LEMMA CheckStep ==
    ASSUME IInv, NEW p \in Probers, NEW result, run_openssl_check(p, result)
    PROVE  IInv'
  <1> DEFINE r == probers[p]
             m == [r EXCEPT !.pc = "kill", !.result = result]
  <1>1. DOMAIN r = Fields
    BY DEF IInv, TypeOK
  <1>2. r.pc = "check" /\ ProberIs(p, m) /\ UNCHANGED <<engines, table, queue, wanted, during>>
    BY Zenon DEF run_openssl_check
  <1>3. DOMAIN m = Fields /\ m.pc = "kill" /\ m.restart = r.restart
    BY <1>1 DEF Fields
  <1>4. Running(p)
    BY <1>2 DEF Running
  <1> HIDE DEF m
  <1> QED
    BY Zenon, <1>2, <1>3, <1>4, GoesOn DEF Using, Waiting

\* The table's removal at the end of an attempt keeps it.
LEMMA RemoveStep ==
    ASSUME IInv, NEW p \in Probers, nft_rules_remove(p)
    PROVE  IInv'
  <1> DEFINE r == probers[p]
             m == discovery_run(r, r.result)
  <1>1. DOMAIN r = Fields
    BY DEF IInv, TypeOK
  <1>2. /\ r.pc = "clean" /\ table' = FALSE /\ ProberIs(p, m)
        /\ UNCHANGED <<engines, queue, wanted, during>>
    BY Zenon DEF nft_rules_remove
  <1>3. DOMAIN m = Fields /\ m.pc \in {"probe", "save", "end"} /\ m.restart = r.restart
    BY <1>1, DiscoveryRunFields, Zenon
  <1>4. engines[p] = "none" /\ Running(p)
    BY <1>2 DEF IInv, EnginesOK, At, Running
  <1> HIDE DEF m
  <1> QED
    BY Zenon, <1>2, <1>3, <1>4, GoesOn DEF Using, Waiting

\* discovery_cache_save_file() keeps it: only the file changes.
LEMMA SaveStep ==
    ASSUME IInv, NEW p \in Probers, save_opens(p) \/ save_writes(p)
    PROVE  IInv'
  <1> DEFINE r == probers[p]
             m == [r EXCEPT !.pc = "write"]
  <1>1. DOMAIN r = Fields
    BY DEF IInv, TypeOK
  <1>2. r.pc \in {"save", "write"} /\ UNCHANGED <<engines, table, queue, wanted, during>>
    BY Zenon DEF save_opens, save_writes
  <1>3. ProberIs(p, m) \/ ProberIs(p, Ended(r))
    BY Zenon DEF save_opens, save_writes
  <1>4. engines[p] = "none" /\ Running(p)
    BY <1>2 DEF IInv, EnginesOK, At, Running
  <1>5. DOMAIN m = Fields /\ m.pc = "write" /\ m.restart = r.restart
    BY <1>1 DEF Fields
  <1>6. DOMAIN Ended(r) = Fields /\ Ended(r).pc = "end" /\ Ended(r).restart = r.restart
    BY EndedFields, Zenon
  <1> HIDE DEF m
  <1>7. PICK n \in {m, Ended(r)} : ProberIs(p, n)
    BY <1>3, Zenon
  <1>8. DOMAIN n = Fields /\ n.pc \in {"write", "end"} /\ n.restart = r.restart
    BY <1>5, <1>6, Zenon
  <1> QED
    BY Zenon, <1>2, <1>4, <1>7, <1>8, GoesOn DEF Using, Waiting

\* The names of the service and of nobody are no probe's.
LEMMA Names == Service \notin Probers /\ Nobody \notin Probers /\ Service # Nobody
  BY DiscoveryAssumption DEF Service, Nobody

\* A running probe goes on and its own engine, which it has or is about to have, or
\* had, is in another state s.
LEMMA GoesOnWithEngine ==
    ASSUME IInv, NEW p \in Probers, NEW r, DOMAIN r = Fields, ProberIs(p, r),
           NEW s \in {"none", "loaded", "applied", "run", "term", "exiting"},
           EngineIs(p, s), UNCHANGED <<table, wanted, during>>,
           Running(p), r.restart = probers[p].restart, probers[p].pc \in Using,
           r.pc \in Waiting \cup {"clean"}, s # "none" => r.pc \in Waiting,
           \/ queue' = queue /\ ((s \in {"run", "term"}) <=> (engines[p] \in {"run", "term"}))
           \/ Gone(p) /\ s = "none"
    PROVE  IInv'
  <1>1. /\ DOMAIN probers' = Probers /\ \A q \in Probers : DOMAIN probers'[q] = Fields
        /\ probers'[p] = r /\ \A q \in Probers : q # p => probers'[q] = probers[q]
    BY Moved, Zenon DEF IInv
  <1>2. /\ engines'[p] = s /\ \A e \in Probers \cup {Service} : e # p => engines'[e] = engines[e]
        /\ engines'[Service] = engines[Service]
    BY Names DEF EngineIs, IInv, TypeOK
  <1>3. TypeOK'
    <2>1. engines' \in [Probers \cup {Service} ->
                          {"none", "loaded", "applied", "run", "term", "exiting"}]
      BY DEF EngineIs, IInv, TypeOK
    <2>2. queue' \in Probers \cup {Service, Nobody}
      BY DEF Gone, IInv, TypeOK
    <2> QED
      BY <1>1, <2>1, <2>2, Zenon DEF IInv, TypeOK
  <1>4. EnginesOK'
    <2>1. \A q \in Probers : engines'[q] # "none" => At(q, Waiting)'
      BY <1>1, <1>2 DEF IInv, EnginesOK, At, Waiting
    <2>2. \A e \in Probers \cup {Service} : engines'[e] \in {"run", "term"} <=> queue' = e
      BY <1>2, Names DEF IInv, EnginesOK, Gone
    <2> QED
      BY <2>1, <2>2, Zenon DEF EnginesOK, Waiting
  <1>5. \A q \in Probers : Running(q)' <=> Running(q)
    BY <1>1 DEF Running, Waiting
  <1>6. Restarting' = Restarting
    BY <1>1, <1>5 DEF Restarting
  <1>7. Accounted'
    BY <1>1, <1>2, <1>6 DEF IInv, Accounted, At, Waiting
  <1>8. ASSUME during' = FALSE PROVE Clear'
    BY <1>1, <1>2, <1>8 DEF IInv, Clear, Probing, Using, Waiting
  <1> QED
    BY <1>3, <1>4, <1>7, <1>8, Zenon DEF IInv

\* start_scoped_engine() keeps the invariant, forked or not.
LEMMA StartEngineStep ==
    ASSUME IInv, NEW p \in Probers, start_scoped_engine(p)
    PROVE  IInv'
  <1> DEFINE r == probers[p]
             m == [r EXCEPT !.pc = "check"]
             n == discovery_run(r, "LOCAL_ERROR")
  <1>1. DOMAIN r = Fields
    BY DEF IInv, TypeOK
  <1>2. r.pc = "probe" /\ UNCHANGED <<table, queue, wanted, during>>
    BY Zenon DEF start_scoped_engine
  <1>3. engines[p] = "none" /\ Running(p)
    BY <1>2 DEF IInv, EnginesOK, At, Running
  <1>4. CASE EngineIs(p, "loaded") /\ ProberIs(p, m)
    <2>1. DOMAIN m = Fields /\ m.pc = "check" /\ m.restart = r.restart
      BY <1>1 DEF Fields
    <2> HIDE DEF m
    <2> QED
      BY <1>2, <1>3, <1>4, <2>1, GoesOnWithEngine DEF Using, Waiting
  <1>5. CASE UNCHANGED engines /\ ProberIs(p, n)
    <2>1. DOMAIN n = Fields /\ n.pc \in {"probe", "save", "end"} /\ n.restart = r.restart
      BY <1>1, DiscoveryRunFields, Zenon
    <2> HIDE DEF n
    <2> QED
      BY Zenon, <1>2, <1>3, <1>5, <2>1, GoesOn DEF Using, Waiting
  <1> QED
    BY <1>4, <1>5, Zenon DEF start_scoped_engine

\* What SIGTERM does to an engine.
LEMMA TerminatedIs ==
    ASSUME NEW s \in {"none", "loaded", "applied", "run", "term", "exiting"}
    PROVE  /\ Terminated(s) \in {"none", "term", "exiting"}
           /\ s # "none" \/ Terminated(s) = "none"
           /\ (Terminated(s) \in {"run", "term"}) <=> (s \in {"run", "term"})
  BY DEF Terminated

\* stop_scoped_engine() keeps it: SIGTERM, and the wait.
LEMMA StopEngineStep ==
    ASSUME IInv, NEW p \in Probers, sigterm(p) \/ reap(p)
    PROVE  IInv'
  <1> DEFINE r == probers[p]
             s == Terminated(engines[p])
             k == [r EXCEPT !.pc = "reap"]
             c == [r EXCEPT !.pc = "clean"]
  <1>1. DOMAIN r = Fields
        /\ engines[p] \in {"none", "loaded", "applied", "run", "term", "exiting"}
    BY DEF IInv, TypeOK
  <1>2. CASE sigterm(p)
    <2>1. r.pc = "kill" /\ EngineIs(p, s) /\ ProberIs(p, k) /\ UNCHANGED <<table, queue, wanted, during>>
      BY <1>2, Zenon DEF sigterm
    <2>2. DOMAIN k = Fields /\ k.pc = "reap" /\ k.restart = r.restart /\ Running(p)
      BY <1>1, <2>1 DEF Fields, Running
    <2>3. /\ s \in {"none", "loaded", "applied", "run", "term", "exiting"}
          /\ (s \in {"run", "term"}) <=> (engines[p] \in {"run", "term"})
      BY <1>1, TerminatedIs
    <2> HIDE DEF k, s
    <2> QED
      BY <2>1, <2>2, <2>3, GoesOnWithEngine DEF Using, Waiting
  <1>3. CASE reap(p)
    <2>1. r.pc = "reap" /\ EngineIs(p, "none") /\ Gone(p) /\ ProberIs(p, c)
          /\ UNCHANGED <<table, wanted, during>>
      BY <1>3, Zenon DEF reap
    <2>2. DOMAIN c = Fields /\ c.pc = "clean" /\ c.restart = r.restart /\ Running(p)
      BY <1>1, <2>1 DEF Fields, Running
    <2> HIDE DEF c
    <2> QED
      BY <2>1, <2>2, GoesOnWithEngine DEF Using, Waiting
  <1> QED
    BY <1>2, <1>3, Zenon

\* The end of systemctl stop keeps it: a service this probe stopped is down.
LEMMA StoppedStep ==
    ASSUME IInv, NEW p \in Probers, systemctl_stopped(p)
    PROVE  IInv'
  <1> DEFINE r == probers[p]
             m == [r EXCEPT !.pc = "cmd"]
             down == r.restart /\ engines[Service] \in {"term", "exiting"}
  <1>1. DOMAIN r = Fields
    BY DEF IInv, TypeOK
  <1>2. r.pc = "ctl" /\ ProberIs(p, m) /\ UNCHANGED <<table, wanted, during>>
    BY Zenon DEF systemctl_stopped
  <1>3. DOMAIN m = Fields /\ m.pc = "cmd" /\ m.restart = r.restart
    BY <1>1 DEF Fields
  <1> HIDE DEF m
  <1>4. /\ DOMAIN probers' = Probers /\ \A q \in Probers : DOMAIN probers'[q] = Fields
        /\ probers'[p] = m /\ \A q \in Probers : q # p => probers'[q] = probers[q]
    BY <1>2, <1>3, Moved, Zenon DEF IInv
  <1>5. \/ down /\ EngineIs(Service, "none") /\ Gone(Service)
        \/ ~down /\ UNCHANGED <<engines, queue>>
    BY Zenon DEF systemctl_stopped
  <1>6. /\ \A q \in Probers : engines'[q] = engines[q]
        /\ down => engines'[Service] = "none"
        /\ ~down => engines'[Service] = engines[Service]
    BY <1>5, Names DEF EngineIs, IInv, TypeOK
  <1>7. TypeOK'
    <2>1. engines' \in [Probers \cup {Service} ->
                          {"none", "loaded", "applied", "run", "term", "exiting"}]
      BY <1>5 DEF EngineIs, IInv, TypeOK
    <2>2. queue' \in Probers \cup {Service, Nobody}
      BY <1>5 DEF Gone, IInv, TypeOK
    <2> QED
      BY <1>2, <1>4, <2>1, <2>2, Zenon DEF IInv, TypeOK
  <1>8. EnginesOK'
    <2>1. \A q \in Probers : engines'[q] # "none" => At(q, {"check", "kill", "reap"})'
      BY <1>2, <1>4, <1>6 DEF IInv, EnginesOK, At
    <2>2. \A e \in Probers \cup {Service} : engines'[e] \in {"run", "term"} <=> queue' = e
      BY <1>5, <1>6, Names DEF IInv, EnginesOK, Gone
    <2> QED
      BY <2>1, <2>2, Zenon DEF EnginesOK
  <1>9. \A q \in Probers : Running(q)' <=> Running(q)
    BY <1>2, <1>3, <1>4 DEF Running
  <1>10. Restarting' = Restarting
    BY <1>3, <1>4, <1>9 DEF Restarting
  <1>11. Accounted'
    BY <1>2, <1>4, <1>6, <1>10 DEF IInv, Accounted, At
  <1>12. ASSUME during' = FALSE PROVE Clear'
    <2>1. Probing(p) /\ Clear
      BY <1>2, <1>12, Zenon DEF Probing, IInv
    <2>2. engines'[Service] \notin {"loaded", "applied", "run"}
      BY <1>6, <2>1 DEF Clear
    <2> QED
      BY <2>2 DEF Clear
  <1> QED
    BY <1>7, <1>8, <1>11, <1>12, Zenon DEF IInv

\* run_probe keeps it: the probe that stops the service will start it again.
LEMMA RunProbeStep ==
    ASSUME IInv, NEW p \in Probers, NEW d, run_probe(p, d)
    PROVE  IInv'
  <1> DEFINE active == wanted /\ engines[Service] # "none"
             m == [Idle EXCEPT !.pc = "ctl", !.domain = d, !.restart = active]
  <1>1. /\ probers[p].pc = "idle" /\ ProberIs(p, m) /\ UNCHANGED <<table, queue, during>>
        /\ engines' = [engines EXCEPT ![Service] = IF active THEN Terminated(@) ELSE @]
        /\ wanted' = (wanted /\ ~active)
    BY Zenon DEF run_probe
  <1>2. TypeOK
    BY Zenon DEF IInv
  <1>3. active \in BOOLEAN /\ wanted \in BOOLEAN
    BY <1>2, Zenon DEF TypeOK
  <1>4. /\ active = TRUE => wanted' = FALSE
        /\ active = FALSE => wanted' = wanted /\ (wanted = FALSE \/ engines[Service] = "none")
    BY <1>1, <1>3, Zenon
  <1>5. /\ active = TRUE => engines'[Service] = Terminated(engines[Service])
        /\ active = FALSE => engines'[Service] = engines[Service]
        /\ \A q \in Probers : engines'[q] = engines[q]
    BY <1>1, <1>2, Names DEF TypeOK
  <1> HIDE DEF active
  <1>6. DOMAIN m = Fields /\ m.pc = "ctl" /\ m.restart = active
    BY IdleFields DEF Fields
  <1> HIDE DEF m
  <1>7. /\ DOMAIN probers' = Probers /\ \A q \in Probers : DOMAIN probers'[q] = Fields
        /\ probers'[p] = m /\ \A q \in Probers : q # p => probers'[q] = probers[q]
    BY <1>1, <1>2, <1>6, Moved, Zenon
  <1>8. engines[Service] \in {"none", "loaded", "applied", "run", "term", "exiting"}
    BY <1>2 DEF TypeOK
  <1>9. /\ engines'[Service] \in {"none", "loaded", "applied", "run", "term", "exiting"}
        /\ (engines'[Service] \in {"run", "term"}) <=> (engines[Service] \in {"run", "term"})
        /\ active = TRUE => engines'[Service] \in {"none", "term", "exiting"}
    BY <1>3, <1>5, <1>8, TerminatedIs
  <1>10. TypeOK'
    <2>1. engines' \in [Probers \cup {Service} ->
                          {"none", "loaded", "applied", "run", "term", "exiting"}]
      BY <1>1, <1>2, <1>9 DEF TypeOK
    <2>2. wanted' \in BOOLEAN
      BY <1>3, <1>4, Zenon
    <2> QED
      BY <1>1, <1>2, <1>7, <2>1, <2>2, Zenon DEF TypeOK
  <1>11. EnginesOK'
    <2>1. EnginesOK
      BY Zenon DEF IInv
    <2>2. \A q \in Probers : engines'[q] # "none" => At(q, {"check", "kill", "reap"})'
      BY <1>1, <1>5, <1>7, <2>1 DEF EnginesOK, At
    <2>3. \A e \in Probers \cup {Service} : engines'[e] \in {"run", "term"} <=> queue' = e
      BY <1>1, <1>5, <1>9, <2>1 DEF EnginesOK
    <2> QED
      BY <2>2, <2>3, Zenon DEF EnginesOK
  <1>12. /\ \A q \in Probers : q # p => (Running(q)' <=> Running(q))
         /\ Running(p)' /\ ~Running(p)
    BY <1>1, <1>6, <1>7 DEF Running
  <1>13. Restarting \subseteq Restarting' /\ (active = TRUE => p \in Restarting')
    BY <1>6, <1>7, <1>12 DEF Restarting
  <1>14. Accounted
    BY Zenon DEF IInv
  <1>15. Accounted'
    BY <1>1, <1>3, <1>4, <1>5, <1>7, <1>13, <1>14, SMTT(30) DEF Accounted, At
  <1>16. ASSUME during' = FALSE PROVE Clear'
    <2>1. engines[Service] \in {"loaded", "applied", "run"} => wanted = TRUE
      BY <1>1, <1>16, Zenon DEF IInv, Clear
    <2>2. engines'[Service] \notin {"loaded", "applied", "run"}
      <3>1. CASE active = TRUE
        BY <1>9, <3>1
      <3>2. CASE active = FALSE
        BY <1>4, <1>5, <2>1, <3>2
      <3> QED
        BY <1>3, <3>1, <3>2, Zenon
    <2> QED
      BY <2>2 DEF Clear
  <1> QED
    BY <1>10, <1>11, <1>15, <1>16, Zenon DEF IInv

\* The end of run_probe keeps it: the service is wanted again.
LEMMA EndsStep ==
    ASSUME IInv, NEW p \in Probers, run_probe_ends(p)
    PROVE  IInv'
  <1> DEFINE m == [Idle EXCEPT !.pc = "exited"]
  <1>1. /\ probers[p].pc = "end" /\ ProberIs(p, m) /\ UNCHANGED <<engines, table, queue, during>>
        /\ wanted' = (wanted \/ probers[p].restart)
    BY Zenon DEF run_probe_ends
  <1>2. TypeOK
    BY Zenon DEF IInv
  <1>3. DOMAIN m = Fields /\ m.pc = "exited"
    BY IdleFields DEF Fields
  <1> HIDE DEF m
  <1>4. /\ DOMAIN probers' = Probers /\ \A q \in Probers : DOMAIN probers'[q] = Fields
        /\ probers'[p] = m /\ \A q \in Probers : q # p => probers'[q] = probers[q]
    BY <1>1, <1>2, <1>3, Moved, Zenon
  <1>5. /\ wanted' \in BOOLEAN
        /\ wanted = TRUE \/ probers[p].restart = TRUE => wanted' = TRUE
    BY <1>1, <1>2, Zenon DEF TypeOK
  <1>6. TypeOK'
    BY <1>1, <1>2, <1>4, <1>5, Zenon DEF TypeOK
  <1>7. EnginesOK'
    BY <1>1, <1>4 DEF IInv, EnginesOK, At
  <1>8. \A q \in Probers : (q # p => (Running(q)' <=> Running(q))) /\ (Running(q)' => q # p)
    BY <1>3, <1>4 DEF Running
  <1>9. \A q \in Restarting : q \in Restarting' \/ wanted' = TRUE
    BY <1>4, <1>5, <1>8 DEF Restarting
  <1>10. Accounted'
    BY <1>1, <1>4, <1>5, <1>9, SMTT(30) DEF IInv, Accounted, At
  <1>11. ASSUME during' = FALSE PROVE Clear'
    <2>1. \A q \in Probers : Probing(q)' => Probing(q)
      BY <1>3, <1>4 DEF Probing
    <2> QED
      BY <1>1, <1>5, <1>11, <2>1 DEF IInv, Clear
  <1> QED
    BY <1>6, <1>7, <1>10, <1>11, Zenon DEF IInv

\* --import-profile keeps it: it begins with the save, or ends.
LEMMA ImportStep ==
    ASSUME IInv, NEW p \in Probers, cmd_import_profile(p)
    PROVE  IInv'
  <1>1. /\ probers[p].pc = "idle" /\ UNCHANGED <<engines, table, queue, wanted, during>>
        /\ \E c : ProberIs(p, Ended(Idle)) \/ ProberIs(p, Saving(c, FALSE))
    BY Zenon DEF cmd_import_profile
  <1>2. TypeOK
    BY Zenon DEF IInv
  <1>3. PICK m : ProberIs(p, m) /\ DOMAIN m = Fields /\ m.pc \in {"save", "end"}
    <2>1. PICK c : ProberIs(p, Ended(Idle)) \/ ProberIs(p, Saving(c, FALSE))
      BY <1>1, Zenon
    <2>2. DOMAIN Ended(Idle) = Fields /\ Ended(Idle).pc = "end"
      BY EndedFields, Zenon
    <2>3. DOMAIN Saving(c, FALSE) = Fields /\ Saving(c, FALSE).pc = "save"
      BY SavingFields, Zenon
    <2> QED
      BY <2>1, <2>2, <2>3, Zenon
  <1>4. /\ DOMAIN probers' = Probers /\ \A q \in Probers : DOMAIN probers'[q] = Fields
        /\ probers'[p] = m /\ \A q \in Probers : q # p => probers'[q] = probers[q]
    BY <1>2, <1>3, Moved, Zenon
  <1>5. TypeOK'
    BY <1>1, <1>2, <1>4, Zenon DEF TypeOK
  <1>6. EnginesOK'
    BY <1>1, <1>4 DEF IInv, EnginesOK, At
  <1>7. \A q \in Probers : q # p => (Running(q)' <=> Running(q))
    BY <1>4 DEF Running
  <1>8. Restarting \subseteq Restarting'
    BY <1>1, <1>4, <1>7 DEF Restarting, Running
  <1>9. Accounted'
    BY <1>1, <1>4, <1>8 DEF IInv, Accounted, At
  <1>10. ASSUME during' = FALSE PROVE Clear'
    <2>1. \A q \in Probers : Probing(q)' => Probing(q)
      BY <1>3, <1>4 DEF Probing
    <2> QED
      BY <1>1, <1>10, <2>1 DEF IInv, Clear
  <1> QED
    BY <1>5, <1>6, <1>9, <1>10, Zenon DEF IInv

-----------------------------------------------------------------------------
(* Steps of the engines, and of the service.                               *)

\* An engine that takes the table down is the service's, or that of a probe that is
\* on.
LEMMA EngineSteps ==
    ASSUME IInv, NEW e \in Probers \cup {Service}, EngineStep(e)
    PROVE  IInv'
  <1>1. UNCHANGED <<probers, wanted, during>>
    BY Zenon DEF EngineStep, nft_rules_apply, nfq_create_queue, nfq_destroy_queue, engine_exits
  <1>2. PICK s \in {"none", "applied", "run", "exiting"} : EngineIs(e, s)
    BY Zenon DEF EngineStep, nft_rules_apply, nfq_create_queue, nfq_destroy_queue, engine_exits
  <1>3. /\ engines'[e] = s /\ \A f \in Probers \cup {Service} : f # e => engines'[f] = engines[f]
        /\ engines' \in [Probers \cup {Service} ->
                           {"none", "loaded", "applied", "run", "term", "exiting"}]
    BY <1>2 DEF EngineIs, IInv, TypeOK
  <1>4. \/ engines[e] = "loaded" /\ table' = TRUE /\ s = "applied" /\ queue' = queue
        \/ engines[e] \in {"loaded", "applied", "exiting"} /\ table' = FALSE /\ s = "none"
             /\ queue' = queue
        \/ engines[e] = "applied" /\ table' = table /\ s = "run" /\ queue = Nobody /\ queue' = e
        \/ engines[e] \in {"run", "term"} /\ table' = table /\ s = "exiting" /\ Gone(e)
    <2>1. EngineIs(e, "none") => s = "none"
      BY <1>3 DEF EngineIs, IInv, TypeOK
    <2>2. EngineIs(e, "applied") => s = "applied"
      BY <1>3 DEF EngineIs, IInv, TypeOK
    <2>3. EngineIs(e, "run") => s = "run"
      BY <1>3 DEF EngineIs, IInv, TypeOK
    <2>4. EngineIs(e, "exiting") => s = "exiting"
      BY <1>3 DEF EngineIs, IInv, TypeOK
    <2> QED
      BY <2>1, <2>2, <2>3, <2>4, Zenon
         DEF EngineStep, nft_rules_apply, nfq_create_queue, nfq_destroy_queue, engine_exits
  <1>5. TypeOK'
    <2>1. queue' \in Probers \cup {Service, Nobody} /\ table' \in BOOLEAN
      BY Zenon, <1>4 DEF Gone, IInv, TypeOK
    <2> QED
      BY <1>1, <1>3, <2>1, Zenon DEF IInv, TypeOK
  <1>6. EnginesOK'
    <2>1. EnginesOK
      BY Zenon DEF IInv
    <2>2. \A p \in Probers : engines'[p] # "none" => At(p, {"check", "kill", "reap"})'
      BY <1>1, <1>3, <1>4, <2>1 DEF EnginesOK, At
    <2>3. \A f \in Probers \cup {Service} : engines'[f] \in {"run", "term"} <=> queue' = f
      BY <1>3, <1>4, <2>1, Names, SMTT(30) DEF EnginesOK, Gone
    <2> QED
      BY <2>2, <2>3, Zenon DEF EnginesOK
  <1>7. e \in Probers => At(e, {"check", "kill", "reap"}) /\ engines'[Service] = engines[Service]
    BY <1>3, <1>4, Names DEF IInv, EnginesOK
  <1>8. Restarting' = Restarting
    BY <1>1 DEF Restarting, Running
  <1>9. Accounted'
    <2>1. Accounted
      BY Zenon DEF IInv
    <2>2. CASE e = Service
      BY <1>1, <1>3, <1>4, <1>8, <2>1, <2>2, SMTT(30) DEF Accounted, At
    <2>3. CASE e \in Probers
      BY <1>1, <1>4, <1>7, <1>8, <2>1, <2>3, SMTT(30) DEF Accounted, At
    <2> QED
      BY <2>2, <2>3, Zenon
  <1>10. ASSUME during' = FALSE PROVE Clear'
    <2>1. Clear
      BY <1>1, <1>10, Zenon DEF IInv
    <2>2. CASE e = Service
      BY <1>1, <1>3, <1>4, <2>1, <2>2 DEF Clear, Probing
    <2>3. CASE e \in Probers
      <3>1. Probing(e)
        BY <1>7, <2>3 DEF Probing, At
      <3> QED
        BY <1>7, <2>1, <2>3, <3>1, Zenon DEF Clear
    <2> QED
      BY <2>2, <2>3, Zenon
  <1> QED
    BY <1>5, <1>6, <1>9, <1>10, Zenon DEF IInv

\* systemd starts the service: it is wanted, and the probes that are on are noted.
LEMMA ServiceStep ==
    ASSUME IInv, service_starts
    PROVE  IInv'
  <1>1. /\ UNCHANGED <<probers, table, queue, wanted>> /\ wanted = TRUE
        /\ engines[Service] = "none" /\ EngineIs(Service, "loaded")
    BY Zenon DEF service_starts, IInv, TypeOK
  <1>2. during' \in BOOLEAN /\ (during' = FALSE => \A p \in Probers : ~Probing(p))
    BY Zenon DEF service_starts
  <1>3. /\ engines'[Service] = "loaded" /\ \A p \in Probers : engines'[p] = engines[p]
        /\ engines' \in [Probers \cup {Service} ->
                           {"none", "loaded", "applied", "run", "term", "exiting"}]
    BY <1>1, Names DEF EngineIs, IInv, TypeOK
  <1>4. TypeOK'
    BY <1>1, <1>2, <1>3, Zenon DEF IInv, TypeOK
  <1>5. EnginesOK'
    BY <1>1, <1>3, SMTT(30) DEF IInv, EnginesOK, At
  <1>6. Accounted'
    BY <1>1, Zenon DEF Accounted
  <1>7. ASSUME during' = FALSE PROVE Clear'
    <2>1. \A p \in Probers : ~Probing(p)'
      BY <1>1, <1>2, <1>7, Zenon DEF Probing
    <2> QED
      BY <1>1, <1>3, <2>1 DEF Clear
  <1> QED
    BY <1>4, <1>5, <1>6, <1>7, Zenon DEF IInv

\* Another network changes none of it.
LEMMA RoamStep ==
    ASSUME IInv, UNCHANGED <<probers, engines, table, queue, wanted, during>>
    PROVE  IInv'
  BY DEF IInv, TypeOK, EnginesOK, Accounted, Restarting, Clear, Probing, At, Running

-----------------------------------------------------------------------------
(* The theorems.                                                           *)

\* Nothing runs and nothing is applied at first.
LEMMA InitIInv == Init => IInv
  <1> SUFFICES ASSUME Init PROVE IInv
    OBVIOUS
  <1>1. /\ DOMAIN probers = Probers /\ \A p \in Probers : probers[p] = Idle
        /\ \A e \in Probers \cup {Service} : engines[e] = "none"
        /\ table = FALSE /\ queue = Nobody /\ wanted \in BOOLEAN /\ during = FALSE
    BY Zenon DEF Init
  <1>2. TypeOK
    <2>1. engines \in [Probers \cup {Service} ->
                         {"none", "loaded", "applied", "run", "term", "exiting"}]
      BY DEF Init
    <2> QED
      BY <1>1, <2>1, IdleFields, Zenon DEF TypeOK
  <1>3. EnginesOK
    BY <1>1, Names DEF EnginesOK, At
  <1>4. Accounted
    BY <1>1 DEF Accounted
  <1>5. Clear
    BY <1>1 DEF Clear
  <1> QED
    BY <1>2, <1>3, <1>4, <1>5, Zenon DEF IInv

\* Every step keeps the invariant.
LEMMA NextIInv == IInv /\ [Next]_vars => IInv'
  <1> SUFFICES ASSUME IInv, [Next]_vars PROVE IInv'
    OBVIOUS
  <1>1. ASSUME NEW p \in Probers, ProberStep(p) PROVE IInv'
    BY <1>1, StoppedStep, StartEngineStep, StopEngineStep, CmdStep, CheckStep, RemoveStep,
       SaveStep, EndsStep, Zenon DEF ProberStep
  <1>2. ASSUME NEW p \in Probers, cmd_import_profile(p) PROVE IInv'
    BY <1>2, ImportStep, Zenon
  <1>3. ASSUME NEW p \in Probers, NEW d \in Domains, run_probe(p, d) PROVE IInv'
    BY <1>3, RunProbeStep, Zenon
  <1>4. ASSUME NEW e \in Probers \cup {Service}, EngineStep(e) PROVE IInv'
    BY <1>4, EngineSteps, Zenon
  <1>5. CASE service_starts
    BY <1>5, ServiceStep, Zenon
  <1>6. ASSUME NEW n, roam(n) PROVE IInv'
    BY <1>6, RoamStep, Zenon DEF roam
  <1>7. CASE UNCHANGED vars
    BY <1>7, RoamStep, Zenon DEF vars
  <1> QED
    BY <1>1, <1>2, <1>3, <1>4, <1>5, <1>6, <1>7, Zenon DEF Next

\* The invariant holds throughout.
LEMMA SpecIInv == Spec => []IInv
  BY InitIInv, NextIInv, PTL DEF Spec

\* With no probe running, no scoped engine is left and, unless the service is up or
\* coming up, neither are the table and the queue (probe_runner.c, dpictl), however
\* many probes overlapped and whatever failed or was killed.
THEOREM SpecNothingLeftApplied == Spec => []NothingLeftApplied
  <1>1. IInv => NothingLeftApplied
    <2> SUFFICES ASSUME IInv, Quiet
                 PROVE  /\ \A p \in Probers : engines[p] = "none"
                        /\ queue \in {Service, Nobody}
                        /\ ~wanted /\ engines[Service] = "none" => ~table /\ queue = Nobody
      BY Zenon DEF NothingLeftApplied
    <2>1. \A p \in Probers : engines[p] = "none"
      BY DEF IInv, EnginesOK, At, Quiet, Running
    <2>2. queue \in {Service, Nobody}
      BY <2>1 DEF IInv, TypeOK, EnginesOK
    <2>3. engines[Service] = "none" => queue = Nobody
      BY <2>2 DEF IInv, EnginesOK
    <2>4. Restarting = {} /\ \A p \in Probers : ~At(p, {"check", "kill", "reap", "clean"})
      BY DEF Restarting, Quiet, Running, At
    <2>5. ASSUME wanted = FALSE, engines[Service] = "none" PROVE table = FALSE
      BY <2>4, <2>5, Zenon DEF IInv, TypeOK, Accounted
    <2>6. wanted \in BOOLEAN /\ table \in BOOLEAN
      BY Zenon DEF IInv, TypeOK
    <2> QED
      BY <2>1, <2>2, <2>3, <2>5, <2>6, Zenon
  <1> QED
    BY <1>1, SpecIInv, PTL

\* A running service that systemd started while no probe was on has its table and
\* its queue, whatever probes did and do around it (dpictl probe).
THEOREM SpecServiceRulesBack == Spec => []ServiceRulesBack
  <1>1. IInv => ServiceRulesBack
    <2> SUFFICES ASSUME IInv, during = FALSE, engines[Service] = "run"
                 PROVE  table /\ queue = Service
      BY Zenon DEF ServiceRulesBack, IInv, TypeOK
    <2>1. table = TRUE
      BY DEF IInv, Clear
    <2>2. queue = Service
      BY DEF IInv, EnginesOK
    <2> QED
      BY <2>1, <2>2, Zenon
  <1> QED
    BY <1>1, SpecIInv, PTL

-----------------------------------------------------------------------------
(* The cache file.                                                         *)

\* A set of numbers has a least one.
LEMMA LeastNumber ==
    ASSUME NEW S, S \subseteq Nat, S # {}
    PROVE  \E x \in S : \A y \in S : x <= y
  <1> DEFINE R == OpToRel(<, Nat)
  <1>1. PICK x \in S : \A y \in S : ~(<<y, x>> \in R)
    <2> HIDE DEF R
    <2>1. IsWellFoundedOn(R, Nat)
      BY NatLessThanWellFounded, Zenon DEF R
    <2> QED
      BY <2>1, WFMin, Zenon
  <1>2. \A y \in S : <<y, x>> \in R <=> y < x
    <2>1. R = {ss \in Nat \X Nat : ss[1] < ss[2]}
      BY Zenon DEF OpToRel
    <2> HIDE DEF R
    <2> QED
      BY <2>1
  <1> HIDE DEF R
  <1>3. \A y \in S : ~(y < x)
    BY <1>1, <1>2, Zenon
  <1> QED
    BY <1>3

\* What holds of 0, and of n + 1 when it holds of n, holds of every number
\* (stated for a set of numbers).
LEMMA NatInductionSet ==
    ASSUME NEW P \in SUBSET Nat, 0 \in P, \A n \in P : n + 1 \in P
    PROVE  P = Nat
  <1> SUFFICES ASSUME Nat \ P # {} PROVE FALSE
    BY Zenon
  <1>1. PICK m \in Nat \ P : \A y \in Nat \ P : m <= y
    BY Zenon, LeastNumber
  <1>2. m # 0 /\ m - 1 \in Nat
    BY <1>1
  <1>3. m - 1 \in P
    <2>1. ~(m <= m - 1)
      BY <1>1
    <2> QED
      BY <1>1, <1>2, <2>1
  <1>4. (m - 1) + 1 = m
    BY <1>1
  <1> QED
    BY <1>1, <1>3, <1>4

\* f solves a recursion over 0..n: it starts with base, and each value is the
\* step of its index and the value before.
Solves(f, S, base, step, n) ==
    /\ f \in [0..n -> S]
    /\ f[0] = base
    /\ \A k \in 1..n : f[k] = step[<<k, f[k - 1]>>]

StepOn(step, S) == step \in [Nat \X S -> S]

\* Such a recursion has a solution.
LEMMA Recursion ==
    ASSUME NEW S, NEW base \in S, NEW step, StepOn(step, S), NEW n \in Nat
    PROVE  \E f : Solves(f, S, base, step, n)
  <1> DEFINE P == {m \in Nat : \E f : Solves(f, S, base, step, m)}
  <1>1. 0 \in P
    <2>1. Solves([k \in 0..0 |-> base], S, base, step, 0)
      BY DEF Solves
    <2> QED
      BY <2>1
  <1>2. ASSUME NEW m \in P PROVE m + 1 \in P
    <2>1. PICK f : Solves(f, S, base, step, m)
      OBVIOUS
    <2> DEFINE g == [k \in 0..(m + 1) |-> IF k <= m THEN f[k] ELSE step[<<m + 1, f[m]>>]]
    <2>2. m \in Nat /\ f \in [0..m -> S]
      BY <2>1 DEF Solves
    <2>3. step[<<m + 1, f[m]>>] \in S
      BY <2>2 DEF StepOn
    <2>4. g \in [0..(m + 1) -> S]
      BY <2>2, <2>3
    <2>5. g[0] = base
      BY <2>1, <2>2 DEF Solves
    <2>6. ASSUME NEW k \in 1..(m + 1) PROVE g[k] = step[<<k, g[k - 1]>>]
      <3>1. CASE k <= m
        <4>1. g[k] = f[k] /\ g[k - 1] = f[k - 1] /\ k \in 1..m
          BY <2>2, <3>1
        <4> QED
          BY <2>1, <4>1 DEF Solves
      <3>2. CASE k = m + 1
        <4>1. ~(k <= m) /\ m <= m /\ m \in 0..(m + 1) /\ k - 1 = m /\ k \in 0..(m + 1)
          BY <2>2, <3>2
        <4>2. g[k] = step[<<m + 1, f[m]>>] /\ g[m] = f[m]
          BY <4>1
        <4> QED
          BY <3>2, <4>1, <4>2
      <3> QED
        BY <2>2, <3>1, <3>2
    <2> HIDE DEF g
    <2>7. Solves(g, S, base, step, m + 1)
      BY <2>4, <2>5, <2>6 DEF Solves
    <2> QED
      BY <2>2, <2>7
  <1>3. P = Nat
    <2>1. P \in SUBSET Nat
      OBVIOUS
    <2> HIDE DEF P
    <2> QED
      BY <1>1, <1>2, <2>1, NatInductionSet
  <1> QED
    BY <1>3

\* An entry that is set adds its domain, or replaces the domain's entry, or finds
\* the cache full: no domain is lost.
LEMMA SetKeeps ==
    ASSUME NEW c, NEW d, NEW chain, NEW fp, NEW t
    PROVE  DOMAIN c \subseteq DOMAIN discovery_cache_set(c, d, chain, fp, t)
  BY DEF discovery_cache_set

\* Merging a profile's lines loses no domain either, however many there are.
LEMMA ParseKeeps ==
    ASSUME NEW cache, NEW lines, Len(lines) \in Nat
    PROVE  DOMAIN cache \subseteq DOMAIN discovery_cache_parse(cache, lines)
  <1> DEFINE N == Len(lines)
             Chain(n) == strategy_chain_from_string(lines[n].names)
             Pick(n) == CHOOSE x \in Chain(n) : TRUE
             Up(n, c) == IF Chain(n) = {} THEN c
                         ELSE discovery_cache_set(c, lines[n].domain, Pick(n),
                                                  lines[n].fingerprint, lines[n].validated_at)
             IsAfter(f) == f = [n \in 0..N |-> IF n = 0 THEN cache ELSE Up(n, f[n - 1])]
             Entry(n) == [chain |-> Pick(n), fingerprint |-> lines[n].fingerprint,
                          validated_at |-> lines[n].validated_at]
             V == {cache[d] : d \in DOMAIN cache} \cup {Entry(n) : n \in 1..N}
             D == DOMAIN cache \cup {lines[n].domain : n \in 1..N}
             S == {cache} \cup UNION {[E -> V] : E \in SUBSET D}
  <1>1. ASSUME NEW n \in 1..N, NEW c \in S PROVE Up(n, c) \in S
    <2>1. CASE Up(n, c) = c
      BY Zenon, <2>1
    <2>2. CASE Up(n, c) # c
      <3>1. PICK E : E = DOMAIN c \cup {lines[n].domain}
        BY Zenon
      <3>2. E \in SUBSET D
        <4>1. lines[n].domain \in D
          OBVIOUS
        <4>2. DOMAIN c \subseteq D
          OBVIOUS
        <4> QED
          BY <3>1, <4>1, <4>2
      <3>3. \A d \in DOMAIN c : c[d] \in V
        <4>1. CASE c = cache
          BY <4>1
        <4>2. CASE c # cache
          <5>1. PICK E0 \in SUBSET D : c \in [E0 -> V]
            BY Zenon, <4>2
          <5> HIDE DEF V
          <5> QED
            BY <5>1
        <4> QED
          BY Zenon, <4>1, <4>2
      <3>4. Entry(n) \in V
        BY Zenon
      <3>5. Up(n, c) = [d \in E |-> IF d = lines[n].domain THEN Entry(n) ELSE c[d]]
        BY <2>2, <3>1 DEF discovery_cache_set
      <3> HIDE DEF V, Entry
      <3>6. [d \in E |-> IF d = lines[n].domain THEN Entry(n) ELSE c[d]] \in [E -> V]
        BY <3>1, <3>3, <3>4
      <3>7. Up(n, c) \in [E -> V]
        BY <3>5, <3>6, Zenon
      <3> HIDE DEF Up, D
      <3> QED
        BY <3>2, <3>7, Zenon
    <2> QED
      BY Zenon, <2>1, <2>2
  <1> HIDE DEF V, D, Entry
  <1>2. \E f : IsAfter(f)
    <2> DEFINE step == [nc \in Nat \X S |-> IF nc[1] \in 1..N THEN Up(nc[1], nc[2]) ELSE cache]
    <2> HIDE DEF Up
    <2>1. StepOn(step, S) /\ cache \in S
      BY <1>1 DEF StepOn
    <2>2. \A n \in 1..N, c \in S : step[<<n, c>>] = Up(n, c)
      OBVIOUS
    <2> HIDE DEF step, S, N
    <2>3. PICK f : Solves(f, S, cache, step, N)
      BY <2>1, Recursion, Zenon DEF N
    <2>4. \A n \in 1..N : f[n] = Up(n, f[n - 1])
      <3>1. \A n \in 1..N : f[n - 1] \in S
        BY <2>3 DEF Solves, N
      <3> QED
        BY Zenon, <2>2, <2>3, <3>1 DEF Solves
    <2>5. f = [n \in 0..N |-> IF n = 0 THEN cache ELSE Up(n, f[n - 1])]
      <3>1. ASSUME NEW n \in 0..N PROVE f[n] = IF n = 0 THEN cache ELSE Up(n, f[n - 1])
        BY <2>3, <2>4 DEF Solves, N
      <3> QED
        BY <2>3, <3>1 DEF Solves
    <2> QED
      BY Zenon, <2>5
  <1>3. PICK f : IsAfter(f) /\ discovery_cache_parse(cache, lines) = f[N]
    <2>1. discovery_cache_parse(cache, lines) = (CHOOSE f : IsAfter(f))[N]
      BY Zenon DEF discovery_cache_parse
    <2> HIDE DEF IsAfter
    <2> QED
      BY <1>2, <2>1, Zenon
  <1> DEFINE P == {n \in Nat : n <= N => DOMAIN cache \subseteq DOMAIN f[n]}
  <1>4. 0 \in P
    <2> HIDE DEF Up
    <2>1. f[0] = cache
      BY <1>3
    <2> QED
      BY <2>1
  <1>5. ASSUME NEW n \in P PROVE n + 1 \in P
    <2>1. CASE n + 1 <= N
      <3>1. n \in Nat /\ DOMAIN cache \subseteq DOMAIN f[n]
        BY <2>1
      <3>2. n + 1 \in 0..N /\ n + 1 # 0 /\ (n + 1) - 1 = n
        BY <2>1
      <3>3. f[n + 1] = Up(n + 1, f[n])
        <4> HIDE DEF Up, N
        <4> QED
          BY Zenon, <1>3, <3>2
      <3>4. DOMAIN f[n] \subseteq DOMAIN f[n + 1]
        BY <3>3, SetKeeps
      <3> QED
        BY <3>1, <3>4
    <2>2. CASE ~(n + 1 <= N)
      BY <2>2
    <2> QED
      BY <2>1, <2>2
  <1>6. P = Nat
    <2>1. P \in SUBSET Nat
      OBVIOUS
    <2> HIDE DEF P
    <2> QED
      BY <1>4, <1>5, <2>1, NatInductionSet, SMTT(30)
  <1>7. DOMAIN cache \subseteq DOMAIN f[N]
    <2>1. N \in P
      BY <1>6, Zenon
    <2> HIDE DEF Up, N
    <2>2. N <= N
      BY DEF N
    <2> QED
      BY <2>1, <2>2, Zenon
  <1> HIDE DEF P, N
  <1> QED
    BY <1>3, <1>7, ZenonT(30)

\* A probe or an import whose copy is not stale has, from reading the file to saving
\* it, an entry in that copy for every domain of the file.
Walking == {"probe", "check", "kill", "reap", "clean", "save"}

Keeps ==
    \A p \in Probers \ stale :
        At(p, Walking) => DOMAIN file \subseteq DOMAIN probers[p].cache

\* A step of one process keeps this if the record it leaves does, no other copy
\* becomes good again, and a changed file makes the others stale.
LEMMA MovesKeeps ==
    ASSUME IInv, Keeps, NEW p \in Probers, NEW r, DOMAIN r = Fields, ProberIs(p, r),
           p \notin stale' /\ r.pc \in Walking => DOMAIN file' \subseteq DOMAIN r.cache,
           \A q \in Probers : q # p /\ q \notin stale' => q \notin stale,
           file' = file \/ Holding(p) \subseteq stale'
    PROVE  Keeps'
  <1>1. probers'[p] = r /\ \A q \in Probers : q # p => probers'[q] = probers[q]
    BY Moved, Zenon DEF IInv
  <1> SUFFICES ASSUME NEW q \in Probers, q \notin stale', At(q, Walking)'
               PROVE  DOMAIN file' \subseteq DOMAIN probers'[q].cache
    BY Zenon DEF Keeps
  <1>2. CASE q = p
    BY <1>1, <1>2, Zenon DEF At
  <1>3. CASE q # p
    <2>1. At(q, Walking) /\ q \notin stale
      BY <1>1, <1>3, Zenon DEF At
    <2>2. file' = file
      <3>1. q \in Holding(p)
        BY <1>3, <2>1, Zenon DEF Holding, At, Walking
      <3> QED
        BY <3>1, Zenon
    <2>3. DOMAIN file \subseteq DOMAIN probers[q].cache
      BY <2>1, Zenon DEF Keeps
    <2> QED
      BY <1>1, <1>3, <2>2, <2>3, Zenon
  <1> QED
    BY <1>2, <1>3, Zenon

\* What follows an attempt loses no domain of the copy either.
LEMMA DiscoveryRunKeeps ==
    ASSUME NEW r, DOMAIN r = Fields, NEW result
    PROVE  LET m == discovery_run(r, result) IN
           m.pc \in Walking => DOMAIN r.cache \subseteq DOMAIN m.cache
  <1> DEFINE next == [r EXCEPT !.ladder_idx = @ + 1, !.attempt = 0, !.result = "NONE"]
             n == [next EXCEPT !.pc = "probe"]
             a == [r EXCEPT !.pc = "probe", !.attempt = @ + 1, !.result = "NONE"]
             c == discovery_cache_set(r.cache, r.domain,
                           g_discovery_ladder[r.ladder_idx], r.fp, now)
             s == Saving(c, r.restart)
  <1>1. n.cache = r.cache
    BY DEF Fields
  <1>2. a.cache = r.cache
    BY DEF Fields
  <1>3. DOMAIN r.cache \subseteq DOMAIN c
    BY SetKeeps, Zenon
  <1>4. s.cache = c
    BY IdleFields DEF Saving, Fields
  <1>5. discovery_run(r, result) \in {s, a, n, Ended(r)}
    BY Zenon DEF discovery_run
  <1>6. Ended(r).pc \notin Walking
    BY EndedFields DEF Walking
  <1> HIDE DEF n, a, c, s
  <1> QED
    BY <1>1, <1>2, <1>3, <1>4, <1>5, <1>6, Zenon

\* The steps of a probe keep it: run_probe and systemctl stop, before the file is
\* read, ...
LEMMA CtlKeeps ==
    ASSUME IInv, Keeps, NEW p \in Probers,
           (\E d \in Domains : run_probe(p, d)) \/ systemctl_stopped(p)
    PROVE  Keeps'
  <1>1. ASSUME NEW d \in Domains, run_probe(p, d) PROVE Keeps'
    <2> DEFINE r == [Idle EXCEPT !.pc = "ctl", !.domain = d,
                                 !.restart = wanted /\ engines[Service] # "none"]
    <2>1. ProberIs(p, r) /\ file' = file /\ stale' = stale
      BY <1>1, Zenon DEF run_probe
    <2>2. DOMAIN r = Fields /\ r.pc \notin Walking
      BY IdleFields DEF Fields, Walking
    <2> HIDE DEF r
    <2> QED
      BY <2>1, <2>2, MovesKeeps, Zenon
  <1>2. CASE systemctl_stopped(p)
    <2> DEFINE r == [probers[p] EXCEPT !.pc = "cmd"]
    <2>1. ProberIs(p, r) /\ file' = file /\ stale' = stale
      BY <1>2, Zenon DEF systemctl_stopped
    <2>2. DOMAIN r = Fields /\ r.pc \notin Walking
      BY DEF IInv, TypeOK, Fields, Walking
    <2> HIDE DEF r
    <2> QED
      BY <2>1, <2>2, MovesKeeps, Zenon
  <1> QED
    BY <1>1, <1>2, Zenon

\* ... cmd_probe(), which reads it, ...
LEMMA CmdKeeps ==
    ASSUME IInv, Keeps, NEW p \in Probers, NEW force, cmd_probe(p, force)
    PROVE  Keeps'
  <1>1. DOMAIN probers[p] = Fields
    BY DEF IInv, TypeOK
  <1>2. file' = file
    BY Zenon DEF cmd_probe
  <1>3. PICK m : /\ ProberIs(p, m) /\ DOMAIN m = Fields /\ m.pc \in {"probe", "end"}
                 /\ m.pc = "probe" /\ p \notin stale' => m.cache = file
                 /\ \A q \in Probers : q # p /\ q \notin stale' => q \notin stale
    BY <1>1, CmdMoves, Zenon
  <1>4. p \notin stale' /\ m.pc \in Walking => DOMAIN file' \subseteq DOMAIN m.cache
    BY <1>2, <1>3 DEF Walking
  <1> QED
    BY <1>2, <1>3, <1>4, MovesKeeps, Zenon

\* ... an attempt, from start_scoped_engine() to the table's removal, ...
LEMMA AttemptKeeps ==
    ASSUME IInv, Keeps, NEW p \in Probers,
           \/ start_scoped_engine(p) \/ sigterm(p) \/ reap(p) \/ nft_rules_remove(p)
           \/ \E result \in {"SUCCESS", "REMOTE_REJECTED", "LOCAL_ERROR"} :
                 run_openssl_check(p, result)
    PROVE  Keeps'
  <1> DEFINE r == probers[p]
  <1>1. DOMAIN r = Fields
    BY DEF IInv, TypeOK
  <1>2. At(p, Walking) /\ file' = file /\ stale' = stale
    BY Zenon DEF start_scoped_engine, sigterm, reap, nft_rules_remove, run_openssl_check,
                 At, Walking
  <1> DEFINE Kept(m) == m.pc \in Walking => DOMAIN r.cache \subseteq DOMAIN m.cache
             Goal == \E m : ProberIs(p, m) /\ DOMAIN m = Fields /\ Kept(m)
  <1>3. Goal
    <2>1. ASSUME NEW result, ProberIs(p, discovery_run(r, result))
          PROVE  Goal
      <3>1. PICK m : m = discovery_run(r, result)
        BY Zenon
      <3>2. DOMAIN m = Fields
        BY <1>1, <3>1, DiscoveryRunFields, Zenon
      <3>3. Kept(m)
        BY <1>1, <3>1, DiscoveryRunKeeps, Zenon
      <3> HIDE DEF Kept
      <3> QED
        BY <2>1, <3>1, <3>2, <3>3, Zenon
    <2>2. ASSUME NEW s, ProberIs(p, [r EXCEPT !.pc = s])
          PROVE  Goal
      <3>1. DOMAIN [r EXCEPT !.pc = s] = Fields /\ [r EXCEPT !.pc = s].cache = r.cache
        BY <1>1 DEF Fields
      <3> QED
        BY <2>2, <3>1, Zenon
    <2>3. ASSUME NEW result, ProberIs(p, [r EXCEPT !.pc = "kill", !.result = result])
          PROVE  Goal
      <3> DEFINE m == [r EXCEPT !.pc = "kill", !.result = result]
      <3>1. DOMAIN m = Fields /\ m.cache = r.cache
        BY <1>1 DEF Fields
      <3> QED
        BY <2>3, <3>1, Zenon
    <2> HIDE DEF Goal
    <2>4. CASE start_scoped_engine(p)
      BY <2>1, <2>2, <2>4, Zenon DEF start_scoped_engine
    <2>5. CASE sigterm(p) \/ reap(p)
      BY <2>2, <2>5, Zenon DEF sigterm, reap
    <2>6. CASE nft_rules_remove(p)
      BY <2>1, <2>6, Zenon DEF nft_rules_remove
    <2>7. ASSUME NEW result, run_openssl_check(p, result) PROVE Goal
      BY <2>3, <2>7, Zenon DEF run_openssl_check
    <2> QED
      BY <2>4, <2>5, <2>6, <2>7, Zenon
  <1>4. PICK m : ProberIs(p, m) /\ DOMAIN m = Fields /\ Kept(m)
    BY <1>3, Zenon
  <1>5. p \notin stale => DOMAIN file \subseteq DOMAIN r.cache
    BY <1>2, Zenon DEF Keeps
  <1>6. p \notin stale' /\ m.pc \in Walking => DOMAIN file' \subseteq DOMAIN m.cache
    BY <1>2, <1>4, <1>5
  <1> QED
    BY <1>2, <1>4, <1>6, MovesKeeps, Zenon

\* ... the save and the end, after which the copy is not used again, ...
LEMMA SaveKeeps ==
    ASSUME IInv, Keeps, NEW p \in Probers,
           save_opens(p) \/ save_writes(p) \/ run_probe_ends(p)
    PROVE  Keeps'
  <1> DEFINE r == probers[p]
             w == [r EXCEPT !.pc = "write"]
             x == [Idle EXCEPT !.pc = "exited"]
  <1>1. DOMAIN r = Fields
    BY DEF IInv, TypeOK
  <1>2. file' = file \/ Holding(p) \subseteq stale'
    BY Zenon DEF save_opens, save_writes, run_probe_ends
  <1>3. \A q \in Probers : q # p /\ q \notin stale' => q \notin stale
    BY Zenon DEF save_opens, save_writes, run_probe_ends
  <1>4. DOMAIN w = Fields /\ w.pc \notin Walking
    BY <1>1 DEF Fields, Walking
  <1>5. DOMAIN x = Fields /\ x.pc \notin Walking
    BY IdleFields DEF Fields, Walking
  <1>6. DOMAIN Ended(r) = Fields /\ Ended(r).pc \notin Walking
    BY EndedFields DEF Walking
  <1>7. ProberIs(p, w) \/ ProberIs(p, x) \/ ProberIs(p, Ended(r))
    BY Zenon DEF save_opens, save_writes, run_probe_ends
  <1> HIDE DEF w, x
  <1>8. PICK m \in {w, x, Ended(r)} : ProberIs(p, m)
    BY <1>7, Zenon
  <1>9. DOMAIN m = Fields /\ m.pc \notin Walking
    BY <1>4, <1>5, <1>6, Zenon
  <1> QED
    BY <1>2, <1>3, <1>8, <1>9, MovesKeeps, Zenon

\* ... and an import, whose copy is the file with the profile merged in.
LEMMA ImportKeeps ==
    ASSUME IInv, Keeps, NEW p \in Probers, cmd_import_profile(p)
    PROVE  Keeps'
  <1>1. PICK c : /\ Loaded(p, c) /\ file' = file
                 /\ \/ ProberIs(p, Ended(Idle))
                    \/ ProberIs(p, Saving(discovery_cache_parse(c, Profile), FALSE))
    BY Zenon DEF cmd_import_profile
  <1>2. (p \notin stale' => c = file) /\ \A q \in Probers : q # p /\ q \notin stale' => q \notin stale
    BY <1>1, Zenon DEF Loaded
  <1>3. PICK d : d = discovery_cache_parse(c, Profile)
    BY Zenon
  <1>4. DOMAIN c \subseteq DOMAIN d
    BY <1>3, ParseKeeps, DiscoveryAssumption, Zenon
  <1>5. CASE ProberIs(p, Ended(Idle))
    <2>1. DOMAIN Ended(Idle) = Fields /\ Ended(Idle).pc \notin Walking
      BY EndedFields DEF Walking
    <2> QED
      BY <1>1, <1>2, <1>5, <2>1, MovesKeeps, Zenon
  <1>6. CASE ProberIs(p, Saving(d, FALSE))
    <2>1. PICK r : r = Saving(d, FALSE)
      BY Zenon
    <2>2. DOMAIN r = Fields /\ r.cache = d
      BY <2>1, IdleFields DEF Saving, Fields
    <2>3. p \notin stale' => DOMAIN file' \subseteq DOMAIN r.cache
      BY <1>1, <1>2, <1>4, <2>2
    <2> QED
      BY <1>1, <1>2, <1>6, <2>1, <2>2, <2>3, MovesKeeps, Zenon
  <1> QED
    BY <1>1, <1>3, <1>5, <1>6, Zenon

\* Nothing else changes the probes' copies or the file.
LEMMA OtherKeeps ==
    ASSUME Keeps, probers' = probers, file' = file, stale' = stale
    PROVE  Keeps'
  BY Zenon DEF Keeps, At

\* Every step keeps it.
LEMMA NextKeeps == IInv /\ Keeps /\ [Next]_vars => Keeps'
  <1> SUFFICES ASSUME IInv, Keeps, [Next]_vars PROVE Keeps'
    BY Zenon
  <1>1. CASE service_starts
    BY <1>1, OtherKeeps, Zenon DEF service_starts
  <1>2. ASSUME NEW e \in Probers \cup {Service}, EngineStep(e) PROVE Keeps'
    <2>1. probers' = probers /\ file' = file /\ stale' = stale
      BY <1>2, Zenon DEF EngineStep, nft_rules_apply, nfq_create_queue, nfq_destroy_queue,
                         engine_exits
    <2> QED
      BY <2>1, OtherKeeps, Zenon
  <1>3. ASSUME NEW p \in Probers, ProberStep(p) PROVE Keeps'
    BY <1>3, CtlKeeps, CmdKeeps, AttemptKeeps, SaveKeeps, Zenon DEF ProberStep
  <1>4. ASSUME NEW p \in Probers, cmd_import_profile(p) PROVE Keeps'
    BY <1>4, ImportKeeps, Zenon
  <1>5. ASSUME NEW p \in Probers, NEW d \in Domains, run_probe(p, d) PROVE Keeps'
    BY <1>5, CtlKeeps, Zenon
  <1>6. ASSUME NEW n \in Nets \cup {NETFP_UNKNOWN}, roam(n) PROVE Keeps'
    BY <1>6, OtherKeeps, Zenon DEF roam
  <1>7. CASE UNCHANGED vars
    BY <1>7, OtherKeeps, Zenon DEF vars
  <1> QED
    BY <1>1, <1>2, <1>3, <1>4, <1>5, <1>6, <1>7, Zenon DEF Next

\* A save that empties the cache file is about to write back every domain the file
\* held (discovery_cache_save_file() after cmd_probe() or --import-profile), unless
\* the process could not read the file or another one has saved since.
THEOREM SpecCacheKeepsResults == Spec => CacheKeepsResults
  <1> DEFINE A == \A p \in Probers \ stale :
                     probers[p].pc = "save" /\ probers'[p].pc = "write"
                       => DOMAIN file \subseteq DOMAIN probers[p].cache
  <1>1. Init => Keeps
    <2> SUFFICES ASSUME Init, NEW p \in Probers PROVE ~At(p, Walking)
      BY Zenon DEF Keeps
    <2>1. probers[p] = Idle
      BY Zenon DEF Init
    <2> QED
      BY <2>1, IdleFields DEF At, Walking
  <1>2. IInv /\ Keeps => A
    <2> SUFFICES ASSUME IInv, Keeps, NEW p \in Probers \ stale, probers[p].pc = "save"
                 PROVE  DOMAIN file \subseteq DOMAIN probers[p].cache
      BY Zenon
    <2>1. At(p, Walking)
      BY DEF At, Walking
    <2> QED
      BY <2>1, Zenon DEF Keeps
  <1> HIDE DEF A
  <1>3. [][A]_vars => CacheKeepsResults
    BY PTL DEF A, CacheKeepsResults
  <1> QED
    BY <1>1, <1>2, <1>3, NextKeeps, SpecIInv, PTL DEF Spec
=============================================================================
