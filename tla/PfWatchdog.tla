----------------------------- MODULE PfWatchdog -----------------------------
(***************************************************************************)
(* Fail-open interception on macOS (platform_macos.c): the daemon, which   *)
(* launchd restarts, the rules it loads into its PF anchor, the reference  *)
(* token that keeps PF enabled and the file that remembers it, and the     *)
(* watchdog processes, each at the read end of a pipe from the daemon that *)
(* spawned it.  The watchdog of a dead daemon and the next daemon run at   *)
(* the same time.                                                          *)
(*                                                                         *)
(* A step is a run of pfctl and what the code does up to the next one, or  *)
(* a few runs in a row where only the last changes what others rely on     *)
(* (anchor_load, pf_enable, check); a watchdog's look at the token file    *)
(* and its removal are two steps.  A tick is TP_HEARTBEAT_S seconds;       *)
(* runs of pfctl and of the watchdog's loop are shorter than that.         *)
(***************************************************************************)
EXTENDS Integers, FiniteSetsExt

CONSTANTS
    Watchdogs,      \* slots for watchdog processes: a set of positive numbers
    ALIVE,          \* TP_ALIVE_TIMEOUT_S in ticks
    MaxToken,       \* tokens are 1..MaxToken, 0 is none
    MaxFaults       \* bound on kills, signals to watchdogs and `pfctl -d`

ASSUME PfAssumption ==
    /\ Watchdogs \subseteq Nat \ {0} /\ ALIVE \in Nat \ {0}
    /\ MaxToken \in Nat \ {0} /\ MaxFaults \in Nat

VARIABLES
    daemon,     \* the daemon: where it is, g_token, g_wd_pid
    wds,        \* the watchdog processes
    anchor,     \* are our rules loaded?
    refs,       \* our tokens that keep PF enabled
    file,       \* the token file (0: there is none)
    faults,     \* faults so far
    unguarded,  \* history: since the last cleanup, was the daemon dead or hung
                \* with no watchdog at its pipe?
    dead        \* history: for how many ticks have our rules led nowhere?

vars == <<daemon, wds, anchor, refs, file, faults, unguarded, dead>>

Tokens == 0..MaxToken

\* boot: is this the installation of run_transparent_server(), or a refresh's?
DaemonStates ==
    [pc : {"off", "stale_flush", "stale_release", "load", "enable", "write",
           "beat", "running", "check", "hung", "flush", "release", "quit"},
     token : Tokens, wd : Watchdogs \cup {0}, boot : BOOLEAN, due : 0..1]

\* A watchdog is gone, polls, or is in wd_cleanup(); in_*: what it has not
\* read from its pipe yet; last: ticks since it read a beat.
WatchdogStates ==
    [pc : {"gone", "poll", "flush", "release", "read", "unlink"},
     token : Tokens, flushed : BOOLEAN, last : 0..(ALIVE + 1),
     in_token : Tokens, in_beat : BOOLEAN, eof : BOOLEAN]

TypeOK ==
    /\ daemon \in DaemonStates /\ wds \in [Watchdogs -> WatchdogStates]
    /\ anchor \in BOOLEAN /\ refs \subseteq Tokens \ {0} /\ file \in Tokens
    /\ daemon.pc \in {"off", "quit"} => daemon.token = 0
    /\ faults \in 0..MaxFaults /\ unguarded \in BOOLEAN /\ dead \in Nat

Off == [pc |-> "off", token |-> 0, wd |-> 0, boot |-> TRUE, due |-> 0]

NoWatchdog == [pc |-> "gone", token |-> 0, flushed |-> FALSE, last |-> 0,
               in_token |-> 0, in_beat |-> FALSE, eof |-> FALSE]

Init ==
    /\ daemon = Off /\ wds = [w \in Watchdogs |-> NoWatchdog]
    /\ anchor = FALSE /\ refs = {} /\ file = 0
    /\ faults = 0 /\ unguarded = FALSE /\ dead = 0

-----------------------------------------------------------------------------
(* The pipe, on the daemon's side.                                         *)

Alive(w) == w # 0 /\ wds[w].pc # "gone"

\* wds after the daemon put a token into its watchdog's pipe, if it has one.
wd_send_token(token) ==
    IF Alive(daemon.wd) THEN [wds EXCEPT ![daemon.wd].in_token = token] ELSE wds

\* The slot a new watchdog takes (0: posix_spawn fails).
Slots == {0} \cup LET free == {w \in Watchdogs : wds[w].pc = "gone"}
                  IN  IF free = {} THEN {} ELSE {Min(free)}

\* Heartbeat; a watchdog that is gone is replaced, and told the token.
wd_beat(pc, boot) ==
    IF Alive(daemon.wd)
      THEN /\ wds' = [wds EXCEPT ![daemon.wd].in_beat = TRUE]
           /\ daemon' = [daemon EXCEPT !.pc = pc, !.boot = boot, !.due = 0]
      ELSE \E w \in Slots :
           /\ wds' = [v \in Watchdogs |-> IF v # w THEN wds[v]
                        ELSE [NoWatchdog EXCEPT !.pc = "poll",
                                                !.in_token = daemon.token]]
           /\ daemon' = [daemon EXCEPT !.pc = pc, !.boot = boot, !.due = 0,
                                       !.wd = w]

\* The daemon's end of the pipe closes.
Hangup == IF Alive(daemon.wd) THEN [wds EXCEPT ![daemon.wd].eof = TRUE] ELSE wds

-----------------------------------------------------------------------------
(* tpp_install().                                                          *)

\* launchd, or a user, starts the daemon.
start ==
    /\ daemon.pc = "off" /\ daemon' = [Off EXCEPT !.pc = "stale_flush"]
    /\ UNCHANGED <<wds, anchor, refs, file, faults, unguarded>>

\* stale_cleanup(), once per process: the anchor, then the token of the file.
stale_flush ==
    /\ daemon.pc = "stale_flush" /\ daemon' = [daemon EXCEPT !.pc = "stale_release"]
    /\ anchor' = FALSE /\ unguarded' = FALSE
    /\ UNCHANGED <<wds, refs, file, faults>>

stale_release ==
    /\ daemon.pc = "stale_release" /\ daemon' = [daemon EXCEPT !.pc = "load"]
    /\ refs' = refs \ {file} /\ file' = 0
    /\ UNCHANGED <<wds, anchor, faults, unguarded>>

\* Where a failed installation leads: tpp_remove() at start, else the main loop.
Failed(d) == [d EXCEPT !.pc = IF d.boot THEN "flush" ELSE "running"]

\* ensure_main_hooks() may fail first; then the anchor is flushed and loaded.
anchor_load ==
    /\ daemon.pc = "load"
    /\ \/ daemon' = Failed(daemon) /\ UNCHANGED anchor
       \/ daemon' = Failed(daemon) /\ anchor' = FALSE
       \/ daemon' = [daemon EXCEPT !.pc = "enable"] /\ anchor' = TRUE
    /\ UNCHANGED <<wds, refs, file, faults, unguarded>>

\* PF hands out tokens it never gave before: here, one that nothing holds.
Unused == (Tokens \ {0}) \ (refs \cup {file, daemon.token}
              \cup {wds[w].token : w \in Watchdogs}
              \cup {wds[w].in_token : w \in Watchdogs})

\* Nothing to do with a token and PF enabled; else pf_enable(), after giving
\* up a token that no longer keeps PF enabled.
pf_enable ==
    /\ daemon.pc = "enable"
    /\ IF daemon.token # 0 /\ refs # {}
         THEN daemon' = [daemon EXCEPT !.pc = "beat"] /\ UNCHANGED <<refs, anchor>>
         ELSE \/ /\ Unused # {}
                 /\ daemon' = [daemon EXCEPT !.pc = "write", !.token = Min(Unused)]
                 /\ refs' = (refs \ {daemon.token}) \cup {Min(Unused)}
                 /\ UNCHANGED anchor
              \/ /\ daemon' = Failed([daemon EXCEPT !.token = 0])
                 /\ refs' = refs \ {daemon.token} /\ anchor' = FALSE
    /\ UNCHANGED <<wds, file, faults, unguarded>>

\* The file may stay as it is (no directory, no space).
token_file_write ==
    /\ daemon.pc = "write" /\ daemon' = [daemon EXCEPT !.pc = "beat"]
    /\ file' \in {daemon.token, file} /\ wds' = wd_send_token(daemon.token)
    /\ UNCHANGED <<anchor, refs, faults, unguarded>>

\* anchor_present(), and the heartbeat that spawns the first watchdog.
install_beat ==
    /\ daemon.pc = "beat"
    /\ wd_beat(IF daemon.boot /\ ~anchor THEN "flush" ELSE "running", FALSE)
    /\ UNCHANGED <<anchor, refs, file, faults, unguarded>>

-----------------------------------------------------------------------------
(* The main loop, and the end of the daemon.                               *)

\* tpp_refresh(): the heartbeat first, then the look at PF and the anchor.
tpp_refresh ==
    /\ daemon.pc = "running" /\ daemon.due = 1
    /\ wd_beat("check", FALSE)
    /\ UNCHANGED <<anchor, refs, file, faults, unguarded>>

\* A bug: only PF itself is looked at.
check_enabled ==
    /\ daemon.pc = "check"
    /\ daemon' = [daemon EXCEPT !.pc = IF refs # {} THEN "running" ELSE "load"]
    /\ UNCHANGED <<wds, anchor, refs, file, faults, unguarded>>

check ==
    /\ daemon.pc = "check"
    /\ daemon' = [daemon EXCEPT !.pc =
                     IF anchor /\ refs # {} THEN "running" ELSE "load"]
    /\ UNCHANGED <<wds, anchor, refs, file, faults, unguarded>>

\* Will somebody remove the rules if the daemon is dead or hung?
Guarded == daemon.wd # 0 /\ wds[daemon.wd].pc \in {"poll", "flush"}

hang ==
    /\ daemon.pc = "running" /\ daemon' = [daemon EXCEPT !.pc = "hung"]
    /\ unguarded' = (unguarded \/ ~Guarded)
    /\ UNCHANGED <<wds, anchor, refs, file, faults>>

resume ==
    /\ daemon.pc = "hung" /\ daemon' = [daemon EXCEPT !.pc = "running", !.due = 1]
    /\ unguarded' = FALSE
    /\ UNCHANGED <<wds, anchor, refs, file, faults>>

\* SIGTERM: tpp_remove().
on_signal ==
    /\ daemon.pc = "running" /\ daemon' = [daemon EXCEPT !.pc = "flush"]
    /\ UNCHANGED <<wds, anchor, refs, file, faults, unguarded>>

remove_flush ==
    /\ daemon.pc = "flush" /\ daemon' = [daemon EXCEPT !.pc = "release"]
    /\ anchor' = FALSE
    /\ UNCHANGED <<wds, refs, file, faults, unguarded>>

remove_release ==
    /\ daemon.pc = "release"
    /\ daemon' = [daemon EXCEPT !.pc = "quit", !.token = 0]
    /\ refs' = refs \ {daemon.token}
    /\ file' = IF file = daemon.token THEN 0 ELSE file
    /\ UNCHANGED <<wds, anchor, faults, unguarded>>

\* wd_stop(), and the exit: the daemon waits until its watchdog has read 'q'
\* and left (cleaning nothing), or kills it.
wd_stop ==
    /\ daemon.pc = "quit" /\ daemon' = Off
    /\ wds' = [w \in Watchdogs |-> IF w = daemon.wd THEN NoWatchdog ELSE wds[w]]
    /\ UNCHANGED <<anchor, refs, file, faults, unguarded>>

kill_daemon ==
    /\ faults < MaxFaults /\ faults' = faults + 1
    /\ daemon.pc # "off" /\ daemon' = Off /\ wds' = Hangup
    /\ unguarded' = (unguarded \/ ~Guarded)
    /\ UNCHANGED <<anchor, refs, file>>

-----------------------------------------------------------------------------
(* tp_pf_watchdog_main().                                                  *)

Pending(w) == wds[w].in_token # 0 \/ wds[w].in_beat

\* A bug: a beat after a hang does not arm the watchdog again.
wd_read_once(w) ==
    /\ wds[w].pc = "poll" /\ Pending(w)
    /\ wds' = [wds EXCEPT ![w] =
           [@ EXCEPT !.token = IF wds[w].in_token # 0 THEN wds[w].in_token ELSE @,
                     !.last = IF wds[w].in_beat THEN 0 ELSE @,
                     !.in_token = 0, !.in_beat = FALSE]]
    /\ UNCHANGED <<daemon, anchor, refs, file, faults, unguarded>>

\* All that is in the pipe.
wd_read(w) ==
    LET wd == wds[w] IN
    /\ wd.pc = "poll" /\ Pending(w)
    /\ wds' = [wds EXCEPT ![w] =
           [wd EXCEPT !.token = IF wd.in_token # 0 THEN wd.in_token ELSE wd.token,
                      !.flushed = wd.flushed /\ ~wd.in_beat,
                      !.last = IF wd.in_beat THEN 0 ELSE wd.last,
                      !.in_token = 0, !.in_beat = FALSE]]
    /\ UNCHANGED <<daemon, anchor, refs, file, faults, unguarded>>

\* End of file without a 'q' before it: wd_cleanup().
wd_eof(w) ==
    /\ wds[w].pc = "poll" /\ ~Pending(w) /\ wds[w].eof
    /\ wds' = [wds EXCEPT ![w].pc = "flush"]
    /\ UNCHANGED <<daemon, anchor, refs, file, faults, unguarded>>

\* No heartbeat for TP_ALIVE_TIMEOUT_S: the rules go, once.
wd_hung(w) ==
    /\ wds[w].pc = "poll" /\ ~wds[w].flushed /\ wds[w].last > ALIVE
    /\ wds' = [wds EXCEPT ![w].flushed = TRUE] /\ anchor' = FALSE
    /\ UNCHANGED <<daemon, refs, file, faults, unguarded>>

\* wd_cleanup(): anchor_flush(), pf_release(), token_file_forget().
wd_flush(w) ==
    /\ wds[w].pc = "flush" /\ anchor' = FALSE
    /\ wds' = [wds EXCEPT ![w] = IF wds[w].token = 0 THEN NoWatchdog
                                 ELSE [@ EXCEPT !.pc = "release"]]
    /\ UNCHANGED <<daemon, refs, file, faults, unguarded>>

\* A bug: the token is taken from the file, as stale_cleanup() does.
wd_release_file(w) ==
    /\ wds[w].pc = "release" /\ wds' = [wds EXCEPT ![w].pc = "read"]
    /\ refs' = refs \ {file}
    /\ UNCHANGED <<daemon, anchor, file, faults, unguarded>>

wd_release(w) ==
    /\ wds[w].pc = "release" /\ wds' = [wds EXCEPT ![w].pc = "read"]
    /\ refs' = refs \ {wds[w].token}
    /\ UNCHANGED <<daemon, anchor, file, faults, unguarded>>

wd_forget_read(w) ==
    /\ wds[w].pc = "read"
    /\ wds' = [wds EXCEPT ![w] = IF file = wds[w].token
                                   THEN [@ EXCEPT !.pc = "unlink"] ELSE NoWatchdog]
    /\ UNCHANGED <<daemon, anchor, refs, file, faults, unguarded>>

wd_forget_unlink(w) ==
    /\ wds[w].pc = "unlink" /\ wds' = [wds EXCEPT ![w] = NoWatchdog]
    /\ file' = 0
    /\ UNCHANGED <<daemon, anchor, refs, faults, unguarded>>

\* A watchdog gets SIGKILL, or SIGTERM.
kill_watchdog(w) ==
    /\ faults < MaxFaults /\ faults' = faults + 1
    /\ \/ /\ wds[w].pc # "gone" /\ wds' = [wds EXCEPT ![w] = NoWatchdog]
          /\ unguarded' = (unguarded \/ daemon.pc \in {"off", "hung"})
       \/ /\ wds[w].pc = "poll" /\ wds' = [wds EXCEPT ![w].pc = "flush"]
          /\ UNCHANGED unguarded
    /\ UNCHANGED <<daemon, anchor, refs, file>>

\* Somebody runs `pfctl -d`.
pf_disable ==
    /\ faults < MaxFaults /\ faults' = faults + 1
    /\ refs # {} /\ refs' = {}
    /\ UNCHANGED <<daemon, wds, anchor, file, unguarded>>

-----------------------------------------------------------------------------

DaemonStep ==
    \/ stale_flush \/ stale_release \/ anchor_load \/ pf_enable
    \/ token_file_write \/ install_beat \/ tpp_refresh \/ check
    \/ remove_flush \/ remove_release \/ wd_stop

WatchdogStep(w) ==
    \/ wd_read(w) \/ wd_eof(w) \/ wd_hung(w) \/ wd_flush(w) \/ wd_release(w)
    \/ wd_forget_read(w) \/ wd_forget_unlink(w)

Environment ==
    \/ start \/ hang \/ resume \/ on_signal \/ kill_daemon \/ pf_disable
    \/ \E w \in Watchdogs : kill_watchdog(w)

\* Our rules redirect traffic that nobody takes.
LeadNowhere == anchor /\ refs # {} /\ daemon.pc \in {"off", "hung"}

\* No process but a hung one is idle with work to do when a tick passes.
tick ==
    /\ daemon.pc \in {"off", "running", "hung"}
    /\ daemon.pc = "running" => daemon.due = 0
    /\ \A w \in Watchdogs :
          \/ wds[w].pc = "gone"
          \/ /\ wds[w].pc = "poll" /\ ~Pending(w) /\ ~wds[w].eof
             /\ wds[w].last > ALIVE => wds[w].flushed
    /\ daemon' = [daemon EXCEPT !.due = IF daemon.pc = "running" THEN 1 ELSE @]
    /\ wds' = [w \in Watchdogs |-> IF wds[w].pc # "poll" \/ wds[w].last > ALIVE
                                     THEN wds[w] ELSE [wds[w] EXCEPT !.last = @ + 1]]
    /\ dead' = IF ~LeadNowhere THEN 0 ELSE IF dead > ALIVE + 1 THEN dead ELSE dead + 1
    /\ UNCHANGED <<anchor, refs, file, faults, unguarded>>

Timeless(step) == step /\ dead' = IF LeadNowhere' THEN dead ELSE 0

Next ==
    \/ Timeless(DaemonStep) \/ Timeless(Environment)
    \/ \E w \in Watchdogs : Timeless(WatchdogStep(w))
    \/ tick

\* Every process but a hung one goes on; pfctl and the spawning of a watchdog
\* do not fail for ever.
Fairness ==
    /\ WF_vars(tick) /\ WF_vars(Timeless(DaemonStep))
    /\ \A w \in Watchdogs : WF_vars(Timeless(WatchdogStep(w)))
    /\ SF_vars(Timeless(anchor_load) /\ anchor')
    /\ SF_vars(Timeless(pf_enable) /\ daemon'.token # 0)

Spec == Init /\ [][Next]_vars /\ Fairness

-----------------------------------------------------------------------------
(* Properties.                                                             *)

\* Rules that lead nowhere are gone within TP_ALIVE_TIMEOUT_S of the daemon's
\* death or of its last heartbeat, as long as its watchdog is there when that
\* happens, and is not killed too.
FailOpen == dead > ALIVE + 1 => unguarded

Promise ==
    INSTANCE FailOpenPath WITH
        Paths <- {"all"}, LIMIT <- ALIVE + 2, clock <- dead, exempt <- unguarded,
        path <- [p \in {"all"} |-> IF ~anchor \/ refs = {} THEN "open"
                                   ELSE IF LeadNowhere THEN "dead" ELSE "served"]

\* The anchor, the token and the watchdog implement the promise of FailOpenPath,
\* except while the daemon is dead or hung and had no watchdog at its pipe.
KeepsPromise == Promise!Spec

\* The reference that keeps PF enabled for a daemon is released by that daemon,
\* by its own watchdog, or by whoever disables PF: never by the watchdog of an
\* earlier daemon that is still cleaning up.
ReleasedByOwner ==
    [][daemon.token \in refs \ refs' =>
          \/ daemon' # daemon \/ faults' # faults
          \/ (daemon.wd # 0 /\ wds[daemon.wd].pc = "release")]_vars

\* Rules that vanish under a running daemon (flushed by the watchdog of an
\* earlier one, or by its own when it was slow to beat) come back.
RulesComeBack ==
    daemon.pc = "running" /\ ~anchor ~> anchor \/ daemon.pc \in {"off", "hung"}

\* What platform_macos.c says of one process being killed: the rules do not
\* stay; when the daemon is gone and they redirect, a watchdog will remove them.
StayOnlyIfBothKilled ==
    LeadNowhere /\ daemon.pc = "off"
        => \E w \in Watchdogs : wds[w].pc \in {"poll", "flush"}
=============================================================================
