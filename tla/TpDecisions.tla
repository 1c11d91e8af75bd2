----------------------------- MODULE TpDecisions ----------------------------
(***************************************************************************)
(* The learned state of transparent mode (policy.c, "decisions"): which    *)
(* step works for a host on a network, which hosts are in cooldown, which  *)
(* hosts' DIRECT was verified bad.  Pure operators on a table d, under the *)
(* C names; now is the wall clock (tpd_now).                               *)
(*                                                                         *)
(* The array of decisions is a set of entries with distinct keys: its      *)
(* order matters only to the choice among equally old entries to evict,    *)
(* which is left open.  An operator that evicts, or allocates, yields the  *)
(* set of tables it may leave.  The fixed slot tables keep their order.    *)
(***************************************************************************)
EXTENDS TpPlan, FiniteSets, FiniteSetsExt

CONSTANTS
    Hosts,                      \* host names (tls_parse_client_hello_sni)
    Families,                   \* address families, 4 and 6
    Nets,                       \* network fingerprints, NETFP_UNKNOWN apart
    NETFP_UNKNOWN,              \* no default route
    TP_DECISIONS_MAX, TP_DECISIONS_FIRST_CAP,
    TP_COOLDOWN_MAX, TP_COOLDOWN_SECONDS,
    TP_DIRECT_BAD_MAX, TP_DIRECT_BAD_TTL_SECONDS,
    TP_DECISION_TTL_SECONDS

ASSUME TableAssumption ==
    /\ "" \notin Hosts /\ NETFP_UNKNOWN \notin Nets
    /\ TP_DECISIONS_MAX \in Nat \ {0} /\ TP_DECISIONS_FIRST_CAP \in Nat \ {0}
    /\ TP_DECISIONS_FIRST_CAP <= TP_DECISIONS_MAX
    /\ TP_COOLDOWN_MAX \in Nat \ {0} /\ TP_COOLDOWN_SECONDS \in Nat \ {0}
    /\ TP_DIRECT_BAD_MAX \in Nat \ {0}
    /\ TP_DIRECT_BAD_TTL_SECONDS \in Nat \ {0}
    /\ TP_DECISION_TTL_SECONDS \in Nat \ {0}

Fingerprints == Nets \cup {NETFP_UNKNOWN}

\* t_tp_decision; quic_blocked_at is never read.
Decisions == [host : Hosts, fp : Nets, family : Families,
              step : Steps \ {direct}, validated_at : Nat]

\* t_tp_cooldown and t_tp_mark; an empty host name marks a free slot.
Cooldowns == [host : Hosts \cup {""}, until : Nat]
Marks == [host : Hosts \cup {""}, fp : Fingerprints, family : Families \cup {0},
          until : Nat]

NoCooldown == [host |-> "", until |-> 0]
NoMark == [host |-> "", fp |-> NETFP_UNKNOWN, family |-> 0, until |-> 0]

Tables == [entries : SUBSET Decisions, cap : 0..TP_DECISIONS_MAX,
           cooldown : [1..TP_COOLDOWN_MAX -> Cooldowns],
           direct_bad : [1..TP_DIRECT_BAD_MAX -> Marks], dirty : BOOLEAN]

tp_decisions_init ==
    [entries |-> {}, cap |-> 0,
     cooldown |-> [i \in 1..TP_COOLDOWN_MAX |-> NoCooldown],
     direct_bad |-> [i \in 1..TP_DIRECT_BAD_MAX |-> NoMark],
     dirty |-> FALSE]

fresh(e, fp, now) ==
    /\ fp # NETFP_UNKNOWN /\ e.fp = fp
    /\ now >= e.validated_at
    /\ now - e.validated_at < TP_DECISION_TTL_SECONDS

\* The entry of (host, network, family): a set of at most one element.
find(d, host, fp, family) ==
    {e \in d.entries : e.host = host /\ e.fp = fp /\ e.family = family}

tp_decision_lookup(d, host, fp, family, now) ==
    {e \in find(d, host, fp, family) : fresh(e, fp, now)}

\* Mutant: the table is not marked dirty.
remove_entry_clean(d, host, fp, family) ==
    [d EXCEPT !.entries = @ \ find(d, host, fp, family)]

\* remove_entry() on what find() returned, if anything.
remove_entry(d, host, fp, family) ==
    IF find(d, host, fp, family) = {} THEN d
    ELSE [d EXCEPT !.entries = @ \ find(d, host, fp, family), !.dirty = TRUE]

\* Mutant: the most recently validated entry makes room.
evict_newest(d) ==
    {[d EXCEPT !.entries = @ \ {e}] :
        e \in {x \in d.entries : \A y \in d.entries : y.validated_at <= x.validated_at}}

\* The least recently validated entry makes room for a new one.
evict_oldest(d) ==
    {[d EXCEPT !.entries = @ \ {e}] :
        e \in {x \in d.entries : \A y \in d.entries : x.validated_at <= y.validated_at}}

grown_cap(cap) ==
    IF cap = 0 THEN TP_DECISIONS_FIRST_CAP
    ELSE IF 2 * cap > TP_DECISIONS_MAX THEN TP_DECISIONS_MAX ELSE 2 * cap

\* The tables with room for one more entry: there is room, the array grows,
\* or (at its limit, or realloc failed) the oldest entry goes.  Empty: NULL,
\* which only a failed first allocation returns.
new_slot(d) ==
    IF Cardinality(d.entries) < d.cap THEN {d}
    ELSE IF d.cap < TP_DECISIONS_MAX
      THEN {[d EXCEPT !.cap = grown_cap(@)]} \cup evict_oldest(d)
    ELSE evict_oldest(d)

\* Mutant: an entry that replaces the one of its key is not marked dirty.
store_replaces_clean(d, e) ==
    LET old  == find(d, e.host, e.fp, e.family)
        put(t) == [t EXCEPT !.entries = (@ \ old) \cup {e},
                            !.dirty = IF old # {} THEN @ ELSE TRUE]
    IN  IF old # {} THEN {put(d)}
        ELSE {put(t) : t \in new_slot(d)} \cup (IF d.cap = 0 THEN {d} ELSE {})

\* An entry put where find() or new_slot() pointed; a failed allocation
\* leaves the table as it is.
store(d, e) ==
    LET old  == find(d, e.host, e.fp, e.family)
        put(t) == [t EXCEPT !.entries = (@ \ old) \cup {e}, !.dirty = TRUE]
    IN  IF old # {} THEN {put(d)}
        ELSE {put(t) : t \in new_slot(d)} \cup (IF d.cap = 0 THEN {d} ELSE {})

clear_cooldown(d, host) ==
    [d EXCEPT !.cooldown =
        [i \in DOMAIN @ |-> IF @[i].host = host THEN [@[i] EXCEPT !.host = ""]
                                                ELSE @[i]]]

\* Clears the cooldown; DIRECT removes the decision; any other step is stored
\* unless the same one was validated less than half its lifetime ago.
tp_decision_success(d, host, fp, family, now, step) ==
    LET c    == clear_cooldown(d, host)
        same == {e \in tp_decision_lookup(d, host, fp, family, now) :
                    /\ e.step = step
                    /\ now - e.validated_at < TP_DECISION_TTL_SECONDS \div 2}
    IN  IF fp = NETFP_UNKNOWN THEN {c}
        ELSE IF is_direct(step) THEN {remove_entry(c, host, fp, family)}
        ELSE IF same # {} THEN {c}
        ELSE store(c, [host |-> host, fp |-> fp, family |-> family,
                       step |-> step, validated_at |-> now])

\* Mutant: the first free slot is taken although the key owns one.
slot_for_free_first(t, mine, now) ==
    LET free == {i \in DOMAIN t : t[i].host = "" \/ t[i].until <= now}
    IN  Min(IF free # {} THEN free ELSE IF mine # {} THEN mine ELSE DOMAIN t)

\* Mutant: a full table overwrites its first slot.
slot_for_first(t, mine, now) ==
    LET free == {i \in DOMAIN t : t[i].host = "" \/ t[i].until <= now}
    IN  Min(IF mine # {} THEN mine ELSE IF free # {} THEN free ELSE DOMAIN t)

\* The slot a table gives to a key: the one it has, else the first free or
\* expired one, else the first of those that expire soonest.
slot_for(t, mine, now) ==
    LET free == {i \in DOMAIN t : t[i].host = "" \/ t[i].until <= now}
        soonest == {i \in DOMAIN t : \A j \in DOMAIN t : t[i].until <= t[j].until}
    IN  Min(IF mine # {} THEN mine ELSE IF free # {} THEN free ELSE soonest)

start_cooldown(d, host, now) ==
    LET mine == {i \in DOMAIN d.cooldown : d.cooldown[i].host = host}
    IN  [d EXCEPT !.cooldown[slot_for(d.cooldown, mine, now)] =
            [host |-> host, until |-> now + TP_COOLDOWN_SECONDS]]

tp_decision_failure(d, host, fp, family, now) ==
    remove_entry(start_cooldown(d, host, now), host, fp, family)

tp_in_cooldown(d, host, now) ==
    \E i \in DOMAIN d.cooldown :
        d.cooldown[i].host = host /\ d.cooldown[i].until > now

\* The slots of (host, network, family) in the direct_bad table.
mark_find(d, host, fp, family) ==
    {i \in DOMAIN d.direct_bad :
        /\ d.direct_bad[i].host = host /\ d.direct_bad[i].fp = fp
        /\ d.direct_bad[i].family = family}

tp_direct_bad_mark(d, host, fp, family, now) ==
    IF fp = NETFP_UNKNOWN THEN d
    ELSE [d EXCEPT !.direct_bad[slot_for(d.direct_bad,
                                         mark_find(d, host, fp, family), now)] =
            [host |-> host, fp |-> fp, family |-> family,
             until |-> now + TP_DIRECT_BAD_TTL_SECONDS]]

tp_direct_bad(d, host, fp, family, now) ==
    /\ fp # NETFP_UNKNOWN
    /\ \E i \in mark_find(d, host, fp, family) : d.direct_bad[i].until > now

tp_decisions_network_changed(d) ==
    [d EXCEPT !.cooldown = [i \in DOMAIN @ |-> NoCooldown],
              !.direct_bad = [i \in DOMAIN @ |-> NoMark]]

-----------------------------------------------------------------------------
\* The file: one line per entry, in an order left open like the array's.  A
\* line is an entry's fields with what a hand may have written into them.
Lines == [host : Hosts, fp : Fingerprints, family : Families, step : Steps,
          validated_at : Nat]

tp_decisions_serialize(d) == d.entries

\* A line parse_line() has a use for: a known network and not the plain step.
usable(l) == l.fp # NETFP_UNKNOWN /\ ~is_direct(l.step)

\* One line of the file: refused, in the place of an earlier line of the same
\* key, or in a new slot.  A NULL from new_slot() skips the line, and a failed
\* realloc() costs the oldest entry.  dirty is not touched.
parse_line(d, l) ==
    IF usable(l) THEN {[t EXCEPT !.dirty = d.dirty] : t \in store(d, l)} ELSE {d}

\* realloc() failed in the new_slot() that led from table d to table t.
realloc_failed(d, t, l) ==
    /\ find(d, l.host, l.fp, l.family) = {}
    /\ Cardinality(d.entries) = d.cap /\ d.cap < TP_DECISIONS_MAX /\ t.cap = d.cap

\* The line l cut off in its last field, the time.
cut(l) == {[l EXCEPT !.validated_at = t] : t \in 0..l.validated_at}

\* What read_file() may return of a file's lines: all of them; none (NULL); or,
\* fread() having stopped short, some, the last one perhaps cut.
read_file(lines) ==
    (SUBSET lines) \cup
    UNION {{rest \cup {c} : rest \in SUBSET (lines \ {l}), c \in cut(l)} : l \in lines}

=============================================================================
