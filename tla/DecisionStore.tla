---------------------------- MODULE DecisionStore ---------------------------
(***************************************************************************)
(* The decision table over the life of the daemon and across its restarts: *)
(* what connections and the verifier do to it, the main loop's periodic    *)
(* save_decisions() and the file it writes (transparent.c), and a crash at *)
(* any point, after which the next process loads the file line by line,    *)
(* or fails to.                                                            *)
(***************************************************************************)
EXTENDS TpDecisions

CONSTANTS
    LearnSteps,     \* the steps connections and the verifier report
    EditedFiles,    \* what the first process may find: files a hand edited
    MaxNow          \* bound on the clock

ASSUME StoreAssumption ==
    /\ LearnSteps \subseteq Steps /\ MaxNow \in Nat
    /\ \A lines \in EditedFiles : lines \subseteq Lines /\ IsFiniteSet(lines)

VARIABLES
    dec,            \* g_tpd.dec
    now,            \* the wall clock, in ticks
    file,           \* the lines of the decisions file
    unread,         \* the lines tp_decisions_parse() has still to look at
    pending,        \* <<lines>> serialized and not yet written, else <<>>
    write_failed,   \* history: the last write failed
    load_failed     \* history: a call failed when the file was loaded, and it
                    \* was not written since

files == <<file, pending, write_failed>>
store_vars == <<dec, now, unread, load_failed, files>>

\* The first process: load_decisions() up to the loop over the lines.  A file
\* that cannot be read leaves an empty, clean table.
StoreInit ==
    /\ file \in EditedFiles
    /\ dec = tp_decisions_init
    /\ unread \in read_file(file) /\ load_failed = (unread # file)
    /\ now = 0 /\ pending = <<>> /\ write_failed = FALSE

\* A round of the loop of tp_decisions_parse().  The other threads are not
\* there yet.
tp_decisions_parse(l) ==
    /\ l \in unread /\ unread' = unread \ {l}
    /\ dec' \in parse_line(dec, l)
    /\ load_failed' = (load_failed \/ (usable(l) /\ realloc_failed(dec, dec', l)))
    /\ UNCHANGED <<now, files>>

succeed(h, n, f, s) ==
    /\ unread = {}
    /\ dec' \in tp_decision_success(dec, h, n, f, now, s)
    /\ UNCHANGED <<now, unread, load_failed, files>>

fail(h, n, f) ==
    /\ unread = {}
    /\ dec' = tp_decision_failure(dec, h, n, f, now)
    /\ UNCHANGED <<now, unread, load_failed, files>>

\* check_network(), on the main loop's thread like the save.
network_changed ==
    /\ unread = {} /\ pending = <<>>
    /\ dec' = tp_decisions_network_changed(dec)
    /\ UNCHANGED <<now, unread, load_failed, files>>

\* save_decisions() under the lock: dirty is cleared before the write.
save_begin ==
    /\ unread = {} /\ dec.dirty /\ pending = <<>>
    /\ pending' = <<tp_decisions_serialize(dec)>>
    /\ dec' = [dec EXCEPT !.dirty = FALSE]
    /\ UNCHANGED <<now, unread, load_failed, file, write_failed>>

\* write_file_atomic(): the rename happens or the old file stays; a failure
\* is only logged.
write_file_atomic ==
    /\ pending # <<>>
    /\ \/ file' = pending[1] /\ write_failed' = FALSE /\ load_failed' = FALSE
       \/ UNCHANGED <<file, load_failed>> /\ write_failed' = TRUE
    /\ pending' = <<>>
    /\ UNCHANGED <<dec, now, unread>>

\* A crash at any point, also of the load, and the next process's
\* load_decisions() up to the loop over the lines.
restart ==
    /\ dec' = tp_decisions_init
    /\ unread' \in read_file(file) /\ load_failed' = (unread' # file)
    /\ pending' = <<>> /\ write_failed' = FALSE
    /\ UNCHANGED <<now, file>>

tick ==
    /\ now < MaxNow
    /\ now' = now + 1
    /\ UNCHANGED <<dec, unread, load_failed, files>>

StoreNext ==
    \/ \E h \in Hosts, n \in Fingerprints, f \in Families :
          \/ \E s \in LearnSteps : succeed(h, n, f, s)
          \/ fail(h, n, f)
    \/ \E l \in unread : tp_decisions_parse(l)
    \/ network_changed
    \/ save_begin \/ write_file_atomic
    \/ restart \/ tick

StoreSpec == StoreInit /\ [][StoreNext]_store_vars

-----------------------------------------------------------------------------
\* Type correctness: one entry per key, within the array's capacity; no plain
\* step and no unknown network is ever stored.
StoreTypeOK ==
    /\ dec \in Tables
    /\ Cardinality(dec.entries) <= dec.cap
    /\ \A a, b \in dec.entries :
          a.host = b.host /\ a.fp = b.fp /\ a.family = b.family => a = b

\* tp_in_cooldown() looks at the first slot of the host only, so a host may
\* never own two: the older one would hide the newer one.
OneSlotPerHost ==
    \A i, j \in DOMAIN dec.cooldown :
        dec.cooldown[i].host = dec.cooldown[j].host /\ i # j =>
            dec.cooldown[i].host = ""

\* The file has what the table has, or (its load having been cut short) what
\* the end of a line was cut from.
Recorded(e) ==
    \/ e \in file
    \/ /\ load_failed
       /\ \E l \in file : /\ e = [l EXCEPT !.validated_at = e.validated_at]
                          /\ e.validated_at <= l.validated_at

\* Unless a write failed, a table that is neither dirty nor being saved holds
\* nothing the file does not: no learned decision waits for the next change,
\* although save_decisions() clears dirty before it writes, whatever was
\* learned while it wrote and however much of the file was loaded.
FileCurrentUnlessWriteFailed ==
    ~dec.dirty /\ pending = <<>> /\ ~write_failed => \A e \in dec.entries : Recorded(e)

\* And the file holds no decision the table does not, as long as it fits and no
\* call failed since it was loaded: a restart costs no saved decision, whatever
\* the order of the lines, and one that was removed does not come back with
\* the next process.  (After a failed load the file keeps what the table lacks,
\* until the next save replaces it.)
SavedComesBack ==
    LET saved == {l \in file : usable(l)}
        keys  == {<<l.host, l.fp, l.family>> : l \in saved}
    IN  /\ unread = {} /\ ~dec.dirty /\ pending = <<>>
        /\ ~write_failed /\ ~load_failed /\ Cardinality(keys) <= TP_DECISIONS_MAX
        => \A l \in saved : find(dec, l.host, l.fp, l.family) # {}

\* A decision that is stored, or loaded, costs at most one other key its
\* decision, and that one was the least recently validated.
EvictsOldest ==
    [][ LET lost == {e \in dec.entries : find(dec', e.host, e.fp, e.family) = {}}
            kept == dec.entries \cap dec'.entries
        IN  ~(dec'.entries \subseteq dec.entries) =>
                /\ Cardinality(lost) <= 1
                /\ \A e \in lost, k \in kept : e.validated_at <= k.validated_at
      ]_store_vars

\* A failing host takes over the running cooldown of another one only when
\* every slot is running, and then the one that ends soonest.
CooldownOverwritesSoonest ==
    [][ \A i, j \in DOMAIN dec.cooldown :
            /\ dec.cooldown[i].host # "" /\ dec.cooldown[i].until > now
            /\ dec'.cooldown[i].host \notin {"", dec.cooldown[i].host}
            => /\ dec.cooldown[j].host # "" /\ dec.cooldown[j].until > now
               /\ dec.cooldown[i].until <= dec.cooldown[j].until
      ]_store_vars

=============================================================================
