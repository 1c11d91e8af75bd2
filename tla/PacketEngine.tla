---------------------------- MODULE PacketEngine ----------------------------
(***************************************************************************)
(* Packet mode: the NFQUEUE receive loop, its flow table and what it does  *)
(* to a ClientHello (nfqueue_engine.c, flow.c, split.c, fragment.c), with  *)
(* the client's TCP stack that feeds it and the peer that reassembles.     *)
(*                                                                         *)
(* A byte of a connection's stream is its position from 0; the ClientHello *)
(* is the first HelloLen of them.  Sequence numbers wrap at SeqMod (2^32   *)
(* in the code).  The table is a function on the live keys: slots only     *)
(* decide between flows last seen at the same second.                      *)
(***************************************************************************)
EXTENDS Integers, Sequences, FiniteSets

CONSTANTS
    Keys,               \* 4-tuples
    V6Keys,             \* those of IPv6
    StreamLen,          \* bytes each 4-tuple's connections send
    HelloLen,
    Splits,             \* what tls_find_sni_split() may return (0: nothing)
    Kinds,              \* what a stream may be: "TLS", "HTTP" or "OTHER"
    SeqMod, ISNs,       \* sequence number space, initial sequence numbers
    Chains,             \* what strategy_resolve_chain() may return
    FLOW_TABLE_MAX, FLOW_DEFAULT_TIMEOUT_SECONDS, FLOW_REASSEMBLY_CAP,
    TcpHdr, IP_FRAG_UNIT

ASSUME PacketAssumption ==
    /\ StreamLen \in [Keys -> Nat] /\ HelloLen \in Nat \ {0}
    /\ Splits \subseteq Nat /\ SeqMod \in Nat /\ \A k \in Keys : SeqMod > StreamLen[k]
    /\ ISNs \subseteq 0..(SeqMod - 1)
    /\ FLOW_TABLE_MAX \in Nat \ {0} /\ FLOW_REASSEMBLY_CAP \in Nat
    /\ FLOW_DEFAULT_TIMEOUT_SECONDS \in Nat
    /\ TcpHdr \in Nat /\ IP_FRAG_UNIT \in Nat \ {0}

VARIABLES
    conns,          \* the client's connections and what their peers have
    flows,          \* ctx->flows
    strategies,     \* what strategy_resolve_chain() says of the host now
    engine,         \* where nfqueue_engine_run() is
    signals,        \* g_stop and g_reload, as the set of those that are set
    late            \* history: packets handled since a flag that is set was

vars == <<conns, flows, strategies, engine, signals, late>>

\* got: what the peer has, as <<place, byte>>.  History: fate, what happened to
\* the first data of a connection whose SYN the engine saw; drops, how many
\* packets met NF_DROP in the present life of the table entry.
NoConn == [open |-> FALSE, isn |-> 0, kind |-> "OTHER", split |-> 0, sent |-> 0,
           got |-> {}, fate |-> "none", drops |-> 0]

Init ==
    /\ conns = [k \in Keys |-> NoConn] /\ flows = <<>>
    /\ strategies \in Chains /\ engine = "off" /\ signals = {} /\ late = 0

-----------------------------------------------------------------------------
(* flow.c                                                                  *)

\* A fresh t_flow_entry.  age is now - last_seen; base, the stream position
\* the buffered bytes start at; next_seq = -1 stands for !seq_initialized.
\* The decided chain itself is only logged by later packets.
flow_reset == [age |-> 0, base |-> 0, reasm_len |-> 0, classification_done |-> FALSE,
               strategy_decided |-> FALSE, next_seq |-> -1]

Oldest(t) == {o \in DOMAIN t : \A x \in DOMAIN t : t[x].age <= t[o].age}

With(t, k, f) == [x \in DOMAIN t \cup {k} |-> IF x = k THEN f ELSE t[x]]

Without(t, gone) == [x \in DOMAIN t \ gone |-> t[x]]

\* The tables a lookup may leave: a full one loses a flow seen longest ago.
flow_lookup_or_create(t, k) ==
    IF k \in DOMAIN t THEN {[t EXCEPT ![k].age = 0]}
    ELSE IF Cardinality(DOMAIN t) < FLOW_TABLE_MAX THEN {With(t, k, flow_reset)}
    ELSE {With(Without(t, {o}), k, flow_reset) : o \in Oldest(t)}

flow_evict_expired(t) ==
    Without(t, {x \in DOMAIN t : t[x].age > FLOW_DEFAULT_TIMEOUT_SECONDS})

\* Only the segment that starts where the last one ended is looked at.
flow_seq_is_next(f, seq, len) ==
    len > 0 /\ (f.next_seq = -1 \/ seq = f.next_seq)

flow_reasm_append_fits(f, len) == f.reasm_len + len <= FLOW_REASSEMBLY_CAP

\* flow_seq_is_next() on a segment that is.
flow_advance(f, seq, len) == [f EXCEPT !.next_seq = (seq + len) % SeqMod]

flow_invalidate_decisions(t) == [x \in DOMAIN t |-> [t[x] EXCEPT !.strategy_decided = FALSE]]

-----------------------------------------------------------------------------
(* A packet of connection k: bytes from..from+len-1 (len = 0: a bare ACK,  *)
(* or the SYN).                                                            *)

Seq32(c, pos) == (c.isn + 1 + pos) % SeqMod

\* flow_reasm_append(), then what sni_extract() and http_extract_host() say of
\* the buffer: a stream read from its middle is neither TLS nor HTTP.
classify(c, f, from, len) ==
    LET buffered == f.reasm_len + len
        base == IF f.reasm_len = 0 THEN from ELSE f.base
        kept == [f EXCEPT !.reasm_len = buffered, !.base = base]
        done == [kept EXCEPT !.classification_done = TRUE]
        known == c.kind # "OTHER" /\ base = 0
    IN  IF f.classification_done THEN [flow |-> f, class |-> "UNCLASSIFIED"]
        ELSE IF ~flow_reasm_append_fits(f, len)
          THEN [flow |-> [f EXCEPT !.classification_done = TRUE], class |-> "PASSTHROUGH"]
        ELSE IF ~known THEN [flow |-> done, class |-> "PASSTHROUGH"]
        ELSE IF buffered < HelloLen THEN [flow |-> kept, class |-> "UNCLASSIFIED"]
        ELSE [flow |-> [done EXCEPT !.strategy_decided = TRUE], class |-> c.kind]

\* A packet on the wire: its sequence number, its bytes, its checksum.
Segment(seq, from, to) ==
    [seq |-> seq, from |-> from, bytes |-> from..(to - 1), sum |-> "good"]

\* The packet as the client sent it.
Original(c, from, len) == Segment(Seq32(c, from), from, from + len)

\* The decoy: the same packet with the checksum complemented.
packet_make_fake_tcp_v4(s) == [s EXCEPT !.sum = "bad"]

\* Mutant: the second segment keeps the sequence number of the first.
packet_split_tcp_same_seq(c, from, len) ==
    <<Segment(Seq32(c, from), from, from + c.split),
      Segment(Seq32(c, from), from + c.split, from + len)>>

packet_split_tcp_v4(c, from, len) ==
    <<Segment(Seq32(c, from), from, from + c.split),
      Segment((Seq32(c, from) + c.split) % SeqMod, from + c.split, from + len)>>

\* The boundary, rounded up to whole units of the IP payload, must leave
\* something for the second fragment.  The peer has the packet once it has both.
packet_fragment_ipv4_ok(split, len) ==
    LET raw == TcpHdr + split
        frag_offset == ((raw + IP_FRAG_UNIT - 1) \div IP_FRAG_UNIT) * IP_FRAG_UNIT
    IN  frag_offset < TcpHdr + len

\* inject_or_log(a) && inject_or_log(b): each may fail, and b waits for a.
Inject(a, b) == {{}, {a}, {a, b}}

\* The packets a chain that cuts may get through the raw socket ({}: there is no
\* such chain).  A decoy is best effort, and a decoy after the cut comes before
\* the second segment, whether or not the first one left.
Pieces(c, chain, from, len) ==
    LET one == packet_split_tcp_v4(c, from, len)[1]
        two == packet_split_tcp_v4(c, from, len)[2]
        fake == packet_make_fake_tcp_v4(Original(c, from, len))
        fake2 == packet_make_fake_tcp_v4(two)
    IN  {p \in SUBSET {one, two, fake, fake2} :
           \/ chain = <<"SPLIT">> /\ p \in Inject(one, two)
           \/ chain = <<"DISORDER">> /\ p \in Inject(two, one)
           \/ chain = <<"FAKE", "SPLIT">> /\ p \ {fake} \in Inject(one, two)
           \/ chain = <<"SPLIT", "FAKE">> /\ fake \notin p}

Accept == [verdict |-> "ACCEPT", sent |-> {}]

\* What try_apply_chain() may do: the verdict, and the packets that left the raw
\* socket.  The original is dropped however few of its pieces did.
try_apply_chain(c, chain, from, len) ==
    LET whole == Original(c, from, len) IN
    IF chain = <<"FAKE">>
      THEN {[verdict |-> "DECOY", sent |-> p] : p \in {{}, {packet_make_fake_tcp_v4(whole)}}}
    ELSE IF c.split = 0 \/ c.split >= len THEN {Accept}
    ELSE IF chain = <<"FRAGMENT">>
      THEN IF ~packet_fragment_ipv4_ok(c.split, len) THEN {Accept}
           ELSE {[verdict |-> "DROP", sent |-> p] : p \in {{}, {whole}}}
    ELSE IF Pieces(c, chain, from, len) = {} THEN {Accept}
    ELSE {[verdict |-> "DROP", sent |-> p] : p \in Pieces(c, chain, from, len)}

\* The peer puts each byte where its sequence number says.
Placed(c, s) ==
    IF s.sum = "bad" THEN {}
    ELSE {<<(s.seq + (b - s.from) - c.isn - 1) % SeqMod, b>> : b \in s.bytes}

Arrive(c, segments) == [c EXCEPT !.got = @ \cup UNION {Placed(c, s) : s \in segments}]

\* Mutant: a table entry outlives its connection.
Restarts_never(syn) == FALSE

\* Mutant: an ACK flag is enough to restart a flow.
Restarts_on_ack(syn) == TRUE

\* A bare SYN restarts the flow it finds (harmless on one just created).
Restarts(syn) == syn

\* packet_callback() up to the decision: what becomes of the flow, and the class
\* this packet completes.
Examined(c, found, syn, from, len) ==
    LET f0 == IF len = 0 /\ Restarts(syn) THEN flow_reset ELSE found
        seq == Seq32(c, from)
    IN  IF flow_seq_is_next(f0, seq, len)
          THEN classify(c, flow_advance(f0, seq, len), from, len)
          ELSE [flow |-> f0, class |-> "UNCLASSIFIED"]

\* Only a ClientHello that is all in this packet, over IPv4, is acted on.
Outcomes(k, c, r, from, len) ==
    IF k \notin V6Keys /\ r.class = "TLS" /\ strategies[1] # "PASS" /\ r.flow.reasm_len = len
      THEN try_apply_chain(c, strategies, from, len) ELSE {Accept}

\* The connection after its packet met outcome o.
After(k, c, o, syn, from, len, lost) ==
    LET dropped == o.verdict = "DROP"
        wire == o.sent \cup IF dropped \/ lost \/ len = 0 THEN {}
                            ELSE {Original(c, from, len)}
        before == IF k \in DOMAIN flows THEN c.drops ELSE 0
    IN  [Arrive(c, wire) EXCEPT
            !.fate = IF syn THEN "fresh"
                     ELSE IF len = 0 \/ c.fate # "fresh" THEN c.fate
                     ELSE IF o.verdict = "ACCEPT" THEN "passed" ELSE "treated",
            !.drops = IF dropped THEN before + 1 ELSE before]

\* Mutant: what is queued is handled before the flags are looked at again.
handled_drains == engine' = "recv"

\* A packet was handled: back to the top of the loop.
handled == engine' = "top"

\* recv() has a packet, for packet_callback(); c is the connection after the
\* client sent it.
packet_callback(k, c, syn, from, len, lost) ==
    /\ handled
    /\ late' = IF signals = {} THEN 0 ELSE late + 1
    /\ \E t \in flow_lookup_or_create(flows, k) :
          LET r == Examined(c, t[k], syn, from, len) IN
          \E o \in Outcomes(k, c, r, from, len) :
              /\ flows' = flow_evict_expired(With(t, k, r.flow))
              /\ conns' = [conns EXCEPT ![k] = After(k, c, o, syn, from, len, lost)]
    /\ UNCHANGED <<strategies, signals>>

\* A packet the kernel does not queue, the engine not running ("bypass").
bypass(k, c, from, len, lost) ==
    /\ conns' = [conns EXCEPT ![k] =
                    IF lost \/ len = 0 THEN c ELSE Arrive(c, {Original(c, from, len)})]
    /\ UNCHANGED <<flows, strategies, engine, signals, late>>

\* The kernel hands a packet to the engine's recv(), or past it.
Output(k, c, syn, from, len, lost) ==
    \/ engine = "off" /\ bypass(k, c, from, len, lost)
    \/ engine = "recv" /\ packet_callback(k, c, syn, from, len, lost)

-----------------------------------------------------------------------------
(* The client.                                                             *)

Received(k) == {b[1] : b \in conns[k].got}

\* The first byte the peer has not acknowledged.
FirstMissing(k) ==
    CHOOSE p \in 0..StreamLen[k] : 0..(p - 1) \subseteq Received(k) /\ p \notin Received(k)

\* A new connection, on a 4-tuple that may have been used before.
connect(k, isn, kind, split) ==
    /\ ~conns[k].open
    /\ Output(k, [NoConn EXCEPT !.open = TRUE, !.isn = isn, !.kind = kind,
                                !.split = split], TRUE, -1, 0, FALSE)

\* New bytes, or again from the first one the peer has not acknowledged.
send(k, from, len, lost) ==
    LET c == conns[k] IN
    /\ c.open /\ from \in {c.sent, FirstMissing(k)}
    /\ len > 0 /\ from + len <= StreamLen[k]
    /\ Output(k, [c EXCEPT !.sent = IF from + len > @ THEN from + len ELSE @],
              FALSE, from, len, lost)

ack(k) ==
    /\ conns[k].open
    /\ Output(k, conns[k], FALSE, conns[k].sent, 0, FALSE)

close(k) ==
    /\ conns[k].open /\ conns' = [conns EXCEPT ![k] = NoConn]
    /\ UNCHANGED <<flows, strategies, engine, signals, late>>

-----------------------------------------------------------------------------
(* nfqueue_engine_run()                                                    *)

start ==
    /\ engine = "off" /\ engine' = "top" /\ flows' = <<>>
    /\ strategies' \in Chains /\ signals' = {} /\ late' = 0
    /\ UNCHANGED conns

\* New strategies, and no flow keeps a decision made under the old ones.
reload_strategies ==
    strategies' \in Chains /\ flows' = flow_invalidate_decisions(flows)

\* Once the network is known the discovery cache may have an answer.
maybe_refresh_unknown_fingerprint == strategies' \in Chains /\ UNCHANGED flows

\* The look at the flags: leave, or reload, and go on to recv().
loop_top ==
    /\ engine = "top" /\ signals' = {} /\ late' = 0
    /\ \/ /\ "stop" \in signals /\ engine' = "off" /\ flows' = <<>> /\ UNCHANGED strategies
       \/ /\ "stop" \notin signals /\ engine' = "armed"
          /\ IF "reload" \in signals THEN reload_strategies
                                     ELSE maybe_refresh_unknown_fingerprint
    /\ UNCHANGED conns

recv_blocks ==
    /\ engine = "armed" /\ engine' = "recv"
    /\ UNCHANGED <<conns, flows, strategies, signals, late>>

\* SIGTERM, SIGINT or SIGHUP.  A recv() already waiting returns EINTR; one that
\* has not begun to wait does not.
on_signal(s) ==
    /\ engine # "off" /\ signals' = signals \cup {s}
    /\ engine' = IF engine = "recv" THEN "top" ELSE engine
    /\ UNCHANGED <<conns, flows, strategies, late>>

\* SIGKILL, or a recv() error.
die ==
    /\ engine # "off" /\ engine' = "off" /\ flows' = <<>> /\ signals' = {} /\ late' = 0
    /\ UNCHANGED <<conns, strategies>>

\* A second passes; ages beyond the timeout are all alike.
tick ==
    /\ flows # <<>>
    /\ flows' = [x \in DOMAIN flows |-> [flows[x] EXCEPT !.age =
                    IF @ > FLOW_DEFAULT_TIMEOUT_SECONDS THEN @ ELSE @ + 1]]
    /\ UNCHANGED <<conns, strategies, engine, signals, late>>

Next ==
    \/ \E k \in Keys, isn \in ISNs, kind \in Kinds, s \in Splits : connect(k, isn, kind, s)
    \/ \E k \in Keys, lost \in BOOLEAN : \E from \in 0..StreamLen[k], len \in 1..StreamLen[k] :
          send(k, from, len, lost)
    \/ \E k \in Keys : ack(k) \/ close(k)
    \/ start \/ loop_top \/ recv_blocks \/ die \/ tick
    \/ \E s \in {"stop", "reload"} : on_signal(s)

Spec == Init /\ [][Next]_vars

-----------------------------------------------------------------------------
ConnType ==
    [open : BOOLEAN, isn : Nat, kind : Kinds \cup {"OTHER"}, split : Nat, sent : Nat,
     got : SUBSET (Int \X Int), fate : {"none", "fresh", "passed", "treated"}, drops : Nat]

FlowType ==
    [age : Nat, base : Nat, reasm_len : Nat, classification_done : BOOLEAN,
     strategy_decided : BOOLEAN, next_seq : Int]

\* Variables keep their types.
TypeOK ==
    /\ conns \in [Keys -> ConnType]
    /\ DOMAIN flows \subseteq Keys /\ flows \in [DOMAIN flows -> FlowType]
    /\ engine \in {"off", "top", "armed", "recv"}
    /\ late \in Nat
    /\ signals \subseteq {"stop", "reload"}

\* Every byte the peer has stands where the client put it, whichever way the
\* ClientHello was cut, with sequence numbers that wrap.
Intact == \A k \in Keys : \A b \in conns[k].got : b[1] = b[2]

\* "A new connection that reuses an old 4-tuple (a fresh SYN) is always
\* re-classified": a ClientHello that comes whole in the first data segment
\* after a SYN the engine saw gets the current strategy, whatever the table
\* held of that 4-tuple, evicted or reloaded in between.
Treatable(c, k) ==
    /\ c.kind = "TLS" /\ k \notin V6Keys
    /\ c.sent >= HelloLen /\ c.sent <= FLOW_REASSEMBLY_CAP
    /\ \/ strategies = <<"FAKE">>
       \/ /\ strategies \in {<<"SPLIT">>, <<"DISORDER">>, <<"FAKE", "SPLIT">>, <<"SPLIT", "FAKE">>}
          /\ c.split \in 1..(c.sent - 1)
       \/ /\ strategies = <<"FRAGMENT">> /\ c.split \in 1..(c.sent - 1)
          /\ packet_fragment_ipv4_ok(c.split, c.sent)

FreshHelloTreated ==
    [][\A k \in Keys :
          conns[k].fate = "fresh" /\ conns[k].sent = 0 /\ conns'[k].sent > 0
          /\ engine = "recv" /\ Treatable(conns'[k], k)
            => conns'[k].fate = "treated"]_vars

\* A connection loses at most one packet to the engine while the table keeps its
\* flow: whatever became of the injected pieces, the retransmission of the
\* dropped packet is let through as it is.
AtMostOneDrop == \A k \in Keys : conns[k].drops <= 1

\* A signal that comes between the look at the flags and recv() waits for the
\* next packet, and for that one only: no second packet is handled before the
\* engine stops, or reloads, whatever comes in between.
OnePacketAfterSignal == late <= 1

=============================================================================
