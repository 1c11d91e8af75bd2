------------------------- MODULE PacketEngineProofs -------------------------
(***************************************************************************)
(* Packet mode for any set of connections, any stream and table size, any  *)
(* place to split and any sequence number space larger than a stream: what *)
(* the peer has is intact, a flow meets NF_DROP once, a signal waits for   *)
(* one packet, and the ClientHello of a fresh connection is treated.       *)
(*                                                                         *)
(* The argument: a cut keeps, modulo SeqMod, the distance of every byte    *)
(* from the initial sequence number (GoodSegment), so the peer puts it     *)
(* where it belongs.  The table and the connections fit (Fits): a flow     *)
(* that lost a packet stays classified as long as its entry lives, and the *)
(* entry of a connection that only had its SYN seen is blank.              *)
(***************************************************************************)
EXTENDS PacketEngine, TLAPS

-----------------------------------------------------------------------------
(* Sequence numbers.                                                       *)

\* Division with a remainder.
LEMMA DivMod ==
    \A a \in Int, m \in Int :
        m > 0 => /\ a \div m \in Int /\ a % m \in 0..(m - 1)
                 /\ a = m * (a \div m) + (a % m)
  BY Z3

\* A remainder is congruent to its number.
LEMMA ModShift ==
    ASSUME NEW a \in Int, NEW m \in Int, m > 0
    PROVE  \E q \in Int : a % m = a + m * q
  <1> DEFINE d == a \div m
  <1>1. d \in Int /\ a % m \in Int /\ a = m * d + (a % m)
    BY DivMod
  <1> HIDE DEF d
  <1>2. m * (-d) = -(m * d) /\ m * d \in Int
    BY <1>1
  <1>3. a + m * (-d) = a - m * d
    BY <1>1, <1>2
  <1>4. a % m = a + m * (-d)
    BY <1>1, <1>2, <1>3
  <1>5. -d \in Int
    BY <1>1
  <1> QED
    BY <1>4, <1>5, Zenon

\* A remainder is unique.
LEMMA OneRemainder ==
    ASSUME NEW m \in Int, m > 0, NEW q \in Int, NEW p \in Int,
           NEW r \in 0..(m - 1), NEW s \in 0..(m - 1), m * q + r = m * p + s
    PROVE  r = s
  <1>1. m * (q - p) = s - r
    OBVIOUS
  <1>2. CASE q - p >= 1
    <2>1. m * (q - p) >= m
      BY <1>2
    <2> QED
      BY <1>1, <2>1
  <1>3. CASE q - p <= -1
    <2>1. m * (q - p) <= -m
      BY <1>3
    <2> QED
      BY <1>1, <2>1
  <1>4. CASE q = p
    BY <1>4
  <1> QED
    BY <1>2, <1>3, <1>4

\* What a number congruent to b leaves is b.
LEMMA Congruent ==
    ASSUME NEW m \in Int, m > 0, NEW q \in Int, NEW b \in 0..(m - 1)
    PROVE  (m * q + b) % m = b
  <1> DEFINE x == m * q + b
  <1>1. x \in Int
    OBVIOUS
  <1>2. /\ x \div m \in Int /\ x % m \in 0..(m - 1)
        /\ x = m * (x \div m) + (x % m)
    BY <1>1, DivMod
  <1>3. m * q + b = m * (x \div m) + (x % m)
    BY <1>2
  <1> HIDE DEF x
  <1>4. x % m = b
    BY Zenon, <1>2, <1>3, OneRemainder
  <1> QED
    BY <1>4 DEF x

\* The segment's number is as far from the initial one, modulo SeqMod, as its
\* first byte from the stream's, and its bytes are of the stream.
GoodSegment(c, s) ==
    /\ s.from \in Int /\ s.bytes \subseteq 0..(SeqMod - 1)
    /\ \E q \in Int : s.seq = c.isn + 1 + s.from + SeqMod * q

\* The peer puts the bytes of a good segment where they belong.
LEMMA GoodPlaced ==
    ASSUME NEW c \in ConnType, NEW s, SeqMod \in Int, SeqMod > 0,
           s.sum = "bad" \/ GoodSegment(c, s)
    PROVE  /\ \A x \in Placed(c, s) : x[1] = x[2]
           /\ Placed(c, s) \subseteq Int \X Int
  <1>1. CASE s.sum = "bad"
    BY <1>1 DEF Placed
  <1>2. CASE s.sum # "bad"
    <2>1. PICK q \in Int : s.seq = c.isn + 1 + s.from + SeqMod * q
      BY <1>2 DEF GoodSegment
    <2>2. s.from \in Int /\ c.isn \in Int /\ s.bytes \subseteq 0..(SeqMod - 1)
      BY <1>2 DEF GoodSegment, ConnType
    <2>3. ASSUME NEW b \in s.bytes
          PROVE  (s.seq + (b - s.from) - c.isn - 1) % SeqMod = b
      <3>1. b \in 0..(SeqMod - 1)
        BY <2>2
      <3>2. s.seq + (b - s.from) - c.isn - 1 = SeqMod * q + b
        <4> DEFINE z == SeqMod * q
        <4>1. z \in Int /\ s.seq = c.isn + 1 + s.from + z
          BY <2>1
        <4> HIDE DEF z
        <4>2. s.seq + (b - s.from) - c.isn - 1 = z + b
          BY <2>2, <3>1, <4>1
        <4> QED
          BY <4>2 DEF z
      <3> QED
        BY <3>1, <3>2, Congruent
    <2>4. Placed(c, s) = {<<b, b>> : b \in s.bytes}
      BY <1>2, <2>3 DEF Placed
    <2>5. s.bytes \subseteq Int
      BY <2>2
    <2> QED
      BY <2>4, <2>5
  <1> QED
    BY <1>1, <1>2

\* The packet as it was sent is good.
LEMMA OriginalGood ==
    ASSUME NEW c \in ConnType, NEW from \in Nat, NEW len \in Nat,
           SeqMod \in Int, SeqMod > 0, from + len <= SeqMod
    PROVE  GoodSegment(c, Original(c, from, len))
  <1>1. c.isn + 1 + from \in Int
    BY DEF ConnType
  <1>2. PICK q \in Int : Seq32(c, from) = c.isn + 1 + from + SeqMod * q
    BY Zenon, <1>1, ModShift DEF Seq32
  <1>3. from..(from + len - 1) \subseteq 0..(SeqMod - 1)
    OBVIOUS
  <1> QED
    BY <1>2, <1>3 DEF GoodSegment, Original, Segment

\* So are both segments of packet_split_tcp_v4().
LEMMA SplitGood ==
    ASSUME NEW c \in ConnType, NEW from \in Nat, NEW len \in Nat,
           SeqMod \in Int, SeqMod > 0, from + len <= SeqMod, c.split < len
    PROVE  /\ GoodSegment(c, packet_split_tcp_v4(c, from, len)[1])
           /\ GoodSegment(c, packet_split_tcp_v4(c, from, len)[2])
  <1>1. c.isn + 1 + from \in Int /\ c.isn \in Int /\ c.split \in Nat
    BY DEF ConnType
  <1>2. PICK q \in Int : Seq32(c, from) = c.isn + 1 + from + SeqMod * q
    BY Zenon, <1>1, ModShift DEF Seq32
  <1>3. SeqMod * q \in Int
    OBVIOUS
  <1>4. Seq32(c, from) + c.split \in Int
    BY <1>1, <1>2, <1>3
  <1>5. PICK r \in Int : (Seq32(c, from) + c.split) % SeqMod
                           = Seq32(c, from) + c.split + SeqMod * r
    BY Zenon, <1>4, ModShift
  <1>6. SeqMod * (q + r) = SeqMod * q + SeqMod * r /\ SeqMod * r \in Int
    OBVIOUS
  <1>7. (Seq32(c, from) + c.split) % SeqMod
            = c.isn + 1 + (from + c.split) + SeqMod * (q + r)
    BY <1>1, <1>2, <1>3, <1>5, <1>6
  <1>8. GoodSegment(c, packet_split_tcp_v4(c, from, len)[1])
    <2>1. from..((from + c.split) - 1) \subseteq 0..(SeqMod - 1)
      BY <1>1
    <2>2. packet_split_tcp_v4(c, from, len)[1]
              = Segment(Seq32(c, from), from, from + c.split)
      BY DEF packet_split_tcp_v4
    <2>3. \E p \in Int : Seq32(c, from) = c.isn + 1 + from + SeqMod * p
      BY <1>2, Zenon
    <2>4. from + c.split \in Int /\ from \in Int
      BY <1>1
    <2>5. GoodSegment(c, Segment(Seq32(c, from), from, from + c.split))
      BY <2>1, <2>3, <2>4, Zenon DEF GoodSegment, Segment
    <2> QED
      BY <2>2, <2>5, Zenon
  <1>9. GoodSegment(c, packet_split_tcp_v4(c, from, len)[2])
    <2>1. (from + c.split)..((from + len) - 1) \subseteq 0..(SeqMod - 1)
      BY <1>1
    <2>2. from + c.split \in Int /\ q + r \in Int
      BY <1>1
    <2>3. packet_split_tcp_v4(c, from, len)[2]
              = Segment((Seq32(c, from) + c.split) % SeqMod, from + c.split, from + len)
      BY DEF packet_split_tcp_v4
    <2>4. \E p \in Int : (Seq32(c, from) + c.split) % SeqMod
                              = c.isn + 1 + (from + c.split) + SeqMod * p
      BY <1>7, <2>2, Zenon
    <2>5. from + len \in Int
      OBVIOUS
    <2>6. GoodSegment(c, Segment((Seq32(c, from) + c.split) % SeqMod,
                                 from + c.split, from + len))
      BY <2>1, <2>2, <2>4, <2>5, Zenon DEF GoodSegment, Segment
    <2> QED
      BY <2>3, <2>6, Zenon
  <1> QED
    BY <1>8, <1>9

-----------------------------------------------------------------------------
(* What a chain may do.                                                    *)

\* A segment that does no harm: the peer refuses it or places it right.
Harmless(c, s) == s.sum = "bad" \/ GoodSegment(c, s)

\* The decoy is refused.
LEMMA DecoyRefused ==
    ASSUME NEW c, NEW seq, NEW from, NEW to
    PROVE  Harmless(c, packet_make_fake_tcp_v4(Segment(seq, from, to)))
  BY DEF Harmless, packet_make_fake_tcp_v4, Segment

\* All that leaves the raw socket is harmless, whichever injections fail.
LEMMA ChainHarmless ==
    ASSUME NEW c \in ConnType, NEW chain, NEW from \in Nat, NEW len \in Nat,
           SeqMod \in Int, SeqMod > 0, from + len <= SeqMod,
           NEW o \in try_apply_chain(c, chain, from, len)
    PROVE  /\ o.verdict \in {"ACCEPT", "DECOY", "DROP"}
           /\ \A s \in o.sent : Harmless(c, s)
  <1> DEFINE whole == Original(c, from, len)
             one == packet_split_tcp_v4(c, from, len)[1]
             two == packet_split_tcp_v4(c, from, len)[2]
  <1>1. Harmless(c, whole) /\ Harmless(c, packet_make_fake_tcp_v4(whole))
    BY OriginalGood, DecoyRefused DEF Harmless, Original
  <1>2. CASE o = Accept
    BY <1>2 DEF Accept
  <1>3. CASE o \in {[verdict |-> "DECOY", sent |-> p] :
                       p \in {{}, {packet_make_fake_tcp_v4(whole)}}}
    BY <1>1, <1>3
  <1>4. CASE o \in {[verdict |-> "DROP", sent |-> p] : p \in {{}, {whole}}}
    BY <1>1, <1>4
  <1>5. CASE /\ c.split < len
             /\ o \in {[verdict |-> "DROP", sent |-> p] : p \in Pieces(c, chain, from, len)}
    <2>1. Harmless(c, one) /\ Harmless(c, two)
      BY <1>5, SplitGood DEF Harmless
    <2>2. Harmless(c, packet_make_fake_tcp_v4(two))
      <3>1. two = Segment((Seq32(c, from) + c.split) % SeqMod, from + c.split, from + len)
        BY DEF packet_split_tcp_v4
      <3> QED
        BY <3>1, DecoyRefused, Zenon
    <2> DEFINE ok == {one, two, packet_make_fake_tcp_v4(whole), packet_make_fake_tcp_v4(two)}
    <2>3. \A p \in Pieces(c, chain, from, len) : p \subseteq ok
      BY DEF Pieces
    <2>4. PICK p \in Pieces(c, chain, from, len) : o = [verdict |-> "DROP", sent |-> p]
      BY <1>5
    <2> QED
      BY <1>1, <2>1, <2>2, <2>3, <2>4
  <1> QED
    BY <1>2, <1>3, <1>4, <1>5 DEF try_apply_chain, ConnType

-----------------------------------------------------------------------------
(* The connections and the table.                                          *)

\* The entry of a flow of which only empty segments were seen.
Blank(f) == ~f.classification_done /\ f.reasm_len = 0 /\ f.next_seq = -1

\* A connection and the table t: a flow that lost a packet is classified, and
\* that of a connection whose SYN was seen and that sent nothing is blank.
Fits(k, c, t) ==
    /\ c.drops \in {0, 1}
    /\ k \in DOMAIN t /\ c.drops = 1 => t[k].classification_done
    /\ k \in DOMAIN t /\ c.fate = "fresh" /\ c.sent = 0 => Blank(t[k])
    /\ c.sent = 0 => c.got = {}
    /\ \A b \in c.got : b[1] = b[2]

\* The one packet handled with a flag set sent the engine to the top of the loop.
Prompt == late \in {0, 1} /\ (late = 1 => engine = "top")

IInv == TypeOK /\ Prompt /\ \A k \in Keys : Fits(k, conns[k], flows)

\* A table of flows of known connections.
TableType(t) == DOMAIN t \subseteq Keys /\ t \in [DOMAIN t -> FlowType]

\* Numbers of the sequence space.
LEMMA SeqModPositive ==
    ASSUME NEW k \in Keys
    PROVE  SeqMod \in Int /\ SeqMod > 0 /\ StreamLen[k] \in Nat /\ StreamLen[k] < SeqMod
  BY PacketAssumption

\* A blank flow, and one with its age cleared, are flows.
LEMMA ResetType == flow_reset \in FlowType /\ Blank(flow_reset)
  BY DEF flow_reset, FlowType, Blank

\* What a lookup finds: the flow of k with its age cleared, or a blank one; the
\* other flows are those of the table.
LEMMA LookupFacts ==
    ASSUME NEW k \in Keys, TableType(flows), NEW t \in flow_lookup_or_create(flows, k)
    PROVE  /\ TableType(t) /\ k \in DOMAIN t
           /\ k \in DOMAIN flows =>
                 /\ t[k].classification_done = flows[k].classification_done
                 /\ t[k].reasm_len = flows[k].reasm_len
                 /\ t[k].next_seq = flows[k].next_seq
           /\ k \notin DOMAIN flows => Blank(t[k])
           /\ \A x \in DOMAIN t : x # k => x \in DOMAIN flows /\ t[x] = flows[x]
  <1>1. CASE k \in DOMAIN flows
    <2>1. t = [flows EXCEPT ![k].age = 0]
      BY <1>1 DEF flow_lookup_or_create
    <2>2. flows[k] \in FlowType
      BY <1>1 DEF TableType
    <2>3. t[k] = [flows[k] EXCEPT !.age = 0] /\ DOMAIN t = DOMAIN flows
      BY <1>1, <2>1
    <2>4. [flows[k] EXCEPT !.age = 0] \in FlowType
      BY <2>2 DEF FlowType
    <2>5. \A x \in DOMAIN t : x # k => t[x] = flows[x]
      BY <2>1, <2>3
    <2>6. TableType(t)
      BY Zenon, <2>1, <2>3, <2>4, <2>5 DEF TableType
    <2> QED
      BY <1>1, <2>2, <2>3, <2>5, <2>6 DEF FlowType
  <1>2. CASE k \notin DOMAIN flows
    <2>1. \/ t = With(flows, k, flow_reset)
          \/ \E o \in Oldest(flows) : t = With(Without(flows, {o}), k, flow_reset)
      BY <1>2 DEF flow_lookup_or_create
    <2>2. PICK gone : t = With(Without(flows, gone), k, flow_reset)
      <3>1. With(flows, k, flow_reset) = With(Without(flows, {}), k, flow_reset)
        BY DEF With, Without
      <3> QED
        BY Zenon, <2>1, <3>1
    <2>3. /\ DOMAIN t = (DOMAIN flows \ gone) \cup {k} /\ t[k] = flow_reset
          /\ \A x \in DOMAIN t : x # k => x \in DOMAIN flows /\ t[x] = flows[x]
          /\ t = [x \in DOMAIN t |-> t[x]]
      BY <2>2 DEF With, Without
    <2>4. TableType(t)
      <3>1. \A x \in DOMAIN t : t[x] \in FlowType
        BY <2>3, ResetType DEF TableType
      <3> QED
        BY <2>3, <3>1 DEF TableType
    <2> QED
      BY <1>2, <2>3, <2>4, ResetType
  <1> QED
    BY <1>1, <1>2

\* At the top of the loop the table may lose its entries, or their decisions.
LEMMA LoopTopFacts ==
    ASSUME TableType(flows), loop_top
    PROVE  /\ TableType(flows') /\ engine' \in {"off", "top", "armed", "recv"}
           /\ signals' \subseteq {"stop", "reload"} /\ Prompt' /\ UNCHANGED conns
           /\ \A x \in DOMAIN flows' :
                 /\ x \in DOMAIN flows
                 /\ flows'[x].classification_done = flows[x].classification_done
                 /\ flows'[x].reasm_len = flows[x].reasm_len
                 /\ flows'[x].next_seq = flows[x].next_seq
  <1>0. /\ engine' \in {"off", "top", "armed", "recv"} /\ signals' \subseteq {"stop", "reload"}
        /\ Prompt' /\ UNCHANGED conns
    BY DEF loop_top, Prompt
  <1>1. CASE flows' = <<>>
    BY <1>0, <1>1 DEF TableType
  <1>2. CASE flows' = flows
    BY <1>0, <1>2
  <1>3. CASE flows' = flow_invalidate_decisions(flows)
    <2>1. \A x \in DOMAIN flows : flows[x] \in FlowType
      BY DEF TableType
    <2>2. \A x \in DOMAIN flows :
              /\ [flows[x] EXCEPT !.strategy_decided = FALSE] \in FlowType
              /\ [flows[x] EXCEPT !.strategy_decided = FALSE].classification_done
                    = flows[x].classification_done
              /\ [flows[x] EXCEPT !.strategy_decided = FALSE].reasm_len = flows[x].reasm_len
              /\ [flows[x] EXCEPT !.strategy_decided = FALSE].next_seq = flows[x].next_seq
      BY Zenon, <2>1 DEF FlowType
    <2>3. DOMAIN flows' = DOMAIN flows
      BY <1>3 DEF flow_invalidate_decisions
    <2>4. \A x \in DOMAIN flows : flows'[x] = [flows[x] EXCEPT !.strategy_decided = FALSE]
      BY <1>3 DEF flow_invalidate_decisions
    <2>5. TableType(flows')
      BY <1>3, <2>2 DEF TableType, flow_invalidate_decisions
    <2> QED
      BY Zenon, <1>0, <2>2, <2>3, <2>4, <2>5
  <1> QED
    BY <1>1, <1>2, <1>3 DEF loop_top, reload_strategies, maybe_refresh_unknown_fingerprint

\* What classify() makes of a flow.
LEMMA ClassifyFacts ==
    ASSUME NEW c \in ConnType, NEW f \in FlowType, NEW from \in Nat, NEW len \in Nat
    PROVE  /\ classify(c, f, from, len).flow \in FlowType
           /\ f.classification_done =>
                 /\ classify(c, f, from, len).flow.classification_done
                 /\ classify(c, f, from, len).class = "UNCLASSIFIED"
           /\ classify(c, f, from, len).class = "TLS" =>
                 classify(c, f, from, len).flow.classification_done
           /\ (/\ ~f.classification_done /\ f.reasm_len = 0 /\ c.kind = "TLS"
               /\ from = 0 /\ len >= HelloLen /\ len <= FLOW_REASSEMBLY_CAP) =>
                 /\ classify(c, f, from, len).class = "TLS"
                 /\ classify(c, f, from, len).flow.reasm_len = len
  <1> DEFINE buffered == f.reasm_len + len
             base == IF f.reasm_len = 0 THEN from ELSE f.base
             done == [f EXCEPT !.classification_done = TRUE]
             kept == [f EXCEPT !.reasm_len = buffered, !.base = base]
             keptdone == [kept EXCEPT !.classification_done = TRUE]
             decided == [keptdone EXCEPT !.strategy_decided = TRUE]
  <1>1. buffered \in Nat /\ base \in Nat
    BY DEF FlowType
  <1> HIDE DEF buffered, base
  <1>2. done \in FlowType /\ done.classification_done
    BY Zenon DEF FlowType
  <1>3. kept \in FlowType /\ kept.reasm_len = buffered
    BY Zenon, <1>1 DEF FlowType
  <1> HIDE DEF kept
  <1>4. /\ keptdone \in FlowType /\ keptdone.classification_done
        /\ keptdone.reasm_len = buffered
    BY Zenon, <1>3 DEF FlowType
  <1> HIDE DEF keptdone
  <1>5. /\ decided \in FlowType /\ decided.classification_done
        /\ decided.reasm_len = buffered
    BY Zenon, <1>4 DEF FlowType
  <1> HIDE DEF done, decided
  <1> DEFINE res == classify(c, f, from, len)
  <1>6. res = IF f.classification_done THEN [flow |-> f, class |-> "UNCLASSIFIED"]
              ELSE IF ~flow_reasm_append_fits(f, len)
                THEN [flow |-> done, class |-> "PASSTHROUGH"]
              ELSE IF ~(c.kind # "OTHER" /\ base = 0)
                THEN [flow |-> keptdone, class |-> "PASSTHROUGH"]
              ELSE IF buffered < HelloLen THEN [flow |-> kept, class |-> "UNCLASSIFIED"]
              ELSE [flow |-> decided, class |-> c.kind]
    BY DEF classify, done, kept, keptdone, decided, buffered, base
  <1> HIDE DEF res
  <1>7. res.flow \in FlowType
    BY <1>2, <1>3, <1>4, <1>5, <1>6
  <1>8. f.classification_done => res.flow.classification_done /\ res.class = "UNCLASSIFIED"
    BY <1>6
  <1>9. res.class = "TLS" => res.flow.classification_done
    BY <1>5, <1>6
  <1>10. (/\ ~f.classification_done /\ f.reasm_len = 0 /\ c.kind = "TLS"
          /\ from = 0 /\ len >= HelloLen /\ len <= FLOW_REASSEMBLY_CAP)
           => res.class = "TLS" /\ res.flow.reasm_len = len
    <2> SUFFICES ASSUME ~f.classification_done, f.reasm_len = 0, c.kind = "TLS",
                        from = 0, len >= HelloLen, len <= FLOW_REASSEMBLY_CAP
                 PROVE  res.class = "TLS" /\ res.flow.reasm_len = len
      OBVIOUS
    <2>1. buffered = len /\ base = 0 /\ HelloLen \in Nat /\ FLOW_REASSEMBLY_CAP \in Nat
      BY PacketAssumption DEF buffered, base
    <2>2. flow_reasm_append_fits(f, len)
      BY <2>1 DEF flow_reasm_append_fits
    <2>3. res = [flow |-> decided, class |-> c.kind]
      BY <1>6, <2>1, <2>2
    <2> QED
      BY <1>5, <2>1, <2>3
  <1> QED
    BY <1>7, <1>8, <1>9, <1>10 DEF res

\* What packet_callback() makes of the flow it found.
LEMMA ExaminedFacts ==
    ASSUME NEW c \in ConnType, NEW found \in FlowType, NEW syn \in BOOLEAN,
           NEW from \in Int, NEW len \in Nat, len > 0 => from \in Nat /\ ~syn,
           SeqMod \in Int, SeqMod > 0, NEW r, r = Examined(c, found, syn, from, len)
    PROVE  /\ r.flow \in FlowType
           /\ found.classification_done /\ ~syn =>
                 r.flow.classification_done /\ r.class # "TLS"
           /\ r.class = "TLS" => r.flow.classification_done /\ len > 0
           /\ len = 0 => r.flow = IF syn THEN flow_reset ELSE found
           /\ (/\ Blank(found) /\ c.kind = "TLS" /\ ~syn /\ len > 0
               /\ from = 0 /\ len >= HelloLen /\ len <= FLOW_REASSEMBLY_CAP) =>
                 r.class = "TLS" /\ r.flow.reasm_len = len
  <1>1. CASE len = 0
    <2>1. r = [flow |-> IF syn THEN flow_reset ELSE found, class |-> "UNCLASSIFIED"]
      BY <1>1 DEF Examined, Restarts, flow_seq_is_next
    <2> QED
      BY <1>1, <2>1, ResetType
  <1>2. CASE len > 0
    <2> DEFINE seq == Seq32(c, from)
               f == flow_advance(found, seq, len)
    <2>1. SeqMod \in Int /\ SeqMod > 0
      OBVIOUS
    <2>2. seq \in Int
      <3>1. c.isn + 1 + from \in Int
        BY DEF ConnType
      <3> QED
        BY <2>1, <3>1, DivMod DEF Seq32
    <2>3. (seq + len) % SeqMod \in Int
      BY <2>1, <2>2, DivMod
    <2> DEFINE next == (seq + len) % SeqMod
    <2> HIDE DEF next, seq
    <2>4. /\ f \in FlowType /\ f.reasm_len = found.reasm_len
          /\ f.classification_done = found.classification_done
      BY <2>3 DEF flow_advance, FlowType, next
    <2> HIDE DEF f
    <2>5. CASE flow_seq_is_next(found, seq, len)
      <3>1. r = classify(c, f, from, len)
        BY <1>2, <2>5 DEF Examined, f, seq
      <3> QED
        BY <1>2, <2>4, <3>1, ClassifyFacts DEF Blank
    <2>6. CASE ~flow_seq_is_next(found, seq, len)
      <3>1. r = [flow |-> found, class |-> "UNCLASSIFIED"] /\ ~Blank(found)
        BY <1>2, <2>6 DEF Examined, seq, flow_seq_is_next, Blank
      <3> QED
        BY <1>2, <3>1
    <2> QED
      BY <2>5, <2>6
  <1> QED
    BY <1>1, <1>2

\* What arrives of harmless segments is in its place.
LEMMA ArriveFacts ==
    ASSUME NEW c \in ConnType, NEW wire, \A s \in wire : Harmless(c, s),
           SeqMod \in Int, SeqMod > 0
    PROVE  /\ Arrive(c, wire) \in ConnType
           /\ (\A b \in c.got : b[1] = b[2]) =>
                 \A b \in Arrive(c, wire).got : b[1] = b[2]
           /\ Arrive(c, wire).sent = c.sent /\ Arrive(c, wire).fate = c.fate
           /\ Arrive(c, wire).drops = c.drops /\ Arrive(c, wire).kind = c.kind
           /\ Arrive(c, wire).split = c.split
           /\ wire = {} => Arrive(c, wire).got = c.got
  <1> DEFINE new == UNION {Placed(c, s) : s \in wire}
             all == c.got \cup new
  <1>1. \A s \in wire : /\ \A x \in Placed(c, s) : x[1] = x[2]
                        /\ Placed(c, s) \subseteq Int \X Int
    BY GoodPlaced DEF Harmless
  <1>2. \A x \in new : x[1] = x[2] /\ x \in Int \X Int
    BY <1>1
  <1>3. wire = {} => all = c.got
    OBVIOUS
  <1> HIDE DEF new
  <1>4. all \subseteq Int \X Int
    BY <1>2 DEF ConnType
  <1>5. (\A b \in c.got : b[1] = b[2]) => \A b \in all : b[1] = b[2]
    BY <1>2
  <1> HIDE DEF all
  <1>6. Arrive(c, wire) = [c EXCEPT !.got = all]
    BY DEF Arrive, all, new
  <1> QED
    BY <1>3, <1>4, <1>5, <1>6 DEF ConnType

\* A connection a that c became, by a packet of len bytes with outcome o.
Made(k, c, o, syn, len, a) ==
    /\ a \in ConnType /\ a.sent = c.sent /\ a.kind = c.kind /\ a.split = c.split
    /\ (\A b \in c.got : b[1] = b[2]) => \A b \in a.got : b[1] = b[2]
    /\ len = 0 /\ o.sent = {} => a.got = c.got
    /\ a.fate = IF syn THEN "fresh"
                ELSE IF len = 0 \/ c.fate # "fresh" THEN c.fate
                ELSE IF o.verdict = "ACCEPT" THEN "passed" ELSE "treated"
    /\ a.drops = (IF k \in DOMAIN flows THEN c.drops ELSE 0)
                   + IF o.verdict = "DROP" THEN 1 ELSE 0

\* What a packet and its outcome make of the connection.
LEMMA AfterFacts ==
    ASSUME NEW k \in Keys, NEW c \in ConnType, NEW o, NEW syn \in BOOLEAN,
           NEW from \in Int, NEW len \in Nat, NEW lost \in BOOLEAN,
           SeqMod \in Int, SeqMod > 0, len > 0 => from \in Nat /\ from + len <= SeqMod,
           \A s \in o.sent : Harmless(c, s), c.drops \in {0, 1},
           NEW a, a = After(k, c, o, syn, from, len, lost)
    PROVE  Made(k, c, o, syn, len, a)
  <1> DEFINE wire == o.sent \cup IF o.verdict = "DROP" \/ lost \/ len = 0 THEN {}
                                 ELSE {Original(c, from, len)}
             before == IF k \in DOMAIN flows THEN c.drops ELSE 0
             drops == IF o.verdict = "DROP" THEN before + 1 ELSE before
             fate == IF syn THEN "fresh"
                     ELSE IF len = 0 \/ c.fate # "fresh" THEN c.fate
                     ELSE IF o.verdict = "ACCEPT" THEN "passed" ELSE "treated"
             b == Arrive(c, wire)
  <1>1. \A s \in wire : Harmless(c, s)
    BY OriginalGood DEF Harmless
  <1>2. len = 0 /\ o.sent = {} => wire = {}
    OBVIOUS
  <1> HIDE DEF wire
  <1>3. /\ b \in ConnType /\ b.sent = c.sent /\ b.kind = c.kind /\ b.split = c.split
        /\ (\A x \in c.got : x[1] = x[2]) => \A x \in b.got : x[1] = x[2]
        /\ wire = {} => b.got = c.got
    BY <1>1, ArriveFacts
  <1>4. drops \in Nat /\ fate \in {"none", "fresh", "passed", "treated"}
    BY DEF ConnType
  <1>5. drops = before + IF o.verdict = "DROP" THEN 1 ELSE 0
    OBVIOUS
  <1>6. a = [b EXCEPT !.fate = fate, !.drops = drops]
    BY DEF After, wire
  <1> HIDE DEF b, fate, drops
  <1>7. /\ a \in ConnType /\ a.sent = b.sent /\ a.got = b.got /\ a.kind = b.kind
        /\ a.split = b.split /\ a.fate = fate /\ a.drops = drops
    BY Zenon, <1>3, <1>4, <1>6 DEF ConnType
  <1> QED
    BY <1>2, <1>3, <1>5, <1>7 DEF fate, Made

\* What an outcome may be: nothing is dropped but a packet that completes a
\* ClientHello, and what is injected is harmless.
LEMMA OutcomeFacts ==
    ASSUME NEW k \in Keys, NEW c \in ConnType, NEW r, NEW from \in Int, NEW len \in Nat,
           len > 0 => from \in Nat /\ from + len <= SeqMod,
           r.class = "TLS" => len > 0, SeqMod \in Int, SeqMod > 0,
           NEW o \in Outcomes(k, c, r, from, len)
    PROVE  /\ \A s \in o.sent : Harmless(c, s)
           /\ o.verdict = "DROP" => r.class = "TLS"
           /\ len = 0 => o.sent = {}
  <1>1. CASE o = Accept
    BY <1>1 DEF Accept
  <1>2. CASE r.class = "TLS" /\ o \in try_apply_chain(c, strategies, from, len)
    BY <1>2, ChainHarmless
  <1> QED
    BY <1>1, <1>2 DEF Outcomes

\* The table that packet_callback() leaves.
LEMMA StoredFacts ==
    ASSUME NEW k \in Keys, NEW t, TableType(t), k \in DOMAIN t, NEW f \in FlowType
    PROVE  /\ TableType(flow_evict_expired(With(t, k, f)))
           /\ \A x \in DOMAIN flow_evict_expired(With(t, k, f)) :
                 /\ x \in DOMAIN t
                 /\ flow_evict_expired(With(t, k, f))[x] = IF x = k THEN f ELSE t[x]
  <1> DEFINE u == With(t, k, f)
  <1>1. DOMAIN u = DOMAIN t /\ \A x \in DOMAIN u : u[x] = IF x = k THEN f ELSE t[x]
    BY DEF With
  <1>2. \A x \in DOMAIN u : u[x] \in FlowType
    BY <1>1 DEF TableType
  <1> HIDE DEF u
  <1>3. PICK gone : flow_evict_expired(u) = Without(u, gone)
    BY DEF flow_evict_expired
  <1>4. /\ DOMAIN Without(u, gone) = DOMAIN u \ gone
        /\ \A x \in DOMAIN Without(u, gone) : Without(u, gone)[x] = u[x]
        /\ Without(u, gone) \in [DOMAIN Without(u, gone) -> FlowType]
    BY <1>2 DEF Without
  <1> QED
    BY <1>1, <1>3, <1>4 DEF u, TableType

\* A connection that fits the table fits it after packet_callback(), and so do
\* the others.
LEMMA CallbackIInv ==
    ASSUME IInv, NEW k \in Keys, NEW c \in ConnType, NEW syn \in BOOLEAN,
           NEW from \in Int, NEW len \in Nat, NEW lost \in BOOLEAN,
           Fits(k, c, flows), syn => len = 0 /\ c.drops = 0,
           len > 0 => from \in Nat /\ from + len <= StreamLen[k] /\ c.sent > 0,
           engine = "recv", packet_callback(k, c, syn, from, len, lost)
    PROVE  IInv'
  <1>1. /\ SeqMod \in Int /\ SeqMod > 0
        /\ len > 0 => from \in Nat /\ ~syn /\ from + len <= SeqMod
    BY SeqModPositive
  <1>2. TableType(flows) /\ conns \in [Keys -> ConnType]
    BY DEF IInv, TypeOK, TableType
  <1>3. PICK t \in flow_lookup_or_create(flows, k) :
          \E o \in Outcomes(k, c, Examined(c, t[k], syn, from, len), from, len) :
            /\ flows' = flow_evict_expired(With(t, k, Examined(c, t[k], syn, from, len).flow))
            /\ conns' = [conns EXCEPT ![k] = After(k, c, o, syn, from, len, lost)]
    BY Zenon DEF packet_callback
  <1> DEFINE r == Examined(c, t[k], syn, from, len)
             u == flow_evict_expired(With(t, k, r.flow))
  <1>4. PICK o \in Outcomes(k, c, r, from, len) :
            /\ flows' = u
            /\ conns' = [conns EXCEPT ![k] = After(k, c, o, syn, from, len, lost)]
    BY Zenon, <1>3
  <1>a. PICK a : a = After(k, c, o, syn, from, len, lost)
    OBVIOUS
  <1>5. /\ TableType(t) /\ k \in DOMAIN t /\ t[k] \in FlowType
        /\ k \in DOMAIN flows =>
              /\ t[k].classification_done = flows[k].classification_done
              /\ Blank(flows[k]) => Blank(t[k])
        /\ k \notin DOMAIN flows => Blank(t[k])
        /\ \A x \in DOMAIN t : x # k => x \in DOMAIN flows /\ t[x] = flows[x]
    BY <1>2, LookupFacts DEF Blank, TableType
  <1>6. /\ r.flow \in FlowType
        /\ t[k].classification_done /\ ~syn => r.flow.classification_done /\ r.class # "TLS"
        /\ r.class = "TLS" => r.flow.classification_done /\ len > 0
        /\ len = 0 => r.flow = IF syn THEN flow_reset ELSE t[k]
    BY <1>1, <1>5, ExaminedFacts, SMTT(30)
  <1> HIDE DEF r
  <1>7. /\ \A s \in o.sent : Harmless(c, s)
        /\ o.verdict = "DROP" => r.class = "TLS"
        /\ len = 0 => o.sent = {}
    BY <1>1, <1>6, OutcomeFacts
  <1>8. c.drops \in {0, 1} /\ (c.sent = 0 => c.got = {}) /\ \A b \in c.got : b[1] = b[2]
    BY DEF Fits
  <1>9. /\ a \in ConnType /\ a.sent = c.sent /\ \A b \in a.got : b[1] = b[2]
        /\ len = 0 => a.got = c.got
        /\ a.fate = IF syn THEN "fresh"
                    ELSE IF len = 0 \/ c.fate # "fresh" THEN c.fate
                    ELSE IF o.verdict = "ACCEPT" THEN "passed" ELSE "treated"
        /\ a.drops = (IF k \in DOMAIN flows THEN c.drops ELSE 0)
                       + IF o.verdict = "DROP" THEN 1 ELSE 0
    <2>1. len > 0 => from \in Nat /\ from + len <= SeqMod
      BY <1>1
    <2>2. Made(k, c, o, syn, len, a)
      BY <1>1, <1>7, <1>8, <1>a, <2>1, AfterFacts, Zenon
    <2> QED
      BY <1>7, <1>8, <2>2 DEF Made
  <1>10. /\ TableType(u)
         /\ \A x \in DOMAIN u : x \in DOMAIN t /\ u[x] = IF x = k THEN r.flow ELSE t[x]
    BY <1>5, <1>6, StoredFacts, SMTT(30)
  <1> HIDE DEF u
  <1>11. /\ TableType(flows')
         /\ \A x \in DOMAIN flows' :
               x \in DOMAIN t /\ flows'[x] = IF x = k THEN r.flow ELSE t[x]
    BY Zenon, <1>4, <1>10
  <1>11e. /\ engine' = "top" /\ signals' = signals /\ late' \in {0, 1}
    <2>1. late = 0
      BY DEF IInv, Prompt
    <2> QED
      BY <2>1 DEF packet_callback, handled
  <1>12. conns' \in [Keys -> ConnType] /\ conns'[k] = a
         /\ \A x \in Keys : x # k => conns'[x] = conns[x]
    BY <1>2, <1>4, <1>9, <1>a
  <1>13. TypeOK' /\ Prompt'
    <2>1. signals \subseteq {"stop", "reload"}
      BY DEF IInv, TypeOK
    <2> QED
      BY <1>11, <1>11e, <1>12, <2>1 DEF TypeOK, TableType, Prompt
  <1>14. Fits(k, a, flows')
    <2>1. o.verdict = "DROP" => (IF k \in DOMAIN flows THEN c.drops ELSE 0) = 0
      BY <1>5, <1>6, <1>7, <1>1 DEF Fits
    <2>2. a.drops \in {0, 1}
      BY <1>8, <1>9, <2>1
    <2>3. a.drops = 1 => r.flow.classification_done
      <3>1. CASE o.verdict = "DROP"
        BY <1>6, <1>7, <3>1
      <3>2. CASE o.verdict # "DROP" /\ a.drops = 1
        <4>1. k \in DOMAIN flows /\ c.drops = 1
          BY <1>8, <1>9, <3>2
        <4> QED
          BY <1>5, <1>6, <4>1 DEF Fits
      <3> QED
        BY <3>1, <3>2
    <2>4. a.fate = "fresh" /\ a.sent = 0 => Blank(r.flow)
      <3> SUFFICES ASSUME a.fate = "fresh", a.sent = 0 PROVE Blank(r.flow)
        OBVIOUS
      <3>1. len = 0
        BY <1>9
      <3>2. CASE syn
        BY <1>6, <3>1, <3>2, ResetType
      <3>3. CASE ~syn
        BY <1>5, <1>6, <1>9, <3>1, <3>3 DEF Fits
      <3> QED
        BY <3>2, <3>3
    <2>5. a.sent = 0 => a.got = {}
      BY <1>8, <1>9
    <2>6. k \in DOMAIN flows' => /\ flows'[k].classification_done = r.flow.classification_done
                                 /\ Blank(r.flow) => Blank(flows'[k])
      BY <1>11 DEF Blank
    <2> QED
      BY <1>9, <2>2, <2>3, <2>4, <2>5, <2>6 DEF Fits
  <1>15. ASSUME NEW x \in Keys, x # k
         PROVE  Fits(x, conns[x], flows')
    <2>1. Fits(x, conns[x], flows)
      BY DEF IInv
    <2>2. x \in DOMAIN flows' =>
            /\ x \in DOMAIN flows
            /\ flows'[x].classification_done = flows[x].classification_done
            /\ Blank(flows[x]) => Blank(flows'[x])
      BY <1>5, <1>11, <1>15 DEF Blank
    <2> QED
      BY <2>1, <2>2 DEF Fits
  <1> QED
    BY <1>12, <1>13, <1>14, <1>15 DEF IInv

\* A packet the client may send.
Sends(k, c, syn, from, len, lost) ==
    /\ c \in ConnType /\ syn \in BOOLEAN /\ from \in Int /\ len \in Nat /\ lost \in BOOLEAN
    /\ Fits(k, c, flows) /\ (syn => len = 0 /\ c.drops = 0)
    /\ len > 0 => from \in Nat /\ from + len <= StreamLen[k] /\ c.sent > 0

\* Past the engine too.
LEMMA OutputIInv ==
    ASSUME IInv, NEW k \in Keys, NEW c, NEW syn, NEW from, NEW len, NEW lost,
           Sends(k, c, syn, from, len, lost), Output(k, c, syn, from, len, lost)
    PROVE  IInv'
  <1> USE DEF Sends
  <1>1. CASE engine = "recv" /\ packet_callback(k, c, syn, from, len, lost)
    BY <1>1, CallbackIInv
  <1>2. CASE bypass(k, c, from, len, lost)
    <2>1. PICK a : a = IF lost \/ len = 0 THEN c ELSE Arrive(c, {Original(c, from, len)})
      OBVIOUS
    <2>2. /\ a \in ConnType /\ a.sent = c.sent /\ a.fate = c.fate /\ a.drops = c.drops
          /\ \A b \in a.got : b[1] = b[2]
          /\ c.sent = 0 => a.got = c.got
      <3>1. CASE lost \/ len = 0
        BY <2>1, <3>1 DEF Fits
      <3>2. CASE ~(lost \/ len = 0)
        <4>1. SeqMod \in Int /\ SeqMod > 0 /\ from \in Nat /\ from + len <= SeqMod
          BY <3>2, SeqModPositive
        <4>2. \A s \in {Original(c, from, len)} : Harmless(c, s)
          BY <4>1, OriginalGood DEF Harmless
        <4> QED
          BY <2>1, <3>2, <4>1, <4>2, ArriveFacts, SMTT(30) DEF Fits
      <3> QED
        BY <3>1, <3>2
    <2>3. /\ conns' = [conns EXCEPT ![k] = a]
          /\ UNCHANGED <<flows, strategies, engine, signals, late>>
      BY <1>2, <2>1 DEF bypass
    <2>4. TypeOK' /\ Prompt'
      BY <2>2, <2>3 DEF IInv, TypeOK, Prompt
    <2>5. \A x \in Keys : Fits(x, conns'[x], flows)
      <3> SUFFICES ASSUME NEW x \in Keys PROVE Fits(x, conns'[x], flows)
        OBVIOUS
      <3>1. CASE x = k
        <4>1. conns'[x] = a
          BY <2>3, <3>1 DEF IInv, TypeOK
        <4> QED
          BY <2>2, <3>1, <4>1 DEF Fits
      <3>2. CASE x # k
        BY <2>3, <3>2 DEF IInv, TypeOK
      <3> QED
        BY <3>1, <3>2
    <2> QED
      BY <2>3, <2>4, <2>5 DEF IInv
  <1> QED
    BY <1>1, <1>2 DEF Output

\* A step that keeps the connections and, of the flows it keeps, all but their
\* age and decision.
LEMMA TableStepIInv ==
    ASSUME IInv, UNCHANGED conns, TableType(flows'), Prompt',
           engine' \in {"off", "top", "armed", "recv"}, signals' \subseteq {"stop", "reload"},
           \A x \in DOMAIN flows' :
              /\ x \in DOMAIN flows
              /\ flows'[x].classification_done = flows[x].classification_done
              /\ flows'[x].reasm_len = flows[x].reasm_len
              /\ flows'[x].next_seq = flows[x].next_seq
    PROVE  IInv'
  <1>1. TypeOK'
    BY DEF IInv, TypeOK, TableType, Prompt
  <1>2. \A x \in Keys : Fits(x, conns[x], flows')
    BY DEF IInv, Fits, Blank
  <1> QED
    BY <1>1, <1>2 DEF IInv

\* The invariant holds initially.
LEMMA InitIInv == Init => IInv
  <1> SUFFICES ASSUME Init PROVE IInv
    OBVIOUS
  <1>1. NoConn \in ConnType
    BY DEF NoConn, ConnType
  <1>2. TypeOK
    BY <1>1 DEF Init, TypeOK
  <1>3. \A k \in Keys : Fits(k, conns[k], flows)
    BY DEF Init, Fits, NoConn
  <1> QED
    BY <1>2, <1>3 DEF IInv, Init, Prompt

\* What the client's packets are: of a connection that fits the table.
LEMMA ConnectFits ==
    ASSUME NEW k \in Keys, NEW isn \in ISNs, NEW kind \in Kinds, NEW s \in Splits,
           NEW c, c = [NoConn EXCEPT !.open = TRUE, !.isn = isn, !.kind = kind, !.split = s]
    PROVE  /\ c \in ConnType /\ Fits(k, c, flows) /\ c.drops = 0 /\ c.sent = 0
  <1>1. isn \in Nat /\ s \in Nat
    BY PacketAssumption
  <1>2. /\ NoConn \in ConnType /\ NoConn.sent = 0 /\ NoConn.got = {}
        /\ NoConn.fate = "none" /\ NoConn.drops = 0
    BY DEF NoConn, ConnType
  <1>3. PICK b \in BOOLEAN : b = TRUE
    BY Zenon
  <1>4. c = [NoConn EXCEPT !.open = b, !.isn = isn, !.kind = kind, !.split = s]
    BY <1>3
  <1>5. /\ c \in ConnType /\ c.sent = 0 /\ c.got = {} /\ c.fate = "none" /\ c.drops = 0
    BY Zenon, <1>1, <1>2, <1>4 DEF ConnType
  <1> QED
    BY <1>5 DEF Fits

\* So are those with data.
LEMMA SendFits ==
    ASSUME IInv, NEW k \in Keys, NEW from \in Nat, NEW len \in Nat, len > 0,
           NEW n, n = (IF from + len > conns[k].sent THEN from + len ELSE conns[k].sent),
           NEW c, c = [conns[k] EXCEPT !.sent = n]
    PROVE  /\ c \in ConnType /\ Fits(k, c, flows) /\ c.sent > 0 /\ c.sent = n
           /\ c.fate = conns[k].fate /\ c.kind = conns[k].kind /\ c.split = conns[k].split
  <1>1. conns[k] \in ConnType /\ Fits(k, conns[k], flows)
    BY DEF IInv, TypeOK
  <1>2. conns[k].sent \in Nat
    BY <1>1 DEF ConnType
  <1>3. n \in Nat /\ n > 0
    BY <1>2
  <1>4. /\ c \in ConnType /\ c.sent = n /\ c.fate = conns[k].fate /\ c.got = conns[k].got
        /\ c.drops = conns[k].drops /\ c.kind = conns[k].kind /\ c.split = conns[k].split
    BY <1>1, <1>3 DEF ConnType
  <1> QED
    BY <1>1, <1>3, <1>4 DEF Fits

\* Every step preserves the invariant.
LEMMA NextIInv == IInv /\ [Next]_vars => IInv'
  <1> SUFFICES ASSUME IInv, [Next]_vars PROVE IInv'
    OBVIOUS
  <1>1. ASSUME NEW k \in Keys, NEW isn \in ISNs, NEW kind \in Kinds, NEW s \in Splits,
               connect(k, isn, kind, s)
        PROVE  IInv'
    <2>1. PICK c : c = [NoConn EXCEPT !.open = TRUE, !.isn = isn, !.kind = kind, !.split = s]
      OBVIOUS
    <2>2. c \in ConnType /\ Fits(k, c, flows) /\ c.drops = 0
      BY <2>1, ConnectFits, Zenon
    <2>3. Output(k, c, TRUE, -1, 0, FALSE)
      BY Zenon, <1>1, <2>1 DEF connect
    <2>4. Sends(k, c, TRUE, -1, 0, FALSE)
      BY <2>2 DEF Sends
    <2> QED
      BY <2>3, <2>4, OutputIInv, Zenon
  <1>2. ASSUME NEW k \in Keys, NEW lost \in BOOLEAN, NEW from \in 0..StreamLen[k],
               NEW len \in 1..StreamLen[k], send(k, from, len, lost)
        PROVE  IInv'
    <2>1. StreamLen[k] \in Nat
      BY SeqModPositive
    <2>2. from \in Nat /\ len \in Nat /\ len > 0
      BY <2>1
    <2>3. PICK n : n = IF from + len > conns[k].sent THEN from + len ELSE conns[k].sent
      OBVIOUS
    <2>4. PICK c : c = [conns[k] EXCEPT !.sent = n]
      BY Zenon
    <2>5. c \in ConnType /\ Fits(k, c, flows) /\ c.sent > 0
      BY <2>2, <2>3, <2>4, SendFits
    <2>6. Output(k, c, FALSE, from, len, lost) /\ from + len <= StreamLen[k]
      BY Zenon, <1>2, <2>3, <2>4 DEF send
    <2>7. Sends(k, c, FALSE, from, len, lost)
      BY <2>2, <2>5, <2>6 DEF Sends
    <2> QED
      BY <2>6, <2>7, OutputIInv, Zenon
  <1>3. ASSUME NEW k \in Keys, ack(k)
        PROVE  IInv'
    <2>1. conns[k] \in ConnType /\ Fits(k, conns[k], flows) /\ conns[k].sent \in Int
      BY DEF IInv, TypeOK, ConnType
    <2>2. Output(k, conns[k], FALSE, conns[k].sent, 0, FALSE)
      BY Zenon, <1>3 DEF ack
    <2>3. Sends(k, conns[k], FALSE, conns[k].sent, 0, FALSE)
      BY <2>1 DEF Sends
    <2> QED
      BY <2>2, <2>3, OutputIInv, Zenon
  <1>4. ASSUME NEW k \in Keys, close(k)
        PROVE  IInv'
    <2>1. NoConn \in ConnType /\ Fits(k, NoConn, flows)
      BY DEF NoConn, ConnType, Fits
    <2>2. /\ conns' = [conns EXCEPT ![k] = NoConn]
          /\ UNCHANGED <<flows, strategies, engine, signals, late>>
      BY <1>4 DEF close
    <2> HIDE DEF NoConn
    <2>3. TypeOK' /\ Prompt'
      BY <2>1, <2>2 DEF IInv, TypeOK, Prompt
    <2>4. \A x \in Keys : Fits(x, conns'[x], flows)
      BY <2>1, <2>2 DEF IInv, TypeOK
    <2> QED
      BY <2>2, <2>3, <2>4 DEF IInv
  <1>5. CASE start \/ recv_blocks \/ die
    <2>1. TableType(flows)
      BY DEF IInv, TypeOK, TableType
    <2>2. flows' \in {flows, <<>>}
      BY <1>5 DEF start, recv_blocks, die
    <2>3. /\ TableType(flows')
          /\ \A x \in DOMAIN flows' : x \in DOMAIN flows /\ flows'[x] = flows[x]
      <3>1. CASE flows' = flows
        BY <2>1, <3>1
      <3>2. CASE flows' = <<>>
        BY <3>2 DEF TableType
      <3> QED
        BY <2>2, <3>1, <3>2
    <2>4. /\ UNCHANGED conns /\ Prompt' /\ engine' \in {"off", "top", "armed", "recv"}
          /\ signals' \subseteq {"stop", "reload"}
      BY <1>5 DEF start, recv_blocks, die, IInv, TypeOK, Prompt
    <2> QED
      BY <2>3, <2>4, TableStepIInv
  <1>6. ASSUME NEW s \in {"stop", "reload"}, on_signal(s)
        PROVE  IInv'
    <2>1. TableType(flows)
      BY DEF IInv, TypeOK, TableType
    <2>2. /\ UNCHANGED <<conns, flows>> /\ Prompt'
          /\ engine' \in {"off", "top", "armed", "recv"} /\ signals' \subseteq {"stop", "reload"}
      BY <1>6 DEF on_signal, IInv, TypeOK, Prompt
    <2> QED
      BY <2>1, <2>2, TableStepIInv
  <1>9. CASE loop_top
    <2>1. TableType(flows)
      BY DEF IInv, TypeOK, TableType
    <2> QED
      BY Zenon, <1>9, <2>1, LoopTopFacts, TableStepIInv
  <1>7. CASE tick
    <2>1. TableType(flows) /\ FLOW_DEFAULT_TIMEOUT_SECONDS \in Nat
      BY PacketAssumption DEF IInv, TypeOK, TableType
    <2>2. \A x \in DOMAIN flows : flows[x] \in FlowType
      BY <2>1 DEF TableType
    <2>3. /\ DOMAIN flows' = DOMAIN flows
          /\ \A x \in DOMAIN flows : \E n \in Nat : flows'[x] = [flows[x] EXCEPT !.age = n]
          /\ flows' = [x \in DOMAIN flows |-> flows'[x]]
      <3>1. \A x \in DOMAIN flows : flows[x].age \in Nat
        BY <2>2 DEF FlowType
      <3> DEFINE n(x) == IF flows[x].age > FLOW_DEFAULT_TIMEOUT_SECONDS
                           THEN flows[x].age ELSE flows[x].age + 1
      <3>2. \A x \in DOMAIN flows : n(x) \in Nat
        BY <2>1, <3>1
      <3>3. flows' = [x \in DOMAIN flows |-> [flows[x] EXCEPT !.age = n(x)]]
        BY <1>7 DEF tick
      <3> HIDE DEF n
      <3> QED
        BY <3>2, <3>3
    <2>4. \A x \in DOMAIN flows : \A n \in Nat :
             /\ [flows[x] EXCEPT !.age = n] \in FlowType
             /\ [flows[x] EXCEPT !.age = n].classification_done = flows[x].classification_done
             /\ [flows[x] EXCEPT !.age = n].reasm_len = flows[x].reasm_len
             /\ [flows[x] EXCEPT !.age = n].next_seq = flows[x].next_seq
      BY <2>2 DEF FlowType
    <2>5. TableType(flows')
      BY <2>1, <2>3, <2>4 DEF TableType
    <2>6. \A x \in DOMAIN flows' :
             /\ x \in DOMAIN flows
             /\ flows'[x].classification_done = flows[x].classification_done
             /\ flows'[x].reasm_len = flows[x].reasm_len
             /\ flows'[x].next_seq = flows[x].next_seq
      <3> SUFFICES ASSUME NEW x \in DOMAIN flows
                   PROVE  /\ flows'[x].classification_done = flows[x].classification_done
                          /\ flows'[x].reasm_len = flows[x].reasm_len
                          /\ flows'[x].next_seq = flows[x].next_seq
        BY <2>3
      <3>1. PICK n \in Nat : flows'[x] = [flows[x] EXCEPT !.age = n]
        BY <2>3
      <3> QED
        BY <2>4, <3>1
    <2>7. /\ UNCHANGED conns /\ Prompt' /\ engine' \in {"off", "top", "armed", "recv"}
          /\ signals' \subseteq {"stop", "reload"}
      BY <1>7 DEF tick, IInv, TypeOK, Prompt
    <2> QED
      BY <2>5, <2>6, <2>7, TableStepIInv
  <1>8. CASE UNCHANGED vars
    <2>1. /\ UNCHANGED <<conns, flows, engine, signals, late>>
      BY <1>8 DEF vars
    <2> QED
      BY <2>1 DEF IInv, TypeOK, Fits, Prompt
  <1> QED
    BY <1>1, <1>2, <1>3, <1>4, <1>5, <1>6, <1>7, <1>8, <1>9 DEF Next

-----------------------------------------------------------------------------
(* Theorems.                                                               *)

\* The invariant holds in every state.
THEOREM SpecIInv == Spec => []IInv
  BY InitIInv, NextIInv, PTL DEF Spec

\* Types of the connections and the table.
THEOREM SpecTypeOK == Spec => []TypeOK
  <1>1. IInv => TypeOK
    BY DEF IInv
  <1> QED
    BY <1>1, SpecIInv, PTL

\* Whatever is split, fragmented or faked, at whatever place, injected or not,
\* and wherever the sequence numbers wrap, a byte the peer has stands where the
\* client put it (packet_split_tcp_v4, packet_make_fake_tcp_v4).
THEOREM SpecIntact == Spec => []Intact
  <1>1. IInv => Intact
    BY DEF IInv, Intact, Fits
  <1> QED
    BY <1>1, SpecIInv, PTL

\* In the life of a table entry at most one packet meets NF_DROP, so the
\* retransmission of a packet whose pieces were lost passes (packet_callback).
THEOREM SpecAtMostOneDrop == Spec => []AtMostOneDrop
  <1>1. IInv => AtMostOneDrop
    BY DEF IInv, AtMostOneDrop, Fits
  <1> QED
    BY <1>1, SpecIInv, PTL

\* However signals, packets and rounds of the loop follow each other, no second
\* packet is handled while g_stop or g_reload is set (nfqueue_engine_run's loop).
THEOREM SpecOnePacketAfterSignal == Spec => []OnePacketAfterSignal
  <1>1. IInv => OnePacketAfterSignal
    BY DEF IInv, OnePacketAfterSignal, Prompt
  <1> QED
    BY <1>1, SpecIInv, PTL

\* A known chain that can cut the packet does not just accept it.
LEMMA ChainTreats ==
    ASSUME NEW c \in ConnType, NEW len \in Nat, NEW o \in try_apply_chain(c, strategies, 0, len),
           \/ strategies = <<"FAKE">>
           \/ /\ strategies \in {<<"SPLIT">>, <<"DISORDER">>, <<"FAKE", "SPLIT">>, <<"SPLIT", "FAKE">>}
              /\ c.split \in 1..(len - 1)
           \/ /\ strategies = <<"FRAGMENT">> /\ c.split \in 1..(len - 1)
              /\ packet_fragment_ipv4_ok(c.split, len)
    PROVE  o.verdict # "ACCEPT" /\ strategies[1] # "PASS"
  <1>1. CASE strategies = <<"FAKE">>
    BY <1>1, SMTT(30) DEF try_apply_chain
  <1>2. CASE strategies = <<"FRAGMENT">>
    <2>1. strategies # <<"FAKE">> /\ strategies \notin {<<"SPLIT">>, <<"DISORDER">>, <<"FAKE", "SPLIT">>, <<"SPLIT", "FAKE">>}
      BY <1>2
    <2>2. packet_fragment_ipv4_ok(c.split, len) /\ ~(c.split = 0 \/ c.split >= len)
      BY <1>2, <2>1 DEF ConnType
    <2> QED
      BY <1>2, <2>1, <2>2 DEF try_apply_chain
  <1>3. CASE strategies \in {<<"SPLIT">>, <<"DISORDER">>, <<"FAKE", "SPLIT">>, <<"SPLIT", "FAKE">>}
    <2>1. strategies # <<"FAKE">> /\ strategies # <<"FRAGMENT">> /\ strategies[1] # "PASS"
      BY <1>3
    <2>2. ~(c.split = 0 \/ c.split >= len)
      BY <2>1 DEF ConnType
    <2>3. {} \in Pieces(c, strategies, 0, len)
      <3>1. \A a, b, x : {} \in Inject(a, b) /\ {} \ {x} \in Inject(a, b)
        BY DEF Inject
      <3> QED
        BY <1>3, <3>1 DEF Pieces
    <2> QED
      BY <2>1, <2>2, <2>3 DEF try_apply_chain
  <1> QED
    BY <1>1, <1>2, <1>3

\* The first data of a connection starts the stream.
LEMMA FirstDataAtStart ==
    ASSUME IInv, NEW k \in Keys, conns[k].sent = 0,
           NEW from, from \in {conns[k].sent, FirstMissing(k)}
    PROVE  from = 0
  <1>1. Received(k) = {}
    BY DEF Received, IInv, Fits
  <1>2. StreamLen[k] \in Nat
    BY SeqModPositive
  <1>3. 0 \in 0..StreamLen[k] /\ 0..(0 - 1) = {}
    BY <1>2
  <1>4. \E p \in 0..StreamLen[k] : 0..(p - 1) \subseteq Received(k) /\ p \notin Received(k)
    BY <1>1, <1>3
  <1>5. FirstMissing(k) \in 0..StreamLen[k] /\ 0..(FirstMissing(k) - 1) \subseteq {}
    BY <1>1, <1>4 DEF FirstMissing
  <1>6. FirstMissing(k) = 0
    <2>1. FirstMissing(k) \in Nat
      BY <1>2, <1>5
    <2>2. FirstMissing(k) > 0 => 0 \in 0..(FirstMissing(k) - 1)
      BY <2>1
    <2> QED
      BY <1>5, <2>1, <2>2
  <1> QED
    BY <1>6

\* Packets of one connection leave the others alone, and what the client sent
\* is what counts as sent.
LEMMA CallbackConn ==
    ASSUME IInv, NEW k \in Keys, NEW c, NEW syn, NEW from, NEW len, NEW lost,
           Sends(k, c, syn, from, len, lost), packet_callback(k, c, syn, from, len, lost)
    PROVE  \E t \in flow_lookup_or_create(flows, k) :
             LET r == Examined(c, t[k], syn, from, len) IN
             \E o \in Outcomes(k, c, r, from, len) : \E a :
                /\ conns' = [conns EXCEPT ![k] = a]
                /\ Made(k, c, o, syn, len, a)
  <1> USE DEF Sends
  <1>1. /\ SeqMod \in Int /\ SeqMod > 0
        /\ len > 0 => from \in Nat /\ ~syn /\ from + len <= SeqMod
    BY SeqModPositive
  <1>2. TableType(flows)
    BY DEF IInv, TypeOK, TableType
  <1>3. PICK t \in flow_lookup_or_create(flows, k) :
          \E o \in Outcomes(k, c, Examined(c, t[k], syn, from, len), from, len) :
            conns' = [conns EXCEPT ![k] = After(k, c, o, syn, from, len, lost)]
    BY Zenon DEF packet_callback
  <1> DEFINE r == Examined(c, t[k], syn, from, len)
  <1>4. PICK o \in Outcomes(k, c, r, from, len) :
            conns' = [conns EXCEPT ![k] = After(k, c, o, syn, from, len, lost)]
    BY Zenon, <1>3
  <1>5. PICK a : a = After(k, c, o, syn, from, len, lost)
    OBVIOUS
  <1>6. t[k] \in FlowType
    BY <1>2, LookupFacts DEF TableType
  <1>7. r.class = "TLS" => len > 0
    <2>1. CASE len = 0
      <3>1. Examined(c, t[k], syn, from, len).class = "UNCLASSIFIED"
        BY <2>1 DEF Examined, Restarts, flow_seq_is_next
      <3> QED
        BY <3>1
    <2>2. CASE len # 0
      <3>1. len > 0
        BY <2>2
      <3> QED
        BY Zenon, <3>1
    <2> QED
      BY Zenon, <2>1, <2>2
  <1>8. \A s \in o.sent : Harmless(c, s)
    BY <1>1, <1>7, OutcomeFacts
  <1>9. c.drops \in {0, 1} /\ (len > 0 => from \in Nat /\ from + len <= SeqMod)
    BY <1>1 DEF Fits
  <1>10. Made(k, c, o, syn, len, a)
    BY <1>1, <1>5, <1>8, <1>9, AfterFacts, Zenon
  <1> QED
    BY Zenon, <1>4, <1>5, <1>10

\* A connection opens with nothing sent.
LEMMA ConnectConn ==
    ASSUME IInv, engine = "recv", NEW k \in Keys, NEW isn \in ISNs, NEW kind \in Kinds,
           NEW s \in Splits, connect(k, isn, kind, s)
    PROVE  \E a : conns' = [conns EXCEPT ![k] = a] /\ a.sent = 0
  <1>1. PICK c : c = [NoConn EXCEPT !.open = TRUE, !.isn = isn, !.kind = kind, !.split = s]
    OBVIOUS
  <1>2. c \in ConnType /\ Fits(k, c, flows) /\ c.drops = 0
    BY <1>1, ConnectFits, Zenon
  <1>3. c.sent = 0
    BY <1>1 DEF NoConn
  <1>4. packet_callback(k, c, TRUE, -1, 0, FALSE)
    BY Zenon, <1>1 DEF connect, Output
  <1>5. Sends(k, c, TRUE, -1, 0, FALSE)
    BY <1>2 DEF Sends
  <1>6. PICK o, a : conns' = [conns EXCEPT ![k] = a] /\ Made(k, c, o, TRUE, 0, a)
    BY <1>4, <1>5, CallbackConn, Zenon
  <1> QED
    BY Zenon, <1>3, <1>6 DEF Made

\* A whole ClientHello that starts a blank flow is recognised.
LEMMA FreshExamined ==
    ASSUME NEW c \in ConnType, c.kind = "TLS", NEW found \in FlowType, Blank(found),
           NEW len \in Nat, len > 0, len >= HelloLen, len <= FLOW_REASSEMBLY_CAP,
           SeqMod \in Int, SeqMod > 0
    PROVE  /\ Examined(c, found, FALSE, 0, len).class = "TLS"
           /\ Examined(c, found, FALSE, 0, len).flow.reasm_len = len
  <1>1. PICK syn \in BOOLEAN : ~syn
    BY Zenon
  <1>2. PICK r : r = Examined(c, found, syn, 0, len)
    OBVIOUS
  <1>3. r.class = "TLS" /\ r.flow.reasm_len = len
    BY <1>1, <1>2, ExaminedFacts
  <1> QED
    BY Zenon, <1>1, <1>2, <1>3

\* A chain of strategies that treats a ClientHello does not begin with PASS.
LEMMA FirstNotPass ==
    ASSUME NEW s \in {<<"FAKE">>, <<"SPLIT">>, <<"DISORDER">>, <<"FAKE", "SPLIT">>,
                      <<"SPLIT", "FAKE">>, <<"FRAGMENT">>}
    PROVE  s[1] # "PASS"
  <1>1. CASE s = <<"FAKE">>
    BY <1>1
  <1>2. CASE s = <<"SPLIT">>
    BY <1>2
  <1>3. CASE s = <<"DISORDER">>
    BY <1>3
  <1>4. CASE s = <<"FAKE", "SPLIT">>
    BY <1>4
  <1>5. CASE s = <<"SPLIT", "FAKE">>
    BY <1>5
  <1>6. CASE s = <<"FRAGMENT">>
    BY <1>6
  <1> QED
    BY <1>1, <1>2, <1>3, <1>4, <1>5, <1>6, Zenon

\* The action property holds of every step.
LEMMA StepFreshHelloTreated ==
    ASSUME IInv, Next, NEW k \in Keys,
           conns[k].fate = "fresh", conns[k].sent = 0, conns'[k].sent > 0,
           engine = "recv", Treatable(conns'[k], k)
    PROVE  conns'[k].fate = "treated"
  <1>1. conns \in [Keys -> ConnType]
    BY DEF IInv, TypeOK
  <1>2. ASSUME NEW j \in Keys, NEW isn \in ISNs, NEW kind \in Kinds, NEW s \in Splits,
               connect(j, isn, kind, s)
        PROVE  FALSE
    <2>1. PICK a : conns' = [conns EXCEPT ![j] = a] /\ a.sent = 0
      BY <1>2, ConnectConn
    <2> QED
      BY <1>1, <2>1
  <1>3. ASSUME NEW j \in Keys, ack(j)
        PROVE  FALSE
    <2>1. conns[j] \in ConnType /\ Fits(j, conns[j], flows) /\ conns[j].sent \in Int
      BY DEF IInv, TypeOK, ConnType
    <2>2. packet_callback(j, conns[j], FALSE, conns[j].sent, 0, FALSE)
      BY Zenon, <1>3 DEF ack, Output
    <2>3. Sends(j, conns[j], FALSE, conns[j].sent, 0, FALSE)
      BY <2>1 DEF Sends
    <2>4. PICK o, a : conns' = [conns EXCEPT ![j] = a] /\ Made(j, conns[j], o, FALSE, 0, a)
      BY <2>2, <2>3, CallbackConn, Zenon
    <2> QED
      BY <1>1, <2>4 DEF Made
  <1>4. ASSUME NEW j \in Keys, NEW lost \in BOOLEAN, NEW from \in 0..StreamLen[j],
               NEW len \in 1..StreamLen[j], send(j, from, len, lost)
        PROVE  conns'[k].fate = "treated"
    <2>1. StreamLen[j] \in Nat
      BY SeqModPositive
    <2>2. from \in Nat /\ len \in Nat /\ len > 0
      BY <2>1
    <2>3. PICK n : n = IF from + len > conns[j].sent THEN from + len ELSE conns[j].sent
      OBVIOUS
    <2>4. PICK c : c = [conns[j] EXCEPT !.sent = n]
      BY Zenon
    <2>5. /\ c \in ConnType /\ Fits(j, c, flows) /\ c.sent > 0 /\ c.sent = n
          /\ c.fate = conns[j].fate /\ c.kind = conns[j].kind /\ c.split = conns[j].split
      BY <2>2, <2>3, <2>4, SendFits
    <2>6. packet_callback(j, c, FALSE, from, len, lost) /\ from + len <= StreamLen[j]
          /\ from \in {conns[j].sent, FirstMissing(j)}
      BY Zenon, <1>4, <2>3, <2>4 DEF send, Output
    <2>7. Sends(j, c, FALSE, from, len, lost)
      BY <2>2, <2>5, <2>6, SMTT(30) DEF Sends
    <2>8. PICK t \in flow_lookup_or_create(flows, j) :
             \E o \in Outcomes(j, c, Examined(c, t[j], FALSE, from, len), from, len) : \E a :
                conns' = [conns EXCEPT ![j] = a] /\ Made(j, c, o, FALSE, len, a)
      BY <2>6, <2>7, CallbackConn, Zenon
    <2> DEFINE r == Examined(c, t[j], FALSE, from, len)
    <2>9o. PICK o \in Outcomes(j, c, r, from, len) : \E a :
              conns' = [conns EXCEPT ![j] = a] /\ Made(j, c, o, FALSE, len, a)
      BY Zenon, <2>8
    <2>9. PICK a : conns' = [conns EXCEPT ![j] = a] /\ Made(j, c, o, FALSE, len, a)
      BY Zenon, <2>9o
    <2>10. j = k /\ conns'[k] = a
      BY <1>1, <2>9, SMTT(30)
    <2>11. from = 0 /\ n = len
      <3>0. conns[k].sent = 0 /\ from \in {conns[k].sent, FirstMissing(k)}
        BY Zenon, <1>1, <2>6, <2>10
      <3>1. from = 0
        BY Zenon, <3>0, FirstDataAtStart
      <3> QED
        BY <2>2, <2>3, <2>10, <3>1
    <2>12. /\ c.kind = "TLS" /\ k \notin V6Keys /\ len >= HelloLen
           /\ len <= FLOW_REASSEMBLY_CAP /\ a.sent = len /\ a.split = c.split
      BY <2>5, <2>9, <2>10, <2>11 DEF Made, Treatable
    <2>13. t[j] \in FlowType /\ Blank(t[j])
      <3>1. TableType(flows)
        BY SMTT(30) DEF IInv, TypeOK, TableType
      <3>2. k \in DOMAIN flows => Blank(flows[k])
        BY Zenon DEF IInv, Fits
      <3> QED
        BY <2>10, <3>1, <3>2, LookupFacts DEF TableType, Blank
    <2>14. r.class = "TLS" /\ r.flow.reasm_len = len
      <3>1. SeqMod \in Int /\ SeqMod > 0 /\ c \in ConnType /\ FALSE \in BOOLEAN
        BY <2>5, SeqModPositive
      <3>2. PICK found : found = t[j]
        OBVIOUS
      <3>3. found \in FlowType /\ Blank(found)
        BY <2>13, <3>2, Zenon
      <3>4. /\ Examined(c, found, FALSE, 0, len).class = "TLS"
            /\ Examined(c, found, FALSE, 0, len).flow.reasm_len = len
        <4>1. c \in ConnType /\ c.kind = "TLS" /\ SeqMod \in Int /\ SeqMod > 0
          BY <2>12, <3>1, Zenon
        <4>2. len \in Nat /\ len > 0 /\ len >= HelloLen /\ len <= FLOW_REASSEMBLY_CAP
          BY <2>2, <2>12, Zenon
        <4> HIDE DEF r
        <4> QED
          BY <3>3, <4>1, <4>2, FreshExamined, Zenon
      <3>5. r = Examined(c, found, FALSE, 0, len)
        BY <2>11, <3>2, Zenon
      <3> QED
        BY <3>4, <3>5, Zenon
    <2>15. \/ strategies = <<"FAKE">>
           \/ /\ strategies \in {<<"SPLIT">>, <<"DISORDER">>, <<"FAKE", "SPLIT">>, <<"SPLIT", "FAKE">>}
              /\ c.split \in 1..(len - 1)
           \/ /\ strategies = <<"FRAGMENT">> /\ c.split \in 1..(len - 1)
              /\ packet_fragment_ipv4_ok(c.split, len)
      BY <2>10, <2>12, Zenon DEF Treatable
    <2>16. strategies[1] # "PASS"
      <3>1. strategies \in {<<"FAKE">>, <<"SPLIT">>, <<"DISORDER">>, <<"FAKE", "SPLIT">>,
                            <<"SPLIT", "FAKE">>, <<"FRAGMENT">>}
        BY <2>15, Zenon
      <3> QED
        BY <3>1, FirstNotPass, Zenon
    <2>17. o \in try_apply_chain(c, strategies, 0, len)
      <3> HIDE DEF r
      <3>1. o \in Outcomes(j, c, r, 0, len) /\ j \notin V6Keys
        BY Zenon, <2>9o, <2>10, <2>11, <2>12
      <3> QED
        BY Zenon, <2>14, <2>16, <3>1 DEF Outcomes
    <2>18. o.verdict # "ACCEPT"
      BY <2>2, <2>5, <2>15, <2>17, ChainTreats
    <2> QED
      <3>0. len # 0
        BY <2>2
      <3>1. len # 0 /\ c.fate = "fresh"
        BY Zenon, <1>1, <2>5, <2>10, <3>0
      <3>2. a.fate = "treated"
        BY Zenon, <2>9, <2>18, <3>1 DEF Made
      <3> QED
        BY Zenon, <2>10, <3>2
  <1>5. ASSUME NEW j \in Keys, close(j)
        PROVE  FALSE
    BY <1>1, <1>5 DEF close, NoConn
  <1>6. CASE UNCHANGED conns
    BY <1>6
  <1> QED
    BY Zenon, <1>2, <1>3, <1>4, <1>5, <1>6
    DEF Next, start, loop_top, recv_blocks, die, tick, on_signal

\* Whatever the table held of a 4-tuple, evicted or reloaded in between, a
\* ClientHello that comes whole right after a SYN the engine saw is split,
\* fragmented or accompanied by a decoy (flow_restart, try_apply_chain).
THEOREM SpecFreshHelloTreated == Spec => FreshHelloTreated
  <1> DEFINE A == \A k \in Keys :
                    conns[k].fate = "fresh" /\ conns[k].sent = 0 /\ conns'[k].sent > 0
                    /\ engine = "recv" /\ Treatable(conns'[k], k)
                      => conns'[k].fate = "treated"
  <1>1. IInv /\ [Next]_vars => [A]_vars
    BY StepFreshHelloTreated DEF vars
  <1>2. Spec => [][A]_vars
    BY <1>1, SpecIInv, PTL DEF Spec
  <1> QED
    BY <1>2 DEF FreshHelloTreated
=============================================================================
