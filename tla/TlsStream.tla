----------------------------- MODULE TlsStream -----------------------------
(***************************************************************************)
(* What the program does to the first bytes of a TLS stream, on sequences  *)
(* of cells: parsing a ClientHello (tls.c, sni_extract.c), gathering one   *)
(* that the client already fragmented, and writing it again as two records *)
(* (relay.c).                                                              *)
(*                                                                         *)
(* A record is five header cells, type, version (2) and length (2, in base *)
(* BYTE), and its body.  Everything a ClientHello holds before the host    *)
(* name is one cell, its type; then come the name's length and the name.   *)
(* Offsets are the code's: cell number i of the sequence is data[i - 1].   *)
(***************************************************************************)
EXTENDS Integers, SequencesExt

CONSTANTS BYTE,              \* values of one byte: 256
          TLS_RECORD_MAX,    \* 16384, the longest record
          RELAY_TLSREC_TCP_CUT

HANDSHAKE == 22
MAJOR == 3
CLIENT_HELLO == 1
HEADER_LEN == 5
NAME_AT == HEADER_LEN + 2    \* offset of the name in a one-record ClientHello

\* isalnum, '.', '-' and '_': the cells a host name is made of
IsHostCell(c) == c >= 97

read_u16(data, at) == data[at + 1] * BYTE + data[at + 2]

\* The header of data's first record with another length.
HeaderWith(data, n) ==
    SubSeq(data, 1, 3) \o <<(n \div BYTE) % BYTE, n % BYTE>>

\* tls_parse_client_hello_sni: is the name there, and where does it end?
tls_parse_client_hello_sni(data) ==
    LET len == Len(data) IN
    CASE len < HEADER_LEN -> "TRUNCATED"
      [] len >= HEADER_LEN /\ data[1] # HANDSHAKE -> "UNSUPPORTED"
      [] len = HEADER_LEN /\ data[1] = HANDSHAKE -> "TRUNCATED"
      [] len > HEADER_LEN /\ data[1] = HANDSHAKE ->
            IF data[HEADER_LEN + 1] # CLIENT_HELLO THEN "UNSUPPORTED"
            ELSE IF len < NAME_AT \/ len < NAME_AT + data[NAME_AT]
                 THEN "TRUNCATED"
            ELSE IF data[NAME_AT] = 0 THEN "MALFORMED" ELSE "OK"

Name(data) == SubSeq(data, NAME_AT + 1, NAME_AT + data[NAME_AT])

\* tls_find_sni_split: the offset in the middle of the name, or -1.
tls_find_sni_split(data) ==
    IF tls_parse_client_hello_sni(data) = "OK" /\ data[NAME_AT] >= 2
    THEN NAME_AT + data[NAME_AT] \div 2
    ELSE -1

tls_record_split_point_whole(data) ==
    IF tls_find_sni_split(data) > HEADER_LEN THEN tls_find_sni_split(data) ELSE 1

\* The offset in the record's body at which it is cut.
tls_record_split_point(data) ==
    IF tls_find_sni_split(data) > HEADER_LEN
    THEN tls_find_sni_split(data) - HEADER_LEN
    ELSE 1

tls_fragment_first_record_off_by_one(data, at) ==
    LET len == Len(data) IN
    IF \/ len < HEADER_LEN + 1 \/ data[1] # HANDSHAKE \/ data[2] # MAJOR
       \/ at < 1 \/ at >= read_u16(data, 3) \/ at >= len - HEADER_LEN
    THEN <<>>
    ELSE HeaderWith(data, at) \o SubSeq(data, HEADER_LEN + 1, HEADER_LEN + at)
         \o HeaderWith(data, read_u16(data, 3) - at)
         \o SubSeq(data, HEADER_LEN + at, len - 1)

\* The first record as two, cut at body offset at; <<>> stands for -1.
\* What has not arrived of the record will continue the second one, whose
\* length is counted from the record's own.
tls_fragment_first_record(data, at) ==
    LET len == Len(data)
        record_len == read_u16(data, 3)
    IN  IF \/ len < HEADER_LEN + 1 \/ data[1] # HANDSHAKE \/ data[2] # MAJOR
           \/ at < 1 \/ at >= record_len \/ at >= len - HEADER_LEN
        THEN <<>>
        ELSE HeaderWith(data, at)
             \o SubSeq(data, HEADER_LEN + 1, HEADER_LEN + at)
             \o HeaderWith(data, record_len - at)
             \o SubSeq(data, HEADER_LEN + at + 1, len)

\* The handshake records at the front of data: their bodies, the sum of their
\* declared lengths, how many they are and where they end.
HandshakeRecords(data) ==
    LET len == Len(data)
        from[pos \in 0..len] ==
            IF pos + HEADER_LEN > len \/ data[pos + 1] # HANDSHAKE
            THEN [body |-> <<>>, declared |-> 0, records |-> 0, end |-> pos]
            ELSE LET rlen == read_u16(data, pos + 3)
                     start == pos + HEADER_LEN
                     avail == IF len - start > rlen THEN rlen ELSE len - start
                     here == SubSeq(data, start + 1, start + avail)
                     rest == IF avail < rlen
                             THEN [body |-> <<>>, declared |-> 0, records |-> 0,
                                   end |-> len]
                             ELSE from[start + avail]
                 IN  [body |-> here \o rest.body,
                      declared |-> rlen + rest.declared,
                      records |-> 1 + rest.records,
                      end |-> rest.end]
    IN  from[0]

\* tls_coalesce_handshake_records: <<>> stands for -1.  A record cut short
\* counts with its declared length.
tls_coalesce_handshake_records(data) ==
    LET r == HandshakeRecords(data) IN
    IF \/ Len(data) < HEADER_LEN \/ data[1] # HANDSHAKE
       \/ r.records < 2 \/ r.declared > TLS_RECORD_MAX
    THEN <<>>
    ELSE HeaderWith(data, r.declared) \o r.body
         \o SubSeq(data, r.end + 1, Len(data))

\* The writes that send data in two parts, the first of n cells.
CutAt(data, n) == <<SubSeq(data, 1, n), SubSeq(data, n + 1, Len(data))>>

\* relay_send_first: the writes, in order, by which the first bytes go out.
relay_send_first(data, split_tls) ==
    LET at == tls_record_split_point(data)
        out == tls_fragment_first_record(data, at)
        split == tls_find_sni_split(data)
    IN  CASE split_tls = "TLS_RECORD" /\ out # <<>> ->
                CutAt(out, HEADER_LEN + at)
          [] split_tls = "TLS_RECORD_TCP" /\ Len(out) > RELAY_TLSREC_TCP_CUT ->
                CutAt(out, RELAY_TLSREC_TCP_CUT)
          [] split_tls = "TCP" /\ split > 0 /\ split < Len(data) ->
                CutAt(data, split)
          [] OTHER -> <<data>>

\* parse_hello of conn.c: the gathered form if there is one; a name that is not
\* a host name does not count.
parse_hello(data) ==
    LET merged == tls_coalesce_handshake_records(data)
        seen == IF merged # <<>> THEN merged ELSE data
        rc == tls_parse_client_hello_sni(seen)
    IN  IF rc = "OK" /\ \E i \in 1..Len(Name(seen)) : ~IsHostCell(Name(seen)[i])
        THEN "MALFORMED" ELSE rc
=============================================================================
