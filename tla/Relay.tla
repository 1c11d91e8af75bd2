------------------------------- MODULE Relay -------------------------------
(***************************************************************************)
(* One proxied connection: a client, the thread that serves it, and the    *)
(* server behind it.  The thread is that of the SOCKS mode (socks.c) or of *)
(* the transparent daemon (conn.c); both hand the client's first bytes to  *)
(* relay_send_first and then copy both ways in relay_pump (relay.c).       *)
(*                                                                         *)
(* The thread is single: while it is blocked in a send it reads neither    *)
(* side.  wire holds what is on its way in the four directions, at most    *)
(* cap cells each: cp (client to proxy), ps (proxy to server), sp and pc.  *)
(* The client writes when it likes, in pieces that end at one of its cuts; *)
(* an end closes its half when it has written everything (a client may do  *)
(* so early), and may reset the connection.  An end that is not duplex     *)
(* does not read while it still has something to write.                    *)
(***************************************************************************)
EXTENDS TlsStream

CONSTANTS Setups,     \* the connections: mode, split_tls, request, stream, what
                      \* a direction holds, how the ends behave
          Replies,    \* what a server may have to say
          ATTEMPTS    \* attempts the plan may make (PlanRun models the plan)

VARIABLES setup, client, server, wire, px

vars == <<setup, client, server, wire, px>>

METHOD_OK == 500       \* the SOCKS replies, one cell each
RESULT_OK == 501
RESULT_FAILED == 502

ToWrite == setup.request \o setup.stream

NewServer(says) == [in |-> <<>>, says |-> says, wrote |-> 0,
                    fin |-> FALSE, rst |-> FALSE, view |-> "open"]

\* A client has connected; the thread that accepted it is about to start.
Init ==
    /\ setup \in Setups
    /\ client = [in |-> <<>>, wrote |-> 0, fin |-> FALSE, rst |-> FALSE,
                 view |-> "open"]
    /\ server = NewServer(<<>>)
    /\ wire = [cp |-> <<>>, ps |-> <<>>, sp |-> <<>>, pc |-> <<>>]
    /\ px = [pc |-> "accept", hello |-> <<>>, writes |-> <<>>, to |-> "c",
             next |-> "end", split |-> "NONE", tries |-> 0, connected |-> FALSE,
             up_open |-> TRUE, down_open |-> TRUE,
             client_ready |-> FALSE, upstream_ready |-> FALSE,
             linger |-> FALSE, cause |-> "none", cout |-> "open", sout |-> "open"]

Goto(pc) == px' = [px EXCEPT !.pc = pc]
End(cause) == px' = [px EXCEPT !.pc = "end", !.cause = cause]
Send(writes, to, next) ==
    px' = [px EXCEPT !.pc = "send", !.writes = writes, !.to = to, !.next = next]

-----------------------------------------------------------------------------
(* The sockets, as the thread sees them. *)

ClientReadable == wire.cp # <<>> \/ client.fin \/ client.rst
UpstreamReadable == wire.sp # <<>> \/ server.fin \/ server.rst

\* recv returns what has arrived; with nothing there, 0 after a FIN and an
\* error after a reset (each time here; Linux reports it once, then 0).
ClientEof == wire.cp = <<>> /\ client.fin
ClientError == wire.cp = <<>> /\ client.rst
UpstreamEof == wire.sp = <<>> /\ server.fin
UpstreamError == wire.sp = <<>> /\ server.rst

\* recv_exact(fd, n): n cells, or the end of the client's bytes before them.
Exactly(n) == Len(wire.cp) >= n
CutShort(n) == Len(wire.cp) < n /\ (client.fin \/ client.rst)
Take(n) == wire' = [wire EXCEPT !.cp = SubSeq(@, n + 1, Len(@))]

-----------------------------------------------------------------------------
(* relay_send_all: blocks while the receiver has no room; fails when the   *)
(* connection was reset.  px.writes are the writes still to make.          *)

Room(to) == setup.cap - Len(IF to = "s" THEN wire.ps ELSE wire.pc)
Lost(to) == IF to = "s" THEN server.rst ELSE client.rst

send_moves ==
    LET data == Head(px.writes)
        n == IF Room(px.to) < Len(data) THEN Room(px.to) ELSE Len(data)
        rest == IF n < Len(data)
                THEN <<SubSeq(data, n + 1, Len(data))>> \o Tail(px.writes)
                ELSE Tail(px.writes)
        dir == IF px.to = "s" THEN "ps" ELSE "pc"
    IN  /\ ~Lost(px.to) /\ n > 0
        /\ wire' = [wire EXCEPT ![dir] = @ \o SubSeq(data, 1, n)]
        /\ px' = IF rest = <<>>
                 THEN [px EXCEPT !.writes = <<>>, !.pc = px.next, !.next = "end"]
                 ELSE [px EXCEPT !.writes = rest]

\* A failed write ends the relay, without touching the other side; in an
\* attempt it only ends the attempt.
send_fails ==
    /\ Lost(px.to)
    /\ px' = [px EXCEPT
                !.pc = IF px.next = "answer" THEN "plan" ELSE "end",
                !.writes = <<>>,
                !.next = "end",
                !.connected = @ /\ px.next # "answer",
                !.cause = IF px.next \in {"answer", "end"} THEN @
                          ELSE IF px.to = "c" THEN "client_write"
                          ELSE IF px.next = "down" THEN "upstream_write"
                          ELSE "first_write"]
    /\ UNCHANGED wire

relay_send_all ==
    /\ px.pc = "send"
    /\ send_moves \/ send_fails
    /\ UNCHANGED <<setup, client, server>>

-----------------------------------------------------------------------------
(* The SOCKS handshake. *)

\* run_socks_server: the thread starts, or cannot be created.
accept ==
    /\ px.pc = "accept"
    /\ \/ Goto(IF setup.mode = "socks" THEN "greeting" ELSE "hello")
       \/ setup.mode = "socks" /\ End("refused")
    /\ UNCHANGED <<setup, client, server, wire>>

\* socks_negotiate
socks_negotiate ==
    /\ px.pc = "greeting"
    /\ \/ CutShort(2) /\ End("refused") /\ UNCHANGED wire
       \/ /\ Exactly(2)
          /\ LET nmethods == wire.cp[2] IN
             IF wire.cp[1] # 5 \/ nmethods = 0
             THEN End("refused") /\ UNCHANGED wire
             ELSE \/ /\ Exactly(2 + nmethods)
                     /\ Take(2 + nmethods)
                     /\ Send(<< <<METHOD_OK>> >>, "c", "request")
                  \/ CutShort(2 + nmethods) /\ End("refused") /\ UNCHANGED wire
    /\ UNCHANGED <<setup, client, server>>

\* read_target, up to the type of the address
read_target ==
    /\ px.pc = "request"
    /\ \/ CutShort(4) /\ End("refused") /\ UNCHANGED wire
       \/ /\ Exactly(4)
          /\ Take(4)
          /\ CASE wire.cp[1] # 5 \/ wire.cp[2] # 1 -> End("refused")
               [] wire.cp[1] = 5 /\ wire.cp[2] = 1 /\ wire.cp[4] = 3 ->
                    Goto("domain")
               [] wire.cp[1] = 5 /\ wire.cp[2] = 1 /\ wire.cp[4] \in {1, 4} ->
                    Goto("ip")
               [] OTHER ->
                    px' = [px EXCEPT !.pc = "send", !.to = "c", !.next = "end",
                                     !.writes = << <<RESULT_FAILED>> >>,
                                     !.cause = "refused"]
    /\ UNCHANGED <<setup, client, server>>

\* read_target: the address (one cell stands for the four of IPv4 or the
\* sixteen of IPv6) and the two cells of the port
read_address ==
    /\ px.pc \in {"domain", "ip"}
    /\ \/ CutShort(1) /\ End("refused") /\ UNCHANGED wire
       \/ /\ Exactly(1) /\ px.pc = "domain" /\ wire.cp[1] = 0
          /\ End("refused") /\ UNCHANGED wire
       \/ /\ Exactly(1) /\ (px.pc = "domain" => wire.cp[1] > 0)
          /\ LET n == (IF px.pc = "domain" THEN 1 + wire.cp[1] ELSE 1) + 2
             IN  \/ Exactly(n) /\ Take(n) /\ Goto("connect")
                 \/ CutShort(n) /\ End("refused") /\ UNCHANGED wire
    /\ UNCHANGED <<setup, client, server>>

\* handle_client: connect_upstream and the reply.
connect_upstream ==
    /\ px.pc = "connect"
    /\ \/ /\ px' = [px EXCEPT !.pc = "send", !.to = "c", !.next = "end",
                              !.writes = << <<RESULT_FAILED>> >>,
                              !.cause = "refused"]
          /\ UNCHANGED server
       \/ /\ px' = [px EXCEPT !.pc = "send", !.to = "c", !.connected = TRUE,
                              !.next = IF setup.split = "NONE" THEN "poll"
                                       ELSE "first",
                              !.writes = << <<RESULT_OK>> >>]
          /\ \E says \in Replies : server' = NewServer(says)
    /\ UNCHANGED <<setup, client, wire>>

\* relay_connection: the client's first bytes, unless the server speaks first.
relay_connection ==
    /\ px.pc = "first"
    /\ ClientReadable \/ UpstreamReadable
    /\ \/ ~ClientReadable /\ Goto("poll") /\ UNCHANGED wire
       \/ /\ wire.cp # <<>>
          /\ wire' = [wire EXCEPT !.cp = <<>>]
          /\ Send(relay_send_first(wire.cp, setup.split), "s", "poll")
       \/ (ClientEof \/ ClientError) /\ End("no_first") /\ UNCHANGED wire
    /\ UNCHANGED <<setup, client, server>>

-----------------------------------------------------------------------------
(* The transparent daemon: conn.c *)

\* read_client_hello: what has been read, once no more is waited for, as one
\* record if it was several.
Gathered(hello) ==
    LET merged == tls_coalesce_handshake_records(hello)
    IN  IF merged # <<>> THEN merged ELSE hello

\* Without a host name, in cooldown or by a manual rule the bytes just pass.
hello_read(hello) ==
    \E pc \in {"plan", "pass"} :
        /\ pc = "plan" => parse_hello(hello) = "OK"
        /\ px' = [px EXCEPT !.hello = Gathered(hello), !.pc = pc]

\* read_client_hello: one turn of its loop.  The wait may time out while
\* nothing has arrived, the deadline may pass after a read.
read_client_hello ==
    /\ px.pc = "hello"
    /\ \/ /\ wire.cp = <<>>
          /\ hello_read(px.hello)
          /\ UNCHANGED wire
       \/ /\ wire.cp # <<>>
          /\ wire' = [wire EXCEPT !.cp = <<>>]
          /\ LET hello == px.hello \o wire.cp IN
             \/ hello_read(hello)
             \/ /\ parse_hello(hello) = "TRUNCATED"
                /\ px' = [px EXCEPT !.hello = hello]
    /\ UNCHANGED <<setup, client, server>>

\* passthrough
passthrough ==
    /\ px.pc = "pass"
    /\ \/ End("refused") /\ UNCHANGED server
       \/ /\ \E says \in Replies : server' = NewServer(says)
          /\ px' = [px EXCEPT !.connected = TRUE, !.to = "s", !.next = "poll",
                              !.writes = IF px.hello = <<>> THEN <<>>
                                         ELSE <<px.hello>>,
                              !.pc = IF px.hello = <<>> THEN "poll" ELSE "send"]
    /\ UNCHANGED <<setup, client, wire>>

\* attempt, up to the sending of the ClientHello, or the end of the plan: then
\* the client is to see a reset.
attempt ==
    /\ px.pc = "plan"
    /\ wire' = [wire EXCEPT !.ps = <<>>, !.sp = <<>>]
    /\ \/ /\ px.tries > 0
          /\ px' = [px EXCEPT !.pc = "end", !.cause = "failed", !.linger = TRUE]
          /\ UNCHANGED server
       \/ /\ px.tries < ATTEMPTS
          /\ px' = [px EXCEPT !.tries = @ + 1]
          /\ UNCHANGED server
       \/ /\ px.tries < ATTEMPTS
          /\ \E says \in Replies : server' = NewServer(says)
          /\ \E split \in {"NONE", "TLS_RECORD", "TLS_RECORD_TCP"} :
                px' = [px EXCEPT !.tries = @ + 1, !.connected = TRUE,
                                 !.split = split, !.to = "s",
                                 !.pc = "send", !.next = "answer",
                                 !.writes = relay_send_first(px.hello, split)]
    /\ UNCHANGED <<setup, client>>

\* attempt, from the wait for the answer on: a TLS answer goes to the client
\* (commit), anything else ends the attempt.
answer ==
    /\ px.pc = "answer"
    /\ \/ /\ wire.sp # <<>> /\ wire.sp[1] \in {HANDSHAKE, HANDSHAKE - 1}
          /\ wire' = [wire EXCEPT !.sp = <<>>]
          /\ px' = [px EXCEPT !.pc = "send", !.to = "c", !.next = "poll",
                              !.writes = <<wire.sp>>, !.hello = <<>>]
       \/ /\ wire.sp # <<>> => wire.sp[1] \notin {HANDSHAKE, HANDSHAKE - 1}
          /\ px' = [px EXCEPT !.pc = "plan", !.connected = FALSE]
          /\ UNCHANGED wire
    /\ UNCHANGED <<setup, client, server>>

-----------------------------------------------------------------------------
(* relay_pump_timeout without a timeout, as all callers use it. *)

\* wait_readable looks only at the directions still open.
wait_readable ==
    /\ px.pc = "poll"
    /\ IF ~px.up_open /\ ~px.down_open
       THEN End("finished")
       ELSE LET c == px.up_open /\ ClientReadable
                u == px.down_open /\ UpstreamReadable
            IN  /\ c \/ u
                /\ px' = [px EXCEPT !.pc = "up", !.client_ready = c,
                                    !.upstream_ready = u]
    /\ UNCHANGED <<setup, client, server, wire>>

\* The client's turn: forward_once, or the half-close passed on.
pump_up ==
    /\ px.pc = "up"
    /\ \/ ~px.client_ready /\ Goto("down") /\ UNCHANGED wire
       \/ /\ px.client_ready /\ wire.cp # <<>>
          /\ wire' = [wire EXCEPT !.cp = <<>>]
          /\ Send(<<wire.cp>>, "s", "down")
       \/ /\ px.client_ready /\ ClientEof
          /\ px' = [px EXCEPT !.pc = "down", !.up_open = FALSE, !.sout = "fin"]
          /\ UNCHANGED wire
       \/ /\ px.client_ready /\ ClientError
          /\ End("client_error") /\ UNCHANGED wire
    /\ UNCHANGED <<setup, client, server>>

pump_down_closes ==
    /\ px.pc = "down"
    /\ \/ ~px.upstream_ready /\ Goto("poll") /\ UNCHANGED wire
       \/ /\ px.upstream_ready /\ wire.sp # <<>>
          /\ wire' = [wire EXCEPT !.sp = <<>>]
          /\ Send(<<wire.sp>>, "c", "poll")
       \/ /\ px.upstream_ready /\ (UpstreamEof \/ UpstreamError)
          /\ px' = [px EXCEPT !.pc = "poll", !.down_open = FALSE, !.cout = "fin"]
          /\ UNCHANGED wire
    /\ UNCHANGED <<setup, client, server>>

pump_down_stays_open ==
    /\ px.pc = "down"
    /\ \/ ~px.upstream_ready /\ Goto("poll") /\ UNCHANGED wire
       \/ /\ px.upstream_ready /\ wire.sp # <<>>
          /\ wire' = [wire EXCEPT !.sp = <<>>]
          /\ Send(<<wire.sp>>, "c", "poll")
       \/ /\ px.upstream_ready /\ UpstreamEof
          /\ px' = [px EXCEPT !.pc = "poll", !.cout = "fin"]
          /\ UNCHANGED wire
       \/ /\ px.upstream_ready /\ UpstreamError
          /\ px' = [px EXCEPT !.pc = "end", !.linger = TRUE,
                              !.cause = "upstream_error"]
          /\ UNCHANGED wire
    /\ UNCHANGED <<setup, client, server>>

\* The server's turn; an error there resets the client.
pump_down ==
    /\ px.pc = "down"
    /\ \/ ~px.upstream_ready /\ Goto("poll") /\ UNCHANGED wire
       \/ /\ px.upstream_ready /\ wire.sp # <<>>
          /\ wire' = [wire EXCEPT !.sp = <<>>]
          /\ Send(<<wire.sp>>, "c", "poll")
       \/ /\ px.upstream_ready /\ UpstreamEof
          /\ px' = [px EXCEPT !.pc = "poll", !.down_open = FALSE, !.cout = "fin"]
          /\ UNCHANGED wire
       \/ /\ px.upstream_ready /\ UpstreamError
          /\ px' = [px EXCEPT !.pc = "end", !.linger = TRUE,
                              !.cause = "upstream_error"]
          /\ UNCHANGED wire
    /\ UNCHANGED <<setup, client, server>>

\* How the other side sees a close: as a reset if SO_LINGER says so, and it may
\* be one when bytes were left unread; otherwise as the end of the data.
Seen(linger, unread) ==
    IF linger THEN {"rst"} ELSE IF unread THEN {"fin", "rst"} ELSE {"fin"}

\* The thread closes its two sockets.  A reset may overtake what was sent.
close ==
    /\ px.pc = "end"
    /\ \E c \in Seen(px.linger, wire.cp # <<>>),
          s \in Seen(FALSE, wire.sp # <<>>) :
        /\ px' = [px EXCEPT !.pc = "closed", !.cout = c, !.sout = s]
        /\ \E pc \in {wire.pc} \cup (IF c = "rst" THEN {<<>>} ELSE {}) :
              wire' = [wire EXCEPT !.pc = pc, !.cp = <<>>, !.sp = <<>>]
    /\ UNCHANGED <<setup, client, server>>

Proxy == \/ accept \/ socks_negotiate \/ read_target \/ read_address
         \/ connect_upstream \/ relay_connection \/ read_client_hello
         \/ passthrough \/ attempt \/ answer \/ relay_send_all
         \/ wait_readable \/ pump_up \/ pump_down \/ close

-----------------------------------------------------------------------------
(* The two ends. *)

client_writes ==
    /\ ~client.fin /\ ~client.rst /\ px.pc # "closed"
    /\ \E n \in 1..(setup.cap - Len(wire.cp)) :
        /\ client.wrote + n \in setup.cuts
        /\ client' = [client EXCEPT !.wrote = @ + n]
        /\ wire' = [wire EXCEPT !.cp = @ \o SubSeq(ToWrite, client.wrote + 1,
                                                   client.wrote + n)]
    /\ UNCHANGED <<setup, server, px>>

client_reads ==
    /\ ~client.rst /\ client.view = "open"
    /\ setup.clientDuplex \/ client.fin \/ client.wrote = Len(ToWrite)
    /\ \/ /\ wire.pc # <<>>
          /\ client' = [client EXCEPT !.in = @ \o wire.pc]
          /\ wire' = [wire EXCEPT !.pc = <<>>]
       \/ /\ wire.pc = <<>> /\ px.cout # "open"
          /\ client' = [client EXCEPT
                          !.view = IF px.cout = "fin" THEN "eof" ELSE "reset"]
          /\ UNCHANGED wire
    /\ UNCHANGED <<setup, server, px>>

client_shuts_down ==
    /\ ~client.fin /\ ~client.rst
    /\ client.wrote = Len(ToWrite) \/ "client closes early" \in setup.faults
    /\ client' = [client EXCEPT !.fin = TRUE]
    /\ UNCHANGED <<setup, server, wire, px>>

\* What had arrived before a reset can still be read, up to the end, or is lost
\* together with the end: the systems differ.
client_resets ==
    /\ "client resets" \in setup.faults /\ ~client.rst /\ px.pc # "closed"
    /\ \E kept \in {<<>>, wire.cp} :
        /\ wire' = [wire EXCEPT !.cp = kept, !.pc = <<>>]
        /\ client' = [client EXCEPT !.rst = TRUE, !.fin = @ /\ kept = wire.cp]
    /\ UNCHANGED <<setup, server, px>>

server_writes ==
    /\ px.connected /\ ~server.fin /\ ~server.rst /\ px.pc # "closed"
    /\ server.wrote < Len(server.says) /\ Len(wire.sp) < setup.cap
    /\ server' = [server EXCEPT !.wrote = @ + 1]
    /\ wire' = [wire EXCEPT !.sp = Append(@, server.says[server.wrote + 1])]
    /\ UNCHANGED <<setup, client, px>>

server_reads ==
    /\ px.connected /\ ~server.rst /\ server.view = "open"
    /\ setup.serverDuplex \/ server.fin \/ server.wrote = Len(server.says)
    /\ \/ /\ wire.ps # <<>>
          /\ server' = [server EXCEPT !.in = @ \o wire.ps]
          /\ wire' = [wire EXCEPT !.ps = <<>>]
       \/ /\ wire.ps = <<>> /\ px.sout # "open"
          /\ server' = [server EXCEPT
                          !.view = IF px.sout = "fin" THEN "eof" ELSE "reset"]
          /\ UNCHANGED wire
    /\ UNCHANGED <<setup, client, px>>

server_shuts_down ==
    /\ px.connected /\ ~server.fin /\ ~server.rst
    /\ server.wrote = Len(server.says)
    /\ server' = [server EXCEPT !.fin = TRUE]
    /\ UNCHANGED <<setup, client, wire, px>>

server_resets ==
    /\ "server resets" \in setup.faults
    /\ px.connected /\ ~server.rst /\ px.pc # "closed"
    /\ \E kept \in {<<>>, wire.sp} :
        /\ wire' = [wire EXCEPT !.sp = kept, !.ps = <<>>]
        /\ server' = [server EXCEPT !.rst = TRUE, !.fin = @ /\ kept = wire.sp]
    /\ UNCHANGED <<setup, client, px>>

Duplex == setup.clientDuplex /\ setup.serverDuplex

\* Everything is over; or an end that only reads when it has written waits for
\* the thread, which waits for that end to read.
Over == (px.pc = "closed" \/ ~Duplex) /\ UNCHANGED vars

Next == \/ Proxy
        \/ client_writes \/ client_reads \/ client_shuts_down \/ client_resets
        \/ server_writes \/ server_reads \/ server_shuts_down \/ server_resets
        \/ Over

\* The thread runs; an end writes and reads when it can, and closes its half in
\* the end: a connection nobody closes is relayed for ever (no idle timeout).
Fairness == /\ WF_vars(Proxy)
            /\ WF_vars(client_writes) /\ WF_vars(client_reads)
            /\ WF_vars(client_shuts_down)
            /\ WF_vars(server_writes) /\ WF_vars(server_reads)
            /\ WF_vars(server_shuts_down)

Spec == Init /\ [][Next]_vars /\ Fairness

-----------------------------------------------------------------------------
(* What the ends see of each other. *)

\* One cell further in the TLS stream a.
UnframedStep(a, cell) ==
    LET header == Append(a.header, cell) IN
    IF a.left > 0
    THEN [a EXCEPT !.left = @ - 1, !.body = Append(@, <<a.header[1], cell>>),
                   !.header = IF a.left = 1 THEN <<>> ELSE @]
    ELSE IF Len(header) < HEADER_LEN
         THEN [a EXCEPT !.header = header]
         ELSE [a EXCEPT !.left = read_u16(header, 3),
                        !.header = IF read_u16(header, 3) = 0 THEN <<>>
                                   ELSE header]

\* The contents of a stream's records, each cell with its record's type: what a
\* TLS endpoint reads, however the stream is cut into records.
Unframed(stream) ==
    FoldLeft(UnframedStep,
             [header |-> <<>>, left |-> 0, body |-> <<>>], stream).body

\* As the receiving end reads it.
Contents(stream) ==
    IF setup.stream # <<>> /\ Head(setup.stream) = HANDSHAKE
    THEN Unframed(stream) ELSE stream

WroteToServer ==
    SubSeq(setup.stream, 1, client.wrote - Len(setup.request))
WroteToClient == SubSeq(server.says, 1, server.wrote)

\* The SOCKS replies that come before the server's bytes.
Answers == IF setup.mode = "socks" THEN <<METHOD_OK, RESULT_OK>> ELSE <<>>

\* However the client's bytes arrive, and whatever is done to the first of
\* them (gathered, cut, re-framed while only a part is there, sent again in
\* another attempt), the server reads a prefix of what the client wrote, and the
\* client the proxy's answers and then a prefix of what this server wrote.
StreamIntact ==
    /\ IsPrefix(Contents(server.in), Contents(WroteToServer))
    /\ \/ IsPrefix(client.in, Answers \o WroteToClient)
       \/ setup.mode = "socks" /\ IsPrefix(client.in, <<METHOD_OK, RESULT_FAILED>>)

\* tls.c: "a DPI box that parses only the first record never sees a complete
\* ClientHello/SNI": an attempt with record fragmentation never shows the whole
\* name in the first record, even if the client had fragmented the hello.
NameNeverWhole ==
    px.split \in {"TLS_RECORD", "TLS_RECORD_TCP"} /\ px.connected =>
        LET seen == server.in \o wire.ps
            first == IF Len(seen) < HEADER_LEN THEN seen
                     ELSE SubSeq(seen, 1, Min({Len(seen), HEADER_LEN
                                                          + read_u16(seen, 3)}))
        IN  tls_parse_client_hello_sni(first) # "OK"

\* An end that sees a clean end of the data has seen all of it, and the other end
\* had closed: unless the proxy refused, the other side failed under a write, the
\* client went away, or it closed its half before its first byte with the split
\* option set (an upstream error found by a read resets the client).
EofIsComplete ==
    px.cause \notin {"refused", "no_first", "client_error", "client_write",
                     "first_write", "upstream_write"} =>
        /\ client.view = "eof" =>
              server.fin /\ client.in = Answers \o WroteToClient
        /\ /\ server.view = "eof" /\ px.connected
           /\ px.cause \in {"none", "finished"}
           =>
              client.fin /\ Contents(server.in) = Contents(WroteToServer)

\* Two ends that read while they write are served to the end: neither waits for
\* ever on a thread that is blocked in a send or polls one side only.
RelayEnds == Duplex => <>(px.pc = "closed")

\* relay.h: "An upstream error ends the relay and resets the client connection,
\* so the application sees the failure instead of a clean close."
UpstreamErrorResetsClient ==
    px.cause \in {"upstream_error", "upstream_write"} => client.view # "eof"
=============================================================================
