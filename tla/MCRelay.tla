------------------------------ MODULE MCRelay ------------------------------
(***************************************************************************)
(* Instances of Relay.  With BYTE = 4 a length of four already needs both  *)
(* of its cells.                                                           *)
(***************************************************************************)
EXTENDS Relay

\* A ClientHello in one record, in two, and bytes that are not TLS.
OneRecord == <<22, 3, 1, 1, 0, 1, 2, 97, 98>>
TwoRecords == <<22, 3, 1, 0, 3, 1, 2, 97, 22, 3, 1, 0, 1, 98>>
Plain == <<71, 69>>

\* A request by name, one by address, and some the proxy refuses.
ByName == <<5, 1, 0>> \o <<5, 1, 0, 3>> \o <<1, 97>> \o <<1, 1>>
ByAddress == <<5, 1, 0>> \o <<5, 1, 0, 1>> \o <<9>> \o <<1, 1>>
NoMethods == <<5, 0>>
Bind == <<5, 1, 0>> \o <<5, 2, 0, 1>>
UnknownType == <<5, 1, 0>> \o <<5, 1, 0, 9>>
NoName == <<5, 1, 0>> \o <<5, 1, 0, 3>> \o <<0>>

Setup(mode, split, request, stream, pieces, cap, c, s, fault) ==
    [mode |-> mode, split |-> split, request |-> request, stream |-> stream,
     cuts |-> pieces \cup {Len(request), Len(request) + Len(stream)},
     cap |-> cap, clientDuplex |-> c, serverDuplex |-> s, faults |-> {fault}]

\* A ClientHello in two pieces, cut in a header, after the first cell of the
\* body, in the name or between two records, through SOCKS with the option set
\* and through the daemon; requests of every kind, cell by cell; small buffers
\* with ends that do and do not read while they write.
MCSetups ==
    {Setup("socks", split, ByName, OneRecord, {Len(ByName) + k}, 20, TRUE, TRUE,
           "none") : split \in {"TLS_RECORD", "TCP"}, k \in {3, 6, 8}}
    \cup {Setup("transparent", "NONE", <<>>, OneRecord, {k}, 20, TRUE, TRUE,
                "server resets") : k \in {6, 8}}
    \cup {Setup("transparent", "NONE", <<>>, TwoRecords, {k}, 20, TRUE, TRUE,
                "none") : k \in {4, 6, 8, 11, 13}}
    \cup {Setup("socks", "NONE", request, <<>>, 1..Len(request), 4, TRUE, TRUE,
                "client closes early") :
            request \in {NoMethods, Bind, UnknownType, NoName}}
    \cup {Setup("socks", split, ByAddress, Plain, {1, 3, 5, 7, 8}, 4, TRUE, TRUE,
                fault) :
            split \in {"NONE", "TCP"},
            fault \in {"client closes early", "client resets", "server resets"}}
    \cup {Setup("transparent", "NONE", <<>>, Plain, {1}, 1, c, s, fault) :
            c \in BOOLEAN, s \in BOOLEAN,
            fault \in {"none", "client resets", "server resets"}}

MCReplies == {<<22, 201>>, <<80>>}
=============================================================================
