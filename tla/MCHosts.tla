------------------------------ MODULE MCHosts ------------------------------
(***************************************************************************)
(* The hosts that face browsers.  A poll of the WebTransport client is a   *)
(* datagram, everything else a stream; of the HTTP/SSE client everything   *)
(* is a POST, which either of two tasks may take.                          *)
(***************************************************************************)
EXTENDS ViewSync

Readers == {"datagram", "stream"}
Streamed == [k \in {"need", "event", "have"} |-> IF k = "have" THEN Readers ELSE {"stream"}]

\* WebTransport, handlers one after the other, renders and registrations that fail, datagrams
\* lost and repeated, one lost connection.
Serial ==
    [channel |-> Streamed, queuedKinds |-> {"snapshot", "delta"},
     overlap |-> FALSE, reliable |-> FALSE, keepsSession |-> FALSE, failing |-> TRUE,
     onError |-> [p \in Readers |-> IF p = "datagram" THEN "closed" ELSE "logged"],
     maxChanges |-> 2, maxEvents |-> 1, maxDrops |-> 1, maxRevision |-> 4, maxWire |-> 1]

\* The datagram, stream and event handlers await at the same time.
Overlapping ==
    [Serial EXCEPT !.overlap = TRUE, !.maxChanges = 1, !.maxDrops = 0, !.maxRevision = 3]

\* The HTTP/SSE host: concurrent POSTs that can be refused, ordered event stream, a
\* reconnection that keeps the session.
Sse ==
    [Serial EXCEPT !.channel = [k \in {"need", "event", "have"} |-> Readers],
                   !.queuedKinds = {"snapshot"}, !.overlap = TRUE, !.reliable = TRUE,
                   !.keepsSession = TRUE, !.onError = [p \in Readers |-> "refused"],
                   !.maxEvents = 0, !.maxRevision = 3]

\* Two datagrams under way at a time: they overtake each other.
Reordering == [Serial EXCEPT !.failing = FALSE, !.maxEvents = 0, !.maxWire = 2]

Hosts == {Serial, Overlapping, Sse, Reordering}
=============================================================================
