----------------------------- MODULE Transport ------------------------------
(***************************************************************************)
(* A request on its way through the gateway as bytes: it is read from the  *)
(* client's connection, forwarded, the reply of the backend is read,       *)
(* cached and served, and a retry is answered from the cache.  The three   *)
(* transports differ in how they read: a thread on a blocking socket       *)
(* (onced-gateway server.rs), the loop of onced-uring that parses again    *)
(* after every read, and hyper in onced-fast.                              *)
(*                                                                         *)
(* Clients and backends send their bytes in pieces of any size, and either *)
(* may close its connection before it has sent all of them.                *)
(***************************************************************************)
EXTENDS Http

CONSTANTS
    Transports,     \* of "blocking", "uring" and "hyper"
    RequestsSent,   \* the requests a client may send
    Replies,        \* the replies a backend may send
    MaxBody,        \* max_body of onced-fast
    MaxRequest,     \* MAX_REQUEST of onced-uring, in units
    Normalized,     \* the target that reqwest's URL parser makes of a target
    FromReqwest     \* the values of the headers that reqwest sets

ASSUME TransportAssumption ==
    /\ Transports \subseteq {"blocking", "uring", "hyper"}
    /\ {MaxBody, MaxRequest} \subseteq Nat
    /\ \A m \in RequestsSent :
        /\ m \in Messages /\ m.start \in Text /\ Framed(m)
        /\ HasLength(m.headers) \/ m.body = <<>> \/ Chunked(m.headers)
    /\ \A m \in Replies :
        m \in Messages /\ m.start \in Nat /\ Framed(m) /\ ~Chunked(m.headers)
    /\ Normalized \in [Text -> Text]
    /\ FromReqwest \in Text

VARIABLES
    transport,
    sent,       \* the request the client means to send
    inbound,    \* the units of it that have arrived
    unread,     \* some of them arrived since the transport last read
    hungUp,     \* the client closed its connection before it had sent them all
    stage,      \* where the request is
    request,    \* what the transport made of it
    executed,   \* the request the backend received, None before
    reply,      \* the reply the backend means to send, None before
    outbound,   \* the units of it that arrived before the connection closed
    outcome,    \* the cached outcome, None if there is none
    served,     \* the response the client was sent
    replayed    \* the response a retry was sent

clientVars == <<transport, sent, inbound, unread, hungUp>>
backendVars == <<executed, reply, outbound>>
transportVars == <<clientVars, stage, request, backendVars, outcome, served, replayed>>

Unrepeated(headers) ==
    \A i, j \in DOMAIN headers : headers[i].name = headers[j].name => i = j

\* The requests that are followed through hyper, which decodes chunks and keeps
\* the values of a repeated header together.
HyperRequests ==
    {m \in RequestsSent : ~Chunked(m.headers) /\ Unrepeated(m.headers)}

TransportInit ==
    /\ transport \in Transports
    /\ sent \in (IF transport = "hyper" THEN HyperRequests ELSE RequestsSent)
    /\ inbound = <<>>
    /\ unread = FALSE
    /\ hungUp = FALSE
    /\ stage = "reading"
    /\ request = None
    /\ executed = None
    /\ reply = None
    /\ outbound = <<>>
    /\ outcome = None
    /\ served = None
    /\ replayed = None

-----------------------------------------------------------------------------
\* The last line of units, which has been cut short, and no other, arrived in
\* full.
Longer(more, units) ==
    /\ more = SubSeq(RequestWire(sent), 1, Len(units))
    /\ more # units

\* More of the request arrives.
Deliver ==
    /\ stage = "reading"
    /\ ~hungUp
    /\ inbound' \in Parts(RequestWire(sent))
    /\ Len(inbound') > Len(inbound) \/ Longer(inbound', inbound)
    /\ unread' = TRUE
    /\ UNCHANGED <<transport, sent, hungUp, stage, request, backendVars, outcome,
                   served, replayed>>

\* The client goes away before it has sent everything.
HangUp ==
    /\ stage = "reading"
    /\ inbound # RequestWire(sent)
    /\ hungUp' = TRUE
    /\ UNCHANGED <<transport, sent, inbound, unread, stage, request, backendVars,
                   outcome, served, replayed>>

\* The connection is closed without an answer.
Drop ==
    /\ stage' = "dropped"
    /\ UNCHANGED <<clientVars, request, backendVars, outcome, served, replayed>>

\* The request m goes to the router.
Dispatch(m) ==
    /\ request' = m
    /\ stage' = "dispatched"
    /\ unread' = FALSE
    /\ UNCHANGED <<transport, sent, inbound, hungUp, backendVars, outcome, served,
                   replayed>>

\* handle_connection: parse_request waits for the lines and bytes it asks for,
\* until they are there or the client is gone; a timeout drops the connection.
ReadBlocking ==
    LET m == ParseRequest(inbound)
    IN  /\ transport = "blocking"
        /\ stage = "reading"
        /\ \/ /\ hungUp \/ Blank \in Range(inbound)
              /\ m.result = "message"
              /\ Dispatch(m)
           \/ hungUp /\ m.result # "message" /\ Drop
           \/ ~hungUp /\ Drop

\* read_request of onced-uring: parse all that has arrived, after every read.
ReadUring ==
    LET m == ParseRequest(inbound)
    IN  /\ transport = "uring"
        /\ stage = "reading"
        /\ \/ unread /\ m.result = "message" /\ Dispatch(m)
           \/ /\ unread
              /\ m.result = "error"
              /\ Len(inbound) < MaxRequest
              /\ unread' = FALSE
              /\ UNCHANGED <<transport, sent, inbound, hungUp, stage, request,
                             backendVars, outcome, served, replayed>>
           \/ unread /\ m.result = "error" /\ Len(inbound) >= MaxRequest /\ Drop
           \/ ~unread /\ hungUp /\ Drop

\* The visible headers of to_onced_request.
Visible(headers) == Kept(headers, {h \in Range(headers) : h.value # Opaque})

\* dispatch of onced-fast: hyper has framed the request, a body over the limit
\* is refused, and a header that is not visible ASCII is left out.
ReadHyper ==
    LET m == ParseRequest(inbound)
    IN  /\ transport = "hyper"
        /\ stage = "reading"
        /\ \/ /\ inbound = RequestWire(sent)
              /\ Len(m.body) <= MaxBody
              /\ Dispatch([m EXCEPT !.headers = Visible(@)])
           \/ /\ inbound = RequestWire(sent)
              /\ Len(m.body) > MaxBody
              /\ stage' = "answered"
              /\ served' = Message(413, <<>>, <<>>)
              /\ UNCHANGED <<clientVars, request, backendVars, outcome, replayed>>
           \/ hungUp /\ Drop

-----------------------------------------------------------------------------
\* The headers that reqwest sets itself in a request: those that forward of
\* onced-fast leaves to it, and Accept if there is none.
ReqwestSets(m) ==
    Framing \union {"host"}
        \union (IF Positions(m.headers, "accept") = {} THEN {"accept"} ELSE {})

ReqwestOwn(m) ==
    (IF m.body = <<>> THEN <<>> ELSE <<Header("content-length", Len(m.body))>>)
        \o (IF Positions(m.headers, "accept") = {}
            THEN <<Header("host", FromReqwest), Header("accept", FromReqwest)>>
            ELSE <<Header("host", FromReqwest)>>)

\* The request that reqwest sends, for the URL it has made of the target.
WriteReqwest(m) ==
    RequestWire([m EXCEPT !.start = Normalized[@],
                          !.headers = Without(@, ReqwestSets(m)) \o ReqwestOwn(m)])

\* What a backend makes of the bytes it is sent.  It is an HTTP server like any
\* other, and expects chunks behind a Transfer-Encoding, where there are none.
BackendReads(units) ==
    IF Chunked(Headers(units)) THEN Error ELSE ParseRequest(units)

\* forward: the request is written to the backend, which executes what it reads.
Forward ==
    /\ stage = "dispatched"
    /\ executed' = BackendReads(IF transport = "hyper" THEN WriteReqwest(request)
                                ELSE WriteRequest(request))
    /\ stage' = "forwarded"
    /\ UNCHANGED <<clientVars, request, reply, outbound, outcome, served, replayed>>

\* The backend replies, and closes the connection when it has sent everything
\* or earlier.
Reply(r) ==
    /\ stage = "forwarded"
    /\ reply' = r
    /\ outbound' \in Parts(ResponseWire(r))
    /\ stage' = "replied"
    /\ UNCHANGED <<clientVars, request, executed, outcome, served, replayed>>

\* The reply as the transport reads it.  reqwest reads what parse_response does,
\* a body without a length up to the end of the connection too, but fails on a
\* head that does not end and on a length that is no number.
Received ==
    LET m == ParseResponse(outbound)
    IN  IF transport # "hyper" THEN m
        ELSE IF \/ Blank \notin Range(outbound)
                \/ HeaderValue(Headers(outbound), "content-length") = Cut
                \/ m = Error
        THEN Error
        ELSE [m EXCEPT !.headers = Visible(@)]

\* The response as the client receives it: to_axum_response keeps the headers.
Delivered(m) ==
    IF transport = "hyper" THEN m ELSE ParseResponse(WriteResponse(m))

\* The backend cannot be reached, or reqwest refuses the request: complete_phase
\* answers with a 502.
ForwardFails ==
    /\ stage = "dispatched"
    /\ served' = Delivered(Message(502, <<>>, <<>>))
    /\ stage' = "answered"
    /\ UNCHANGED <<clientVars, request, backendVars, outcome, replayed>>

\* complete_phase: an unreadable reply, or one that takes longer than the read
\* timeout of a blocking socket, is a 502; the final answer to a request with a
\* key is cached, and tagged.
CompletePhase ==
    LET keyed == HeaderValue(request.headers, "idempotency-key") # Missing
    IN  /\ stage = "replied"
        /\ \/ /\ \/ Received = Error
                 \/ transport = "blocking" /\ outbound # ResponseWire(reply)
              /\ served' = Delivered(Message(502, <<>>, <<>>))
              /\ UNCHANGED outcome
           \/ /\ Received # Error
              /\ keyed /\ Received.start < 500
              /\ outcome' = ToOutcome(Received)
              /\ served' = Delivered(Tag(Received, Created))
           \/ /\ Received # Error
              /\ ~keyed \/ Received.start >= 500
              /\ served' = Delivered(Received)
              /\ UNCHANGED outcome
        /\ stage' = "answered"
        /\ UNCHANGED <<clientVars, request, backendVars, replayed>>

\* A retry is answered from the cache.
Retry ==
    /\ stage = "answered"
    /\ outcome # None
    /\ replayed = None
    /\ replayed' = Delivered(Tag(FromOutcome(outcome), Replayed))
    /\ UNCHANGED <<clientVars, stage, request, backendVars, outcome, served>>

TransportNext ==
    \/ Deliver \/ HangUp
    \/ ReadBlocking \/ ReadUring \/ ReadHyper
    \/ Forward \/ ForwardFails
    \/ \E r \in Replies : Reply(r)
    \/ CompletePhase
    \/ Retry

TransportSpec == TransportInit /\ [][TransportNext]_transportVars

-----------------------------------------------------------------------------
SameRequest(m, n) ==
    /\ m.start = n.start
    /\ m.body = n.body
    /\ Without(m.headers, Framing) = Without(n.headers, Framing)

\* However the bytes of a request are cut into pieces, the blocking transport
\* and hyper hand the request the client sent to the router, its key, target
\* and body in full, unless the client closed the connection early (a thread on
\* a blocking socket then takes what came for the request), used a header that
\* hyper's strings cannot hold, or sent the body in chunks.
DispatchedAsSent ==
    /\ request # None
    /\ transport # "uring"
    /\ ~hungUp
    /\ ~Chunked(sent.headers)
    /\ Visible(sent.headers) = sent.headers \/ transport # "hyper"
    => SameRequest(request, sent)

\* "Accumulate bytes until a full HTTP request parses": the loop of onced-uring
\* hands over the request the client sent.
UringDispatchesFull ==
    request # None /\ transport = "uring" => SameRequest(request, sent)

\* The backend executes what the gateway took the fingerprint and the key of,
\* unless the request has a Transfer-Encoding, which write_request passes on: a
\* request cut short is not completed, and nothing that followed it is taken for
\* part of it.  Target, body and headers are those of the request, but for the
\* headers that frame it and, through reqwest, Host, an Accept that was not there
\* and the form of the target.
ExecutedAsDispatched ==
    executed # None /\ ~Chunked(request.headers) =>
        LET hyper == transport = "hyper"
            own == IF hyper THEN ReqwestSets(request) ELSE Framing
        IN  /\ executed.result = "message"
            /\ executed.start = IF hyper THEN Normalized[request.start] ELSE request.start
            /\ executed.body = request.body
            /\ Without(executed.headers, own) = Without(request.headers, own)

\* A reply that announces its length is not cached in part: if its headers
\* arrived whole, the outcome has its status and its whole body.  (Where they did
\* not, the blocking transports take what came for a reply and cache it.)
OutcomeWhole ==
    /\ outcome # None
    /\ HasLength(reply.headers)
    /\ Blank \in Range(outbound)
    => outcome.status = reply.start /\ outcome.body = reply.body

\* A retry is answered with the status, the body and the headers the first
\* caller was, but for the header that says so, if the backend repeated no
\* header.
ReplayAsServed ==
    replayed # None /\ Unrepeated(reply.headers) =>
        /\ replayed.start = served.start
        /\ replayed.body = served.body
        /\ Range(Without(replayed.headers, {"onced-status"}))
                = Range(Without(served.headers, {"onced-status"}))

=============================================================================
