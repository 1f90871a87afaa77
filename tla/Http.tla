-------------------------------- MODULE Http --------------------------------
(***************************************************************************)
(* HTTP messages and their conversions (onced-gateway http.rs, and the     *)
(* conversions of gateway.rs): parsing a request or a response from the    *)
(* bytes received, serializing one, and turning a response into the        *)
(* outcome that is cached and back.                                        *)
(*                                                                         *)
(* The bytes of a message are a sequence of units: a start line, header    *)
(* lines, the blank line and the bytes of the body.  Where the bytes end   *)
(* inside a line, the line read is Garbled, because it has no colon or no  *)
(* target yet, or it is the line with a shorter value.                     *)
(***************************************************************************)
EXTENDS Naturals, Sequences, FiniteSets, SequencesExt

CONSTANTS
    Text,       \* the targets, the values of headers and the bytes of bodies
    Cut,        \* what is left of a target, a key or a value cut short, and a
                \* length that is no number
    Missing,    \* the value of a header that is not there
    Opaque,     \* a header value that is text, but not visible ASCII
    Close,      \* the value of Connection
    Created, Replayed,  \* the values of Onced-Status
    NameOrder   \* the names of headers, in the order of a BTreeMap

ASSUME HttpAssumption ==
    /\ {Cut, Opaque, Close, Created, Replayed} \subseteq Text
    /\ Missing \notin Text
    /\ {Missing, Cut} \intersect Nat = {}
    /\ NameOrder \in Seq(STRING)
    /\ {"accept", "connection", "content-length", "host", "onced-status"}
            \subseteq Range(NameOrder)

\* The request line with a target, or the status line with a status.
Start(value) == [unit |-> "start", value |-> value]
Status(value) == [unit |-> "status", value |-> value]
Header(name, value) == [unit |-> "header", name |-> name, value |-> value]
Byte(b) == [unit |-> "byte", value |-> b]
Blank == [unit |-> "blank"]
Garbled == [unit |-> "garbled"]

HeaderLines ==
    [unit: {"header"}, name: Range(NameOrder) \ {"content-length"}, value: Text]
        \union [unit: {"header"}, name: {"content-length"}, value: {Cut} \union Nat]

\* A Request or a Response: the target or the status, headers and body.
Message(start, headers, body) ==
    [result |-> "message", start |-> start, headers |-> headers, body |-> body]

Messages ==
    [result: {"message"}, start: Text \union Nat, headers: Seq(HeaderLines),
     body: Seq(Text)]

None == [result |-> "none"]
Error == [result |-> "error"]

\* The bytes of a request and of a response whose headers are as given.
Lines(m) == m.headers \o <<Blank>> \o [i \in DOMAIN m.body |-> Byte(m.body[i])]
RequestWire(m) == <<Start(m.start)>> \o Lines(m)
ResponseWire(m) == <<Status(m.start)>> \o Lines(m)

-----------------------------------------------------------------------------
\* The lines that the first bytes of a line may be taken for.  A number cut
\* short is a smaller number, or none: 500 may become 50 or 5.
CutLines(u) ==
    CASE u.unit = "start" -> {Garbled, Start(Cut)}
      [] u.unit = "status" ->
            {Garbled, Status(u.value \div 10), Status(u.value \div 100)}
      [] u.unit = "header" ->
            {Garbled, Header(u.name, Cut)} \union
                (IF u.name = "content-length" /\ u.value # Cut
                 THEN {Header(u.name, n) : n \in 1..(u.value - 1)} ELSE {})
      [] OTHER -> {}

\* What may have arrived of the units of a message at some moment.
Parts(units) ==
    {SubSeq(units, 1, n) : n \in 0..Len(units)} \union
    UNION {{Append(SubSeq(units, 1, n), u) : u \in CutLines(units[n + 1])} :
                n \in 0..(Len(units) - 1)}

-----------------------------------------------------------------------------
Positions(headers, name) == {i \in DOMAIN headers : headers[i].name = name}

\* Request::header: the first value.
HeaderValue(headers, name) ==
    LET found == Positions(headers, name)
    IN  IF found = {} THEN Missing ELSE headers[Min(found)].value

\* The position of the blank line, or of the end of the bytes.
HeadEnd(units) ==
    LET blanks == {i \in DOMAIN units : units[i] = Blank}
    IN  IF blanks = {} THEN Len(units) + 1 ELSE Min(blanks)

Headers(units) == SubSeq(units, 2, HeadEnd(units) - 1)
Rest(units) == SubSeq(units, HeadEnd(units) + 1, Len(units))

\* The first Content-Length parses as a number.
HasLength(headers) ==
    HeaderValue(headers, "content-length") \notin {Missing, Cut}

\* A Transfer-Encoding is there: the body is in chunks.  Nothing in http.rs
\* looks at it.
Chunked(headers) == Positions(headers, "transfer-encoding") # {}

\* The length the headers announce is that of the body.
Framed(m) ==
    HasLength(m.headers) => HeaderValue(m.headers, "content-length") = Len(m.body)

\* The start line and the headers parse.
HeadParses(units) ==
    units # <<>> /\ \A i \in 1..(HeadEnd(units) - 1) : units[i] # Garbled

\* The message with a body of the first n bytes after the head, if there are n.
TakeBody(units, n) ==
    IF Len(Rest(units)) < n THEN Error
    ELSE Message(units[1].value, Headers(units), [i \in 1..n |-> Rest(units)[i].value])

\* Mutant of ParseRequest: a body that ends early is taken as it is.
ParseRequestShortBody(units) ==
    IF units = <<>> THEN None
    ELSE IF ~HeadParses(units) THEN Error
    ELSE TakeBody(units, Len(Rest(units)))

\* parse_request on bytes after which the reader finds the end of the stream:
\* the end of the stream before the blank line ends the headers as well.
ParseRequest(units) ==
    IF units = <<>> THEN None
    ELSE IF ~HeadParses(units) THEN Error
    ELSE TakeBody(units, IF HasLength(Headers(units))
                         THEN HeaderValue(Headers(units), "content-length") ELSE 0)

\* Mutant of ParseResponse: the body is whatever came.
ParseResponseToEof(units) ==
    IF ~HeadParses(units) THEN Error
    ELSE TakeBody(units, Len(Rest(units)))

\* parse_response: without a length, the body is what comes until the end.
ParseResponse(units) ==
    IF ~HeadParses(units) THEN Error
    ELSE TakeBody(units, IF HasLength(Headers(units))
                         THEN HeaderValue(Headers(units), "content-length")
                         ELSE Len(Rest(units)))

-----------------------------------------------------------------------------
\* The elements of s that are in S, in order.
Kept(s, S) ==
    LET kept[n \in 0..Len(s)] ==
            IF n = 0 THEN <<>>
            ELSE IF s[n] \in S THEN Append(kept[n - 1], s[n])
            ELSE kept[n - 1]
    IN  kept[Len(s)]

Without(headers, names) == Kept(headers, {h \in Range(headers) : h.name \notin names})

\* The headers that the serializer of requests sets itself.
Framing == {"content-length", "connection"}

\* Mutant of WriteRequest: the length of the body is not announced.
WriteRequestUnframed(m) ==
    RequestWire([m EXCEPT !.headers =
        Without(@, Framing) \o <<Header("connection", Close)>>])

\* write_request
WriteRequest(m) ==
    RequestWire([m EXCEPT !.headers =
        Without(@, Framing)
            \o <<Header("content-length", Len(m.body)), Header("connection", Close)>>])

\* write_response
WriteResponse(m) ==
    ResponseWire([m EXCEPT !.headers =
        <<Header("content-length", Len(m.body))>>
            \o Without(@, {"content-length"})])

-----------------------------------------------------------------------------
LastValue(headers, name) == headers[Max(Positions(headers, name))].value

\* Mutant of ToOutcome: a header is left out.
ToOutcomeFewHeaders(m) ==
    [status |-> m.start, body |-> m.body,
     headers |-> [n \in {h.name : h \in Range(m.headers)} \ {"set-cookie"} |->
                    LastValue(m.headers, n)]]

\* to_outcome: the headers are collected into a map, so that the last value of
\* a repeated header is kept.
ToOutcome(m) ==
    [status |-> m.start, body |-> m.body,
     headers |-> [n \in {h.name : h \in Range(m.headers)} |-> LastValue(m.headers, n)]]

\* from_outcome: the headers come back in the order of the map.
FromOutcome(o) ==
    LET names == Kept(NameOrder, DOMAIN o.headers)
    IN  Message(o.status, [i \in DOMAIN names |-> Header(names[i], o.headers[names[i]])],
                o.body)

\* tag
Tag(m, status) == [m EXCEPT !.headers = Append(@, Header("onced-status", status))]

=============================================================================
