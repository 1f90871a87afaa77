------------------------------- MODULE MCEdge --------------------------------
(***************************************************************************)
(* Instances, for TLC, of what stands between clients and the engine: the  *)
(* limiters and the sketch of the abuse stage, proof of work, and the      *)
(* transports.  They share no state, so a behaviour exercises the one      *)
(* chosen at the start and leaves the others in an initial state.          *)
(***************************************************************************)
EXTENDS RateLimiter, Velocity, CountMin, Pow, Transport, TLC

CONSTANTS root, dots, k, c, d   \* targets, values of headers, bytes

VARIABLE device

edgeVars == <<device, vars, velocityVars, sketchVars, powVars, transportVars>>

-----------------------------------------------------------------------------
TwoRules == <<[window |-> 2, limit |-> 1], [window |-> 4, limit |-> 2]>>

\* Identities of which one begins with the other.
TwoIds == {<<1>>, <<1, 1>>}
TwoHashes == {<<1>>, <<2>>}

\* Digests with no zero bit in front, and with 254 of them.
TwoDigests == {[i \in 1..32 |-> 128], [i \in 1..32 |-> IF i < 32 THEN 0 ELSE 3]}

\* The estimate of sketches with few registers: it is never exact.
SomeEstimated ==
    [s \in Sketches |-> IF s = Fresh THEN 0 ELSE Cardinality(Occupied(s)) + 1]

Key(v) == Header("idempotency-key", v)
Length(n) == Header("content-length", n)
Cookie(v) == Header("set-cookie", v)

SomeText == {root, dots, k, c, d, Cut, Opaque, Close, Created, Replayed, FromReqwest}
SomeNames == <<"accept", "connection", "content-length", "host", "idempotency-key",
               "onced-status", "set-cookie", "transfer-encoding">>

\* The dot segments of one target are removed.
SomeNormalized == [t \in SomeText |-> IF t = dots THEN root ELSE t]

\* With and without a key and a body, framed before and after the key, with a
\* key that is not ASCII, with a body over the limit of onced-fast, with headers
\* that reqwest sets itself, and with a body in chunks.
SomeRequests ==
    {Message(root, hs, <<c, d>>) :
        hs \in {<<Key(k), Length(2)>>, <<Length(2), Key(k)>>, <<Length(2)>>,
                <<Key(Opaque), Length(2)>>}}
    \union {Message(root, <<Key(k)>>, <<>>),
            Message(root, <<Key(k), Length(3), Header("connection", c)>>,
                    <<c, d, k>>),
            Message(dots, <<Header("host", c), Key(k), Header("accept", c), Length(1)>>,
                    <<c>>),
            Message(root, <<Key(k), Header("transfer-encoding", c)>>, <<d>>)}

\* Final answers and errors, with a length and without, with a header repeated.
SomeReplies ==
    {Message(status, hs, <<c, k>>) :
        status \in {200, 500},
        hs \in {<<Length(2), Cookie(c)>>, <<Cookie(c)>>,
                <<Cookie(c), Length(2), Cookie(d)>>}}

-----------------------------------------------------------------------------
EdgeInit ==
    /\ device \in {"limiter", "velocity", "sketch", "pow", "transport"}
    /\ Init /\ VelocityInit /\ SketchInit /\ PowInit /\ TransportInit
    /\ device # "velocity" =>
        register = [t \in Targets |-> CHOOSE g \in Registers : TRUE]
    /\ \E high \in Targets : rank = [t \in Targets |-> IF t = high THEN MaxRank ELSE 1]
    /\ device # "sketch" =>
        column = [r \in Rows |-> [i \in Items |-> CHOOSE j \in Columns : TRUE]]
    /\ device # "transport" =>
        transport = "blocking" /\ sent = Message(root, <<Key(k)>>, <<>>)

EdgeNext ==
    /\ \/ /\ device = "limiter" /\ Next
          /\ UNCHANGED <<velocityVars, sketchVars, powVars, transportVars>>
       \/ /\ device = "velocity" /\ VelocityNext
          /\ UNCHANGED <<vars, sketchVars, powVars, transportVars>>
       \/ /\ device = "sketch" /\ SketchNext
          /\ UNCHANGED <<vars, velocityVars, powVars, transportVars>>
       \/ /\ device = "pow" /\ PowNext
          /\ UNCHANGED <<vars, velocityVars, sketchVars, transportVars>>
       \/ /\ device = "transport" /\ TransportNext
          /\ UNCHANGED <<vars, velocityVars, sketchVars, powVars>>
    /\ UNCHANGED device

EdgeSpec == EdgeInit /\ [][EdgeNext]_edgeVars

\* Identities, which are the actors too, and targets are only compared.
Symmetry == Permutations(Identities) \union Permutations(Targets)

=============================================================================
