-------------------------------- MODULE Pow ---------------------------------
(***************************************************************************)
(* Proof of work (onced-core pow.rs): the server issues a challenge it     *)
(* does not remember, a client looks for a nonce that solves it, and the   *)
(* server derives the challenge again to verify the nonce.                 *)
(*                                                                         *)
(* HMAC-SHA256 is ideal: the challenge is the message it authenticates.    *)
(* SHA-256 is ideal too: the digest of a challenge and a nonce is drawn    *)
(* when somebody first computes it, and stays.  No code calls pow.rs yet,  *)
(* so that its callers are those its documentation describes: they take    *)
(* the difficulty of the moment from difficulty_for on either side.        *)
(***************************************************************************)
EXTENDS Naturals, Sequences, FiniteSets, FiniteSetsExt

CONSTANTS
    ClientIds,      \* identities, as sequences of bytes
    RequestHashes,  \* request hashes, as sequences of one length
    Nonces,
    Digests,        \* the digests that may be drawn: sequences of 32 bytes
    Base,           \* base of difficulty_for
    Overages,       \* how far callers may be over the limit, in eighths of it
    PowWindowMs,    \* window_ms
    MaxPowNow,      \* bound: the last reading of the clock
    MaxDrawn        \* bound: digests computed

ASSUME PowAssumption ==
    /\ ClientIds \subseteq Seq(Nat)
    /\ RequestHashes \subseteq Seq(Nat)
    /\ \A h, g \in RequestHashes : Len(h) = Len(g)
    /\ Digests \subseteq [1..32 -> 0..255]
    /\ Base \in 0..255
    /\ Overages \subseteq Nat
    /\ PowWindowMs \in Nat \ {0}
    /\ {MaxPowNow, MaxDrawn} \subseteq Nat

VARIABLES
    powNow,     \* the server's clock
    issued,     \* the challenge that is followed, to whom, for what and when
    digest,     \* the digests computed so far, by challenge and nonce
    verified,   \* the last submission and its result
    \* History, read by no action:
    drawnFor    \* the client, request and window each digest was computed for

powVars == <<powNow, issued, digest, verified, drawnFor>>

Nothing == [kind |-> "nothing"]

PowInit ==
    /\ powNow = 0
    /\ issued = Nothing
    /\ digest = <<>>
    /\ verified = Nothing
    /\ drawnFor = <<>>

-----------------------------------------------------------------------------
\* Mutant of DifficultyFor: the sum wraps around.
DifficultyWraps(overage) ==
    (Base + Min({(4 * overage) \div 8, 20})) % 256

\* difficulty_for: one step for every quarter of the limit, at most 20, and the
\* sum saturates.
DifficultyFor(overage) ==
    Min({255, Base + Min({(4 * overage) \div 8, 20})})

\* Byte::leading_zeros
ByteZeros(b) == Cardinality({n \in 0..7 : b < 2^n})

\* leading_zero_bits: eight for every zero byte before the first other one.
LeadingZeroBits(d) ==
    LET others == {i \in DOMAIN d : d[i] # 0}
    IN  IF others = {} THEN 8 * Len(d)
        ELSE 8 * (Min(others) - 1) + ByteZeros(d[Min(others)])

\* Mutant of DeriveChallengeAt: the identity is left out of the message.
DeriveChallengeForAnyone(id, hash, w) == <<w>> \o hash

\* build_hmac_message and derive_challenge_at: the identity, the window index
\* (of fixed width) and the request hash one after the other.
DeriveChallengeAt(id, hash, w) == id \o <<w>> \o hash

\* Mutant of Windows: only the current window is accepted.
WindowsCurrent(now) == {now \div PowWindowMs}

\* The windows verify accepts: the current and the preceding one, saturating.
Windows(now) ==
    LET w == now \div PowWindowMs IN {w, IF w = 0 THEN 0 ELSE w - 1}

\* The computations of a digest that check_solution makes for each window.
Computed(id, hash, nonce, windows) ==
    [w \in windows |-> [challenge |-> DeriveChallengeAt(id, hash, w), nonce |-> nonce]]

\* The digests of the computations are drawn, if they have not been before.
Draw(id, hash, computed) ==
    LET new == {computed[w] : w \in DOMAIN computed} \ DOMAIN digest
    IN  /\ Cardinality(DOMAIN digest \union new) <= MaxDrawn
        /\ \E drawn \in [new -> Digests] :
            digest' = [c \in DOMAIN digest \union new |->
                        IF c \in new THEN drawn[c] ELSE digest[c]]
        /\ drawnFor' = [c \in DOMAIN digest \union new |->
                IF c \in new
                THEN [id |-> id, hash |-> hash,
                      window |-> CHOOSE w \in DOMAIN computed : computed[w] = c]
                ELSE drawnFor[c]]

-----------------------------------------------------------------------------
\* challenge: the challenge of the window of the moment, and its difficulty.
\* One challenge is followed; the server keeps nothing of the others.
IssueChallenge(id, hash, overage) ==
    /\ issued = Nothing
    /\ issued' = [kind |-> "challenge", id |-> id, hash |-> hash, at |-> powNow,
                  overage |-> overage, difficulty |-> DifficultyFor(overage),
                  challenge |-> DeriveChallengeAt(id, hash, powNow \div PowWindowMs)]
    /\ verified' = Nothing
    /\ UNCHANGED <<powNow, digest, drawnFor>>

\* The client computes the digest of its challenge and a nonce.
TryNonce(nonce) ==
    /\ issued # Nothing
    /\ Draw(issued.id, issued.hash,
            [w \in {issued.at \div PowWindowMs} |->
                [challenge |-> issued.challenge, nonce |-> nonce]])
    /\ UNCHANGED <<powNow, issued, verified>>

\* verify: whether the nonce solves the challenge of one of the windows.
Verify(id, hash, nonce, overage) ==
    LET computed == Computed(id, hash, nonce, Windows(powNow))
    IN  /\ Draw(id, hash, computed)
        /\ verified' = [kind |-> "submission", id |-> id, hash |-> hash,
                        nonce |-> nonce, at |-> powNow, overage |-> overage,
                        accepted |-> \E w \in DOMAIN computed :
                            LeadingZeroBits(digest'[computed[w]]) >= DifficultyFor(overage)]
        /\ UNCHANGED <<powNow, issued>>

AdvancePowClock ==
    /\ powNow < MaxPowNow
    /\ powNow' = powNow + 1
    /\ UNCHANGED <<issued, digest, verified, drawnFor>>

PowNext ==
    \/ \E id \in ClientIds, hash \in RequestHashes, overage \in Overages :
        \/ IssueChallenge(id, hash, overage)
        \/ \E nonce \in Nonces : Verify(id, hash, nonce, overage)
    \/ \E nonce \in Nonces : TryNonce(nonce)
    \/ AdvancePowClock

PowSpec == PowInit /\ [][PowNext]_powVars

-----------------------------------------------------------------------------
\* A client that found a nonce of the difficulty it was asked for, and submits
\* it with the same request within window_ms, is let through, across the turn
\* of a window too, unless it has meanwhile gone further over the limit.
SolvedAccepted ==
    LET mine == [challenge |-> issued.challenge, nonce |-> verified.nonce]
    IN  /\ issued # Nothing /\ verified # Nothing
        /\ verified.id = issued.id /\ verified.hash = issued.hash
        /\ verified.at <= issued.at + PowWindowMs
        /\ verified.overage <= issued.overage
        /\ mine \in DOMAIN digest
        /\ LeadingZeroBits(digest[mine]) >= issued.difficulty
        => verified.accepted

\* "A valid nonce for /login cannot be submitted against /transfer", nor one
\* "minted for IP A" by IP B, nor later than two windows after it was asked for:
\* a submission passes only on a digest that was computed for the very client
\* and request, in a window that began less than two windows before.
AcceptedAsBound ==
    verified # Nothing /\ verified.accepted =>
        \E c \in DOMAIN digest :
            /\ c.nonce = verified.nonce
            /\ LeadingZeroBits(digest[c]) >= DifficultyFor(verified.overage)
            /\ drawnFor[c].id = verified.id
            /\ drawnFor[c].hash = verified.hash
            /\ drawnFor[c].window * PowWindowMs + 2 * PowWindowMs > verified.at
            /\ drawnFor[c].window * PowWindowMs <= verified.at

=============================================================================
