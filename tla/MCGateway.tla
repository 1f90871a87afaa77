------------------------------ MODULE MCGateway ------------------------------
(***************************************************************************)
(* Instances of Gateway for TLC.                                           *)
(***************************************************************************)
EXTENDS Gateway, TLC

\* All the requests meet in one shard; with several shards a request without a
\* key stays away, and /metrics is asked for.
StaysAway(r) == pc[r] = "idle" /\ req[r].key = NoKey

MCInit == Init /\ (shardCount > 1 => \E r \in Requests : StaysAway(r))

MCNext ==
    /\ Next
    /\ IF shardCount > 1 THEN \E r \in Requests : StaysAway(r)'
       ELSE scrape' = NoScrape

MCSpec == MCInit /\ [][MCNext]_vars

\* Nobody has to ask for /metrics for requests to be answered.
LiveSpec == Init /\ [][Next /\ scrape' = NoScrape]_vars /\ Fairness

\* Requests start alike, and keys and fingerprints are only compared.
Symmetry ==
    Permutations(Requests) \union Permutations(Keys)
        \union Permutations(Fingerprints)

=============================================================================
