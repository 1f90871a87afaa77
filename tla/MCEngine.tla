------------------------------ MODULE MCEngine ------------------------------
(***************************************************************************)
(* Instances of Engine and of Simulation for TLC.  A behaviour has one     *)
(* driver: any callers, in any order of their clocks, or the simulation.   *)
(***************************************************************************)
EXTENDS Simulation

CONSTANT CallerOutcomes     \* bound: the outcomes that callers commit

VARIABLE driver

MCInit == driver \in {"callers", "simulation"} /\ SimInit

MCNext ==
    \/ /\ driver = "callers" /\ Next /\ UNCHANGED simVars
       /\ \A k \in Keys : OutcomeIn(index'[k]) \in CallerOutcomes \union {NoOutcome}
    \/ driver = "simulation" /\ SimNext

MCSpec == MCInit /\ [][MCNext /\ UNCHANGED driver]_<<vars, simVars, driver>>

\* Where the simulation drives the engine, its oracle follows the engine
\* exactly (OracleTracksEngine).
SimulationTracksEngine == driver = "simulation" => OracleTracksEngine

\* Keys, fingerprints and outcomes are only ever compared for equality.
Symmetry ==
    Permutations(Keys) \union Permutations(Fingerprints)
        \union Permutations(CallerOutcomes)
        \union Permutations(Outcomes \ CallerOutcomes)

=============================================================================
