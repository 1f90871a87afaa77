------------------------------ MODULE MCStores ------------------------------
(***************************************************************************)
(* Instances of the two stores, WalStore and ReplicatedStore, for TLC.     *)
(* They share no state, so a behaviour exercises the one chosen at the     *)
(* start and leaves the other as it is.                                    *)
(***************************************************************************)
EXTENDS WalStore, ReplicatedStore

VARIABLE store

StoresInit ==
    /\ store \in {"log", "replicated"}
    /\ Init /\ ReplInit
    /\ store # "log" => syncEach

StoresNext ==
    \/ store = "log" /\ Next /\ UNCHANGED <<store, replVars>>
    \/ store = "replicated" /\ ReplNext /\ UNCHANGED <<store, vars>>

StoresSpec == StoresInit /\ [][StoresNext]_<<store, vars, replVars>>

\* Keys and nodes are only compared.
Symmetry ==
    Permutations(Keys) \union Permutations(ReplKeys) \union Permutations(Nodes)

=============================================================================
