---------------------------- MODULE StateLemmas ----------------------------
(***************************************************************************)
(* Facts about the stored states of a key and the decisions on them that   *)
(* the proofs of several components rest on.                               *)
(***************************************************************************)
EXTENDS KeyStates, ExtremaLemmas

\* The tag of a state tells which of its three forms it has.
LEMMA Tags ==
    ASSUME NEW s \in KeyState \union {Absent}
    PROVE  /\ s.tag \in {"Absent", "InProgress", "Completed"}
           /\ s.tag = "Absent" <=> s = Absent
           /\ s.tag = "InProgress" <=> s \in InProgressStates
           /\ s.tag = "Completed" <=> s \in CompletedStates
BY DEF KeyState, InProgressStates, CompletedStates, Absent

\* Saturating sums of instants are instants.
LEMMA SaturatingAddType ==
    ASSUME NEW a \in Instants, NEW b \in Instants
    PROVE  SaturatingAdd(a, b) \in Instants
BY DurationsAssumption DEF Instants, SaturatingAdd

\* The expiry of a stored completion is an instant.
LEMMA ExpiresAtType ==
    ASSUME NEW s \in CompletedStates
    PROVE  ExpiresAt(s) \in Instants
BY SaturatingAddType, DurationsAssumption DEF ExpiresAt, CompletedStates, Instants

\* Engine::start records an in-progress state under the fence it minted.
LEMMA StartStateType ==
    ASSUME NEW f \in Nat, NEW fp \in Fingerprints, NEW now \in Instants, NEW a \in Nat
    PROVE  /\ StartState(f, fp, now, a) \in InProgressStates
           /\ StartState(f, fp, now, a) \in KeyState
           /\ StartState(f, fp, now, a).tag = "InProgress"
           /\ StartState(f, fp, now, a).fence = f
           /\ StartState(f, fp, now, a).attempt = a
<1>1. SaturatingAdd(now, LeaseMs) \in Instants
  BY SaturatingAddType, DurationsAssumption DEF Instants
<1>2. QED
  BY <1>1 DEF StartState, InProgress, InProgressStates, KeyState

\* Engine::complete records a completed state with the stored fingerprint.
LEMMA CompletedType ==
    ASSUME NEW fp \in Fingerprints, NEW o \in Outcomes, NEW now \in Instants
    PROVE  /\ Completed(fp, o, now) \in CompletedStates
           /\ Completed(fp, o, now) \in KeyState
           /\ Completed(fp, o, now).tag = "Completed"
           /\ Completed(fp, o, now).outcome = o
BY DEF Completed, CompletedStates, KeyState

\* A request that may start finds no completion still in force.
LEMMA StartFindsNothingInForce ==
    ASSUME NEW s \in KeyState \union {Absent}, NEW fp, NEW now,
           BeginDecision(s, fp, now) = "Start", s.tag = "Completed"
    PROVE  now >= ExpiresAt(s)
BY DEF BeginDecision

=============================================================================
