------------------------------ MODULE Acceptance ------------------------------
(***************************************************************************)
(* Monotonic artifact acceptance: decideMonotonicAcceptance() of           *)
(* src/src/acceptance.ts, and a lineage of artifacts whose retained member *)
(* is replaced by nothing but its decisions.  Evidence is a sequence, as   *)
(* in the code, because the number of items that name a gate matters.      *)
(* Producers, authorities, details, receipt ids and times are left out:    *)
(* the function only refuses empty ones.                                   *)
(***************************************************************************)
EXTENDS Naturals, Sequences, FiniteSets

CONSTANTS
  Artifacts,   \* artifact identifiers
  Gates,       \* gate names
  Root,        \* the artifact a lineage starts with
  MaxItems,    \* bound of the model: items of evidence
  Empty        \* the empty string

Status == {"passed", "failed"}
Item == [gate : Gates \cup {Empty}, artifact : Artifacts, status : Status]
Evidence == UNION {[1..n -> Item] : n \in 0..MaxItems}
Artifact == [id : Artifacts, parent : Artifacts \cup {Empty}]
Input == [parent : Artifact, candidate : Artifact, parentEvidence : Evidence,
          candidateEvidence : Evidence, required : SUBSET (Gates \cup {Empty})]

ASSUME AcceptanceAssumption ==
  /\ Root \in Artifacts
  /\ MaxItems \in Nat
  /\ Empty \notin Gates \cup Artifacts

Items(evidence, gate) == {i \in DOMAIN evidence : evidence[i].gate = gate}

(* The gates the evidence reports as passed. *)
PassedBy(evidence) ==
  {evidence[i].gate : i \in {j \in DOMAIN evidence : evidence[j].status = "passed"}}

(* validateEvidence() throws. *)
InvalidEvidence(evidence, id) ==
  \E i \in DOMAIN evidence :
    \/ evidence[i].artifact # id
    \/ evidence[i].gate = Empty
    \/ Items(evidence, evidence[i].gate) # {i}

Throws(input) ==
  \/ input.required = {}
  \/ Empty \in input.required
  \/ InvalidEvidence(input.parentEvidence, input.parent.id)
  \/ InvalidEvidence(input.candidateEvidence, input.candidate.id)

OnlyRequired(input) == input.required   \* a fault: the parent's gates are forgotten
GatesToPass(input) == input.required \cup PassedBy(input.parentEvidence)

Passes(evidence, gate) ==
  \E i \in DOMAIN evidence : Items(evidence, gate) = {i} /\ evidence[i].status = "passed"

LineageMatches(input) == input.candidate.parent = input.parent.id

Accepts(input) ==
  /\ LineageMatches(input)
  /\ \A gate \in GatesToPass(input) : Passes(input.candidateEvidence, gate)

-----------------------------------------------------------------------------
VARIABLES
  retained,    \* the artifact the last receipt retained
  evidence,    \* the evidence that was presented for it
  established  \* every gate an accepted artifact passed or had to pass
lineage == <<retained, evidence, established>>

LineageInit ==
  /\ retained = [id |-> Root, parent |-> Empty]
  /\ evidence \in {e \in Evidence : ~InvalidEvidence(e, Root)}
  /\ established = PassedBy(evidence)

(* One call for a revision of the retained artifact.  A call that throws and *)
(* a receipt that rejects leave everything as it is. *)
Decide(candidate, candidateEvidence, required) ==
  LET input == [parent |-> retained, candidate |-> candidate,
                parentEvidence |-> evidence, candidateEvidence |-> candidateEvidence,
                required |-> required]
  IN  /\ ~Throws(input)
      /\ Accepts(input)
      /\ retained' = candidate
      /\ evidence' = candidateEvidence
      /\ established' = established \cup required \cup PassedBy(candidateEvidence)

LineageNext ==
  \E candidate \in Artifact, candidateEvidence \in Evidence,
     required \in SUBSET (Gates \cup {Empty}) :
    Decide(candidate, candidateEvidence, required)

LineageSpec == LineageInit /\ [][LineageNext]_lineage
-----------------------------------------------------------------------------
TypeOK ==
  /\ retained \in Artifact
  /\ evidence \in Evidence
  /\ established \subseteq Gates

(* However long a lineage of accepted revisions grows, the artifact it       *)
(* retains passes every gate that any of its ancestors passed or was         *)
(* required to pass (RUNTIME.md: review or revision cannot regress           *)
(* established work). *)
NothingRegresses == established \subseteq PassedBy(evidence)
=============================================================================
