--------------------------------- MODULE Board ---------------------------------
(***************************************************************************)
(* The receipt board of the swarm (board-server.mjs with the state store   *)
(* of service-utils.mjs) for one experiment: it verifies a seed and the    *)
(* submissions of the cells against the evaluator, and freezes generations.*)
(*                                                                         *)
(* A request runs in stretches between its awaits: a write of the file, an *)
(* answer of the evaluator.  A second request for an id whose operation    *)
(* runs joins it, so an operation is known by its id.  Duplicates and      *)
(* lookups are answered from memory, whether or not the file has it yet.   *)
(* Requests that change nothing (conflicts, redaction) are left out.       *)
(***************************************************************************)
EXTENDS Naturals, FiniteSets

CONSTANTS
  Actions,           \* ids of the submissions
  Payload,           \* per id, what is submitted
  SeedClaim,         \* the candidate of the seed request
  Evaluated,         \* what the evaluator knows: evidence -> receipt
  Seed,              \* the key of the seed
  Expectations,      \* the sets of agents a freeze may wait for
  MaxFaults,         \* bound of the model: crashes of the board, writes that fail,
                     \* and lookups the evaluator does not answer or denies, in all
  None

Agents == {Payload[a].agent : a \in Actions}
Generations == {Payload[a].generation : a \in Actions}
Slots == Agents \X Generations
Evidence == DOMAIN Evaluated
Behaviors == {"seed", "explore", "improve", "challenge", "adopt", "wait"}
Receipt == [candidate : Nat, generation : Nat, behavior : Behaviors]
Claim == [evidence : Evidence \cup {None}, candidate : Nat, behavior : Behaviors]
Requests == Actions \cup {Seed}

ASSUME BoardAssumption ==
  /\ Seed \notin Actions \cup Generations
  /\ Actions \cap Generations = {}
  /\ None \notin Actions \cup {Seed}
  /\ DOMAIN Payload = Actions
  /\ \A a \in Actions :
       /\ Payload[a].candidate \in Claim \cup {None}
       /\ Payload[a].cell \in Claim
       /\ Payload[a].sender \in Agents
  /\ SeedClaim \in Claim
  /\ \A e \in Evidence : Evaluated[e] \in Receipt
  /\ Expectations \subseteq SUBSET Agents
  /\ MaxFaults \in Nat

SlotOf(a) == <<Payload[a].agent, Payload[a].generation>>
Final == {"completed", "rejected"}
Status == {"none", "in_progress", "retryable"} \cup Final
Snapshot == [expected : Expectations, cells : SUBSET Actions]

VARIABLES
  state,     \* the state object in memory
  disk,      \* the file
  broken,    \* is the queue of persist() rejected?
  op,        \* the operations: the maps pendingSeeds, pendingSubmissions, pendingSnapshots
  busy,      \* pendingSubmissionSlots
  accepted,  \* requests whose operation ended with status 200
  frozen,    \* per generation, the snapshot its operation ended with
  told,      \* final answers that were given from memory and are not in the file
  shown,     \* per generation, the snapshots that this process gave out from memory
             \* and that are not in the file
  faults     \* faults so far
vars == <<state, disk, broken, op, busy, accepted, frozen, told, shown, faults>>
clients == <<accepted, frozen, told, shown>>

State == [records : [Requests -> Status],     \* seeds and submissions
          index : [Slots -> Actions \cup {None}],
          evaluations : SUBSET Evidence,
          snapshots : [Generations -> Snapshot \cup {None}]]
FreshState == [records |-> [k \in Requests |-> "none"],
               index |-> [s \in Slots |-> None],
               evaluations |-> {},
               snapshots |-> [g \in Generations |-> None]]

Saving == {"receipt", "candidate_evaluation", "cell_evaluation", "result", "failure"}
Op == [pc : {"idle", "candidate", "cell"} \cup Saving, saved : BOOLEAN]
At(pc) == [pc |-> pc, saved |-> FALSE]
Idle == At("idle")

Init ==
  /\ state = FreshState
  /\ disk = FreshState
  /\ broken = FALSE
  /\ op = [k \in Requests \cup Generations |-> Idle]
  /\ busy = [s \in Slots |-> None]
  /\ accepted = {}
  /\ frozen = [g \in Generations |-> None]
  /\ told = {}
  /\ shown = [g \in Generations |-> {}]
  /\ faults = 0

-----------------------------------------------------------------------------
(* persist(): an operation waits for a write of whatever the state object    *)
(* holds when the write starts, and goes on when the file is in place.       *)
Answers(s) == {<<k, s.records[k]>> : k \in Requests}

Write(k) ==
  /\ op[k].pc \in Saving /\ ~op[k].saved
  /\ ~broken
  /\ disk' = state
  /\ op' = [op EXCEPT ![k].saved = TRUE]
  /\ told' = told \ Answers(state)
  /\ shown' = [g \in Generations |-> shown[g] \ {state.snapshots[g]}]
  /\ UNCHANGED <<state, broken, busy, accepted, frozen, faults>>

(* A write fails: the chain of promises stays rejected, and with it every    *)
(* later persist(). *)
WriteFails(k) ==
  /\ op[k].pc \in Saving /\ ~op[k].saved
  /\ ~broken
  /\ faults < MaxFaults
  /\ faults' = faults + 1
  /\ broken' = TRUE
  /\ UNCHANGED <<state, disk, op, busy, clients>>

Unawaited(k, pc) == op[k].pc = pc   \* a fault: the answer goes out before the write
Saved(k, pc) == op[k] = [pc |-> pc, saved |-> TRUE]

(* In finally, the operation of a submission gives its slot back. *)
FreeSlot(k) == [s \in Slots |-> IF busy[s] = k THEN None ELSE busy[s]]

(* The operation ends and leaves pendingSeeds or pendingSubmissions. *)
End(k) ==
  /\ op' = [op EXCEPT ![k] = Idle]
  /\ busy' = FreeSlot(k)

(* The catch block: errors below 500 are final, the others may be retried.   *)
Fail(k, status) ==
  /\ state' = [state EXCEPT !.records[k] = status]
  /\ op' = [op EXCEPT ![k] = At("failure")]

FailureSaved(k) ==
  /\ Saved(k, "failure")
  /\ End(k)
  /\ UNCHANGED <<state, disk, broken, clients, faults>>

(* persist() rejects: inside try the catch block runs and rejects in turn.   *)
PersistRejects(k) ==
  /\ op[k].pc \in Saving /\ ~op[k].saved
  /\ broken
  /\ End(k)
  /\ state' = IF op[k].pc \in {"receipt", "failure"} THEN state
              ELSE [state EXCEPT !.records[k] = "retryable"]
  /\ UNCHANGED <<disk, broken, clients, faults>>

-----------------------------------------------------------------------------
(* The evaluator has the receipt, or has it not (a 404 becomes 409, which is *)
(* final), or gives no usable answer in time (502).  It answers lookups from *)
(* memory, so that it may have lost a receipt it once showed. *)
TruthOf(claim) == IF claim.evidence \in Evidence THEN "found" ELSE "missing"
EvaluatorGet(claim) ==
  {TruthOf(claim)} \cup (IF faults < MaxFaults THEN {"unavailable", "missing"} ELSE {})

(* verifiedEvaluation(): the board keeps the receipts it has seen, and asks  *)
(* the evaluator for the others. *)
EvaluationSave(pc) == IF pc = "candidate" THEN "candidate_evaluation" ELSE "cell_evaluation"

Verified(k, pc, claim) ==
  \/ op[k].pc = pc /\ claim.evidence \in state.evaluations
  \/ Saved(k, EvaluationSave(pc))

FetchReceipt(k, pc, claim) ==
  /\ op[k].pc = pc
  /\ claim.evidence \notin state.evaluations
  /\ \E answer \in EvaluatorGet(claim) :
       /\ \/ /\ answer = "found"
             /\ state' = [state EXCEPT !.evaluations = @ \cup {claim.evidence}]
             /\ op' = [op EXCEPT ![k] = At(EvaluationSave(pc))]
          \/ answer = "missing" /\ Fail(k, "rejected")
          \/ answer = "unavailable" /\ Fail(k, "retryable")
       /\ faults' = IF answer = TruthOf(claim) THEN faults ELSE faults + 1
  /\ UNCHANGED <<disk, broken, busy, clients>>

MatchesEvaluation(claim) == claim.candidate = Evaluated[claim.evidence].candidate

InScope(claim, generation, exact) ==
  /\ MatchesEvaluation(claim)
  /\ Evaluated[claim.evidence].generation <= generation
  /\ exact => Evaluated[claim.evidence].generation = generation

-----------------------------------------------------------------------------
OnlyRetryable(k) == state.records[k] \in {"none", "retryable"}   \* a fault: a record that a
                                                     \* crash left in progress stays so
Unsettled(k) == state.records[k] \notin Final

(* receiveSeed() and receiveSubmission(): settled records are replayed, a    *)
(* running operation is joined, everything else begins an operation.         *)
Receive(k) ==
  /\ op[k].pc = "idle"
  /\ k # Seed => Seed \in accepted   \* the driver wakes the cells when its seed is saved
  /\ Unsettled(k)
  /\ state' = [state EXCEPT !.records[k] = "in_progress"]
  /\ op' = [op EXCEPT ![k] = At("receipt")]
  /\ UNCHANGED <<disk, broken, busy, clients, faults>>

ReceiveSeed == Receive(Seed)

(* A duplicate, or a lookup, is answered from the record in memory, also     *)
(* before it is on disk: then a crash or a failed write takes it back. *)
Replay(k) ==
  /\ state.records[k] \in Final
  /\ told' = told \cup ({<<k, state.records[k]>>} \ Answers(disk))
  /\ UNCHANGED <<state, disk, broken, op, busy, accepted, frozen, shown, faults>>

(* executeSeed(): the evaluation must be one of a seed, in generation 0.     *)
BeginSeed ==
  /\ Saved(Seed, "receipt")
  /\ op' = [op EXCEPT ![Seed] = At("candidate")]
  /\ UNCHANGED <<state, disk, broken, busy, clients, faults>>

SeedVerified ==
  /\ Verified(Seed, "candidate", SeedClaim)
  /\ IF InScope(SeedClaim, 0, TRUE) /\ Evaluated[SeedClaim.evidence].behavior = "seed"
     THEN /\ state' = [state EXCEPT !.records[Seed] = "completed"]
          /\ op' = [op EXCEPT ![Seed] = At("result")]
     ELSE Fail(Seed, "rejected")
  /\ UNCHANGED <<disk, broken, busy, clients, faults>>

SeedSaved ==
  /\ Saved(Seed, "result")
  /\ accepted' = accepted \cup {Seed}
  /\ End(Seed)
  /\ UNCHANGED <<state, disk, broken, frozen, told, shown, faults>>

-----------------------------------------------------------------------------
(* executeSubmission() up to its first await: the slot of the cell and       *)
(* generation is taken, and four things are looked at that later steps of    *)
(* others may change. *)
NotFrozen(g) == state.snapshots[g] = None

AnySlot(a) == TRUE   \* a fault: a busy slot is not looked at
SlotFree(a) == busy[SlotOf(a)] \in {None, a}

Admissible(a) ==
  /\ state.records[Seed] = "completed"
  /\ NotFrozen(Payload[a].generation)
  /\ state.index[SlotOf(a)] \in {None, a}

SubmitsForItself(a) == Payload[a].sender = Payload[a].agent

BeginSubmission(a) ==
  /\ Saved(a, "receipt")
  /\ IF ~SubmitsForItself(a) \/ ~SlotFree(a)
     THEN Fail(a, "rejected") /\ UNCHANGED busy
     ELSE /\ busy' = [busy EXCEPT ![SlotOf(a)] = a]
          /\ IF Admissible(a)
             THEN /\ op' = [op EXCEPT ![a] =
                       At(IF Payload[a].candidate = None THEN "cell" ELSE "candidate")]
                  /\ UNCHANGED state
             ELSE Fail(a, "rejected")
  /\ UNCHANGED <<disk, broken, clients, faults>>

CandidateVerified(a) ==
  LET candidate == Payload[a].candidate
      exact == candidate.behavior \in {"explore", "improve", "challenge"}
  IN
  /\ candidate # None
  /\ Verified(a, "candidate", candidate)
  /\ IF InScope(candidate, Payload[a].generation, exact)
     THEN op' = [op EXCEPT ![a] = At("cell")] /\ UNCHANGED state
     ELSE Fail(a, "rejected")
  /\ UNCHANGED <<disk, broken, busy, clients, faults>>

(* The submitted candidate is the cell's own, or challenges with evidence.   *)
CandidateFitsCell(a) ==
  LET candidate == Payload[a].candidate IN
  candidate # None =>
    IF candidate.behavior = "challenge"
    THEN Evaluated[candidate.evidence].behavior = "challenge"
    ELSE candidate.candidate = Payload[a].cell.candidate

CellVerified(a) ==
  /\ Verified(a, "cell", Payload[a].cell)
  /\ IF InScope(Payload[a].cell, Payload[a].generation, FALSE) /\ CandidateFitsCell(a)
     THEN /\ state' = [state EXCEPT !.records[a] = "completed", !.index[SlotOf(a)] = a]
          /\ op' = [op EXCEPT ![a] = At("result")]
     ELSE Fail(a, "rejected")
  /\ UNCHANGED <<disk, broken, busy, clients, faults>>

(* The acceptance is on disk, and whoever waits for it is told.              *)
SubmissionSaved(a) ==
  /\ Saved(a, "result")
  /\ accepted' = accepted \cup {a}
  /\ End(a)
  /\ UNCHANGED <<state, disk, broken, frozen, told, shown, faults>>

-----------------------------------------------------------------------------
(* freezeSnapshot() collects what is completed and, if the driver names the  *)
(* agents it waits for, refuses to go on without one of them (409). *)
Completed(g) == {a \in Actions : state.records[a] = "completed" /\ Payload[a].generation = g}
AgentsOf(submissions) == {Payload[a].agent : a \in submissions}

AllExpected(expected, g) == expected \subseteq AgentsOf(Completed(g))

Freeze(g, expected) ==
  /\ op[g].pc = "idle"
  /\ NotFrozen(g)
  /\ AllExpected(expected, g)
  /\ \E cells \in SUBSET Completed(g) :   \* the map byAgent keeps one of each agent
       /\ AgentsOf(cells) = AgentsOf(Completed(g))
       /\ Cardinality(cells) = Cardinality(AgentsOf(cells))
       /\ state' = [state EXCEPT !.snapshots[g] = [expected |-> expected, cells |-> cells]]
  /\ op' = [op EXCEPT ![g] = At("result")]
  /\ UNCHANGED <<disk, broken, busy, clients, faults>>

FreezeSaved(g) ==
  /\ Saved(g, "result")
  /\ frozen' = [frozen EXCEPT ![g] = state.snapshots[g]]
  /\ op' = [op EXCEPT ![g] = Idle]
  /\ UNCHANGED <<state, disk, broken, busy, accepted, told, shown, faults>>

(* A second freeze, or a view, is given the snapshot that is in memory. *)
ReplaySnapshot(g) ==
  /\ ~NotFrozen(g)
  /\ shown' = [shown EXCEPT ![g] = @ \cup ({state.snapshots[g]} \ {disk.snapshots[g]})]
  /\ UNCHANGED <<state, disk, broken, op, busy, accepted, frozen, told, faults>>

(* The snapshot that could not be written stays in memory. *)
FreezeRejects(g) ==
  /\ op[g] = At("result")
  /\ broken
  /\ op' = [op EXCEPT ![g] = Idle]
  /\ UNCHANGED <<state, disk, broken, busy, clients, faults>>

-----------------------------------------------------------------------------
(* The process ends and starts again on the file.  (Restarting it after a    *)
(* failed write is not a fault of its own.) *)
Crash ==
  /\ broken \/ faults < MaxFaults
  /\ faults' = IF broken THEN faults ELSE faults + 1
  /\ state' = disk
  /\ broken' = FALSE
  /\ op' = [k \in Requests \cup Generations |-> Idle]
  /\ busy' = [s \in Slots |-> None]
  /\ shown' = [g \in Generations |-> {}]
  /\ UNCHANGED <<disk, accepted, frozen, told>>

(* A client asks until it has a final answer.  (What the file has is final   *)
(* anyhow.) *)
Told(k) == \E status \in Final : <<k, status>> \in told
Asks(k) == ~Told(k) /\ Receive(k)

SeedStep == BeginSeed \/ FetchReceipt(Seed, "candidate", SeedClaim) \/ SeedVerified \/ SeedSaved
SubmissionStep(a) ==
  \/ BeginSubmission(a)
  \/ Payload[a].candidate # None /\ FetchReceipt(a, "candidate", Payload[a].candidate)
  \/ FetchReceipt(a, "cell", Payload[a].cell)
  \/ CandidateVerified(a) \/ CellVerified(a) \/ SubmissionSaved(a)
Settling(k) == Write(k) \/ FailureSaved(k) \/ PersistRejects(k)

Next ==
  \/ ReceiveSeed \/ SeedStep
  \/ \E a \in Actions : Receive(a) \/ SubmissionStep(a)
  \/ \E k \in Requests : Replay(k) \/ Settling(k) \/ WriteFails(k)
  \/ \E g \in Generations :
       \/ \E expected \in Expectations : Freeze(g, expected)
       \/ Write(g) \/ WriteFails(g) \/ FreezeSaved(g) \/ FreezeRejects(g) \/ ReplaySnapshot(g)
  \/ Crash

(* The event loop runs what can run, and a client that got no final answer   *)
(* asks again.  Nobody is obliged to freeze, and faults need not happen.     *)
GoesOn ==
  \/ SeedStep
  \/ \E a \in Actions : SubmissionStep(a)
  \/ \E k \in Requests : Asks(k) \/ Settling(k)
Fairness == WF_vars(GoesOn)

Spec == Init /\ [][Next]_vars /\ Fairness
-----------------------------------------------------------------------------
TypeOK ==
  /\ {state, disk} \subseteq State
  /\ broken \in BOOLEAN
  /\ op \in [Requests \cup Generations -> Op]
  /\ busy \in [Slots -> Actions \cup {None}]
  /\ accepted \subseteq Requests
  /\ frozen \in [Generations -> Snapshot \cup {None}]
  /\ told \subseteq Requests \X Final
  /\ shown \in [Generations -> SUBSET Snapshot]
  /\ faults \in 0..MaxFaults

(* What an operation ended with is on disk and in memory, whatever crashes   *)
(* and failed writes follow: an accepted submission stays accepted, and a    *)
(* snapshot is the one that was handed out (persist before every answer).    *)
(* What duplicates and lookups were given before it was in the file stays    *)
(* true in memory: of a request until something fails, of a snapshot until   *)
(* the process dies (receiveSubmission, receiveSnapshotFreeze). *)
Lasts(s) ==
  /\ \A k \in accepted : s.records[k] = "completed"
  /\ \A g \in Generations : frozen[g] # None => s.snapshots[g] = frozen[g]
NothingRetracted ==
  /\ faults = 0 => \A k \in Requests, status \in Final :
                     <<k, status>> \in told => state.records[k] = status
  /\ \A g \in Generations : shown[g] \subseteq {state.snapshots[g]}
AnswersAreKept == Lasts(state) /\ Lasts(disk) /\ NothingRetracted

(* The file keeps the contract of the board: a submission that looked for a  *)
(* snapshot, waits for the evaluator and completes after the freeze was not  *)
(* waited for; whoever was waited for is in the snapshot with the one        *)
(* submission it had accepted (executeSubmission, freezeSnapshot). *)
Contract == INSTANCE BoardContract WITH
  AgentOf <- [a \in Actions |-> Payload[a].agent],
  GenerationOf <- [a \in Actions |-> Payload[a].generation],
  accepted <- {a \in Actions : disk.records[a] = "completed"},
  frozen <- disk.snapshots,
  NoSnapshot <- None
KeepsContract == Contract!Spec

(* The seed and every submission a cell keeps posting is accepted or refused *)
(* for good in the end, after any crashes and outages, unless a write failed *)
(* and nobody restarts the board (the queue of persist() never recovers by   *)
(* itself), or its client was answered from memory and asks no more when a   *)
(* fault has taken that answer back.  Without a seed no cell is woken. *)
IsSettled(k) == disk.records[k] \in Final
Abandoned(k) == Told(k) /\ op[k].pc = "idle"
AllSettled ==
  \A k \in Requests : IsSettled(k) \/ Abandoned(k) \/ (k # Seed /\ Seed \notin accepted)
Settles == []<>~broken => <>[]AllSettled
=============================================================================
