------------------------------- MODULE Artifacts -------------------------------
(***************************************************************************)
(* The two services that make evidence: the artifact executor, which runs  *)
(* public checks and reads candidates, and the hidden evaluator            *)
(* (artifact-executor-server.mjs, artifact-evaluator-server.mjs).  Both    *)
(* keep receipts in a state file and share a directory of immutable files: *)
(* candidates named by their content, evidence named by its action.        *)
(*                                                                         *)
(* A measurement differs from run to run; the file of the evidence decides *)
(* which one counts.  A second request for an action whose operation runs  *)
(* joins it, so an operation is known by its action.                       *)
(***************************************************************************)
EXTENDS Naturals, FiniteSets

CONSTANTS
  Checks,       \* actions run_public_checks and, among them,
  Seeds,        \* the checks of the baseline that seed an experiment
  Reads,        \* actions read_candidate
  Evaluations,  \* actions of the evaluator
  SourceOf,     \* the candidate each action is about, named by its content
  Verdicts,     \* what a measurement may show
  MaxFaults,    \* bound of the model: crashes, and measurements that fail to run
  None

Actions == Checks \cup Reads \cup Evaluations
Measured == Checks \cup Evaluations   \* what evidence is made for
Sources == {SourceOf[a] : a \in Actions}
Fail == 0   \* the verdict that is no pass
Services == {"executor", "evaluator"}
ServiceOf(a) == IF a \in Evaluations THEN "evaluator" ELSE "executor"

ASSUME ArtifactsAssumption ==
  /\ Checks \cap Reads = {} /\ (Checks \cup Reads) \cap Evaluations = {}
  /\ Seeds \subseteq Checks
  /\ DOMAIN SourceOf = Actions
  /\ Fail \in Verdicts
  /\ None \notin Actions \cup Verdicts
  /\ MaxFaults \in Nat

VARIABLES
  state,      \* per service, the state object in memory
  disk,       \* per service, the file it was written to last
  candidates, \* the files of the candidates
  evidence,   \* the files of the evidence, one for a check or an evaluation
  op,         \* the operations (pendingActions, pendingSeeds, pending)
  told,       \* per check and evaluation, the verdicts anyone was told
  answered,   \* checks whose operation ended with status 200
  faults      \* crashes and failures so far
files == <<candidates, evidence>>
clients == <<told, answered>>
vars == <<state, disk, files, op, clients, faults>>

Status == {"none", "in_progress", "retryable", "completed", "rejected"}
Record == [status : Status, verdict : Verdicts \cup {None}]
(* The registry of the executor: a candidate and the check that speaks for it. *)
State == [records : [Actions -> Record], registry : [Sources -> Checks \cup {None}]]
FreshState == [records |-> [a \in Actions |-> [status |-> "none", verdict |-> None]],
               registry |-> [s \in Sources |-> None]]

(* A file is written whole, unless the process dies while it writes. *)
Absent == [file |-> "absent", verdict |-> None]
Torn == [file |-> "torn", verdict |-> None]
Whole(verdict) == [file |-> "whole", verdict |-> verdict]
File == [file : {"absent", "torn", "whole"}, verdict : Verdicts \cup {None}]

Saving == {"receipt", "result", "failure"}
Op == [pc : {"idle", "checking", "candidate", "measuring", "evidence"} \cup Saving,
       saved : BOOLEAN, verdict : Verdicts \cup {None}]
At(pc, verdict) == [pc |-> pc, saved |-> FALSE, verdict |-> verdict]
Idle == At("idle", None)

Init ==
  /\ state = [s \in Services |-> FreshState]
  /\ disk = state
  /\ candidates = [s \in Sources |-> Absent]
  /\ evidence = [a \in Measured |-> Absent]
  /\ op = [a \in Actions |-> Idle]
  /\ told = [a \in Measured |-> {}]
  /\ answered = {}
  /\ faults = 0

RecordOf(a) == state[ServiceOf(a)].records[a]
SetRecord(a, status, verdict) ==
  [state EXCEPT ![ServiceOf(a)].records[a] = [status |-> status, verdict |-> verdict]]
Go(a, pc, verdict) == op' = [op EXCEPT ![a] = At(pc, verdict)]
Unawaited(a, pc) == op[a].pc = pc   \* a fault: the answer goes out before the write
Saved(a, pc) == op[a].pc = pc /\ op[a].saved

(* The catch blocks: below 500 an error is final, else the action may be     *)
(* tried again. *)
Fails(a, status) ==
  /\ state' = SetRecord(a, status, None)
  /\ Go(a, "failure", None)

-----------------------------------------------------------------------------
(* A cell asks about a candidate it was told of; the executor makes them.    *)
Known(source) == \E a \in Checks : SourceOf[a] = source /\ told[a] # {}

OnlyRetryable(a) == RecordOf(a).status \in {"none", "retryable"}   \* a fault: what a crash
                                                      \* left in progress stays so
Unsettled(a) == RecordOf(a).status \notin {"completed", "rejected"}

(* receiveAction() and receiveSeed(): settled receipts are replayed, running *)
(* operations joined, everything else begins an operation. *)
Receive(a) ==
  /\ op[a].pc = "idle"
  /\ Unsettled(a)
  /\ a \notin Checks => Known(SourceOf[a])
  /\ state' = SetRecord(a, "in_progress", None)
  /\ Go(a, "receipt", None)
  /\ UNCHANGED <<disk, files, clients, faults>>

(* A duplicate, or the lookup GET /actions/:id, reads a completed receipt in *)
(* memory, whether it is on disk or not. *)
Lookup(a) ==
  /\ a \in Measured
  /\ RecordOf(a).status = "completed"
  /\ told' = [told EXCEPT ![a] = @ \cup {RecordOf(a).verdict}]
  /\ UNCHANGED <<state, disk, files, op, answered, faults>>

(* persist(): the operation goes on when a write that began after its change *)
(* is in place. *)
Write(a) ==
  /\ op[a].pc \in Saving /\ ~op[a].saved
  /\ disk' = [disk EXCEPT ![ServiceOf(a)] = state[ServiceOf(a)]]
  /\ op' = [op EXCEPT ![a].saved = TRUE]
  /\ UNCHANGED <<state, files, clients, faults>>

Answer(a) ==
  /\ Saved(a, "result")
  /\ told' = IF a \in Measured THEN [told EXCEPT ![a] = @ \cup {op[a].verdict}] ELSE told
  /\ answered' = answered \cup ({a} \cap Checks)
  /\ Go(a, "idle", None)
  /\ UNCHANGED <<state, disk, files, faults>>

AnswerFailure(a) ==
  /\ Saved(a, "failure")
  /\ Go(a, "idle", None)
  /\ UNCHANGED <<state, disk, files, clients, faults>>

-----------------------------------------------------------------------------
(* readCandidate(): source and public evidence of a registered candidate.    *)
Read(a) ==
  LET check == state["executor"].registry[SourceOf[a]] IN
  /\ a \in Reads
  /\ Saved(a, "receipt")
  /\ IF check = None THEN Fails(a, "rejected")
     ELSE IF candidates[SourceOf[a]].file = "whole" /\ evidence[check].file = "whole"
     THEN /\ state' = SetRecord(a, "completed", evidence[check].verdict)
          /\ Go(a, "result", evidence[check].verdict)
     ELSE Fails(a, "retryable")
  /\ UNCHANGED <<disk, files, clients, faults>>

(* serializeBenchmark(): one operation of a service at a time is past the    *)
(* queue; of the executor with all its file work, of the evaluator with its  *)
(* sandbox only. *)
PastQueue(a) ==
  op[a].pc \in IF a \in Evaluations THEN {"measuring"}
               ELSE {"candidate", "checking", "measuring", "evidence"}
MyTurn(a) == \A b \in Actions \ {a} : ServiceOf(b) = ServiceOf(a) => ~PastQueue(b)

(* writeImmutable(): the file is created and then written; what is there     *)
(* already must be the same. *)
StartCheck(a) ==
  /\ a \in Checks
  /\ Saved(a, "receipt")
  /\ MyTurn(a)
  /\ CASE candidates[SourceOf[a]].file = "absent" ->
            /\ candidates' = [candidates EXCEPT ![SourceOf[a]] = Torn]
            /\ Go(a, "candidate", None)
            /\ UNCHANGED state
       [] candidates[SourceOf[a]].file = "torn" -> Fails(a, "retryable") /\ UNCHANGED candidates
       [] OTHER -> Go(a, "checking", None) /\ UNCHANGED <<state, candidates>>
  /\ UNCHANGED <<disk, evidence, clients, faults>>

CandidateWritten(a) ==
  /\ op[a].pc = "candidate"
  /\ candidates' = [candidates EXCEPT ![SourceOf[a]] = Whole(None)]
  /\ Go(a, "checking", None)
  /\ UNCHANGED <<state, disk, evidence, clients, faults>>

(* The evaluator must find the candidate that the executor wrote. *)
StartEvaluation(a) ==
  /\ a \in Evaluations
  /\ Saved(a, "receipt")
  /\ CASE candidates[SourceOf[a]].file = "absent" -> Fails(a, "rejected")
       [] candidates[SourceOf[a]].file = "torn" -> Fails(a, "retryable")
       [] OTHER -> Go(a, "checking", None) /\ UNCHANGED state
  /\ UNCHANGED <<disk, files, clients, faults>>

-----------------------------------------------------------------------------
AlwaysLatest(a, verdict) ==   \* a fault: the latest check speaks for the candidate
  [state["executor"].registry EXCEPT ![SourceOf[a]] = a]
(* The registry keeps the first check of a candidate and the latest pass.    *)
Registered(a, verdict) ==
  LET s == SourceOf[a]
      registry == state["executor"].registry
  IN  IF registry[s] = None \/ verdict # Fail THEN [registry EXCEPT ![s] = a] ELSE registry

(* The evidence is in its file: the receipt takes its verdict.  A baseline   *)
(* that fails its checks is an error of the service. *)
Settle(a, verdict) ==
  LET settled == IF a \in Seeds /\ verdict = Fail
                 THEN SetRecord(a, "retryable", None) ELSE SetRecord(a, "completed", verdict)
  IN
  /\ state' = IF a \in Checks
              THEN [settled EXCEPT !["executor"].registry = Registered(a, verdict)] ELSE settled
  /\ IF a \in Seeds /\ verdict = Fail THEN Go(a, "failure", None) ELSE Go(a, "result", verdict)

Remeasures(a) == FALSE   \* a fault: every attempt names its evidence anew
Recovers(a) == evidence[a].file = "whole"

(* readJsonIfPresent(): evidence that an earlier attempt wrote is taken over;*)
(* a torn file is an error. *)
RecoverEvidence(a) ==
  /\ op[a].pc = "checking"
  /\ Recovers(a)
  /\ Settle(a, evidence[a].verdict)
  /\ UNCHANGED <<disk, files, clients, faults>>

EvidenceIsTorn(a) ==
  /\ op[a].pc = "checking"
  /\ evidence[a].file = "torn"
  /\ Fails(a, "retryable")
  /\ UNCHANGED <<disk, files, clients, faults>>

StartMeasuring(a) ==
  /\ op[a].pc = "checking"
  /\ ~Recovers(a) /\ evidence[a].file # "torn"
  /\ MyTurn(a)
  /\ Go(a, "measuring", None)
  /\ UNCHANGED <<state, disk, files, clients, faults>>

(* The sandbox ran (a candidate that exceeds its limits fails), and the      *)
(* evidence file is created ... *)
Measure(a, verdict) ==
  /\ op[a].pc = "measuring"
  /\ evidence' = [evidence EXCEPT ![a] = Torn]
  /\ Go(a, "evidence", verdict)
  /\ UNCHANGED <<state, disk, candidates, clients, faults>>

(* ... or the container could not be run. *)
SandboxFails(a) ==
  /\ op[a].pc = "measuring"
  /\ faults < MaxFaults
  /\ faults' = faults + 1
  /\ Fails(a, "retryable")
  /\ UNCHANGED <<disk, files, clients>>

EvidenceWritten(a) ==
  /\ op[a].pc = "evidence"
  /\ evidence' = [evidence EXCEPT ![a] = Whole(op[a].verdict)]
  /\ Settle(a, op[a].verdict)
  /\ UNCHANGED <<disk, candidates, clients, faults>>

-----------------------------------------------------------------------------
(* A service dies, perhaps in the middle of a file, and starts again on its  *)
(* state file. *)
Crash(service) ==
  /\ faults < MaxFaults
  /\ faults' = faults + 1
  /\ state' = [state EXCEPT ![service] = disk[service]]
  /\ op' = [a \in Actions |-> IF ServiceOf(a) = service THEN Idle ELSE op[a]]
  /\ UNCHANGED <<disk, files, clients>>

Proceed(a) ==
  \/ Write(a) \/ Answer(a) \/ AnswerFailure(a) \/ Read(a) \/ StartCheck(a)
  \/ CandidateWritten(a) \/ StartEvaluation(a) \/ RecoverEvidence(a) \/ EvidenceIsTorn(a)
  \/ StartMeasuring(a) \/ (\E verdict \in Verdicts : Measure(a, verdict)) \/ EvidenceWritten(a)

Next ==
  \/ \E a \in Actions : Receive(a) \/ Lookup(a) \/ Proceed(a) \/ SandboxFails(a)
  \/ \E service \in Services : Crash(service)

(* The event loops run what can run, and whoever has no final answer asks    *)
(* again. *)
Fairness == \A a \in Measured : WF_vars(Receive(a)) /\ WF_vars(Proceed(a))

Spec == Init /\ [][Next]_vars /\ Fairness
-----------------------------------------------------------------------------
(* ... and of each service at most one operation is past the queue. *)
TypeOK ==
  /\ state \in [Services -> State] /\ disk \in [Services -> State]
  /\ candidates \in [Sources -> File]
  /\ evidence \in [Measured -> File]
  /\ op \in [Actions -> Op]
  /\ told \in [Measured -> SUBSET Verdicts]
  /\ answered \subseteq Checks
  /\ faults \in 0..MaxFaults
  /\ \A s \in Services :
       Cardinality({a \in Actions : ServiceOf(a) = s /\ op[a].pc = "measuring"}) <= 1

(* Everyone is told one verdict of a check and of an evaluation, although a  *)
(* receipt may be shown before it is on disk, lost in a crash and measured   *)
(* for again: the immutable file decides (readJsonIfPresent before the       *)
(* sandbox, writeImmutable before the receipt).                              *)
AnswersAgree == \A a \in Measured : Cardinality(told[a]) <= 1

(* No read and no evaluation of a candidate is refused for good once a check *)
(* of it was answered: registry and files outlive every crash (persist       *)
(* before the answer; 404 in readCandidate and boundedCandidateSource).      *)
AnsweredCandidatesExist ==
  [][\A a \in Actions :
       RecordOf(a).status # "rejected" /\ RecordOf(a)'.status = "rejected"
         => \A c \in Checks \cap answered : SourceOf[c] # SourceOf[a]]_vars

(* The registry, in memory and on disk, knows every candidate of a completed *)
(* check, by a check of that very candidate whose evidence is whole, and by  *)
(* one that passed if any completed check passed: a later failure of the     *)
(* same source does not hide a pass (runPublicChecks). *)
RegistryIsBacked ==
  \A service \in {state["executor"], disk["executor"]} : \A s \in Sources :
    LET check == service.registry[s]
        completed == {a \in Checks : SourceOf[a] = s /\ service.records[a].status = "completed"}
    IN  IF check = None THEN completed = {}
        ELSE /\ SourceOf[check] = s
             /\ evidence[check].file = "whole"
             /\ candidates[s].file = "whole"
             /\ (\E a \in completed : service.records[a].verdict # Fail)
                  => evidence[check].verdict # Fail

(* Every check and evaluation is settled for good in the end, unless a crash *)
(* tore a file (no retry repairs it: writeImmutable and readJsonIfPresent    *)
(* only ever fail on it), or a baseline once failed its checks (every retry  *)
(* of the seed takes that evidence over).                                    *)
TornForGood ==
  \/ \E s \in Sources : /\ candidates[s].file = "torn"
                        /\ \A a \in Checks : SourceOf[a] = s => op[a].pc # "candidate"
  \/ \E a \in Measured : evidence[a].file = "torn" /\ op[a].pc # "evidence"
FailedSeed == \E a \in Seeds : evidence[a] = Whole(Fail)
Settles ==
  \A a \in Measured :
    RecordOf(a).status = "in_progress"
      ~> (RecordOf(a).status \in {"completed", "rejected"} \/ TornForGood \/ FailedSeed)
=============================================================================
