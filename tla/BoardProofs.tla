------------------------------ MODULE BoardProofs ------------------------------
(***************************************************************************)
(* For any submissions, evaluations, expectations and number of faults:    *)
(* the board keeps the answers it gave, and its file keeps the contract.   *)
(***************************************************************************)
EXTENDS Board, TLAPS

(* What an operation is before it has a result, and while it holds its slot. *)
Claiming == {"candidate", "cell", "candidate_evaluation", "cell_evaluation"}
Underway == Claiming \cup {"receipt"}

CompletedOf(s) == {a \in Actions : s.records[a] = "completed"}

(* The record says what the operation has come to, and only the operation    *)
(* that waits for its write knows of an acceptance that is not on disk. *)
RecordsFit ==
  \A k \in Requests :
    /\ op[k].pc \in Underway => state.records[k] = "in_progress"
    /\ op[k].pc = "result" => state.records[k] = "completed"
    /\ state.records[k] = "completed" => \/ disk.records[k] = "completed"
                                         \/ op[k] = At("result")

(* While the queue of writes works, memory is not behind the file. *)
DiskIsBehind ==
  ~broken => \A k \in Requests : disk.records[k] = "completed" => state.records[k] = "completed"

AcceptedStay ==
  \A k \in accepted :
    op[k].pc = "idle" /\ state.records[k] = "completed" /\ disk.records[k] = "completed"

SnapshotsStay ==
  \A g \in Generations :
    /\ disk.snapshots[g] # None => state.snapshots[g] = disk.snapshots[g]
    /\ op[g] = [pc |-> "result", saved |-> TRUE] => disk.snapshots[g] = state.snapshots[g]
    /\ frozen[g] # None => disk.snapshots[g] = frozen[g]

(* Whoever holds a slot will not find it taken when the evaluator answers. *)
SlotsHold ==
  \A a \in Actions : op[a].pc \in Claiming =>
    busy[SlotOf(a)] = a /\ state.index[SlotOf(a)] \in {None, a}

Indexed(s) == \A a \in CompletedOf(s) : s.index[SlotOf(a)] = a
Full(s) ==
  \A g \in Generations : s.snapshots[g] # None =>
    Contract!Complete(g, s.snapshots[g], CompletedOf(s))

(* The file is complete, and memory is until a write fails. *)
SnapshotsFull == Full(disk) /\ (~broken => Full(state))
IndexesFit == Indexed(state) /\ Indexed(disk)

(* What was given from memory is there until something fails.                *)
BrokenIsFault == broken => faults # 0
GivenFit ==
  /\ faults = 0 => \A k \in Requests, status \in Final :
                     <<k, status>> \in told => state.records[k] = status
  /\ \A g \in Generations : shown[g] \subseteq {state.snapshots[g]} \ {None}

IInv ==
  /\ TypeOK /\ RecordsFit /\ DiskIsBehind /\ AcceptedStay /\ BrokenIsFault /\ GivenFit
  /\ SnapshotsStay /\ SlotsHold /\ IndexesFit /\ SnapshotsFull
-----------------------------------------------------------------------------
(* What the steps do to an operation, to its record and to its slot.         *)
Records == state'.index = state.index /\ state'.snapshots = state.snapshots
SameState == state' \in State /\ state'.records = state.records /\ Records
SetRecord(k, status) ==
  state' \in State /\ state'.records = [state.records EXCEPT ![k] = status] /\ Records
GoTo(k, x) == x \in Op /\ op' = [op EXCEPT ![k] = x]

Begins(k) ==
  /\ op[k].pc = "idle" /\ Unsettled(k)
  /\ SetRecord(k, "in_progress") /\ GoTo(k, At("receipt"))
  /\ UNCHANGED <<disk, broken, busy, accepted, frozen>>
Writes(k) ==
  /\ ~broken /\ op[k].saved = FALSE
  /\ disk' = state
  /\ op' = [op EXCEPT ![k].saved = TRUE]
  /\ UNCHANGED <<state, broken, busy, accepted, frozen>>
Breaks == broken' = TRUE /\ faults' # 0 /\ UNCHANGED <<state, disk, op, busy, accepted, frozen>>
GivesUp(k) ==
  /\ \/ SameState /\ op[k].pc \in {"receipt", "failure"}
     \/ SetRecord(k, "retryable") /\ op[k].pc # "idle" /\ broken
  /\ GoTo(k, Idle) /\ busy' = FreeSlot(k)
  /\ UNCHANGED <<disk, broken, accepted, frozen>>
TakesSlot(k) ==
  /\ op[k].pc = "receipt" /\ k \in Actions /\ SlotFree(k)
  /\ busy' = [busy EXCEPT ![SlotOf(k)] = k]
Advances(k) ==
  /\ \E pc \in Claiming : GoTo(k, At(pc))
  /\ \/ op[k].pc \in Claiming /\ busy' = busy
     \/ op[k].pc = "receipt" /\ k = Seed /\ busy' = busy
     \/ TakesSlot(k) /\ state.index[SlotOf(k)] \in {None, k}
  /\ SameState
  /\ UNCHANGED <<disk, broken, accepted, frozen>>
Fails(k) ==
  /\ op[k].pc \in Underway
  /\ SetRecord(k, "rejected") \/ SetRecord(k, "retryable")
  /\ GoTo(k, At("failure"))
  /\ busy' = busy \/ TakesSlot(k)
  /\ UNCHANGED <<disk, broken, accepted, frozen>>
Completes(k) ==
  /\ op[k].pc \in Claiming /\ k \in Requests
  /\ state' \in State
  /\ state'.records = [state.records EXCEPT ![k] = "completed"]
  /\ state'.index = IF k = Seed THEN state.index ELSE [state.index EXCEPT ![SlotOf(k)] = k]
  /\ state'.snapshots = state.snapshots
  /\ GoTo(k, At("result"))
  /\ UNCHANGED <<disk, broken, busy, accepted, frozen>>
Ends(k) ==
  /\ op[k] = [pc |-> "result", saved |-> TRUE]
  /\ accepted' = accepted \cup {k}
  /\ GoTo(k, Idle) /\ busy' = FreeSlot(k)
  /\ SameState
  /\ UNCHANGED <<disk, broken, frozen>>
Freezes(g, snapshot) ==
  /\ op[g].pc = "idle" /\ state.snapshots[g] = None
  /\ snapshot.expected \subseteq AgentsOf(Completed(g))
  /\ snapshot.cells \subseteq Completed(g) /\ AgentsOf(snapshot.cells) = AgentsOf(Completed(g))
  /\ state' \in State
  /\ state'.records = state.records /\ state'.index = state.index
  /\ state'.snapshots = [state.snapshots EXCEPT ![g] = snapshot]
  /\ GoTo(g, At("result"))
  /\ UNCHANGED <<disk, broken, busy, accepted, frozen>>
HandsOut(g) ==
  /\ frozen' = [frozen EXCEPT ![g] = state.snapshots[g]] /\ op[g] = [pc |-> "result", saved |-> TRUE]
  /\ GoTo(g, Idle)
  /\ UNCHANGED <<state, disk, broken, busy, accepted>>
Forgets(g) == GoTo(g, Idle) /\ UNCHANGED <<state, disk, broken, busy, accepted, frozen>>
Restarts ==
  /\ state' = disk /\ broken' = FALSE /\ (broken \/ faults' # 0)
  /\ \A g \in Generations : shown'[g] = {}
  /\ op' = [k \in Requests \cup Generations |-> Idle]
  /\ busy' = [s \in Slots |-> None]
  /\ UNCHANGED <<disk, accepted, frozen>>

Shapes ==
  \/ \E k \in Requests : \/ Begins(k) \/ GivesUp(k) \/ Advances(k) \/ Fails(k)
                         \/ Completes(k) \/ Ends(k)
  \/ \E k \in Requests \cup Generations : Writes(k)
  \/ \E g \in Generations : HandsOut(g) \/ Forgets(g) \/ \E snapshot \in Snapshot : Freezes(g, snapshot)
  \/ Breaks \/ Restarts
  \/ UNCHANGED <<state, disk, broken, op, busy, accepted, frozen>>

-----------------------------------------------------------------------------
LEMMA SlotsOfActions == \A a \in Actions : SlotOf(a) \in Slots /\ Payload[a].generation \in Generations
BY DEF SlotOf, Slots, Agents, Generations

LEMMA InitType == Init => TypeOK
<1> SUFFICES ASSUME Init PROVE TypeOK
  OBVIOUS
<1>1. FreshState \in State
  BY BoardAssumption DEF FreshState, State, Status, Final
<1>2. Idle \in Op
  BY DEF Idle, At, Op
<1>3. {state, disk} \subseteq State /\ op \in [Requests \cup Generations -> Op]
  BY <1>1, <1>2 DEF Init
<1>4. busy \in [Slots -> Actions \cup {None}] 
  BY DEF Init
<1>5. accepted \subseteq Requests /\ frozen \in [Generations -> Snapshot \cup {None}]
  BY DEF Init
<1>6. broken \in BOOLEAN
  BY DEF Init
<1>8. faults \in 0..MaxFaults
  BY BoardAssumption DEF Init
<1>7. told \subseteq Requests \X Final /\ shown \in [Generations -> SUBSET Snapshot]
  BY DEF Init
<1>9. QED
  BY <1>3, <1>4, <1>5, <1>6, <1>7, <1>8 DEF TypeOK

LEMMA OpTypes ==
  /\ \A pc \in {"idle", "candidate", "cell"} \cup Saving : At(pc) \in Op
  /\ Idle \in Op
BY DEF At, Op, Idle, Saving

LEMMA RecordSet ==
  ASSUME TypeOK, NEW k \in Requests, NEW status \in Status, state' = [state EXCEPT !.records[k] = status]
  PROVE  SetRecord(k, status)
BY DEF TypeOK, State, SetRecord, Records

Typed ==
  /\ state' \in State /\ disk' \in State /\ broken' \in BOOLEAN
  /\ op' \in [Requests \cup Generations -> Op] /\ busy' \in [Slots -> Actions \cup {None}]
  /\ accepted' \subseteq Requests /\ frozen' \in [Generations -> Snapshot \cup {None}]

(* The shape of a step tells the types of all it leaves, but for the faults. *)
LEMMA ShapeType ==
  ASSUME TypeOK, Shapes
  PROVE  Typed
<1> USE DEF TypeOK
<1>1. ASSUME NEW k \in Requests, Begins(k) PROVE Typed
  BY <1>1 DEF Begins, GoTo, SetRecord, Typed
<1>3. ASSUME NEW k \in Requests, GivesUp(k) PROVE Typed
  BY <1>3 DEF GivesUp, GoTo, FreeSlot, SetRecord, SameState, Typed
<1>4. ASSUME NEW k \in Requests, Advances(k) PROVE Typed
  BY <1>4, SlotsOfActions DEF Advances, GoTo, TakesSlot, SameState, Typed
<1>5. ASSUME NEW k \in Requests, Fails(k) PROVE Typed
  BY <1>5, SlotsOfActions DEF Fails, GoTo, TakesSlot, SetRecord, Typed
<1>6. ASSUME NEW k \in Requests, Completes(k) PROVE Typed
  BY <1>6 DEF Completes, GoTo, Typed
<1>7. ASSUME NEW k \in Requests, Ends(k) PROVE Typed
  BY <1>7 DEF Ends, GoTo, FreeSlot, SameState, Typed
<1>8. ASSUME NEW k \in Requests \cup Generations, Writes(k) PROVE Typed
  BY <1>8 DEF Writes, Typed, Op
<1>9. ASSUME NEW g \in Generations, HandsOut(g) PROVE Typed
  <2>1. state.snapshots[g] \in Snapshot \cup {None}
    BY DEF State
  <2>2. QED
    BY <1>9, <2>1 DEF HandsOut, GoTo, Typed
<1>10. ASSUME NEW g \in Generations, Forgets(g) PROVE Typed
  BY <1>10 DEF Forgets, GoTo, Typed
<1>11. ASSUME NEW g \in Generations, NEW snapshot \in Snapshot, Freezes(g, snapshot) PROVE Typed
  BY <1>11 DEF Freezes, GoTo, Typed
<1>12. CASE Breaks
  BY <1>12 DEF Breaks, Typed
<1>13. CASE Restarts
  BY <1>13, OpTypes DEF Restarts, Typed
<1>14. CASE UNCHANGED <<state, disk, broken, op, busy, accepted, frozen>>
  BY <1>14 DEF Typed
<1>15. QED
  BY <1>1, <1>3, <1>4, <1>5, <1>6, <1>7, <1>8, <1>9, <1>10, <1>11, <1>12, <1>13, <1>14
  DEF Shapes

LEMMA FaultType ==
  ASSUME TypeOK, faults' = faults \/ (faults < MaxFaults /\ faults' = faults + 1)
  PROVE  faults' \in 0..MaxFaults
BY BoardAssumption DEF TypeOK

(* The actions of an operation have these shapes. *)
LEMMA OperationShapes ==
  ASSUME TypeOK, NEW k \in Requests
  PROVE  /\ Receive(k) => Begins(k)
         /\ Write(k) => Writes(k)
         /\ WriteFails(k) => Breaks
         /\ FailureSaved(k) \/ PersistRejects(k) => GivesUp(k)
<1>1. "in_progress" \in Status /\ "retryable" \in Status /\ "rejected" \in Status
  BY DEF Status, Final
<1>2. Receive(k) => Begins(k)
  BY <1>1, RecordSet, OpTypes DEF Receive, Begins, GoTo, clients, Saving
<1>4. Write(k) => Writes(k)
  BY DEF Write, Writes, TypeOK, clients
<1>5. WriteFails(k) => Breaks
  BY BoardAssumption DEF WriteFails, Breaks, clients, TypeOK
<1>6. FailureSaved(k) => GivesUp(k)
  BY OpTypes DEF FailureSaved, Saved, End, GivesUp, GoTo, SameState, Records, TypeOK, clients
<1>7. PersistRejects(k) => GivesUp(k)
  <2> SUFFICES ASSUME PersistRejects(k) PROVE GivesUp(k)
    OBVIOUS
  <2>1. GoTo(k, Idle) /\ busy' = FreeSlot(k) /\ op[k].pc # "idle" /\ broken
    BY OpTypes DEF PersistRejects, End, GoTo, Saving
  <2>2. CASE op[k].pc \in {"receipt", "failure"}
    BY <2>1, <2>2 DEF PersistRejects, GivesUp, SameState, Records, TypeOK, clients
  <2>3. CASE op[k].pc \notin {"receipt", "failure"}
    BY <1>1, <2>1, <2>3, RecordSet DEF PersistRejects, GivesUp, clients
  <2>4. QED
    BY <2>2, <2>3
<1>8. QED
  BY <1>2, <1>4, <1>5, <1>6, <1>7

(* The record of an operation that fails. *)
LEMMA FailShape ==
  ASSUME TypeOK, NEW k \in Requests, NEW status \in {"rejected", "retryable"},
         Fail(k, status), op[k].pc \in Underway, busy' = busy \/ TakesSlot(k),
         UNCHANGED <<disk, broken, accepted, frozen>>
  PROVE  Fails(k)
<1>1. SetRecord(k, status)
  BY RecordSet DEF Fail, Status, Final
<1>2. GoTo(k, At("failure"))
  BY OpTypes DEF Fail, GoTo, Saving
<1>3. QED
  BY <1>1, <1>2 DEF Fails

LEMMA SavedPc == ASSUME NEW k, NEW pc, Saved(k, pc) PROVE op[k].pc = pc
BY DEF Saved

LEMMA VerifiedPc ==
  ASSUME NEW k, NEW claim, NEW pc \in {"candidate", "cell"}, Verified(k, pc, claim)
  PROVE  op[k].pc \in Claiming
BY DEF Verified, EvaluationSave, Saved, Claiming

(* verifiedEvaluation() advances an operation or fails it. *)
LEMMA FetchShape ==
  ASSUME TypeOK, NEW k \in Requests, NEW claim, NEW pc \in {"candidate", "cell"},
         FetchReceipt(k, pc, claim)
  PROVE  Advances(k) \/ Fails(k)
<1>1. PICK answer \in EvaluatorGet(claim) :
        \/ /\ answer = "found"
           /\ state' = [state EXCEPT !.evaluations = @ \cup {claim.evidence}]
           /\ op' = [op EXCEPT ![k] = At(EvaluationSave(pc))]
        \/ answer = "missing" /\ Fail(k, "rejected")
        \/ answer = "unavailable" /\ Fail(k, "retryable")
  BY DEF FetchReceipt
<1>2. op[k].pc = pc /\ UNCHANGED <<disk, broken, busy, accepted, frozen>>
  BY DEF FetchReceipt, clients
<1>3. op[k].pc \in Claiming /\ op[k].pc \in Underway
  BY <1>2 DEF Claiming, Underway
<1>4. CASE answer = "found"
  <2>1. claim.evidence \in Evidence
    BY <1>1, <1>4 DEF EvaluatorGet, TruthOf
  <2>2. SameState
    BY <1>1, <1>4, <2>1 DEF SameState, Records, TypeOK, State
  <2>3. EvaluationSave(pc) \in Claiming /\ At(EvaluationSave(pc)) \in Op
    BY OpTypes DEF EvaluationSave, Claiming, Saving
  <2>4. \E next \in Claiming : GoTo(k, At(next))
    BY <1>1, <1>4, <2>3 DEF GoTo
  <2>5. QED
    BY <1>2, <1>3, <2>2, <2>4 DEF Advances
<1>5. CASE answer # "found"
  BY <1>1, <1>2, <1>3, <1>5, FailShape
<1>6. QED
  BY <1>4, <1>5

LEMMA SeedShapes ==
  ASSUME TypeOK
  PROVE  /\ BeginSeed => Advances(Seed)
         /\ SeedVerified => Completes(Seed) \/ Fails(Seed)
         /\ SeedSaved => Ends(Seed)
<1>0. Seed \in Requests
  BY DEF Requests
<1>1. BeginSeed => Advances(Seed)
  <2> SUFFICES ASSUME BeginSeed PROVE Advances(Seed)
    OBVIOUS
  <2>1. \E pc \in Claiming : GoTo(Seed, At(pc))
    BY OpTypes DEF BeginSeed, GoTo, Claiming
  <2>2. SameState /\ op[Seed].pc = "receipt"
    BY SavedPc DEF BeginSeed, SameState, Records, TypeOK
  <2>3. QED
    BY <2>1, <2>2 DEF BeginSeed, Advances, clients
<1>2. SeedVerified => Completes(Seed) \/ Fails(Seed)
  <2> SUFFICES ASSUME SeedVerified PROVE Completes(Seed) \/ Fails(Seed)
    OBVIOUS
  <2>1. op[Seed].pc \in Claiming /\ UNCHANGED <<disk, broken, busy, accepted, frozen>>
    BY VerifiedPc DEF SeedVerified, clients
  <2>2. CASE Fail(Seed, "rejected")
    BY <1>0, <2>1, <2>2, FailShape DEF Underway
  <2>3. CASE /\ state' = [state EXCEPT !.records[Seed] = "completed"]
             /\ op' = [op EXCEPT ![Seed] = At("result")]
    <3>1. SetRecord(Seed, "completed")
      BY <1>0, <2>3, RecordSet DEF Status, Final
    <3>2. GoTo(Seed, At("result"))
      BY <2>3, OpTypes DEF GoTo, Saving
    <3>3. QED
      BY <1>0, <2>1, <3>1, <3>2 DEF Completes, SetRecord, Records
  <2>4. QED
    BY <2>2, <2>3 DEF SeedVerified
<1>3. SeedSaved => Ends(Seed)
  BY OpTypes DEF SeedSaved, Saved, End, Ends, GoTo, SameState, Records, TypeOK
<1>4. QED
  BY <1>1, <1>2, <1>3

LEMMA SubmissionShapes ==
  ASSUME TypeOK, NEW a \in Actions
  PROVE  /\ BeginSubmission(a) => Advances(a) \/ Fails(a)
         /\ CandidateVerified(a) => Advances(a) \/ Fails(a)
         /\ CellVerified(a) => Completes(a) \/ Fails(a)
         /\ SubmissionSaved(a) => Ends(a)
<1>0. a \in Requests /\ a # Seed
  BY BoardAssumption DEF Requests
<1>1. BeginSubmission(a) => Advances(a) \/ Fails(a)
  <2> SUFFICES ASSUME BeginSubmission(a) PROVE Advances(a) \/ Fails(a)
    OBVIOUS
  <2>1. op[a].pc = "receipt" /\ UNCHANGED <<disk, broken, accepted, frozen>>
    BY SavedPc DEF BeginSubmission, clients
  <2>2. CASE ~SubmitsForItself(a) \/ ~SlotFree(a)
    BY <1>0, <2>1, <2>2, FailShape DEF BeginSubmission, Underway
  <2>3. CASE ~(~SubmitsForItself(a) \/ ~SlotFree(a))
    <3>1. TakesSlot(a)
      BY <2>1, <2>3 DEF BeginSubmission, TakesSlot
    <3>2. CASE Admissible(a)
      <4>1. \E pc \in Claiming : GoTo(a, At(pc))
        BY <2>3, <3>2, OpTypes DEF BeginSubmission, GoTo, Claiming
      <4>2. SameState
        BY <2>3, <3>2 DEF BeginSubmission, SameState, Records, TypeOK
      <4>3. state.index[SlotOf(a)] \in {None, a}
        BY <3>2 DEF Admissible
      <4>4. QED
        BY <2>1, <3>1, <4>1, <4>2, <4>3 DEF Advances
    <3>3. CASE ~Admissible(a)
      BY <1>0, <2>1, <2>3, <3>1, <3>3, FailShape DEF BeginSubmission, Underway
    <3>4. QED
      BY <3>2, <3>3
  <2>4. QED
    BY <2>2, <2>3
<1>2. CandidateVerified(a) => Advances(a) \/ Fails(a)
  <2> SUFFICES ASSUME CandidateVerified(a) PROVE Advances(a) \/ Fails(a)
    OBVIOUS
  <2>1. op[a].pc \in Claiming /\ UNCHANGED <<disk, broken, busy, accepted, frozen>>
    BY VerifiedPc DEF CandidateVerified, clients
  <2>2. CASE Fail(a, "rejected")
    BY <1>0, <2>1, <2>2, FailShape DEF Underway
  <2>3. CASE op' = [op EXCEPT ![a] = At("cell")] /\ UNCHANGED state
    <3>1. \E pc \in Claiming : GoTo(a, At(pc))
      BY <2>3, OpTypes DEF GoTo, Claiming
    <3>2. SameState
      BY <2>3 DEF SameState, Records, TypeOK
    <3>3. QED
      BY <2>1, <3>1, <3>2 DEF Advances
  <2>4. QED
    BY <2>2, <2>3 DEF CandidateVerified
<1>3. CellVerified(a) => Completes(a) \/ Fails(a)
  <2> SUFFICES ASSUME CellVerified(a) PROVE Completes(a) \/ Fails(a)
    OBVIOUS
  <2>1. op[a].pc \in Claiming /\ UNCHANGED <<disk, broken, busy, accepted, frozen>>
    BY VerifiedPc DEF CellVerified, clients
  <2>2. CASE Fail(a, "rejected")
    BY <1>0, <2>1, <2>2, FailShape DEF Underway
  <2>3. CASE /\ state' = [state EXCEPT !.records[a] = "completed", !.index[SlotOf(a)] = a]
             /\ op' = [op EXCEPT ![a] = At("result")]
    <3>1. /\ state' \in State
          /\ state'.records = [state.records EXCEPT ![a] = "completed"]
          /\ state'.index = [state.index EXCEPT ![SlotOf(a)] = a]
          /\ state'.snapshots = state.snapshots
      BY <2>3 DEF TypeOK, State, Status, Final, Requests
    <3>2. GoTo(a, At("result"))
      BY <2>3, OpTypes DEF GoTo, Saving
    <3>3. QED
      BY <1>0, <2>1, <3>1, <3>2 DEF Completes
  <2>4. QED
    BY <2>2, <2>3 DEF CellVerified
<1>4. SubmissionSaved(a) => Ends(a)
  BY OpTypes DEF SubmissionSaved, Saved, End, Ends, GoTo, SameState, Records, TypeOK
<1>5. QED
  BY <1>1, <1>2, <1>3, <1>4

LEMMA FreezeShapes ==
  ASSUME TypeOK, NEW g \in Generations
  PROVE  /\ \A expected \in Expectations : Freeze(g, expected) =>
                \E snapshot \in Snapshot : Freezes(g, snapshot)
         /\ FreezeSaved(g) => HandsOut(g)
         /\ FreezeRejects(g) => Forgets(g)
         /\ Write(g) => Writes(g)
         /\ WriteFails(g) => Breaks
<1>1. ASSUME NEW expected \in Expectations, Freeze(g, expected)
      PROVE  \E snapshot \in Snapshot : Freezes(g, snapshot)
  <2>1. PICK cells \in SUBSET Completed(g) :
          /\ AgentsOf(cells) = AgentsOf(Completed(g))
          /\ state' = [state EXCEPT !.snapshots[g] = [expected |-> expected, cells |-> cells]]
    BY <1>1 DEF Freeze
  <2> DEFINE snapshot == [expected |-> expected, cells |-> cells]
  <2>2. snapshot \in Snapshot
    BY DEF Snapshot, Completed
  <2> HIDE DEF snapshot
  <2>3. /\ state' \in State
        /\ state'.records = state.records /\ state'.index = state.index
        /\ state'.snapshots = [state.snapshots EXCEPT ![g] = snapshot]
    BY <2>1, <2>2 DEF snapshot, TypeOK, State
  <2>4. GoTo(g, At("result"))
    BY <1>1, OpTypes DEF Freeze, GoTo, Saving
  <2>5. /\ snapshot.expected \subseteq AgentsOf(Completed(g))
        /\ snapshot.cells \subseteq Completed(g) /\ AgentsOf(snapshot.cells) = AgentsOf(Completed(g))
    BY <1>1, <2>1 DEF snapshot, Freeze, AllExpected
  <2>6. QED
    BY <1>1, <2>2, <2>3, <2>4, <2>5 DEF Freezes, Freeze, NotFrozen, clients
<1>2. FreezeSaved(g) => HandsOut(g)
  BY OpTypes DEF FreezeSaved, Saved, HandsOut, GoTo
<1>3. FreezeRejects(g) => Forgets(g)
  BY OpTypes DEF FreezeRejects, Forgets, GoTo, clients
<1>4. Write(g) => Writes(g)
  BY DEF Write, Writes, TypeOK, clients
<1>5. WriteFails(g) => Breaks
  BY BoardAssumption DEF WriteFails, Breaks, clients, TypeOK
<1>6. QED
  BY <1>1, <1>2, <1>3, <1>4, <1>5

(* Every step has one of the shapes. *)
LEMMA StepShapes == TypeOK /\ [Next]_vars => Shapes
<1> SUFFICES ASSUME TypeOK, [Next]_vars PROVE Shapes
  OBVIOUS
<1>0. Seed \in Requests /\ \A a \in Actions : a \in Requests
  BY DEF Requests
<1>1. CASE SeedStep
  BY <1>0, <1>1, FetchShape, SeedShapes DEF SeedStep, Shapes
<1>2. ASSUME NEW a \in Actions, SubmissionStep(a) PROVE Shapes
  BY <1>0, <1>2, FetchShape, SubmissionShapes DEF SubmissionStep, Shapes
<1>3. ASSUME NEW k \in Requests, Receive(k) \/ Settling(k) \/ WriteFails(k) PROVE Shapes
  BY <1>3, OperationShapes DEF Settling, Shapes
<1>9. ASSUME NEW k, Replay(k) \/ ReplaySnapshot(k) PROVE Shapes
  BY <1>9 DEF Replay, ReplaySnapshot, Shapes
<1>4. ASSUME NEW g \in Generations, NEW expected \in Expectations, Freeze(g, expected) PROVE Shapes
  BY <1>4, FreezeShapes DEF Shapes
<1>5. ASSUME NEW g \in Generations, Write(g) \/ WriteFails(g) \/ FreezeSaved(g) \/ FreezeRejects(g)
      PROVE  Shapes
  BY <1>5, FreezeShapes DEF Shapes
<1>6. CASE Crash
  BY <1>6, BoardAssumption DEF Crash, Restarts, Shapes, TypeOK
<1>7. CASE UNCHANGED vars
  BY <1>7 DEF vars, Shapes
<1>8. QED
  BY <1>0, <1>1, <1>2, <1>3, <1>4, <1>5, <1>6, <1>7, <1>9 DEF Next, ReceiveSeed

(* What a step gives out is in memory, of faults it counts at most one.      *)
Given ==
  Answers(state) \cap (Requests \X Final)
Gives ==
  /\ told' \subseteq told \cup Given
  /\ told' \subseteq told \/ state' = state
  /\ shown' \in [Generations -> SUBSET Snapshot]
  /\ \A g \in Generations :
       shown'[g] \subseteq shown[g] \cup ({state.snapshots[g]} \ {None})
  /\ (\A g \in Generations : shown'[g] \subseteq shown[g]) \/ state' = state
Counts == faults' = faults \/ (faults < MaxFaults /\ faults' = faults + 1)

LEMMA Silent == ASSUME TypeOK, UNCHANGED <<told, shown>> PROVE Gives
BY DEF Gives, TypeOK

LEMMA StepGives == TypeOK /\ [Next]_vars => Gives /\ Counts
<1> SUFFICES ASSUME TypeOK, [Next]_vars PROVE Gives /\ Counts
  OBVIOUS
<1>1. ASSUME NEW k, NEW pc, NEW claim, FetchReceipt(k, pc, claim)
      PROVE  UNCHANGED <<told, shown>> /\ Counts
  BY <1>1 DEF FetchReceipt, EvaluatorGet, Counts, clients
<1>2. CASE SeedStep
  BY <1>1, <1>2, Silent DEF SeedStep, BeginSeed, SeedVerified, SeedSaved, Counts, clients
<1>3. ASSUME NEW a \in Actions, SubmissionStep(a) PROVE Gives /\ Counts
  BY <1>1, <1>3, Silent
  DEF SubmissionStep, BeginSubmission, CandidateVerified, CellVerified, SubmissionSaved, Counts, clients
<1>4. ASSUME NEW k, \/ Receive(k) \/ WriteFails(k) \/ FailureSaved(k) \/ PersistRejects(k)
                      \/ FreezeSaved(k) \/ FreezeRejects(k)
                      \/ \E expected \in Expectations : Freeze(k, expected)
      PROVE  Gives /\ Counts
  BY <1>4, Silent
  DEF Receive, WriteFails, FailureSaved, PersistRejects, FreezeSaved, FreezeRejects, Freeze, Counts, clients
<1>5. ASSUME NEW k \in Requests \cup Generations, Write(k) PROVE Gives /\ Counts
  <2>1. told' \subseteq told /\ shown' = [g \in Generations |-> shown[g] \ {state.snapshots[g]}]
    BY <1>5 DEF Write
  <2>2. shown' \in [Generations -> SUBSET Snapshot] /\ \A g \in Generations : shown'[g] \subseteq shown[g]
    BY <2>1 DEF TypeOK
  <2>3. QED
    BY <1>5, <2>1, <2>2 DEF Gives, Counts, Write
<1>6. ASSUME NEW k \in Requests, Replay(k) PROVE Gives /\ Counts
  <2>1. <<k, state.records[k]>> \in Given
    BY <1>6 DEF Replay, Given, Answers
  <2>2. told' \subseteq told \cup Given /\ state' = state /\ shown' = shown
    BY <1>6, <2>1 DEF Replay
  <2>3. QED
    BY <1>6, <2>2 DEF Gives, Counts, Replay, TypeOK
<1>7. ASSUME NEW h \in Generations, ReplaySnapshot(h) PROVE Gives /\ Counts
  <2>1. /\ told' = told /\ state' = state /\ state.snapshots[h] # None
        /\ shown' = [shown EXCEPT ![h] = @ \cup ({state.snapshots[h]} \ {disk.snapshots[h]})]
    BY <1>7 DEF ReplaySnapshot, NotFrozen
  <2>2. state.snapshots[h] \in Snapshot /\ shown \in [Generations -> SUBSET Snapshot]
    BY <2>1 DEF TypeOK, State
  <2>3. shown' \in [Generations -> SUBSET Snapshot]
    BY <2>1, <2>2
  <2>4. ASSUME NEW g \in Generations
        PROVE  shown'[g] \subseteq shown[g] \cup ({state.snapshots[g]} \ {None})
    <3>1. CASE g = h
      BY <2>1, <2>2, <3>1
    <3>2. CASE g # h
      BY <2>1, <2>2, <3>2
    <3>3. QED
      BY <3>1, <3>2
  <2>5. QED
    BY <1>7, <2>1, <2>3, <2>4 DEF Gives, Counts, ReplaySnapshot
<1>8. CASE Crash
  <2>1. told' = told /\ shown' = [g \in Generations |-> {}] /\ Counts
    BY <1>8 DEF Crash, Counts
  <2>2. QED
    BY <2>1 DEF Gives
<1>9. CASE UNCHANGED vars
  BY <1>9, Silent DEF vars, Counts
<1>10. QED
  BY <1>2, <1>3, <1>4, <1>5, <1>6, <1>7, <1>8, <1>9 DEF Next, ReceiveSeed, Settling

LEMMA NextType == TypeOK /\ [Next]_vars => TypeOK'
<1> SUFFICES ASSUME TypeOK, [Next]_vars PROVE TypeOK'
  OBVIOUS
<1>1. Typed
  BY StepShapes, ShapeType
<1>2. Gives /\ faults' \in 0..MaxFaults
  BY StepGives, FaultType DEF Counts
<1>3. told' \subseteq Requests \X Final
  BY <1>2 DEF Gives, Given, TypeOK
<1>4. QED
  BY <1>1, <1>2, <1>3 DEF Gives, Typed, TypeOK

-----------------------------------------------------------------------------
LEMMA RecordsStep == TypeOK /\ RecordsFit /\ AcceptedStay /\ Shapes => RecordsFit'
<1> SUFFICES ASSUME TypeOK, RecordsFit, AcceptedStay, Shapes, NEW j \in Requests
             PROVE  /\ op'[j].pc \in Underway => state'.records[j] = "in_progress"
                    /\ op'[j].pc = "result" => state'.records[j] = "completed"
                    /\ state'.records[j] = "completed" => \/ disk'.records[j] = "completed"
                                                         \/ op'[j] = At("result")
  BY DEF RecordsFit
<1> DEFINE Fits == /\ op'[j].pc \in Underway => state'.records[j] = "in_progress"
                   /\ op'[j].pc = "result" => state'.records[j] = "completed"
                   /\ state'.records[j] = "completed" => \/ disk'.records[j] = "completed"
                                                        \/ op'[j] = At("result")
<1>1. /\ op[j].pc \in Underway => state.records[j] = "in_progress"
      /\ op[j].pc = "result" => state.records[j] = "completed"
      /\ state.records[j] = "completed" => disk.records[j] = "completed" \/ op[j] = At("result")
  BY DEF RecordsFit
<1>2. op \in [Requests \cup Generations -> Op] /\ state.records \in [Requests -> Status]
  BY DEF TypeOK, State
<1>15. Idle.pc = "idle" /\ Idle # At("result") /\ \A pc \in Claiming : At(pc).pc = pc
  BY DEF Idle, At, Claiming
<1> USE <1>1, <1>2 DEF GoTo, At, Idle, Underway, Claiming
<1>3. ASSUME NEW k \in Requests, Begins(k) PROVE Fits
  BY <1>3 DEF Begins, SetRecord
<1>5. ASSUME NEW k \in Requests, GivesUp(k) PROVE Fits
  <2>1. op'[j] = (IF j = k THEN Idle ELSE op[j]) /\ disk' = disk
    BY <1>5 DEF GivesUp
  <2>2. CASE SameState /\ op[k].pc \in {"receipt", "failure"}
    <3>1. CASE j = k
      BY <2>1, <2>2, <3>1 DEF SameState
    <3>2. CASE j # k
      BY <2>1, <2>2, <3>2 DEF SameState
    <3>3. QED
      BY <3>1, <3>2
  <2>3. CASE SetRecord(k, "retryable")
    <3>1. CASE j = k
      BY <2>1, <2>3, <3>1 DEF SetRecord
    <3>2. CASE j # k
      BY <2>1, <2>3, <3>2 DEF SetRecord
    <3>3. QED
      BY <3>1, <3>2
  <2>4. QED
    BY <1>5, <2>2, <2>3 DEF GivesUp
<1>6. ASSUME NEW k \in Requests, Advances(k) PROVE Fits
  <2>1. PICK pc \in Claiming : op'[j] = IF j = k THEN At(pc) ELSE op[j]
    BY <1>6 DEF Advances
  <2>2. state'.records = state.records /\ disk' = disk /\ op[k].pc \in Underway
    BY <1>6 DEF Advances, SameState, TakesSlot
  <2>3. state.records[k] = "in_progress"
    BY <2>2 DEF RecordsFit
  <2>4. CASE j = k
    BY <2>1, <2>2, <2>3, <2>4
  <2>5. CASE j # k
    BY <2>1, <2>2, <2>5
  <2>6. QED
    BY <2>4, <2>5
<1>7. ASSUME NEW k \in Requests, Fails(k) PROVE Fits
  BY <1>7 DEF Fails, SetRecord
<1>8. ASSUME NEW k \in Requests, Completes(k) PROVE Fits
  BY <1>8 DEF Completes
<1>9. ASSUME NEW k \in Requests, Ends(k) PROVE Fits
  <2>1. op'[j] = (IF j = k THEN Idle ELSE op[j]) /\ op[k] # At("result")
    BY <1>9 DEF Ends
  <2>2. state'.records = state.records /\ disk' = disk
    BY <1>9 DEF Ends, SameState
  <2>3. CASE j = k
    BY <2>1, <2>2, <2>3
  <2>4. CASE j # k
    BY <2>1, <2>2, <2>4
  <2>5. QED
    BY <2>3, <2>4
<1>10. ASSUME NEW k \in Requests \cup Generations, Writes(k) PROVE Fits
  BY <1>10 DEF Writes
<1>11. ASSUME NEW g \in Generations, HandsOut(g) \/ Forgets(g) \/ \E s \in Snapshot : Freezes(g, s) PROVE Fits
  <2>1. j # g
    BY BoardAssumption DEF Requests
  <2>2. QED
    BY <1>11, <2>1 DEF HandsOut, Forgets, Freezes
<1>12. CASE Restarts
  <2>1. op'[j] = Idle /\ state' = disk /\ disk' = disk
    BY <1>12 DEF Restarts, Requests
  <2>2. QED
    BY <2>1
<1>13. CASE Breaks \/ UNCHANGED <<state, disk, broken, op, busy, accepted, frozen>>
  BY <1>13 DEF Breaks
<1>14. QED
  BY <1>3, <1>5, <1>6, <1>7, <1>8, <1>9, <1>10, <1>11, <1>12, <1>13 DEF Shapes

(* Memory is never behind the file while the queue of writes works.          *)
LEMMA BehindStep == TypeOK /\ RecordsFit /\ DiskIsBehind /\ Shapes => DiskIsBehind'
<1> SUFFICES ASSUME TypeOK, RecordsFit, DiskIsBehind, Shapes, ~broken', NEW j \in Requests,
                    disk'.records[j] = "completed"
             PROVE  state'.records[j] = "completed"
  BY DEF DiskIsBehind
<1> DEFINE Stays == state'.records[j] = "completed"
<1>1. /\ op[j].pc \in Underway => state.records[j] = "in_progress"
      /\ ~broken /\ disk.records[j] = "completed" => state.records[j] = "completed"
  BY DEF RecordsFit, DiskIsBehind
<1>2. state.records \in [Requests -> Status]
  BY DEF TypeOK, State
<1> USE <1>1, <1>2
<1>3. ASSUME NEW k \in Requests, Begins(k) PROVE Stays
  BY <1>3 DEF Begins, SetRecord, Unsettled, Final
<1>5. ASSUME NEW k \in Requests, GivesUp(k) PROVE Stays
  BY <1>5 DEF GivesUp, SameState
<1>6. ASSUME NEW k \in Requests, Advances(k) PROVE Stays
  BY <1>6 DEF Advances, SameState
<1>7. ASSUME NEW k \in Requests, Fails(k) PROVE Stays
  BY <1>7 DEF Fails, SetRecord
<1>8. ASSUME NEW k \in Requests, Completes(k) PROVE Stays
  BY <1>8 DEF Completes
<1>9. ASSUME NEW k \in Requests, Ends(k) PROVE Stays
  BY <1>9 DEF Ends, SameState
<1>10. ASSUME NEW k \in Requests \cup Generations, Writes(k) PROVE Stays
  BY <1>10 DEF Writes
<1>11. ASSUME NEW g \in Generations, HandsOut(g) \/ Forgets(g) \/ \E s \in Snapshot : Freezes(g, s) PROVE Stays
  BY <1>11 DEF HandsOut, Forgets, Freezes
<1>12. CASE Breaks \/ Restarts \/ UNCHANGED <<state, disk, broken, op, busy, accepted, frozen>>
  BY <1>12 DEF Breaks, Restarts
<1>13. QED
  BY <1>3, <1>5, <1>6, <1>7, <1>8, <1>9, <1>10, <1>11, <1>12 DEF Shapes

(* What was answered is settled: no operation of it begins again.            *)
LEMMA AcceptedStep == TypeOK /\ RecordsFit /\ DiskIsBehind /\ AcceptedStay /\ Shapes => AcceptedStay'
<1> SUFFICES ASSUME TypeOK, RecordsFit, DiskIsBehind, AcceptedStay, Shapes, NEW j \in accepted'
             PROVE  op'[j].pc = "idle" /\ state'.records[j] = "completed" /\ disk'.records[j] = "completed"
  BY DEF AcceptedStay
<1> DEFINE Stays == op'[j].pc = "idle" /\ state'.records[j] = "completed" /\ disk'.records[j] = "completed"
<1>1. j \in accepted =>
        op[j].pc = "idle" /\ state.records[j] = "completed" /\ disk.records[j] = "completed"
  BY DEF AcceptedStay
<1>2. /\ op \in [Requests \cup Generations -> Op] /\ state.records \in [Requests -> Status]
      /\ accepted \subseteq Requests
  BY DEF TypeOK, State
<1> USE <1>1, <1>2 DEF GoTo
<1>3. ASSUME NEW k \in Requests, Begins(k) PROVE Stays
  BY <1>3 DEF Begins, SetRecord, Unsettled, Final
<1>5. ASSUME NEW k \in Requests, GivesUp(k) PROVE Stays
  <2>1. j # k /\ j \in accepted
    BY <1>5 DEF GivesUp
  <2>2. QED
    BY <1>5, <2>1 DEF GivesUp, SetRecord, SameState
<1>6. ASSUME NEW k \in Requests, Advances(k) PROVE Stays
  <2>1. j # k /\ j \in accepted
    BY <1>6 DEF Advances, TakesSlot, Claiming
  <2>2. QED
    BY <1>6, <2>1 DEF Advances, SameState
<1>7. ASSUME NEW k \in Requests, Fails(k) PROVE Stays
  <2>1. j # k /\ j \in accepted
    BY <1>7 DEF Fails, Underway, Claiming
  <2>2. QED
    BY <1>7, <2>1 DEF Fails, SetRecord
<1>8. ASSUME NEW k \in Requests, Completes(k) PROVE Stays
  <2>1. j # k /\ j \in accepted
    BY <1>8 DEF Completes, Claiming
  <2>2. QED
    BY <1>8, <2>1 DEF Completes
<1>9. ASSUME NEW k \in Requests, Ends(k) PROVE Stays
  <2>1. disk.records[k] = "completed" /\ state.records[k] = "completed"
    BY <1>9 DEF Ends, RecordsFit, At
  <2>2. op'[k] = Idle /\ Idle.pc = "idle"
    BY <1>9 DEF Ends, Idle, At
  <2>3. CASE j = k
    BY <1>9, <2>1, <2>2, <2>3 DEF Ends, SameState
  <2>4. CASE j # k
    BY <1>9, <2>4 DEF Ends, SameState
  <2>5. QED
    BY <2>3, <2>4
<1>10. ASSUME NEW k \in Requests \cup Generations, Writes(k) PROVE Stays
  BY <1>10 DEF Writes
<1>11. ASSUME NEW g \in Generations, HandsOut(g) \/ Forgets(g) \/ \E s \in Snapshot : Freezes(g, s) PROVE Stays
  <2>1. accepted' = accepted
    BY <1>11 DEF HandsOut, Forgets, Freezes
  <2>2. j # g /\ j \in accepted
    BY <2>1, <1>2, BoardAssumption DEF Requests
  <2>3. QED
    BY <1>11, <2>2 DEF HandsOut, Forgets, Freezes
<1>12. CASE Restarts
  <2>1. op'[j] = Idle /\ Idle.pc = "idle" /\ state' = disk /\ disk' = disk /\ j \in accepted
    BY <1>12 DEF Restarts, Idle, At
  <2>2. QED
    BY <2>1
<1>13. CASE Breaks \/ UNCHANGED <<state, disk, broken, op, busy, accepted, frozen>>
  BY <1>13 DEF Breaks
<1>14. QED
  BY <1>3, <1>5, <1>6, <1>7, <1>8, <1>9, <1>10, <1>11, <1>12, <1>13 DEF Shapes

LEMMA BrokenStep == TypeOK /\ BrokenIsFault /\ Shapes /\ Counts => BrokenIsFault'
<1> SUFFICES ASSUME TypeOK, BrokenIsFault, Shapes, Counts, broken' PROVE faults' # 0
  BY DEF BrokenIsFault
<1>1. faults # 0 => faults' # 0
  BY BoardAssumption DEF Counts, TypeOK
<1>2. broken \/ Breaks
  BY DEF Shapes, Begins, GivesUp, Advances, Fails, Completes, Ends, Writes, HandsOut, Forgets, Freezes,
         Restarts
<1>3. QED
  BY <1>1, <1>2 DEF BrokenIsFault, Breaks

(* A final record in memory is changed by faults only. *)
LEMMA FinalStays ==
  ASSUME TypeOK, RecordsFit, BrokenIsFault, Shapes, Counts, faults' = 0,
         NEW j \in Requests, state.records[j] \in Final
  PROVE  state'.records[j] = state.records[j]
<1>1. faults = 0 /\ ~broken
  BY BoardAssumption DEF Counts, TypeOK, BrokenIsFault
<1>2. state.records \in [Requests -> Status] /\ "in_progress" \notin Final
  BY DEF TypeOK, State, Final
<1>3. ASSUME NEW k \in Requests, state.records[k] \notin Final, NEW status,
             state'.records = [state.records EXCEPT ![k] = status]
      PROVE  state'.records[j] = state.records[j]
  BY <1>2, <1>3
<1>4. ASSUME NEW k \in Requests, op[k].pc \in Underway PROVE state.records[k] \notin Final
  BY <1>2, <1>4 DEF RecordsFit
<1>5. ASSUME NEW k \in Requests, Begins(k) \/ Fails(k) \/ Completes(k)
      PROVE  state'.records[j] = state.records[j]
  <2>1. state.records[k] \notin Final
    BY <1>4, <1>5 DEF Begins, Unsettled, Fails, Completes, Underway
  <2>2. \E status : state'.records = [state.records EXCEPT ![k] = status]
    BY <1>5 DEF Begins, Fails, Completes, SetRecord
  <2>3. QED
    BY <1>3, <2>1, <2>2
<1>6. ASSUME NEW k \in Requests, GivesUp(k) \/ Advances(k) \/ Ends(k)
      PROVE  state'.records[j] = state.records[j]
  BY <1>1, <1>6 DEF GivesUp, Advances, Ends, SameState
<1>7. ASSUME NEW k, Writes(k) \/ HandsOut(k) \/ Forgets(k) \/ \E s \in Snapshot : Freezes(k, s)
      PROVE  state'.records[j] = state.records[j]
  BY <1>7 DEF Writes, HandsOut, Forgets, Freezes
<1>8. ~Breaks /\ ~Restarts
  BY <1>1 DEF Breaks, Restarts
<1>9. QED
  BY <1>5, <1>6, <1>7, <1>8 DEF Shapes

(* A snapshot in memory is changed by restarts only.                         *)
LEMMA SnapshotLasts ==
  ASSUME TypeOK, Shapes, ~Restarts, NEW g \in Generations, state.snapshots[g] # None
  PROVE  state'.snapshots[g] = state.snapshots[g]
<1>1. state.snapshots \in [Generations -> Snapshot \cup {None}]
  BY DEF TypeOK, State
<1>2. ASSUME NEW k \in Requests,
             Begins(k) \/ GivesUp(k) \/ Advances(k) \/ Fails(k) \/ Completes(k) \/ Ends(k)
      PROVE  state'.snapshots = state.snapshots
  BY <1>2 DEF Begins, GivesUp, Advances, Fails, Completes, Ends, SetRecord, SameState, Records
<1>3. ASSUME NEW h \in Generations, NEW snapshot \in Snapshot, Freezes(h, snapshot)
      PROVE  state'.snapshots[g] = state.snapshots[g]
  BY <1>1, <1>3 DEF Freezes
<1>4. ASSUME NEW k, Writes(k) \/ HandsOut(k) \/ Forgets(k) PROVE state' = state
  BY <1>4 DEF Writes, HandsOut, Forgets
<1>5. Breaks => state' = state
  BY DEF Breaks
<1>6. QED
  BY <1>2, <1>3, <1>4, <1>5 DEF Shapes

LEMMA GivenStep ==
  TypeOK /\ RecordsFit /\ BrokenIsFault /\ GivenFit /\ Shapes /\ Gives /\ Counts => GivenFit'
<1> SUFFICES ASSUME TypeOK, RecordsFit, BrokenIsFault, GivenFit, Shapes, Gives, Counts PROVE GivenFit'
  OBVIOUS
<1>1. ASSUME faults' = 0, NEW k \in Requests, NEW status \in Final, <<k, status>> \in told'
      PROVE  state'.records[k] = status
  <2>1. faults = 0
    BY <1>1, BoardAssumption DEF Counts, TypeOK
  <2>2. CASE <<k, status>> \in told
    <3>1. state.records[k] = status
      BY <2>1, <2>2 DEF GivenFit
    <3>2. QED
      BY <1>1, <3>1, FinalStays
  <2>3. CASE <<k, status>> \notin told
    <3>1. <<k, status>> \in Answers(state) /\ state' = state
      BY <1>1, <2>3 DEF Gives, Given
    <3>2. QED
      BY <3>1 DEF Answers
  <2>4. QED
    BY <2>2, <2>3
<1>2. ASSUME NEW g \in Generations PROVE shown'[g] \subseteq {state'.snapshots[g]} \ {None}
  <2>1. shown[g] \subseteq {state.snapshots[g]} \ {None}
    BY DEF GivenFit
  <2>2. CASE Restarts
    BY <2>2 DEF Restarts
  <2>3. CASE ~Restarts /\ state' = state
    BY <2>1, <2>3 DEF Gives
  <2>4. CASE ~Restarts /\ state' # state
    <3>1. shown'[g] \subseteq {state.snapshots[g]} \ {None}
      BY <2>1, <2>4 DEF Gives
    <3>2. CASE state.snapshots[g] = None
      BY <3>1, <3>2
    <3>3. CASE state.snapshots[g] # None
      BY <2>4, <3>1, <3>3, SnapshotLasts
    <3>4. QED
      BY <3>2, <3>3
  <2>5. QED
    BY <2>2, <2>3, <2>4
<1>3. QED
  BY <1>1, <1>2 DEF GivenFit

(* A generation is frozen once, and what is handed out is on disk.           *)
LEMMA SnapshotsStep == TypeOK /\ SnapshotsStay /\ Shapes => SnapshotsStay'
<1> DEFINE Written(x) == x = [pc |-> "result", saved |-> TRUE]
<1> SUFFICES ASSUME TypeOK, SnapshotsStay, Shapes, NEW g \in Generations
             PROVE  /\ disk'.snapshots[g] # None => state'.snapshots[g] = disk'.snapshots[g]
                    /\ Written(op'[g]) => disk'.snapshots[g] = state'.snapshots[g]
                    /\ frozen'[g] # None => disk'.snapshots[g] = frozen'[g]
  BY DEF SnapshotsStay
<1> DEFINE Stays == /\ disk'.snapshots[g] # None => state'.snapshots[g] = disk'.snapshots[g]
                    /\ Written(op'[g]) => disk'.snapshots[g] = state'.snapshots[g]
                    /\ frozen'[g] # None => disk'.snapshots[g] = frozen'[g]
<1>1. /\ disk.snapshots[g] # None => state.snapshots[g] = disk.snapshots[g]
      /\ Written(op[g]) => disk.snapshots[g] = state.snapshots[g]
      /\ frozen[g] # None => disk.snapshots[g] = frozen[g]
  BY DEF SnapshotsStay
<1>2. /\ op \in [Requests \cup Generations -> Op]
      /\ state.snapshots \in [Generations -> Snapshot \cup {None}]
      /\ frozen \in [Generations -> Snapshot \cup {None}]
  BY DEF TypeOK, State
<1>3. g \notin Requests
  BY BoardAssumption DEF Requests
<1>4. ~Written(Idle) /\ \A pc : ~Written(At(pc))
  BY DEF Idle, At
<1> HIDE DEF Written
<1> USE <1>1, <1>2 DEF GoTo
<1>5. ASSUME NEW k \in Requests,
             Begins(k) \/ GivesUp(k) \/ Advances(k) \/ Fails(k) \/ Completes(k) \/ Ends(k)
      PROVE  Stays
  <2>1. k # g /\ disk' = disk /\ frozen' = frozen /\ state'.snapshots = state.snapshots
    BY <1>3, <1>5
    DEF Begins, GivesUp, Advances, Fails, Completes, Ends, SetRecord, SameState, Records
  <2>2. \E x : op' = [op EXCEPT ![k] = x]
    BY <1>5 DEF Begins, GivesUp, Advances, Fails, Completes, Ends
  <2>3. op'[g] = op[g]
    BY <2>1, <2>2
  <2>4. QED
    BY <2>1, <2>3
<1>7. ASSUME NEW k \in Requests \cup Generations, Writes(k) PROVE Stays
  BY <1>7 DEF Writes
<1>8. ASSUME NEW h \in Generations, HandsOut(h) PROVE Stays
  <2>1. op' = [op EXCEPT ![h] = Idle] /\ state' = state /\ disk' = disk
        /\ frozen' = [frozen EXCEPT ![h] = state.snapshots[h]] /\ Written(op[h])
    BY <1>8 DEF HandsOut, Written
  <2>2. CASE h = g
    BY <1>4, <2>1, <2>2
  <2>3. CASE h # g
    BY <2>1, <2>3
  <2>4. QED
    BY <2>2, <2>3
<1>9. ASSUME NEW h \in Generations, Forgets(h) PROVE Stays
  <2>1. op' = [op EXCEPT ![h] = Idle] /\ state' = state /\ disk' = disk /\ frozen' = frozen
    BY <1>9 DEF Forgets
  <2>2. CASE h = g
    BY <1>4, <2>1, <2>2
  <2>3. CASE h # g
    BY <2>1, <2>3
  <2>4. QED
    BY <2>2, <2>3
<1>10. ASSUME NEW h \in Generations, NEW snapshot \in Snapshot, Freezes(h, snapshot) PROVE Stays
  <2>1. /\ op' = [op EXCEPT ![h] = At("result")] /\ disk' = disk /\ frozen' = frozen
        /\ state'.snapshots = [state.snapshots EXCEPT ![h] = snapshot] /\ state.snapshots[h] = None
    BY <1>10 DEF Freezes
  <2>2. CASE h = g
    BY <1>4, <2>1, <2>2
  <2>3. CASE h # g
    BY <2>1, <2>3
  <2>4. QED
    BY <2>2, <2>3
<1>11. CASE Restarts
  <2>1. op'[g] = Idle /\ state' = disk /\ disk' = disk /\ frozen' = frozen
    BY <1>11 DEF Restarts
  <2>2. QED
    BY <1>4, <2>1
<1>12. CASE Breaks \/ UNCHANGED <<state, disk, broken, op, busy, accepted, frozen>>
  BY <1>12 DEF Breaks
<1>13. QED
  BY <1>5, <1>7, <1>8, <1>9, <1>10, <1>11, <1>12 DEF Shapes, Written

(* A slot is taken when it is free, and freed by who holds it.               *)
LEMMA SlotsStep == TypeOK /\ SlotsHold /\ Shapes => SlotsHold'
<1> SUFFICES ASSUME TypeOK, SlotsHold, Shapes, NEW a \in Actions, op'[a].pc \in Claiming
             PROVE  busy'[SlotOf(a)] = a /\ state'.index[SlotOf(a)] \in {None, a}
  BY DEF SlotsHold, SlotOf
<1> DEFINE Holds == busy'[SlotOf(a)] = a /\ state'.index[SlotOf(a)] \in {None, a}
<1>1. op[a].pc \in Claiming => busy[SlotOf(a)] = a /\ state.index[SlotOf(a)] \in {None, a}
  BY DEF SlotsHold
<1>2. /\ op \in [Requests \cup Generations -> Op] /\ busy \in [Slots -> Actions \cup {None}]
      /\ state.index \in [Slots -> Actions \cup {None}]
  BY DEF TypeOK, State
<1>3. a \in Requests /\ a \notin Generations /\ a # Seed /\ a # None /\ SlotOf(a) \in Slots
  BY BoardAssumption, SlotsOfActions DEF Requests
<1>4. /\ Idle.pc \notin Claiming /\ At("receipt").pc \notin Claiming
      /\ At("failure").pc \notin Claiming /\ At("result").pc \notin Claiming
  BY DEF Idle, At, Claiming
<1> USE <1>1, <1>2, <1>3 DEF GoTo
<1>5. ASSUME NEW k \in Requests, Begins(k) PROVE Holds
  <2>1. op[a].pc \in Claiming
    BY <1>4, <1>5 DEF Begins
  <2>2. QED
    BY <1>5, <2>1 DEF Begins, SetRecord, Records
<1>7. ASSUME NEW k \in Requests, GivesUp(k) \/ Ends(k) PROVE Holds
  <2>1. op' = [op EXCEPT ![k] = Idle] /\ busy' = FreeSlot(k) /\ state'.index = state.index
    BY <1>7 DEF GivesUp, Ends, SameState, SetRecord, Records
  <2>2. k # a /\ op[a].pc \in Claiming
    BY <1>4, <2>1
  <2>3. QED
    BY <2>1, <2>2 DEF FreeSlot
<1>8. ASSUME NEW k \in Requests, Advances(k) PROVE Holds
  <2>1. PICK pc \in Claiming : op' = [op EXCEPT ![k] = At(pc)]
    BY <1>8 DEF Advances
  <2>2. state'.index = state.index
    BY <1>8 DEF Advances, SameState, Records
  <2>3. CASE op[k].pc \in Claiming \/ k = Seed
    <3>1. op[a].pc \in Claiming
      BY <2>1, <2>3
    <3>2. busy' = busy
      BY <1>3, <1>8, <2>3, BoardAssumption DEF Advances, TakesSlot, Claiming
    <3>3. QED
      BY <2>2, <3>1, <3>2
  <2>4. CASE op[k].pc \notin Claiming /\ k # Seed
    <3>1. TakesSlot(k) /\ state.index[SlotOf(k)] \in {None, k}
      BY <1>8, <2>4 DEF Advances
    <3>2. CASE k = a
      BY <2>2, <3>1, <3>2 DEF TakesSlot
    <3>3. CASE k # a
      <4>1. op[a].pc \in Claiming
        BY <2>1, <3>3
      <4>2. SlotOf(k) # SlotOf(a)
        BY <3>1, <3>3, <4>1 DEF TakesSlot, SlotFree
      <4>3. QED
        BY <2>2, <3>1, <4>1, <4>2 DEF TakesSlot
    <3>4. QED
      BY <3>2, <3>3
  <2>5. QED
    BY <2>3, <2>4
<1>9. ASSUME NEW k \in Requests, Fails(k) PROVE Holds
  <2>1. op' = [op EXCEPT ![k] = At("failure")] /\ state'.index = state.index
    BY <1>9 DEF Fails, SetRecord, Records
  <2>2. k # a /\ op[a].pc \in Claiming
    BY <1>4, <2>1
  <2>3. CASE busy' = busy
    BY <2>1, <2>2, <2>3
  <2>4. CASE TakesSlot(k)
    <3>1. SlotOf(k) # SlotOf(a)
      BY <2>2, <2>4 DEF TakesSlot, SlotFree
    <3>2. QED
      BY <2>1, <2>2, <2>4, <3>1 DEF TakesSlot
  <2>5. QED
    BY <1>9, <2>3, <2>4 DEF Fails
<1>10. ASSUME NEW k \in Requests, Completes(k) PROVE Holds
  <2>1. op' = [op EXCEPT ![k] = At("result")] /\ busy' = busy /\ op[k].pc \in Claiming
    BY <1>10 DEF Completes
  <2>2. k # a /\ op[a].pc \in Claiming
    BY <1>4, <2>1
  <2>3. CASE k = Seed
    BY <1>10, <2>1, <2>2, <2>3 DEF Completes
  <2>4. CASE k # Seed
    <3>1. k \in Actions
      BY <2>4 DEF Requests
    <3>2. busy[SlotOf(k)] = k
      BY <2>1, <3>1 DEF SlotsHold
    <3>3. SlotOf(k) # SlotOf(a)
      BY <2>2, <3>2
    <3>4. QED
      BY <1>10, <2>1, <2>2, <2>4, <3>3 DEF Completes
  <2>5. QED
    BY <2>3, <2>4
<1>11. ASSUME NEW k \in Requests \cup Generations, Writes(k) PROVE Holds
  <2>1. op'[a].pc = op[a].pc
    BY <1>11 DEF Writes, Op
  <2>2. QED
    BY <1>11, <2>1 DEF Writes
<1>12. ASSUME NEW g \in Generations, HandsOut(g) \/ Forgets(g) \/ \E s \in Snapshot : Freezes(g, s)
       PROVE  Holds
  <2>1. op'[a] = op[a]
    BY <1>12 DEF HandsOut, Forgets, Freezes
  <2>2. QED
    BY <1>12, <2>1 DEF HandsOut, Forgets, Freezes
<1>13. CASE Restarts
  BY <1>4, <1>13 DEF Restarts
<1>14. CASE Breaks \/ UNCHANGED <<state, disk, broken, op, busy, accepted, frozen>>
  BY <1>14 DEF Breaks
<1>15. QED
  BY <1>5, <1>7, <1>8, <1>9, <1>10, <1>11, <1>12, <1>13, <1>14 DEF Shapes

(* What completes, and where it stands in the index.                         *)
LEMMA CompletedSteps ==
  ASSUME TypeOK, RecordsFit, NEW k \in Requests
  PROVE  /\ Begins(k) \/ Advances(k) \/ Fails(k) \/ Ends(k) =>
              /\ CompletedOf(state') = CompletedOf(state)
              /\ state'.index = state.index /\ state'.snapshots = state.snapshots
         /\ GivesUp(k) =>
              /\ CompletedOf(state') \subseteq CompletedOf(state)
              /\ CompletedOf(state') = CompletedOf(state) \/ broken
              /\ state'.index = state.index /\ state'.snapshots = state.snapshots
         /\ Completes(k) =>
              /\ CompletedOf(state') = CompletedOf(state) \cup ({k} \ {Seed})
              /\ state'.snapshots = state.snapshots
<1>1. state.records \in [Requests -> Status] /\ Actions \subseteq Requests
  BY DEF TypeOK, State, Requests
<1>2. Begins(k) \/ Fails(k) => state.records[k] # "completed"
  BY DEF Begins, Fails, RecordsFit, Unsettled, Final
<1>3. ASSUME NEW status, status # "completed", SetRecord(k, status)
      PROVE  /\ CompletedOf(state') \subseteq CompletedOf(state)
             /\ state.records[k] # "completed" => CompletedOf(state') = CompletedOf(state)
             /\ state'.index = state.index /\ state'.snapshots = state.snapshots
  BY <1>1, <1>3 DEF SetRecord, CompletedOf, Records
<1>4. SameState => /\ CompletedOf(state') = CompletedOf(state)
                   /\ state'.index = state.index /\ state'.snapshots = state.snapshots
  BY DEF SameState, CompletedOf, Records
<1>5. Begins(k) => SetRecord(k, "in_progress")
  BY DEF Begins
<1>6. Fails(k) => SetRecord(k, "rejected") \/ SetRecord(k, "retryable")
  BY DEF Fails
<1>7. Advances(k) \/ Ends(k) => SameState
  BY DEF Advances, Ends
<1>8. GivesUp(k) => SameState \/ (SetRecord(k, "retryable") /\ broken)
  BY DEF GivesUp
<1>9. Completes(k) => CompletedOf(state') = CompletedOf(state) \cup ({k} \ {Seed})
  <2> SUFFICES ASSUME Completes(k) PROVE CompletedOf(state') = CompletedOf(state) \cup ({k} \ {Seed})
    OBVIOUS
  <2>1. state'.records = [state.records EXCEPT ![k] = "completed"]
    BY DEF Completes
  <2>2. k \in Actions \/ k = Seed
    BY DEF Requests
  <2>3. Seed \notin Actions
    BY BoardAssumption
  <2>4. QED
    BY <1>1, <2>1, <2>2, <2>3 DEF CompletedOf
<1>10. Completes(k) => state'.snapshots = state.snapshots
  BY DEF Completes
<1>11. QED
  BY <1>2, <1>3, <1>4, <1>5, <1>6, <1>7, <1>8, <1>9, <1>10

(* The index has the one accepted submission of a slot.                      *)
LEMMA IndexesStep == TypeOK /\ RecordsFit /\ SlotsHold /\ IndexesFit /\ Shapes => IndexesFit'
<1> SUFFICES ASSUME TypeOK, RecordsFit, SlotsHold, Indexed(state), Indexed(disk), Shapes
             PROVE  Indexed(state') /\ Indexed(disk')
  BY DEF IndexesFit, Indexed, CompletedOf, SlotOf
<1>1. ASSUME NEW k \in Requests, Begins(k) \/ GivesUp(k) \/ Advances(k) \/ Fails(k) \/ Ends(k)
      PROVE  Indexed(state') /\ disk' = disk
  <2>1. CompletedOf(state') \subseteq CompletedOf(state) /\ state'.index = state.index
    BY <1>1, CompletedSteps
  <2>2. Indexed(state')
    BY <2>1 DEF Indexed
  <2>3. QED
    BY <1>1, <2>2 DEF Begins, GivesUp, Advances, Fails, Ends
<1>2. ASSUME NEW k \in Requests, Completes(k) PROVE Indexed(state') /\ disk' = disk
  <2>1. CompletedOf(state') = CompletedOf(state) \cup ({k} \ {Seed}) /\ disk' = disk
    BY <1>2, CompletedSteps DEF Completes
  <2>2. CASE k = Seed
    BY <1>2, <2>1, <2>2 DEF Completes, Indexed
  <2>3. CASE k # Seed
    <3>1. k \in Actions /\ state.index \in [Slots -> Actions \cup {None}]
      BY <2>3 DEF Requests, TypeOK, State
    <3>2. state'.index = [state.index EXCEPT ![SlotOf(k)] = k] /\ state.index[SlotOf(k)] \in {None, k}
      BY <1>2, <2>3, <3>1 DEF Completes, SlotsHold
    <3>3. ASSUME NEW a \in CompletedOf(state') PROVE state'.index[SlotOf(a)] = a
      <4>1. a \in Actions /\ SlotOf(a) \in Slots /\ a # None
        BY SlotsOfActions, BoardAssumption DEF CompletedOf
      <4>2. CASE a = k
        BY <3>1, <3>2, <4>1, <4>2
      <4>3. CASE a # k
        <5>1. state.index[SlotOf(a)] = a
          BY <2>1, <4>3 DEF Indexed
        <5>2. SlotOf(a) # SlotOf(k)
          BY <3>2, <4>1, <4>3, <5>1
        <5>3. QED
          BY <3>1, <3>2, <4>1, <5>1, <5>2
      <4>4. QED
        BY <4>2, <4>3
    <3>4. QED
      BY <2>1, <3>3 DEF Indexed
  <2>4. QED
    BY <2>2, <2>3
<1>3. ASSUME NEW k \in Requests \cup Generations, Writes(k) PROVE state' = state /\ disk' = state
  BY <1>3 DEF Writes
<1>4. ASSUME NEW g \in Generations, NEW snapshot, Freezes(g, snapshot)
      PROVE  Indexed(state') /\ disk' = disk
  BY <1>4 DEF Freezes, Indexed, CompletedOf
<1>5. ASSUME NEW k, HandsOut(k) \/ Forgets(k) \/ Breaks
                    \/ UNCHANGED <<state, disk, broken, op, busy, accepted, frozen>>
      PROVE  state' = state /\ disk' = disk
  BY <1>5 DEF HandsOut, Forgets, Breaks
<1>6. Restarts => state' = disk /\ disk' = disk
  BY DEF Restarts
<1>7. QED
  BY <1>1, <1>2, <1>3, <1>4, <1>5, <1>6 DEF Shapes

(* What it is for a snapshot to be complete, in the terms of the board.      *)
LEMMA CompleteIs ==
  ASSUME NEW g, NEW snapshot, NEW submissions \in SUBSET Actions
  PROVE  Contract!Complete(g, snapshot, submissions) <=>
           /\ snapshot.cells \subseteq {a \in submissions : Payload[a].generation = g}
           /\ snapshot.expected \subseteq {Payload[a].agent : a \in snapshot.cells}
           /\ \A a \in submissions :
                Payload[a].generation = g /\ Payload[a].agent \in snapshot.expected => a \in snapshot.cells
BY DEF Contract!Complete

LEMMA SlotIs ==
  \A a, b \in Actions :
    Payload[a].agent = Payload[b].agent /\ Payload[a].generation = Payload[b].generation =>
      SlotOf(a) = SlotOf(b)
BY DEF SlotOf

LEMMA FullAgain ==
  ASSUME NEW s, NEW t, Full(s), CompletedOf(t) = CompletedOf(s), t.snapshots = s.snapshots
  PROVE  Full(t)
BY DEF Full

(* What completes after a freeze was not waited for.                         *)
LEMMA FullCompletes ==
  ASSUME TypeOK, RecordsFit, SlotsHold, Indexed(state), Full(state), NEW k \in Requests, Completes(k)
  PROVE  Full(state')
<1>1. CompletedOf(state') = CompletedOf(state) \cup ({k} \ {Seed}) /\ state'.snapshots = state.snapshots
  BY CompletedSteps
<1>2. CASE k = Seed
  <2>1. CompletedOf(state') = CompletedOf(state)
    BY <1>1, <1>2
  <2>2. QED
    BY <1>1, <2>1, FullAgain
<1>3. CASE k # Seed
  <2>1. k \in Actions /\ CompletedOf(state) \in SUBSET Actions /\ CompletedOf(state') \in SUBSET Actions
    BY <1>3 DEF Requests, CompletedOf
  <2>2. state.index[SlotOf(k)] \in {None, k}
    BY <2>1 DEF Completes, SlotsHold
  <2> SUFFICES ASSUME NEW g \in Generations, state.snapshots[g] # None
               PROVE  Contract!Complete(g, state.snapshots[g], CompletedOf(state'))
    BY <1>1 DEF Full
  <2> DEFINE snapshot == state.snapshots[g]
  <2>3. Contract!Complete(g, snapshot, CompletedOf(state))
    BY DEF Full
  <2>4. /\ snapshot.cells \subseteq {a \in CompletedOf(state) : Payload[a].generation = g}
        /\ snapshot.expected \subseteq {Payload[a].agent : a \in snapshot.cells}
        /\ \A a \in CompletedOf(state) :
             Payload[a].generation = g /\ Payload[a].agent \in snapshot.expected => a \in snapshot.cells
    BY <2>1, <2>3, CompleteIs
  <2> HIDE DEF snapshot
  <2>5. ASSUME Payload[k].generation = g, Payload[k].agent \in snapshot.expected
        PROVE  k \in snapshot.cells
    <3>1. PICK c \in snapshot.cells : Payload[c].agent = Payload[k].agent
      BY <2>4, <2>5
    <3>2. c \in CompletedOf(state) /\ Payload[c].generation = g /\ c \in Actions
      BY <2>1, <2>4
    <3>3. SlotOf(c) = SlotOf(k)
      BY <2>1, <2>5, <3>1, <3>2, SlotIs
    <3>4. state.index[SlotOf(k)] = c /\ c # None
      BY <3>2, <3>3, BoardAssumption DEF Indexed
    <3>5. QED
      BY <2>2, <3>4
  <2>6. /\ snapshot.cells \subseteq {a \in CompletedOf(state') : Payload[a].generation = g}
        /\ snapshot.expected \subseteq {Payload[a].agent : a \in snapshot.cells}
        /\ \A a \in CompletedOf(state') :
             Payload[a].generation = g /\ Payload[a].agent \in snapshot.expected => a \in snapshot.cells
    BY <1>1, <2>4, <2>5
  <2>7. QED
    BY <2>1, <2>6, CompleteIs DEF snapshot
<1>4. QED
  BY <1>2, <1>3

(* A freeze leaves out none of those it waits for.                           *)
LEMMA FullFreezes ==
  ASSUME TypeOK, Indexed(state), Full(state), NEW h \in Generations, NEW snapshot \in Snapshot,
         Freezes(h, snapshot)
  PROVE  Full(state')
<1>1. /\ state'.records = state.records /\ state'.snapshots = [state.snapshots EXCEPT ![h] = snapshot]
      /\ state.snapshots \in [Generations -> Snapshot \cup {None}]
  BY DEF Freezes, TypeOK, State
<1>2. CompletedOf(state') = CompletedOf(state) /\ CompletedOf(state) \in SUBSET Actions
  BY <1>1 DEF CompletedOf
<1>3. /\ snapshot.cells \subseteq {a \in CompletedOf(state) : Payload[a].generation = h}
      /\ {Payload[a].agent : a \in snapshot.cells} =
           {Payload[a].agent : a \in {b \in CompletedOf(state) : Payload[b].generation = h}}
      /\ snapshot.expected \subseteq {Payload[a].agent : a \in snapshot.cells}
  BY DEF Freezes, AgentsOf, Completed, CompletedOf
<1>4. ASSUME NEW a \in CompletedOf(state), Payload[a].generation = h PROVE a \in snapshot.cells
  <2>0. Payload[a].agent \in {Payload[b].agent : b \in snapshot.cells}
    <3>1. a \in {b \in CompletedOf(state) : Payload[b].generation = h}
      BY <1>4
    <3>2. Payload[a].agent \in {Payload[c].agent : c \in {b \in CompletedOf(state) : Payload[b].generation = h}}
      BY <3>1
    <3>3. QED
      BY <1>3, <3>2
  <2>1. PICK c \in snapshot.cells : Payload[c].agent = Payload[a].agent
    BY <2>0
  <2>2. c \in CompletedOf(state) /\ Payload[c].generation = h
    BY <1>3
  <2>3. SlotOf(c) = SlotOf(a)
    BY <1>2, <1>4, <2>1, <2>2, SlotIs
  <2>4. QED
    BY <2>2, <2>3 DEF Indexed
<1>5. Contract!Complete(h, snapshot, CompletedOf(state))
  BY <1>2, <1>3, <1>4, CompleteIs
<1>6. ASSUME NEW g \in Generations, state'.snapshots[g] # None
      PROVE  Contract!Complete(g, state'.snapshots[g], CompletedOf(state))
  <2>1. CASE g = h
    BY <1>1, <1>5, <2>1
  <2>2. CASE g # h
    BY <1>1, <1>6, <2>2 DEF Full
  <2>3. QED
    BY <2>1, <2>2
<1>7. QED
  BY <1>2, <1>6 DEF Full

LEMMA FullStep ==
  TypeOK /\ RecordsFit /\ SlotsHold /\ IndexesFit /\ SnapshotsFull /\ Shapes => SnapshotsFull'
<1> SUFFICES ASSUME TypeOK, RecordsFit, SlotsHold, Indexed(state), Full(disk), ~broken => Full(state),
                    Shapes
             PROVE  Full(disk') /\ (~broken' => Full(state'))
  BY DEF SnapshotsFull, IndexesFit, Full, Indexed, CompletedOf, SlotOf, Contract!Complete
<1> DEFINE Fits == Full(disk') /\ (~broken' => Full(state'))
<1>1. ASSUME NEW k \in Requests, Begins(k) \/ GivesUp(k) \/ Advances(k) \/ Fails(k) \/ Ends(k)
      PROVE  Fits
  <2>1. disk' = disk /\ broken' = broken
    BY <1>1 DEF Begins, GivesUp, Advances, Fails, Ends
  <2>2. ~broken => CompletedOf(state') = CompletedOf(state) /\ state'.snapshots = state.snapshots
    BY <1>1, CompletedSteps
  <2>3. QED
    BY <2>1, <2>2, FullAgain
<1>2. ASSUME NEW k \in Requests, Completes(k) PROVE Fits
  BY <1>2, FullCompletes DEF Completes
<1>3. ASSUME NEW k \in Requests \cup Generations, Writes(k) PROVE Fits
  BY <1>3 DEF Writes
<1>4. ASSUME NEW g \in Generations, NEW snapshot \in Snapshot, Freezes(g, snapshot) PROVE Fits
  BY <1>4, FullFreezes DEF Freezes
<1>5. ASSUME NEW k, HandsOut(k) \/ Forgets(k) \/ Breaks
                    \/ UNCHANGED <<state, disk, broken, op, busy, accepted, frozen>>
      PROVE  Fits
  BY <1>5 DEF HandsOut, Forgets, Breaks
<1>6. Restarts => Fits
  BY DEF Restarts
<1>7. QED
  BY <1>1, <1>2, <1>3, <1>4, <1>5, <1>6 DEF Shapes

-----------------------------------------------------------------------------
LEMMA InitInv == Init => IInv
<1> SUFFICES ASSUME Init PROVE IInv
  OBVIOUS
<1>1. /\ state = FreshState /\ disk = FreshState /\ accepted = {}
      /\ \A k \in Requests \cup Generations : op[k] = Idle
      /\ \A g \in Generations : frozen[g] = None
  BY DEF Init
<1>2. /\ \A k \in Requests : FreshState.records[k] = "none"
      /\ \A g \in Generations : FreshState.snapshots[g] = None
  BY DEF FreshState
<1>3. Idle.pc = "idle" /\ Idle.saved = FALSE
  BY DEF Idle, At
<1>4. RecordsFit /\ DiskIsBehind /\ AcceptedStay
  BY <1>1, <1>2, <1>3 DEF RecordsFit, DiskIsBehind, AcceptedStay, Underway, Claiming
<1>5. SnapshotsStay /\ SnapshotsFull
  BY <1>1, <1>2, <1>3 DEF SnapshotsStay, SnapshotsFull, Full
<1>6. SlotsHold
  BY <1>1, <1>3 DEF SlotsHold, Claiming, Requests
<1>7. IndexesFit
  BY <1>1, <1>2 DEF IndexesFit, Indexed, CompletedOf, Requests
<1>8. BrokenIsFault /\ GivenFit
  BY DEF Init, BrokenIsFault, GivenFit
<1>9. QED
  BY <1>4, <1>5, <1>6, <1>7, <1>8, InitType DEF IInv

LEMMA NextInv == IInv /\ [Next]_vars => IInv'
<1> SUFFICES ASSUME IInv, [Next]_vars PROVE IInv'
  OBVIOUS
<1>1. Shapes /\ Gives /\ Counts /\ TypeOK'
  BY StepShapes, StepGives, NextType DEF IInv
<1>2. RecordsFit' /\ DiskIsBehind' /\ AcceptedStay'
  BY <1>1, RecordsStep, BehindStep, AcceptedStep DEF IInv
<1>3. SnapshotsStay' /\ SlotsHold'
  BY <1>1, SnapshotsStep, SlotsStep DEF IInv
<1>4. IndexesFit' /\ SnapshotsFull'
  BY <1>1, IndexesStep, FullStep DEF IInv
<1>6. BrokenIsFault' /\ GivenFit'
  BY <1>1, BrokenStep, GivenStep DEF IInv
<1>5. QED
  BY <1>1, <1>2, <1>3, <1>4, <1>6 DEF IInv

LEMMA Invariance == Spec => []IInv
BY InitInv, NextInv, PTL DEF Spec

(* The state of the board and its file have the types the code gives them.   *)
THEOREM BoardTypes == Spec => []TypeOK
<1>1. IInv => TypeOK
  BY DEF IInv
<1>2. QED
  BY <1>1, Invariance, PTL

(* What an operation ended with is in memory and in the file for good:       *)
(* persist() ends before it does, a settled record is never begun again, and *)
(* a restart reads the file.  What duplicates and lookups were given from    *)
(* memory before it was in the file, stays there until a fault.              *)
THEOREM AnswersStay == Spec => []AnswersAreKept
<1>1. IInv => AnswersAreKept
  <2> SUFFICES ASSUME IInv PROVE AnswersAreKept
    OBVIOUS
  <2>1. \A k \in accepted : state.records[k] = "completed" /\ disk.records[k] = "completed"
    BY DEF IInv, AcceptedStay
  <2>2. ASSUME NEW g \in Generations, frozen[g] # None
        PROVE  disk.snapshots[g] = frozen[g] /\ state.snapshots[g] = frozen[g]
    BY <2>2 DEF IInv, SnapshotsStay
  <2>3. NothingRetracted
    BY DEF IInv, GivenFit, NothingRetracted
  <2>4. QED
    BY <2>1, <2>2, <2>3 DEF AnswersAreKept, Lasts
<1>2. QED
  BY <1>1, Invariance, PTL

LEMMA FreshContract == Init => Contract!Init
<1> SUFFICES ASSUME Init PROVE Contract!Init
  OBVIOUS
<1>1. disk.snapshots = [g \in Generations |-> None] /\ \A k \in Requests : disk.records[k] = "none"
  BY DEF Init, FreshState
<1>2. QED
  BY <1>1 DEF Contract!Init, Requests

(* A write of the file keeps the contract, and no other step is seen in it.  *)
LEMMA ContractStep == IInv /\ [Next]_vars => [Contract!Save]_(Contract!vars)
<1> SUFFICES ASSUME IInv, Shapes PROVE [Contract!Save]_(Contract!vars)
  BY StepShapes DEF IInv
<1>1. CASE disk' = disk
  BY <1>1 DEF Contract!vars
<1>2. ASSUME NEW k \in Requests \cup Generations, Writes(k) PROVE Contract!Save
  <2>1. disk' = state /\ ~broken
    BY <1>2 DEF Writes
  <2>2. CompletedOf(disk) \subseteq CompletedOf(state)
    BY <2>1 DEF IInv, DiskIsBehind, CompletedOf, Requests
  <2>3. Contract!OnePerCell(CompletedOf(state))
    <3> SUFFICES ASSUME NEW a \in CompletedOf(state), NEW b \in CompletedOf(state),
                        Payload[a].agent = Payload[b].agent, Payload[a].generation = Payload[b].generation
                 PROVE  a = b
      BY DEF Contract!OnePerCell, CompletedOf
    <3>1. SlotOf(a) = SlotOf(b)
      BY SlotIs DEF CompletedOf
    <3>2. QED
      BY <3>1 DEF IInv, IndexesFit, Indexed
  <2>4. state.snapshots \in [Generations -> Contract!Snapshot \cup {None}]
    <3>1. state.snapshots \in [Generations -> Snapshot \cup {None}]
      BY DEF IInv, TypeOK, State
    <3>2. Snapshot \subseteq Contract!Snapshot
      BY BoardAssumption DEF Snapshot, Contract!Snapshot
    <3>3. QED
      BY <3>1, <3>2
  <2>5. ASSUME NEW g \in Generations
        PROVE  /\ disk.snapshots[g] # None => state.snapshots[g] = disk.snapshots[g]
               /\ state.snapshots[g] # None =>
                    Contract!Complete(g, state.snapshots[g], CompletedOf(state))
    BY <2>1 DEF IInv, SnapshotsStay, SnapshotsFull, Full
  <2>6. CompletedOf(disk) = {a \in Actions : disk.records[a] = "completed"}
        /\ CompletedOf(state) = {a \in Actions : disk'.records[a] = "completed"}
    BY <2>1 DEF CompletedOf
  <2>7. QED
    BY <2>1, <2>2, <2>3, <2>4, <2>5, <2>6 DEF Contract!Save
<1>3. disk' = disk \/ \E k \in Requests \cup Generations : Writes(k)
  BY DEF Shapes, Begins, GivesUp, Advances, Fails, Completes, Ends, HandsOut, Forgets, Freezes,
         Breaks, Restarts
<1>4. QED
  BY <1>1, <1>2, <1>3

(* The board implements its contract, however requests, freezes, crashes and *)
(* failed writes interleave: a submission that completes after the freeze of *)
(* its generation was not waited for (executeSubmission, freezeSnapshot). *)
THEOREM BoardKeepsContract == Spec => KeepsContract
<1>1. Spec => Init /\ [][Next]_vars /\ []IInv
  BY Invariance, PTL DEF Spec
<1>2. QED
  BY <1>1, FreshContract, ContractStep, PTL DEF KeepsContract, Contract!Spec
=============================================================================
