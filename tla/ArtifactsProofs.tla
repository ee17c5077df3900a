---------------------------- MODULE ArtifactsProofs ----------------------------
(***************************************************************************)
(* The evidence of the two services, proved for any number of actions,     *)
(* candidates and crashes: whoever is told a verdict is told what the      *)
(* immutable file of the evidence says, the registry speaks only for files *)
(* that are there, and no candidate that was answered for is lost.         *)
(***************************************************************************)
EXTENDS Artifacts, FiniteSetTheorems, TLAPS

(* The types of the variables. *)
Typed ==
  /\ state \in [Services -> State] /\ disk \in [Services -> State]
  /\ candidates \in [Sources -> File]
  /\ evidence \in [Measured -> File]
  /\ op \in [Actions -> Op]
  /\ told \in [Measured -> SUBSET Verdicts]
  /\ answered \subseteq Checks
  /\ faults \in 0..MaxFaults

(* A verdict of a is backed when the file of the evidence shows it whole. *)
Backed(a, verdict) == evidence[a].file = "whole" /\ evidence[a].verdict = verdict

(* Where an operation stands says what its files and its receipt hold. *)
Running == {"receipt", "candidate", "checking", "measuring", "evidence"}
OpFits(a) ==
  /\ op[a].pc \in Running => RecordOf(a).status = "in_progress"
  /\ op[a].pc = "candidate" => a \in Checks
  /\ op[a].pc \in {"checking", "measuring", "evidence"} =>
       a \in Measured /\ candidates[SourceOf[a]].file = "whole"
  /\ op[a].pc = "measuring" => evidence[a].file = "absent"
  /\ op[a].pc = "evidence" => evidence[a].file = "torn" /\ op[a].verdict \in Verdicts
  /\ op[a].pc = "result" /\ a \in Measured => Backed(a, op[a].verdict)
OpsFit == \A a \in Actions : OpFits(a)

(* A whole file has a verdict, and no other verdict of a is in memory, on     *)
(* disk or with anyone. *)
VerdictsBacked ==
  \A a \in Measured :
    /\ evidence[a].file = "whole" => evidence[a].verdict \in Verdicts
    /\ \A service \in {state[ServiceOf(a)], disk[ServiceOf(a)]} :
         service.records[a].status = "completed" => Backed(a, service.records[a].verdict)
    /\ \A verdict \in told[a] : Backed(a, verdict)

(* A candidate enters the registry in memory before it is on disk, there      *)
(* before the check is answered, and never leaves it.                         *)
InMemory(s) == state["executor"].registry[s] # None
OnDisk(s) == disk["executor"].registry[s] # None
RegistryLasts ==
  /\ \A s \in Sources : OnDisk(s) => InMemory(s)
  /\ \A a \in Checks :
       op[a].pc = "result" => InMemory(SourceOf[a]) /\ (op[a].saved => OnDisk(SourceOf[a]))
  /\ \A a \in answered : OnDisk(SourceOf[a])

(* A refusal that is on disk is in memory, too.                              *)
RefusalsLast ==
  \A a \in Actions :
    disk[ServiceOf(a)].records[a].status = "rejected" => RecordOf(a).status = "rejected"

(* serializeBenchmark() lets one operation of a service past its queue.      *)
Exclusive ==
  \A a, b \in Actions :
    a # b /\ ServiceOf(a) = ServiceOf(b) => ~(PastQueue(a) /\ PastQueue(b))

IInv ==
  Typed /\ OpsFit /\ VerdictsBacked /\ RegistryIsBacked /\ RegistryLasts /\ RefusalsLast
  /\ Exclusive

-----------------------------------------------------------------------------
(* The services of the actions, and what they do not share.                  *)
LEMMA Sorts ==
  /\ Checks \subseteq Actions /\ Reads \subseteq Actions /\ Evaluations \subseteq Actions
  /\ Measured \subseteq Actions
  /\ \A a \in Actions : ServiceOf(a) \in Services /\ SourceOf[a] \in Sources
  /\ \A a \in Checks \cup Reads : ServiceOf(a) = "executor"
  /\ \A a \in Reads : a \notin Measured /\ a \notin Checks
  /\ None \notin Verdicts /\ None \notin Checks /\ Fail \in Verdicts
BY ArtifactsAssumption
   DEF ArtifactsAssumption, Actions, Measured, ServiceOf, Services, Sources

(* What an assignment to one record changes.                                 *)
LEMMA OneRecord ==
  ASSUME Typed, NEW a \in Actions, NEW status \in Status, NEW verdict \in Verdicts \cup {None}
  PROVE  LET new == SetRecord(a, status, verdict) IN
         /\ new \in [Services -> State]
         /\ \A s \in Services : new[s].registry = state[s].registry
         /\ \A s \in Services : \A b \in Actions :
              new[s].records[b] = IF s = ServiceOf(a) /\ b = a
                                  THEN [status |-> status, verdict |-> verdict]
                                  ELSE state[s].records[b]
<1> DEFINE here == ServiceOf(a)
           record == [status |-> status, verdict |-> verdict]
           records == [state[here].records EXCEPT ![a] = record]
           changed == [state[here] EXCEPT !.records = records]
           new == [state EXCEPT ![here] = changed]
<1>1. here \in Services
  BY Sorts
<1>2. state[here] \in State
  BY <1>1 DEF Typed
<1>3. record \in Record
  BY DEF Record
<1>4. records \in [Actions -> Record]
  BY <1>2, <1>3 DEF State
<1>5. changed \in State /\ changed.records = records /\ changed.registry = state[here].registry
  BY <1>2, <1>4 DEF State
<1>6. SetRecord(a, status, verdict) = new
  BY DEF SetRecord
<1>7. new \in [Services -> State] /\ new[here] = changed
      /\ \A s \in Services \ {here} : new[s] = state[s]
  BY <1>1, <1>5 DEF Typed
<1>8. records[a] = record /\ \A b \in Actions \ {a} : records[b] = state[here].records[b]
  BY <1>2 DEF State
<1> HIDE DEF here, record, records, changed, new
<1>9. \A s \in Services : new[s].registry = state[s].registry
  BY <1>5, <1>7
<1>10. ASSUME NEW s \in Services, NEW b \in Actions
       PROVE  new[s].records[b] = IF s = here /\ b = a THEN record ELSE state[s].records[b]
  BY <1>5, <1>7, <1>8
<1> QED
  BY <1>6, <1>7, <1>9, <1>10 DEF here, record

(* What the end of a measurement changes: its record, and the registry of    *)
(* the executor at its candidate.                                            *)
Ended(a, verdict, status, shown) ==
  [SetRecord(a, status, shown) EXCEPT !["executor"].registry = Registered(a, verdict)]
LEMMA TwoEntries ==
  ASSUME Typed, NEW a \in Checks, NEW verdict \in Verdicts, NEW status \in Status,
         NEW shown \in Verdicts \cup {None}
  PROVE  LET new == Ended(a, verdict, status, shown) IN
         /\ new \in [Services -> State]
         /\ Registered(a, verdict) \in [Sources -> Checks \cup {None}]
         /\ new["executor"].registry = Registered(a, verdict)
         /\ new["evaluator"] = state["evaluator"]
         /\ \A b \in Actions :
              new["executor"].records[b] = IF b = a THEN [status |-> status, verdict |-> shown]
                                           ELSE state["executor"].records[b]
<1> DEFINE settled == SetRecord(a, status, shown)
           registry == Registered(a, verdict)
           changed == [settled["executor"] EXCEPT !.registry = registry]
           new == [settled EXCEPT !["executor"] = changed]
<1>1. a \in Actions /\ ServiceOf(a) = "executor" /\ SourceOf[a] \in Sources
  BY Sorts
<1>2. /\ settled \in [Services -> State]
      /\ \A s \in Services : \A b \in Actions :
           settled[s].records[b] = IF s = "executor" /\ b = a
                                   THEN [status |-> status, verdict |-> shown]
                                   ELSE state[s].records[b]
  BY <1>1, OneRecord
<1>3. settled["evaluator"] = state["evaluator"]
  BY <1>1 DEF SetRecord, Typed, Services
<1>4. "executor" \in Services /\ "evaluator" \in Services
  BY DEF Services
<1>5. registry \in [Sources -> Checks \cup {None}]
  BY <1>1, <1>4 DEF Registered, Typed, State
<1> HIDE DEF settled, registry
<1>6. changed \in State /\ changed.registry = registry
      /\ changed.records = settled["executor"].records
  BY <1>2, <1>4, <1>5 DEF State
<1>7. new \in [Services -> State] /\ new["executor"] = changed
      /\ new["evaluator"] = settled["evaluator"]
  BY <1>2, <1>4, <1>6 DEF Services
<1> HIDE DEF changed
<1> QED
  BY <1>2, <1>3, <1>4, <1>5, <1>6, <1>7 DEF settled, registry, changed, Ended

(* What Go says of the operations.                                           *)
LEMMA Goes ==
  ASSUME Typed, NEW a \in Actions, NEW pc, NEW verdict, At(pc, verdict) \in Op,
         Go(a, pc, verdict)
  PROVE  /\ op' \in [Actions -> Op]
         /\ op'[a] = At(pc, verdict)
         /\ \A b \in Actions \ {a} : op'[b] = op[b]
BY DEF Typed, Go

-----------------------------------------------------------------------------
LEMMA InitHolds == Init => IInv
<1> SUFFICES ASSUME Init PROVE IInv
  OBVIOUS
<1>1. Typed
  <2>1. FreshState \in State
    BY DEF FreshState, State, Record, Status
  <2>2. Absent \in File /\ Idle \in Op
    BY DEF Absent, File, Idle, At, Op
  <2> QED
    BY <2>1, <2>2, ArtifactsAssumption DEF Init, Typed, ArtifactsAssumption
<1>2. \A s \in Services : state[s] = FreshState /\ disk[s] = FreshState
  BY DEF Init
<1>3. \A a \in Actions : op[a].pc = "idle"
  BY DEF Init, Idle, At
<1>4. OpsFit /\ Exclusive
  BY <1>3 DEF OpsFit, OpFits, Exclusive, PastQueue, Running
<1>5. \A a \in Actions :
        FreshState.records[a].status = "none" /\ FreshState.records[a].verdict = None
  BY DEF FreshState
<1>6. \A s \in Sources : FreshState.registry[s] = None
  BY DEF FreshState
<1>7. VerdictsBacked
  BY <1>2, <1>5, Sorts DEF VerdictsBacked, Init, Absent
<1>8. RefusalsLast
  BY <1>2, <1>5, Sorts DEF RefusalsLast, RecordOf
<1>9. RegistryIsBacked
  BY <1>2, <1>5, <1>6, Sorts DEF RegistryIsBacked, Services
<1>10. RegistryLasts
  BY <1>2, <1>3, <1>6, Sorts DEF RegistryLasts, InMemory, OnDisk, Services, Init
<1> QED
  BY <1>1, <1>4, <1>7, <1>8, <1>9, <1>10 DEF IInv

(* A step in which an unsettled operation gives its record a status and goes *)
(* where no file is at stake keeps the invariant, if only a read completes   *)
(* so; so fail the attempts (Fails), and so they begin (Receive).            *)
LEMMA OneRecordKeeps ==
  ASSUME IInv, NEW a \in Actions, NEW status \in Status, NEW pc,
         NEW verdict \in Verdicts \cup {None},
         RecordOf(a).status \notin {"completed", "rejected"},
         \/ pc = "failure" /\ status # "completed"
         \/ pc = "receipt" /\ status = "in_progress"
         \/ pc = "result" /\ status = "completed" /\ a \in Reads,
         state' = SetRecord(a, status, verdict), Go(a, pc, verdict),
         UNCHANGED <<disk, files, clients>>, faults' \in 0..MaxFaults
  PROVE  IInv'
<1> USE DEF IInv
<1>1. Typed
  OBVIOUS
<1>2. /\ state' \in [Services -> State]
      /\ \A s \in Services : state'[s].registry = state[s].registry
      /\ \A s \in Services : \A b \in Actions :
           state'[s].records[b] = IF s = ServiceOf(a) /\ b = a
                                  THEN [status |-> status, verdict |-> verdict]
                                  ELSE state[s].records[b]
  BY <1>1, OneRecord
<1>3. /\ op' \in [Actions -> Op]
      /\ op'[a] = At(pc, verdict)
      /\ \A b \in Actions \ {a} : op'[b] = op[b]
  <2>1. At(pc, verdict) \in Op
    BY DEF At, Op, Saving
  <2> QED
    BY <1>1, <2>1, Goes
<1>4. UNCHANGED <<disk, candidates, evidence, told, answered>>
  BY DEF files, clients
<1>5. Typed'
  BY <1>1, <1>2, <1>3, <1>4 DEF Typed
<1>6. \A b \in Actions :
        RecordOf(b)' = IF b = a THEN [status |-> status, verdict |-> verdict] ELSE RecordOf(b)
  BY <1>2, Sorts DEF RecordOf, ServiceOf
<1>7. OpsFit'
  <2> SUFFICES ASSUME NEW b \in Actions PROVE OpFits(b)'
    BY DEF OpsFit
  <2>1. OpFits(b)
    BY DEF OpsFit
  <2>2. CASE b = a
    BY <1>3, <1>6, <2>2, Sorts DEF OpFits, At, Running
  <2>3. CASE b # a
    BY <1>3, <1>4, <1>6, <2>1, <2>3 DEF OpFits, Backed
  <2> QED
    BY <2>2, <2>3
<1>8. VerdictsBacked'
  <2> SUFFICES ASSUME NEW b \in Measured
               PROVE  /\ evidence'[b].file = "whole" => evidence'[b].verdict \in Verdicts
                      /\ \A service \in {state'[ServiceOf(b)], disk'[ServiceOf(b)]} :
                           service.records[b].status = "completed" =>
                             Backed(b, service.records[b].verdict)'
                      /\ \A v \in told'[b] : Backed(b, v)'
    BY DEF VerdictsBacked, ServiceOf
  <2>1. b \in Actions /\ ServiceOf(b) \in Services
    BY Sorts
  <2>2. \A v : Backed(b, v)' <=> Backed(b, v)
    BY <1>4 DEF Backed
  <2>3. state'[ServiceOf(b)].records[b].status = "completed" =>
          state'[ServiceOf(b)].records[b] = state[ServiceOf(b)].records[b]
    BY <1>2, <2>1, Sorts
  <2> QED
    BY <1>4, <2>2, <2>3 DEF VerdictsBacked
<1>9. RegistryIsBacked'
  <2>1. "executor" \in Services
    BY DEF Services
  <2>2. \A b \in Checks :
          state'["executor"].records[b].status = "completed" =>
            state'["executor"].records[b] = state["executor"].records[b]
    BY <1>2, <2>1, Sorts
  <2> QED
    BY <1>2, <1>4, <2>1, <2>2 DEF RegistryIsBacked
<1>10. RegistryLasts'
  <2>1. "executor" \in Services
    BY DEF Services
  <2>2. \A s : (InMemory(s)' <=> InMemory(s)) /\ (OnDisk(s)' <=> OnDisk(s))
    BY <1>2, <1>4, <2>1 DEF InMemory, OnDisk
  <2>3. \A b \in Checks : op'[b].pc = "result" => op'[b] = op[b]
    BY <1>3, Sorts DEF At
  <2> QED
    BY <1>4, <2>2, <2>3 DEF RegistryLasts
<1>11. RefusalsLast'
  <2> SUFFICES ASSUME NEW b \in Actions, disk'[ServiceOf(b)].records[b].status = "rejected"
               PROVE  RecordOf(b)'.status = "rejected"
    BY DEF RefusalsLast, ServiceOf
  <2>1. RecordOf(b).status = "rejected"
    BY <1>4 DEF RefusalsLast
  <2> QED
    BY <1>6, <2>1
<1>12. Exclusive'
  <2>1. ~PastQueue(a)'
    BY <1>3 DEF PastQueue, At
  <2>2. \A b \in Actions \ {a} : PastQueue(b)' <=> PastQueue(b)
    BY <1>3 DEF PastQueue
  <2> QED
    BY <2>1, <2>2 DEF Exclusive, ServiceOf
<1> QED
  BY <1>5, <1>7, <1>8, <1>9, <1>10, <1>11, <1>12

(* A step in which an operation goes on without an answer keeps the          *)
(* invariant, if it spoils no whole file and enters the queue on its turn.   *)
LEMMA MoveKeeps ==
  ASSUME IInv, NEW a \in Actions, NEW pc, NEW verdict, At(pc, verdict) \in Op,
         Go(a, pc, verdict), pc # "result", OpFits(a)',
         UNCHANGED <<state, disk, clients, faults>>,
         candidates' \in [Sources -> File], evidence' \in [Measured -> File],
         \A s \in Sources : candidates[s].file = "whole" => candidates'[s].file = "whole",
         \A b \in Measured \ {a} : evidence'[b] = evidence[b],
         a \in Measured /\ (evidence[a].file = "whole" \/ evidence'[a].file = "whole") =>
           evidence'[a] = evidence[a],
         PastQueue(a)' => PastQueue(a) \/ MyTurn(a)
  PROVE  IInv'
<1> USE DEF IInv
<1>1. /\ op' \in [Actions -> Op]
      /\ op'[a] = At(pc, verdict)
      /\ \A b \in Actions \ {a} : op'[b] = op[b]
  BY Goes
<1>2. UNCHANGED <<state, disk, told, answered, faults>>
  BY DEF clients
<1>3. Typed'
  BY <1>1, <1>2 DEF Typed
<1>4. \A b \in Measured :
        evidence[b].file = "whole" \/ evidence'[b].file = "whole" => evidence'[b] = evidence[b]
  OBVIOUS
<1>5. \A b \in Measured : \A v : Backed(b, v)' <=> Backed(b, v)
  BY <1>4 DEF Backed
<1>6. \A b \in Actions : RecordOf(b)' = RecordOf(b)
  BY <1>2 DEF RecordOf, ServiceOf
<1>7. OpsFit'
  <2> SUFFICES ASSUME NEW b \in Actions \ {a} PROVE OpFits(b)'
    BY DEF OpsFit
  <2>1. OpFits(b)
    BY DEF OpsFit
  <2>2. SourceOf[b] \in Sources
    BY Sorts
  <2> QED
    BY <1>1, <1>5, <1>6, <2>1, <2>2 DEF OpFits
<1>8. VerdictsBacked'
  <2> SUFFICES ASSUME NEW b \in Measured
               PROVE  /\ evidence'[b].file = "whole" => evidence'[b].verdict \in Verdicts
                      /\ \A service \in {state'[ServiceOf(b)], disk'[ServiceOf(b)]} :
                           service.records[b].status = "completed" =>
                             Backed(b, service.records[b].verdict)'
                      /\ \A v \in told'[b] : Backed(b, v)'
    BY DEF VerdictsBacked, ServiceOf
  <2> QED
    BY <1>2, <1>4, <1>5 DEF VerdictsBacked
<1>9. RegistryIsBacked'
  <2> SUFFICES ASSUME NEW service \in {state["executor"], disk["executor"]}, NEW s \in Sources
               PROVE  LET check == service.registry[s]
                          completed == {b \in Checks :
                            SourceOf[b] = s /\ service.records[b].status = "completed"}
                      IN  IF check = None THEN completed = {}
                          ELSE /\ SourceOf[check] = s
                               /\ evidence'[check].file = "whole"
                               /\ candidates'[s].file = "whole"
                               /\ (\E b \in completed : service.records[b].verdict # Fail)
                                    => evidence'[check].verdict # Fail
    BY <1>2 DEF RegistryIsBacked
  <2>1. service \in State
    BY DEF Typed, Services
  <2>2. service.registry[s] # None => service.registry[s] \in Measured
    BY <2>1 DEF State, Measured
  <2> QED
    BY <1>4, <2>2 DEF RegistryIsBacked
<1>10. RegistryLasts'
  <2>1. \A s : (InMemory(s)' <=> InMemory(s)) /\ (OnDisk(s)' <=> OnDisk(s))
    BY <1>2 DEF InMemory, OnDisk
  <2>2. \A b \in Checks : op'[b].pc = "result" => op'[b] = op[b]
    BY <1>1, Sorts DEF At
  <2> QED
    BY <1>2, <2>1, <2>2 DEF RegistryLasts
<1>11. RefusalsLast'
  BY <1>2, <1>6 DEF RefusalsLast, ServiceOf
<1>12. Exclusive'
  <2>1. \A b \in Actions \ {a} : PastQueue(b)' <=> PastQueue(b)
    BY <1>1 DEF PastQueue
  <2>2. \A b, c \in Actions : b # c /\ ServiceOf(b) = ServiceOf(c) =>
          ~(PastQueue(b)' /\ PastQueue(c)')
    BY <2>1 DEF Exclusive, MyTurn
  <2> QED
    BY <2>2 DEF Exclusive, ServiceOf
<1> QED
  BY <1>3, <1>7, <1>8, <1>9, <1>10, <1>11, <1>12

(* The end of a measurement: the evidence is in its file, the record and the *)
(* registry take its verdict.                                                *)
LEMMA SettleKeeps ==
  ASSUME IInv, NEW a \in Measured, NEW verdict \in Verdicts,
         op[a].pc \in {"checking", "evidence"},
         evidence[a].file # "whole" \/ evidence[a].verdict = verdict,
         evidence' \in [Measured -> File],
         evidence'[a].file = "whole" /\ evidence'[a].verdict = verdict,
         \A b \in Measured \ {a} : evidence'[b] = evidence[b],
         Settle(a, verdict), UNCHANGED <<disk, candidates, clients, faults>>
  PROVE  IInv'
<1> USE DEF IInv
<1> DEFINE failed == a \in Seeds /\ verdict = Fail
           status == IF failed THEN "retryable" ELSE "completed"
           shown == IF failed THEN None ELSE verdict
           here == ServiceOf(a)
<1>1. a \in Actions /\ here \in Services /\ SourceOf[a] \in Sources /\ Typed
  BY Sorts
<1>2. status \in Status /\ shown \in Verdicts \cup {None}
  BY DEF Status
<1>3. OpFits(a)
  BY <1>1 DEF OpsFit
<1>4. RecordOf(a).status = "in_progress" /\ candidates[SourceOf[a]].file = "whole"
  BY <1>3 DEF OpFits, Running
<1>5. UNCHANGED <<disk, candidates, told, answered, faults>>
  BY DEF clients
<1>6. state' = IF a \in Checks
               THEN Ended(a, verdict, status, shown)
               ELSE SetRecord(a, status, shown)
  BY DEF Settle, Ended
<1>7. /\ op' \in [Actions -> Op]
      /\ op'[a].pc \in {"failure", "result"} /\ op'[a].saved = FALSE
      /\ op'[a].pc = "result" => ~failed /\ op'[a].verdict = verdict
      /\ \A b \in Actions \ {a} : op'[b] = op[b]
  <2>1. CASE failed
    <3>1. Go(a, "failure", None) /\ At("failure", None) \in Op
      BY <2>1 DEF Settle, At, Op, Saving
    <3> QED
      BY <1>1, <3>1, Goes DEF At
  <2>2. CASE ~failed
    <3>1. Go(a, "result", verdict) /\ At("result", verdict) \in Op
      BY <2>2 DEF Settle, At, Op, Saving
    <3> QED
      BY <1>1, <2>2, <3>1, Goes DEF At
  <2> QED
    BY <2>1, <2>2
<1> HIDE DEF status, shown
<1>8. a \in Checks => here = "executor"
  BY Sorts
<1>9. /\ state' \in [Services -> State]
      /\ \A s \in Services : \A b \in Actions :
           state'[s].records[b] = IF s = here /\ b = a
                                  THEN [status |-> status, verdict |-> shown]
                                  ELSE state[s].records[b]
      /\ \A s \in Services :
           state'[s].registry = IF a \in Checks /\ s = "executor" THEN Registered(a, verdict)
                                ELSE state[s].registry
  <2>1. CASE a \in Checks
    BY <1>1, <1>2, <1>6, <1>8, <2>1, TwoEntries DEF Services
  <2>2. CASE a \notin Checks
    BY <1>1, <1>2, <1>6, <2>2, OneRecord
  <2> QED
    BY <2>1, <2>2
<1>10. "executor" \in Services /\ here = ServiceOf(a)
  BY DEF Services
<1> HIDE DEF here
<1>11. Typed'
  BY <1>1, <1>5, <1>7, <1>9 DEF Typed
<1>12. \A b \in Actions :
         RecordOf(b)' = IF b = a THEN [status |-> status, verdict |-> shown] ELSE RecordOf(b)
  BY <1>9, <1>10, Sorts DEF RecordOf, ServiceOf
<1> DEFINE BackedNow(b, v) == evidence'[b].file = "whole" /\ evidence'[b].verdict = v
<1>13. \A b \in Measured : \A v : Backed(b, v) => BackedNow(b, v)
  BY DEF Backed
<1>13a. \A b, v : Backed(b, v)' <=> evidence'[b].file = "whole" /\ evidence'[b].verdict = v
  BY DEF Backed
<1>14. \A s \in Sources : InMemory(s) => InMemory(s)'
  <2>1. state["executor"].registry \in [Sources -> Checks \cup {None}] /\ a # None
    BY <1>1, <1>10, ArtifactsAssumption DEF Typed, State, ArtifactsAssumption
  <2>2. state'["executor"].registry \in {state["executor"].registry, Registered(a, verdict)}
    BY <1>9, <1>10
  <2> QED
    BY <1>1, <2>1, <2>2 DEF InMemory, Registered
<1>15. OpsFit'
  <2> SUFFICES ASSUME NEW b \in Actions PROVE OpFits(b)'
    BY DEF OpsFit
  <2>1. CASE b = a
    BY <1>7, <2>1 DEF OpFits, Running, Backed
  <2>2. CASE b # a
    <3>1. OpFits(b) /\ op'[b] = op[b] /\ RecordOf(b)' = RecordOf(b)
      BY <1>7, <1>12, <2>2 DEF OpsFit
    <3> QED
      BY <1>5, <1>13, <1>13a, <2>2, <3>1 DEF OpFits
  <2> QED
    BY <2>1, <2>2
<1>16. VerdictsBacked'
  <2> SUFFICES ASSUME NEW b \in Measured
               PROVE  /\ evidence'[b].file = "whole" => evidence'[b].verdict \in Verdicts
                      /\ \A service \in {state'[ServiceOf(b)], disk'[ServiceOf(b)]} :
                           service.records[b].status = "completed" =>
                             BackedNow(b, service.records[b].verdict)
                      /\ \A v \in told'[b] : BackedNow(b, v)
    BY <1>13a DEF VerdictsBacked, ServiceOf
  <2>1. b \in Actions /\ ServiceOf(b) \in Services
    BY Sorts
  <2>2. evidence'[b].file = "whole" => evidence'[b].verdict \in Verdicts
    BY DEF VerdictsBacked
  <2>3. \A v \in told'[b] : BackedNow(b, v)
    BY <1>5, <1>13 DEF VerdictsBacked
  <2>4. disk'[ServiceOf(b)].records[b].status = "completed" =>
          BackedNow(b, disk'[ServiceOf(b)].records[b].verdict)
    BY <1>5, <1>13 DEF VerdictsBacked
  <2>5. state'[ServiceOf(b)].records[b].status = "completed" =>
          BackedNow(b, state'[ServiceOf(b)].records[b].verdict)
    <3>1. CASE b = a
      BY <1>9, <1>10, <2>1, <3>1 DEF status, shown
    <3>2. CASE b # a
      BY <1>9, <1>13, <2>1, <3>2 DEF VerdictsBacked
    <3> QED
      BY <3>1, <3>2
  <2> QED
    BY <2>2, <2>3, <2>4, <2>5
<1>17. RegistryIsBacked'
  <2> SUFFICES ASSUME NEW service \in {state'["executor"], disk'["executor"]}, NEW s \in Sources
               PROVE  LET check == service.registry[s]
                          completed == {b \in Checks :
                            SourceOf[b] = s /\ service.records[b].status = "completed"}
                      IN  IF check = None THEN completed = {}
                          ELSE /\ SourceOf[check] = s
                               /\ evidence'[check].file = "whole"
                               /\ candidates'[s].file = "whole"
                               /\ (\E b \in completed : service.records[b].verdict # Fail)
                                    => evidence'[check].verdict # Fail
    BY DEF RegistryIsBacked
  <2> DEFINE Stands(r) ==
        LET check == r.registry[s]
            completed == {b \in Checks : SourceOf[b] = s /\ r.records[b].status = "completed"}
        IN  IF check = None THEN completed = {}
            ELSE /\ SourceOf[check] = s
                 /\ evidence'[check].file = "whole"
                 /\ candidates'[s].file = "whole"
                 /\ (\E b \in completed : r.records[b].verdict # Fail)
                      => evidence'[check].verdict # Fail
  <2>1. \A b \in Measured : evidence[b].file = "whole" => evidence'[b].file = "whole"
          /\ evidence'[b].verdict = evidence[b].verdict
    OBVIOUS
  <2>2. \A r \in {state["executor"], disk["executor"]} : Stands(r)
    <3> SUFFICES ASSUME NEW r \in {state["executor"], disk["executor"]} PROVE Stands(r)
      OBVIOUS
    <3>1. r \in State
      BY <1>10 DEF Typed
    <3>2. r.registry[s] # None => r.registry[s] \in Measured
      BY <3>1 DEF State, Measured
    <3> QED
      BY <1>5, <2>1, <3>2 DEF RegistryIsBacked
  <2>3. Stands(disk'["executor"])
    BY <1>5, <2>2
  <2>4. Stands(state'["executor"])
    <3>1. CASE a \notin Checks
      <4>1. \A b \in Checks : state'["executor"].records[b] = state["executor"].records[b]
        BY <1>9, <1>10, <3>1, Sorts
      <4>2. state'["executor"].registry = state["executor"].registry
        BY <1>9, <1>10, <3>1
      <4> QED
        BY <2>2, <4>1, <4>2
    <3>2. CASE a \in Checks
      <4>1. \A b \in Checks \ {a} :
              state'["executor"].records[b] = state["executor"].records[b]
        BY <1>9, <1>10, Sorts
      <4>2. state'["executor"].records[a] = [status |-> status, verdict |-> shown]
        BY <1>1, <1>8, <1>9, <1>10, <3>2
      <4>3. state'["executor"].records[a].status = "completed" =>
              state'["executor"].records[a].verdict = verdict
        BY <4>2 DEF status, shown
      <4>4. state["executor"].records[a].status # "completed"
        BY <1>4, <1>8, <1>10, <3>2 DEF RecordOf
      <4>5. state'["executor"].registry = Registered(a, verdict)
        BY <1>9, <1>10, <3>2
      <4>6. state["executor"].registry \in [Sources -> Checks \cup {None}]
        BY <1>10 DEF Typed, State
      <4>7. CASE s # SourceOf[a]
        <5>1. state'["executor"].registry[s] = state["executor"].registry[s]
          BY <4>5, <4>6, <4>7 DEF Registered
        <5> QED
          BY <2>2, <4>1, <4>7, <5>1
      <4>8. CASE s = SourceOf[a] /\ (state["executor"].registry[s] = None \/ verdict # Fail)
        <5>1. state'["executor"].registry[s] = a
          BY <4>5, <4>6, <4>8 DEF Registered
        <5>2. a # None
          BY <3>2, Sorts
        <5>3. \A b \in Checks \ {a} : SourceOf[b] = s /\ state["executor"].registry[s] = None =>
                state'["executor"].records[b].status # "completed"
          BY <2>2, <4>1
        <5>4. verdict = Fail => \A b \in Checks : SourceOf[b] = s
                /\ state'["executor"].records[b].status = "completed" =>
                     state'["executor"].records[b].verdict = Fail
          BY <4>3, <4>8, <5>3
        <5> QED
          BY <1>4, <1>5, <4>8, <5>1, <5>2, <5>4
      <4>9. CASE s = SourceOf[a] /\ state["executor"].registry[s] # None /\ verdict = Fail
        <5>1. state'["executor"].registry[s] = state["executor"].registry[s]
          BY <4>5, <4>6, <4>9 DEF Registered
        <5> QED
          BY <2>2, <4>1, <4>3, <4>9, <5>1
      <4> QED
        BY <4>7, <4>8, <4>9
    <3> QED
      BY <3>1, <3>2
  <2> QED
    BY <2>3, <2>4
<1>18. RegistryLasts'
  <2>1. \A s : OnDisk(s)' <=> OnDisk(s)
    BY <1>5 DEF OnDisk
  <2>2. a \in Checks => InMemory(SourceOf[a])'
    <3> SUFFICES ASSUME a \in Checks PROVE InMemory(SourceOf[a])'
      OBVIOUS
    <3>1. state'["executor"].registry = Registered(a, verdict) /\ a # None
      BY <1>9, <1>10, Sorts
    <3>2. state["executor"].registry \in [Sources -> Checks \cup {None}]
      BY <1>10 DEF Typed, State
    <3> QED
      BY <1>1, <3>1, <3>2 DEF InMemory, Registered
  <2> QED
    BY <1>5, <1>7, <1>14, <2>1, <2>2, Sorts DEF RegistryLasts
<1>19. RefusalsLast'
  <2> SUFFICES ASSUME NEW b \in Actions, disk'[ServiceOf(b)].records[b].status = "rejected"
               PROVE  RecordOf(b)'.status = "rejected"
    BY DEF RefusalsLast, ServiceOf
  <2>1. RecordOf(b).status = "rejected"
    BY <1>5 DEF RefusalsLast
  <2> QED
    BY <1>4, <1>12, <2>1
<1>20. Exclusive'
  <2>1. ~PastQueue(a)'
    BY <1>7 DEF PastQueue
  <2>2. \A b \in Actions \ {a} : PastQueue(b)' <=> PastQueue(b)
    BY <1>7 DEF PastQueue
  <2> QED
    BY <2>1, <2>2 DEF Exclusive, ServiceOf
<1> QED
  BY <1>11, <1>15, <1>16, <1>17, <1>18, <1>19, <1>20

-----------------------------------------------------------------------------
(* One lemma for each operation.                                             *)
LEMMA ReceiveKeeps ==
  ASSUME IInv, NEW a \in Actions, Receive(a)
  PROVE  IInv'
<1>1. RecordOf(a).status \notin {"completed", "rejected"} /\ "in_progress" \in Status
  BY DEF Receive, Unsettled, Status
<1>2. /\ state' = SetRecord(a, "in_progress", None) /\ Go(a, "receipt", None)
      /\ UNCHANGED <<disk, files, clients, faults>>
  BY DEF Receive
<1>3. faults' \in 0..MaxFaults
  BY <1>2 DEF IInv, Typed
<1> QED
  BY <1>1, <1>2, <1>3, OneRecordKeeps

(* The failures.                                                             *)
LEMMA FailsKeeps ==
  ASSUME IInv, NEW a \in Actions, NEW status \in {"retryable", "rejected"},
         op[a].pc \in Running, Fails(a, status),
         UNCHANGED <<disk, files, clients>>, faults' \in 0..MaxFaults
  PROVE  IInv'
<1>1. RecordOf(a).status = "in_progress"
  BY DEF IInv, OpsFit, OpFits
<1>2. status \in Status /\ status # "completed"
  BY DEF Status
<1> QED
  BY <1>1, <1>2, OneRecordKeeps DEF Fails

LEMMA SandboxFailsKeeps ==
  ASSUME IInv, NEW a \in Actions, SandboxFails(a)
  PROVE  IInv'
<1>1. faults' \in 0..MaxFaults
  BY ArtifactsAssumption DEF SandboxFails, IInv, Typed, ArtifactsAssumption
<1>2. op[a].pc \in Running /\ Fails(a, "retryable") /\ UNCHANGED <<disk, files, clients>>
  BY DEF SandboxFails, Running
<1> QED
  BY <1>1, <1>2, FailsKeeps

LEMMA EvidenceIsTornKeeps ==
  ASSUME IInv, NEW a \in Actions, EvidenceIsTorn(a)
  PROVE  IInv'
<1>1. faults' \in 0..MaxFaults
  BY DEF EvidenceIsTorn, IInv, Typed
<1>2. op[a].pc \in Running /\ Fails(a, "retryable") /\ UNCHANGED <<disk, files, clients>>
  BY DEF EvidenceIsTorn, Running
<1> QED
  BY <1>1, <1>2, FailsKeeps

LEMMA ReadKeeps ==
  ASSUME IInv, NEW a \in Actions, Read(a)
  PROVE  IInv'
<1> DEFINE check == state["executor"].registry[SourceOf[a]]
<1>1. /\ a \in Reads /\ op[a].pc \in Running /\ faults' \in 0..MaxFaults
      /\ UNCHANGED <<disk, files, clients>>
  BY DEF Read, Saved, Running, IInv, Typed
<1>2. CASE Fails(a, "rejected")
  BY <1>1, <1>2, FailsKeeps
<1>3. CASE Fails(a, "retryable")
  BY <1>1, <1>3, FailsKeeps
<1>4. CASE /\ check # None
           /\ candidates[SourceOf[a]].file = "whole" /\ evidence[check].file = "whole"
           /\ state' = SetRecord(a, "completed", evidence[check].verdict)
           /\ Go(a, "result", evidence[check].verdict)
  <2>1. "executor" \in Services /\ SourceOf[a] \in Sources
    BY Sorts DEF Services
  <2>2. check \in Measured
    BY <1>4, <2>1 DEF IInv, Typed, State, Measured
  <2>3. evidence[check].verdict \in Verdicts
    BY <1>4, <2>2 DEF IInv, VerdictsBacked
  <2>4. RecordOf(a).status = "in_progress" /\ "completed" \in Status
    BY <1>1 DEF IInv, OpsFit, OpFits, Status
  <2> QED
    BY <1>1, <1>4, <2>3, <2>4, OneRecordKeeps
<1> QED
  BY <1>2, <1>3, <1>4 DEF Read

(* The steps that go on.                                                     *)
LEMMA AnswerFailureKeeps ==
  ASSUME IInv, NEW a \in Actions, AnswerFailure(a)
  PROVE  IInv'
<1> USE DEF IInv
<1>1. Go(a, "idle", None) /\ UNCHANGED <<state, disk, clients, faults, candidates, evidence>>
  BY DEF AnswerFailure, files
<1>2. At("idle", None) \in Op
  BY DEF At, Op
<1>3. op'[a] = At("idle", None)
  BY <1>1, <1>2, Goes
<1>4. OpFits(a)' /\ ~PastQueue(a)'
  BY <1>3 DEF OpFits, At, Running, PastQueue
<1>5. candidates' \in [Sources -> File] /\ evidence' \in [Measured -> File]
  BY <1>1 DEF Typed
<1> QED
  BY <1>1, <1>2, <1>4, <1>5, MoveKeeps

LEMMA StartCheckKeeps ==
  ASSUME IInv, NEW a \in Actions, StartCheck(a)
  PROVE  IInv'
<1> USE DEF IInv
<1>1. /\ a \in Checks /\ a \in Measured /\ op[a].pc = "receipt" /\ MyTurn(a)
      /\ SourceOf[a] \in Sources
      /\ UNCHANGED <<disk, evidence, clients, faults>>
  BY Sorts DEF StartCheck, Saved, Measured
<1>2. RecordOf(a).status = "in_progress"
  BY <1>1 DEF OpsFit, OpFits, Running
<1>3. CASE Fails(a, "retryable") /\ UNCHANGED candidates
  BY <1>1, <1>3, FailsKeeps DEF Running, files, Typed
<1>4. CASE /\ candidates[SourceOf[a]].file = "absent" /\ UNCHANGED state
           /\ candidates' = [candidates EXCEPT ![SourceOf[a]] = Torn]
           /\ Go(a, "candidate", None)
  <2>1. At("candidate", None) \in Op
    BY DEF At, Op
  <2>2. op'[a] = At("candidate", None)
    BY <1>4, <2>1, Goes
  <2>3. RecordOf(a)' = RecordOf(a)
    BY <1>4 DEF RecordOf, ServiceOf
  <2>4. OpFits(a)'
    BY <1>1, <1>2, <2>2, <2>3 DEF OpFits, At, Running
  <2>5. candidates' \in [Sources -> File] /\ evidence' \in [Measured -> File]
    BY <1>1, <1>4 DEF Typed, Torn, File
  <2>6. \A s \in Sources : candidates[s].file = "whole" => candidates'[s].file = "whole"
    BY <1>1, <1>4 DEF Typed
  <2> QED
    BY <1>1, <1>4, <2>1, <2>4, <2>5, <2>6, MoveKeeps
<1>5. CASE /\ candidates[SourceOf[a]].file \notin {"absent", "torn"}
           /\ Go(a, "checking", None) /\ UNCHANGED <<state, candidates>>
  <2>1. At("checking", None) \in Op
    BY DEF At, Op
  <2>2. op'[a] = At("checking", None)
    BY <1>5, <2>1, Goes
  <2>3. RecordOf(a)' = RecordOf(a)
    BY <1>5 DEF RecordOf, ServiceOf
  <2>4. candidates[SourceOf[a]].file = "whole"
    BY <1>1, <1>5 DEF Typed, File
  <2>5. OpFits(a)'
    BY <1>1, <1>2, <1>5, <2>2, <2>3, <2>4 DEF OpFits, At, Running
  <2>6. candidates' \in [Sources -> File] /\ evidence' \in [Measured -> File]
    BY <1>1, <1>5 DEF Typed
  <2> QED
    BY <1>1, <1>5, <2>1, <2>5, <2>6, MoveKeeps
<1> QED
  BY <1>3, <1>4, <1>5 DEF StartCheck

LEMMA CandidateWrittenKeeps ==
  ASSUME IInv, NEW a \in Actions, CandidateWritten(a)
  PROVE  IInv'
<1> USE DEF IInv
<1>1. /\ op[a].pc = "candidate" /\ Go(a, "checking", None)
      /\ candidates' = [candidates EXCEPT ![SourceOf[a]] = Whole(None)]
      /\ UNCHANGED <<state, disk, evidence, clients, faults>>
  BY DEF CandidateWritten
<1>2. a \in Checks /\ a \in Measured /\ SourceOf[a] \in Sources
      /\ RecordOf(a).status = "in_progress"
  BY <1>1, Sorts DEF OpsFit, OpFits, Running, Measured
<1>3. At("checking", None) \in Op
  BY DEF At, Op
<1>4. op'[a] = At("checking", None)
  BY <1>1, <1>3, Goes
<1>5. RecordOf(a)' = RecordOf(a)
  BY <1>1 DEF RecordOf, ServiceOf
<1>6. candidates'[SourceOf[a]].file = "whole" /\ candidates' \in [Sources -> File]
      /\ evidence' \in [Measured -> File]
  BY <1>1, <1>2 DEF Typed, Whole, File
<1>7. OpFits(a)'
  BY <1>2, <1>4, <1>5, <1>6 DEF OpFits, At, Running
<1>8. \A s \in Sources : candidates[s].file = "whole" => candidates'[s].file = "whole"
  BY <1>1, <1>2 DEF Typed, Whole
<1>9. PastQueue(a)
  BY <1>1, <1>2, ArtifactsAssumption DEF PastQueue, ArtifactsAssumption
<1> QED
  BY <1>1, <1>3, <1>6, <1>7, <1>8, <1>9, MoveKeeps

LEMMA StartEvaluationKeeps ==
  ASSUME IInv, NEW a \in Actions, StartEvaluation(a)
  PROVE  IInv'
<1> USE DEF IInv
<1>1. /\ a \in Evaluations /\ a \in Measured /\ op[a].pc = "receipt"
      /\ SourceOf[a] \in Sources /\ RecordOf(a).status = "in_progress"
      /\ UNCHANGED <<disk, candidates, evidence, clients, faults>>
  BY Sorts DEF StartEvaluation, Saved, Measured, OpsFit, OpFits, Running, files
<1>2. CASE \E status \in {"retryable", "rejected"} : Fails(a, status)
  BY <1>1, <1>2, FailsKeeps DEF Running, files, Typed
<1>3. CASE /\ candidates[SourceOf[a]].file \notin {"absent", "torn"}
           /\ Go(a, "checking", None) /\ UNCHANGED state
  <2>1. At("checking", None) \in Op
    BY DEF At, Op
  <2>2. op'[a] = At("checking", None)
    BY <1>3, <2>1, Goes
  <2>3. RecordOf(a)' = RecordOf(a)
    BY <1>3 DEF RecordOf, ServiceOf
  <2>4. candidates[SourceOf[a]].file = "whole"
    BY <1>1, <1>3 DEF Typed, File
  <2>5. OpFits(a)' /\ ~PastQueue(a)'
    BY <1>1, <2>2, <2>3, <2>4 DEF OpFits, At, Running, PastQueue
  <2>6. candidates' \in [Sources -> File] /\ evidence' \in [Measured -> File]
    BY <1>1 DEF Typed
  <2> QED
    BY <1>1, <1>3, <2>1, <2>5, <2>6, MoveKeeps
<1> QED
  BY <1>2, <1>3 DEF StartEvaluation

LEMMA StartMeasuringKeeps ==
  ASSUME IInv, NEW a \in Actions, StartMeasuring(a)
  PROVE  IInv'
<1> USE DEF IInv
<1>1. /\ op[a].pc = "checking" /\ Go(a, "measuring", None) /\ MyTurn(a)
      /\ evidence[a].file \notin {"whole", "torn"}
      /\ UNCHANGED <<state, disk, candidates, evidence, clients, faults>>
  BY DEF StartMeasuring, Recovers, files
<1>2. /\ a \in Measured /\ candidates[SourceOf[a]].file = "whole"
      /\ RecordOf(a).status = "in_progress"
  BY <1>1 DEF OpsFit, OpFits, Running
<1>3. evidence[a].file = "absent"
  BY <1>1, <1>2 DEF Typed, File
<1>4. At("measuring", None) \in Op
  BY DEF At, Op
<1>5. op'[a] = At("measuring", None)
  BY <1>1, <1>4, Goes
<1>6. RecordOf(a)' = RecordOf(a)
  BY <1>1 DEF RecordOf, ServiceOf
<1>7. OpFits(a)'
  BY <1>1, <1>2, <1>3, <1>5, <1>6 DEF OpFits, At, Running
<1>8. candidates' \in [Sources -> File] /\ evidence' \in [Measured -> File]
  BY <1>1 DEF Typed
<1> QED
  BY <1>1, <1>4, <1>7, <1>8, MoveKeeps

(* For the evaluator the step leaves the queue, the executor stays in it.    *)
LEMMA MeasureKeeps ==
  ASSUME IInv, NEW a \in Actions, NEW verdict \in Verdicts, Measure(a, verdict)
  PROVE  IInv'
<1> USE DEF IInv
<1>1. /\ op[a].pc = "measuring" /\ Go(a, "evidence", verdict)
      /\ evidence' = [evidence EXCEPT ![a] = Torn]
      /\ UNCHANGED <<state, disk, candidates, clients, faults>>
  BY DEF Measure
<1>2. /\ a \in Measured /\ candidates[SourceOf[a]].file = "whole"
      /\ evidence[a].file = "absent" /\ RecordOf(a).status = "in_progress"
  BY <1>1 DEF OpsFit, OpFits, Running
<1>3. At("evidence", verdict) \in Op
  BY DEF At, Op
<1>4. op'[a] = At("evidence", verdict)
  BY <1>1, <1>3, Goes
<1>5. RecordOf(a)' = RecordOf(a)
  BY <1>1 DEF RecordOf, ServiceOf
<1>6. /\ evidence' \in [Measured -> File] /\ evidence'[a].file = "torn"
      /\ \A b \in Measured \ {a} : evidence'[b] = evidence[b]
      /\ candidates' \in [Sources -> File]
  BY <1>1, <1>2 DEF Typed, Torn, File
<1>7. OpFits(a)'
  BY <1>1, <1>2, <1>4, <1>5, <1>6 DEF OpFits, At, Running
<1>8. PastQueue(a)
  BY <1>1 DEF PastQueue
<1>9. \A s \in Sources : candidates[s].file = "whole" => candidates'[s].file = "whole"
  BY <1>1
<1>10. a \in Measured /\ (evidence[a].file = "whole" \/ evidence'[a].file = "whole") =>
         evidence'[a] = evidence[a]
  BY <1>2, <1>6
<1>11. UNCHANGED <<state, disk, clients, faults>> /\ "evidence" # "result"
  BY <1>1
<1> HIDE DEF IInv
<1> QED
  BY <1>1, <1>3, <1>6, <1>7, <1>8, <1>9, <1>10, <1>11, MoveKeeps

(* The ends of a measurement.                                                *)
LEMMA RecoverEvidenceKeeps ==
  ASSUME IInv, NEW a \in Actions, RecoverEvidence(a)
  PROVE  IInv'
<1> USE DEF IInv
<1>1. /\ op[a].pc = "checking" /\ evidence[a].file = "whole"
      /\ Settle(a, evidence[a].verdict)
      /\ UNCHANGED <<disk, candidates, evidence, clients, faults>>
  BY DEF RecoverEvidence, Recovers, files
<1>2. a \in Measured
  BY <1>1 DEF OpsFit, OpFits
<1>3. evidence[a].verdict \in Verdicts /\ evidence' \in [Measured -> File]
  BY <1>1, <1>2 DEF VerdictsBacked, Typed
<1> QED
  BY <1>1, <1>2, <1>3, SettleKeeps

LEMMA EvidenceWrittenKeeps ==
  ASSUME IInv, NEW a \in Actions, EvidenceWritten(a)
  PROVE  IInv'
<1> USE DEF IInv
<1>1. /\ op[a].pc = "evidence" /\ Settle(a, op[a].verdict)
      /\ evidence' = [evidence EXCEPT ![a] = Whole(op[a].verdict)]
      /\ UNCHANGED <<disk, candidates, clients, faults>>
  BY DEF EvidenceWritten
<1>2. a \in Measured /\ evidence[a].file = "torn" /\ op[a].verdict \in Verdicts
  BY <1>1 DEF OpsFit, OpFits
<1>3. /\ evidence' \in [Measured -> File]
      /\ evidence'[a].file = "whole" /\ evidence'[a].verdict = op[a].verdict
      /\ \A b \in Measured \ {a} : evidence'[b] = evidence[b]
  BY <1>1, <1>2 DEF Typed, Whole, File
<1> QED
  BY <1>1, <1>2, <1>3, SettleKeeps

(* What is read and what is written.                                         *)
LEMMA LookupKeeps ==
  ASSUME IInv, NEW a \in Actions, Lookup(a)
  PROVE  IInv'
<1> USE DEF IInv
<1>1. /\ a \in Measured /\ RecordOf(a).status = "completed"
      /\ told' = [told EXCEPT ![a] = @ \cup {RecordOf(a).verdict}]
      /\ UNCHANGED <<state, disk, candidates, evidence, op, answered, faults>>
  BY DEF Lookup, files
<1>2. Backed(a, RecordOf(a).verdict)
  BY <1>1 DEF VerdictsBacked, RecordOf
<1>3. RecordOf(a).verdict \in Verdicts
  BY <1>1, <1>2 DEF Backed, VerdictsBacked
<1>4. Typed'
  BY <1>1, <1>3 DEF Typed
<1>5. OpsFit' /\ RegistryIsBacked' /\ RegistryLasts' /\ RefusalsLast' /\ Exclusive'
  BY <1>1 DEF OpsFit, OpFits, RecordOf, ServiceOf, Backed, RegistryIsBacked, RegistryLasts,
    InMemory, OnDisk, RefusalsLast, Exclusive, PastQueue
<1>6. VerdictsBacked'
  <2>1. \A b \in Measured : \A v \in told'[b] : Backed(b, v)
    BY <1>1, <1>2 DEF VerdictsBacked, Typed
  <2> QED
    BY <1>1, <2>1 DEF VerdictsBacked, Backed, ServiceOf
<1> QED
  BY <1>4, <1>5, <1>6

LEMMA WriteKeeps ==
  ASSUME IInv, NEW a \in Actions, Write(a)
  PROVE  IInv'
<1> USE DEF IInv
<1> DEFINE here == ServiceOf(a)
<1>1. /\ op[a].pc \in Saving /\ here \in Services
      /\ disk' = [disk EXCEPT ![here] = state[here]]
      /\ op' = [op EXCEPT ![a].saved = TRUE]
      /\ UNCHANGED <<state, candidates, evidence, told, answered, faults>>
  BY Sorts DEF Write, files, clients
<1>2. /\ disk' \in [Services -> State] /\ disk'[here] = state[here]
      /\ \A s \in Services \ {here} : disk'[s] = disk[s]
  BY <1>1 DEF Typed
<1>3. /\ op' \in [Actions -> Op]
      /\ \A b \in Actions : op'[b].pc = op[b].pc /\ op'[b].verdict = op[b].verdict
      /\ \A b \in Actions \ {a} : op'[b] = op[b]
  BY <1>1 DEF Typed, Op
<1> HIDE DEF here
<1>4. Typed'
  BY <1>1, <1>2, <1>3 DEF Typed
<1>5. \A b \in Actions : RecordOf(b)' = RecordOf(b)
  BY <1>1 DEF RecordOf, ServiceOf
<1>6. \A b, v : Backed(b, v)' <=> Backed(b, v)
  BY <1>1 DEF Backed
<1>7. OpsFit'
  BY <1>1, <1>3, <1>5, <1>6 DEF OpsFit, OpFits
<1>8. VerdictsBacked'
  <2>1. \A b \in Measured : ServiceOf(b)' = ServiceOf(b) /\ ServiceOf(b) \in Services
    BY Sorts DEF ServiceOf
  <2>2. \A b \in Measured :
          disk'[ServiceOf(b)] \in {state[ServiceOf(b)], disk[ServiceOf(b)]}
    BY <1>2, <2>1
  <2> QED
    BY <1>1, <1>6, <2>1, <2>2 DEF VerdictsBacked
<1>9. RegistryIsBacked'
  <2>1. disk'["executor"] \in {state["executor"], disk["executor"]}
    BY <1>2 DEF Services
  <2> QED
    BY <1>1, <2>1 DEF RegistryIsBacked
<1>10. RegistryLasts'
  <2>1. \A s \in Sources : InMemory(s)' <=> InMemory(s)
    BY <1>1 DEF InMemory
  <2>2. here = "executor" => \A s \in Sources : OnDisk(s)' <=> InMemory(s)
    BY <1>2 DEF OnDisk, InMemory, Services
  <2>3. here # "executor" => \A s \in Sources : OnDisk(s)' <=> OnDisk(s)
    BY <1>2 DEF OnDisk, Services
  <2>4. \A b \in Checks : b = a => here = "executor"
    BY Sorts DEF here
  <2>5. \A s \in Sources : OnDisk(s)' => InMemory(s)'
    BY <2>1, <2>2, <2>3 DEF RegistryLasts
  <2>6. \A b \in Checks : SourceOf[b] \in Sources /\ b \in Actions
    BY Sorts
  <2>7. ASSUME NEW b \in Checks, op'[b].pc = "result"
        PROVE  InMemory(SourceOf[b])' /\ (op'[b].saved => OnDisk(SourceOf[b])')
    <3>1. InMemory(SourceOf[b])
      BY <1>3, <2>6, <2>7 DEF RegistryLasts
    <3>2. CASE here = "executor"
      BY <2>1, <2>2, <2>6, <3>1, <3>2
    <3>3. CASE here # "executor"
      <4>1. op'[b] = op[b]
        BY <1>3, <2>4, <2>6, <3>3
      <4> QED
        BY <2>1, <2>3, <2>6, <2>7, <3>1, <3>3, <4>1 DEF RegistryLasts
    <3> QED
      BY <3>2, <3>3
  <2>8. \A b \in answered : OnDisk(SourceOf[b])'
    BY <2>2, <2>3, <2>6 DEF RegistryLasts, Typed
  <2> QED
    BY <1>1, <2>5, <2>7, <2>8 DEF RegistryLasts
<1>11. RefusalsLast'
  <2> SUFFICES ASSUME NEW b \in Actions, disk'[ServiceOf(b)].records[b].status = "rejected"
               PROVE  RecordOf(b).status = "rejected"
    BY <1>5 DEF RefusalsLast, ServiceOf
  <2>1. ServiceOf(b) \in Services
    BY Sorts
  <2> QED
    BY <1>2, <2>1 DEF RefusalsLast, RecordOf
<1>12. Exclusive'
  BY <1>3 DEF Exclusive, PastQueue, ServiceOf
<1> QED
  BY <1>4, <1>7, <1>8, <1>9, <1>10, <1>11, <1>12

LEMMA AnswerKeeps ==
  ASSUME IInv, NEW a \in Actions, Answer(a)
  PROVE  IInv'
<1> USE DEF IInv
<1>1. /\ op[a].pc = "result" /\ op[a].saved /\ Go(a, "idle", None)
      /\ told' = IF a \in Measured THEN [told EXCEPT ![a] = @ \cup {op[a].verdict}] ELSE told
      /\ answered' = answered \cup ({a} \cap Checks)
      /\ UNCHANGED <<state, disk, candidates, evidence, faults>>
  BY DEF Answer, Saved, files
<1>2. At("idle", None) \in Op
  BY DEF At, Op
<1>3. /\ op' \in [Actions -> Op] /\ op'[a] = At("idle", None)
      /\ \A b \in Actions \ {a} : op'[b] = op[b]
  BY <1>1, <1>2, Goes
<1>4. a \in Measured => Backed(a, op[a].verdict) /\ op[a].verdict \in Verdicts
  BY <1>1 DEF OpsFit, OpFits, Backed, VerdictsBacked
<1>5. Typed'
  BY <1>1, <1>3, <1>4 DEF Typed
<1>6. \A b \in Actions : RecordOf(b)' = RecordOf(b)
  BY <1>1 DEF RecordOf, ServiceOf
<1>7. \A b, v : Backed(b, v)' <=> Backed(b, v)
  BY <1>1 DEF Backed
<1>8. OpsFit'
  <2> SUFFICES ASSUME NEW b \in Actions PROVE OpFits(b)'
    BY DEF OpsFit
  <2>1. CASE b = a
    BY <1>3, <2>1 DEF OpFits, At, Running
  <2>2. CASE b # a
    BY <1>1, <1>3, <1>6, <1>7, <2>2 DEF OpsFit, OpFits
  <2> QED
    BY <2>1, <2>2
<1>9. VerdictsBacked'
  <2>1. \A b \in Measured : \A v \in told'[b] : Backed(b, v)
    BY <1>1, <1>4 DEF VerdictsBacked, Typed
  <2> QED
    BY <1>1, <1>7, <2>1 DEF VerdictsBacked, ServiceOf
<1>10. RegistryIsBacked'
  BY <1>1 DEF RegistryIsBacked
<1>11. RegistryLasts'
  <2>1. \A s : (OnDisk(s)' <=> OnDisk(s)) /\ (InMemory(s)' <=> InMemory(s))
    BY <1>1 DEF OnDisk, InMemory
  <2>2. \A b \in Checks : op'[b].pc = "result" => op'[b] = op[b]
    BY <1>3, Sorts DEF At
  <2>3. a \in Checks => OnDisk(SourceOf[a])
    BY <1>1 DEF RegistryLasts
  <2> QED
    BY <1>1, <2>1, <2>2, <2>3 DEF RegistryLasts
<1>12. RefusalsLast'
  BY <1>1, <1>6 DEF RefusalsLast, ServiceOf
<1>13. Exclusive'
  <2>1. ~PastQueue(a)'
    BY <1>3 DEF PastQueue, At
  <2>2. \A b \in Actions \ {a} : PastQueue(b)' <=> PastQueue(b)
    BY <1>3 DEF PastQueue
  <2> QED
    BY <2>1, <2>2 DEF Exclusive, ServiceOf
<1> QED
  BY <1>5, <1>8, <1>9, <1>10, <1>11, <1>12, <1>13

LEMMA CrashKeeps ==
  ASSUME IInv, NEW here \in Services, Crash(here)
  PROVE  IInv'
<1> USE DEF IInv
<1>1. /\ faults < MaxFaults /\ faults' = faults + 1
      /\ state' = [state EXCEPT ![here] = disk[here]]
      /\ op' = [a \in Actions |-> IF ServiceOf(a) = here THEN Idle ELSE op[a]]
      /\ UNCHANGED <<disk, candidates, evidence, told, answered>>
  BY DEF Crash, files, clients
<1>2. /\ state' \in [Services -> State] /\ state'[here] = disk[here]
      /\ \A s \in Services \ {here} : state'[s] = state[s]
  BY <1>1 DEF Typed
<1>3. /\ op' \in [Actions -> Op]
      /\ \A a \in Actions : ServiceOf(a) = here => op'[a].pc = "idle"
      /\ \A a \in Actions : ServiceOf(a) # here => op'[a] = op[a]
  BY <1>1 DEF Typed, Idle, At, Op
<1>4. Typed'
  BY <1>1, <1>2, <1>3, ArtifactsAssumption DEF Typed, ArtifactsAssumption
<1>5. \A a, v : Backed(a, v)' <=> Backed(a, v)
  BY <1>1 DEF Backed
<1>6. \A a \in Actions : RecordOf(a)' = IF ServiceOf(a) = here
                                         THEN disk[ServiceOf(a)].records[a] ELSE RecordOf(a)
  <2>1. \A a \in Actions : RecordOf(a)' = state'[ServiceOf(a)].records[a]
    BY DEF RecordOf, ServiceOf
  <2> QED
    BY <1>2, <2>1, Sorts DEF RecordOf
<1>7. OpsFit'
  <2> SUFFICES ASSUME NEW a \in Actions PROVE OpFits(a)'
    BY DEF OpsFit
  <2>1. CASE ServiceOf(a) = here
    BY <1>3, <2>1 DEF OpFits, Running
  <2>2. CASE ServiceOf(a) # here
    BY <1>1, <1>3, <1>5, <1>6, <2>2 DEF OpsFit, OpFits
  <2> QED
    BY <2>1, <2>2
<1>8. VerdictsBacked'
  <2>1. \A a \in Measured : ServiceOf(a)' = ServiceOf(a) /\ ServiceOf(a) \in Services
    BY Sorts DEF ServiceOf
  <2>2. \A a \in Measured :
          state'[ServiceOf(a)] \in {state[ServiceOf(a)], disk[ServiceOf(a)]}
    BY <1>2, <2>1
  <2> QED
    BY <1>1, <1>5, <2>1, <2>2 DEF VerdictsBacked
<1>9. RegistryIsBacked'
  <2>1. state'["executor"] \in {state["executor"], disk["executor"]}
    BY <1>2 DEF Services
  <2> QED
    BY <1>1, <2>1 DEF RegistryIsBacked
<1>10. RegistryLasts'
  <2>1. \A s : OnDisk(s)' <=> OnDisk(s)
    BY <1>1 DEF OnDisk
  <2>2. \A s \in Sources : OnDisk(s) => InMemory(s)'
    BY <1>2 DEF OnDisk, InMemory, Services, RegistryLasts
  <2>3. ASSUME NEW a \in Checks, op'[a].pc = "result"
        PROVE  InMemory(SourceOf[a])' /\ (op'[a].saved => OnDisk(SourceOf[a])')
    <3>1. a \in Actions /\ ServiceOf(a) = "executor" /\ SourceOf[a] \in Sources
      BY Sorts
    <3>2. ServiceOf(a) # here /\ op'[a] = op[a]
      BY <1>3, <2>3, <3>1
    <3>3. state'["executor"] = state["executor"]
      BY <1>2, <3>1, <3>2 DEF Services
    <3> QED
      BY <2>1, <2>3, <3>2, <3>3 DEF RegistryLasts, InMemory
  <2> QED
    BY <1>1, <2>1, <2>2, <2>3 DEF RegistryLasts
<1>11. RefusalsLast'
  <2> SUFFICES ASSUME NEW a \in Actions, disk[ServiceOf(a)].records[a].status = "rejected"
               PROVE  RecordOf(a)'.status = "rejected"
    BY <1>1 DEF RefusalsLast, ServiceOf
  <2> QED
    BY <1>6 DEF RefusalsLast
<1>12. Exclusive'
  <2>1. \A a \in Actions : PastQueue(a)' => PastQueue(a)
    BY <1>3 DEF PastQueue
  <2> QED
    BY <2>1 DEF Exclusive, ServiceOf
<1> QED
  BY <1>4, <1>7, <1>8, <1>9, <1>10, <1>11, <1>12

-----------------------------------------------------------------------------
LEMMA NextKeeps == IInv /\ [Next]_vars => IInv'
<1> SUFFICES ASSUME IInv, [Next]_vars PROVE IInv'
  OBVIOUS
<1>1. ASSUME NEW a \in Actions, Proceed(a) PROVE IInv'
  BY <1>1, WriteKeeps, AnswerKeeps, AnswerFailureKeeps, ReadKeeps, StartCheckKeeps,
     CandidateWrittenKeeps, StartEvaluationKeeps, RecoverEvidenceKeeps, EvidenceIsTornKeeps,
     StartMeasuringKeeps, MeasureKeeps, EvidenceWrittenKeeps DEF Proceed
<1>2. CASE UNCHANGED vars
  BY <1>2 DEF vars, files, clients, IInv, Typed, OpsFit, OpFits, RecordOf, ServiceOf, Backed,
    VerdictsBacked, RegistryIsBacked, RegistryLasts, InMemory, OnDisk, RefusalsLast, Exclusive,
    PastQueue
<1> QED
  BY <1>1, <1>2, ReceiveKeeps, LookupKeeps, SandboxFailsKeeps, CrashKeeps DEF Next

LEMMA Invariant == Spec => []IInv
BY InitHolds, NextKeeps, PTL DEF Spec

-----------------------------------------------------------------------------
(* The types, and that one sandbox of a service runs at a time               *)
(* (serializeBenchmark).                                                     *)
THEOREM TypesHold == Spec => []TypeOK
<1>1. IInv => TypeOK
  <2> SUFFICES ASSUME IInv, NEW s \in Services
               PROVE  Cardinality({a \in Actions :
                                     ServiceOf(a) = s /\ op[a].pc = "measuring"}) <= 1
    BY DEF IInv, Typed, TypeOK
  <2> DEFINE M == {a \in Actions : ServiceOf(a) = s /\ op[a].pc = "measuring"}
  <2>1. \A a, b \in M : a = b
    BY DEF IInv, Exclusive, PastQueue
  <2>2. CASE M = {}
    BY <2>2, FS_EmptySet
  <2>3. CASE M # {}
    <3> HIDE DEF M
    <3>1. PICK a \in M : M = {a}
      BY <2>1, <2>3
    <3>2. Cardinality({a}) = 1
      BY FS_Singleton
    <3> QED
      BY <3>1, <3>2 DEF M
  <2> QED
    BY <2>2, <2>3
<1> QED
  BY <1>1, Invariant, PTL

(* Everyone is told one verdict of a check and of an evaluation: a receipt   *)
(* in memory, on disk or lost shows what the immutable file shows            *)
(* (readJsonIfPresent, writeImmutable).                                      *)
THEOREM AnswersNeverDisagree == Spec => []AnswersAgree
<1>1. IInv => AnswersAgree
  <2> SUFFICES ASSUME IInv, NEW a \in Measured PROVE Cardinality(told[a]) <= 1
    BY DEF AnswersAgree
  <2>1. \A v \in told[a] : v = evidence[a].verdict
    BY DEF IInv, VerdictsBacked, Backed
  <2>2. CASE told[a] = {}
    BY <2>2, FS_EmptySet
  <2>3. CASE told[a] # {}
    <3>1. told[a] = {evidence[a].verdict}
      BY <2>1, <2>3
    <3>2. Cardinality({evidence[a].verdict}) = 1
      BY FS_Singleton
    <3> QED
      BY <3>1, <3>2
  <2> QED
    BY <2>2, <2>3
<1> QED
  BY <1>1, Invariant, PTL

(* The registry, in memory and on disk, speaks for files that are there, and *)
(* by a pass where there was one (runPublicChecks).                          *)
THEOREM RegistryStaysBacked == Spec => []RegistryIsBacked
<1>1. IInv => RegistryIsBacked
  BY DEF IInv
<1> QED
  BY <1>1, Invariant, PTL

(* What was answered for is never refused as unknown, whatever crashed in    *)
(* between (readCandidate, boundedCandidateSource).                          *)
LEMMA RefusedOnlyUnknown ==
  ASSUME IInv, [Next]_vars, NEW a \in Actions,
         RecordOf(a).status # "rejected", RecordOf(a)'.status = "rejected",
         NEW c \in Checks \cap answered
  PROVE  SourceOf[c] # SourceOf[a]
<1> USE DEF IInv
<1> SUFFICES ASSUME SourceOf[c] = SourceOf[a] PROVE FALSE
  OBVIOUS
<1>1. /\ SourceOf[a] \in Sources /\ InMemory(SourceOf[a])
      /\ candidates[SourceOf[a]].file = "whole"
  <2>1. SourceOf[a] \in Sources /\ "executor" \in Services
    BY Sorts DEF Services
  <2>2. InMemory(SourceOf[a])
    BY <2>1 DEF RegistryLasts
  <2> QED
    BY <2>1, <2>2 DEF InMemory, RegistryIsBacked
<1>2. \A b \in Actions : RecordOf(b)' = state'[ServiceOf(b)].records[b]
  BY DEF RecordOf, ServiceOf
<1>2a. Typed
  OBVIOUS
<1>3. state' # state
  BY <1>2 DEF RecordOf
<1>4. ASSUME NEW b \in Actions, NEW status \in Status \ {"rejected"},
             NEW verdict \in Verdicts \cup {None}, state' = SetRecord(b, status, verdict)
      PROVE  FALSE
  <2>1. state'[ServiceOf(a)].records[a] =
          IF ServiceOf(a) = ServiceOf(b) /\ a = b THEN [status |-> status, verdict |-> verdict]
          ELSE state[ServiceOf(a)].records[a]
    BY <1>2a, <1>4, OneRecord, Sorts
  <2> QED
    BY <1>2, <2>1 DEF RecordOf
<1>5. ASSUME NEW b \in Measured, NEW verdict \in Verdicts, Settle(b, verdict)
      PROVE  FALSE
  <2> DEFINE failed == b \in Seeds /\ verdict = Fail
             status == IF failed THEN "retryable" ELSE "completed"
             shown == IF failed THEN None ELSE verdict
  <2>1. status \in Status \ {"rejected"} /\ shown \in Verdicts \cup {None} /\ b \in Actions
    BY Sorts DEF Status
  <2>2. state' = IF b \in Checks
                 THEN Ended(b, verdict, status, shown)
                 ELSE SetRecord(b, status, shown)
    BY <1>5 DEF Settle, Ended
  <2> HIDE DEF status, shown
  <2>3. CASE b \in Checks
    <3> DEFINE new == Ended(b, verdict, status, shown)
    <3>1. /\ new["evaluator"] = state["evaluator"]
          /\ \A d \in Actions :
               new["executor"].records[d] = IF d = b THEN [status |-> status, verdict |-> shown]
                                            ELSE state["executor"].records[d]
      <4>1. status \in Status /\ shown \in Verdicts \cup {None}
        BY <2>1
      <4> HIDE DEF IInv
      <4> QED
        BY <1>2a, <2>3, <4>1, TwoEntries
    <3>2. state' = new
      BY <2>2, <2>3
    <3> HIDE DEF new
    <3>3. RecordOf(a)' \in {RecordOf(a), [status |-> status, verdict |-> shown]}
      BY <1>2, <3>1, <3>2, Sorts DEF RecordOf, Services
    <3> QED
      BY <2>1, <3>3
  <2>4. CASE b \notin Checks
    BY <1>4, <2>1, <2>2, <2>4
  <2> QED
    BY <2>3, <2>4
<1>6. ASSUME NEW b \in Actions, Receive(b) PROVE FALSE
  BY <1>4, <1>6 DEF Receive, Status
<1>7. ASSUME NEW b \in Actions, Fails(b, "retryable") PROVE FALSE
  BY <1>4, <1>7 DEF Fails, Status
<1>8. ASSUME NEW b \in Actions, Fails(b, "rejected") PROVE b = a
  <2>1. "rejected" \in Status /\ None \in Verdicts \cup {None}
        /\ state' = SetRecord(b, "rejected", None)
    BY <1>8 DEF Fails, Status
  <2> DEFINE new == SetRecord(b, "rejected", None)
  <2>2. \A d \in Actions :
          new[ServiceOf(d)].records[d] = IF ServiceOf(d) = ServiceOf(b) /\ d = b
                                         THEN [status |-> "rejected", verdict |-> None]
                                         ELSE state[ServiceOf(d)].records[d]
    BY <1>2a, <2>1, OneRecord, Sorts
  <2> HIDE DEF new
  <2>3. state' = new
    BY <2>1 DEF new
  <2> QED
    BY <1>2, <2>2, <2>3 DEF RecordOf
<1>9. ASSUME NEW b \in Actions, Read(b) PROVE FALSE
  <2>1. CASE Fails(b, "rejected") /\ ~InMemory(SourceOf[b])
    BY <1>1, <1>8, <1>9, <2>1
  <2>2. CASE Fails(b, "retryable")
    BY <1>7, <2>2
  <2>3. CASE LET check == state["executor"].registry[SourceOf[b]] IN
             /\ check # None /\ evidence[check].file = "whole"
             /\ state' = SetRecord(b, "completed", evidence[check].verdict)
    <3>1. state["executor"].registry[SourceOf[b]] \in Measured
      BY <2>3, Sorts DEF Typed, State, Measured, Services
    <3> QED
      BY <1>4, <2>3, <3>1 DEF VerdictsBacked, Status
  <2> QED
    BY <1>9, <2>1, <2>2, <2>3 DEF Read, InMemory
<1>10. ASSUME NEW b \in Actions, StartEvaluation(b) PROVE FALSE
  <2>1. CASE Fails(b, "rejected") /\ candidates[SourceOf[b]].file = "absent"
    BY <1>1, <1>8, <1>10, <2>1
  <2>2. CASE Fails(b, "retryable") \/ UNCHANGED state
    BY <1>3, <1>7, <2>2
  <2> QED
    BY <1>10, <2>1, <2>2 DEF StartEvaluation
<1>11. ASSUME NEW b \in Actions, RecoverEvidence(b) \/ EvidenceWritten(b) PROVE FALSE
  <2>1. b \in Measured
    BY <1>11 DEF RecoverEvidence, EvidenceWritten, OpsFit, OpFits
  <2>2. \E verdict \in Verdicts : Settle(b, verdict)
    BY <1>11, <2>1 DEF RecoverEvidence, Recovers, EvidenceWritten, OpsFit, OpFits, VerdictsBacked
  <2> QED
    BY <1>5, <2>1, <2>2
<1>12. ASSUME NEW b \in Actions, StartCheck(b) \/ EvidenceIsTorn(b) \/ SandboxFails(b) PROVE FALSE
  <2>1. Fails(b, "retryable") \/ UNCHANGED state
    BY <1>12 DEF StartCheck, EvidenceIsTorn, SandboxFails
  <2> QED
    BY <1>3, <1>7, <2>1
<1>13. ASSUME NEW service \in Services, Crash(service) PROVE FALSE
  <2>1. state' = [state EXCEPT ![service] = disk[service]]
    BY <1>13 DEF Crash
  <2>2. RecordOf(a)' \in {RecordOf(a), disk[ServiceOf(a)].records[a]}
    BY <1>2, <2>1, Sorts DEF RecordOf, Typed
  <2> QED
    BY <2>2 DEF RefusalsLast
<1>14. ASSUME NEW b \in Actions,
              \/ Lookup(b) \/ Write(b) \/ Answer(b) \/ AnswerFailure(b) \/ CandidateWritten(b)
              \/ StartMeasuring(b) \/ \E verdict \in Verdicts : Measure(b, verdict)
       PROVE  FALSE
  BY <1>3, <1>14 DEF Lookup, Write, Answer, AnswerFailure, CandidateWritten, StartMeasuring,
    Measure
<1>15. ~UNCHANGED vars
  BY <1>3 DEF vars
<1> QED
  BY <1>6, <1>9, <1>10, <1>11, <1>12, <1>13, <1>14, <1>15 DEF Next, Proceed

THEOREM AnsweredCandidatesStay == Spec => AnsweredCandidatesExist
<1> DEFINE Kept == \A a \in Actions :
      RecordOf(a).status # "rejected" /\ RecordOf(a)'.status = "rejected"
        => \A c \in Checks \cap answered : SourceOf[c] # SourceOf[a]
<1>1. IInv /\ [Next]_vars => [Kept]_vars
  BY RefusedOnlyUnknown
<1>2. Spec => [][Kept]_vars
  BY <1>1, Invariant, PTL DEF Spec
<1> QED
  BY <1>2 DEF AnsweredCandidatesExist
=============================================================================
