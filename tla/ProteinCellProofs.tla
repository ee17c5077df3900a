-------------------------- MODULE ProteinCellProofs --------------------------
(* Theorems about ProteinCell for every number of runs, actions, handlers,   *)
(* attempts, crashes and every length of the leases: its types, the fences   *)
(* of its claims, and what it promises of its inbox and of its actions.      *)
EXTENDS ProteinCell, TLAPS

-----------------------------------------------------------------------------
(* What the helpers return. *)

LEMMA NewEventType ==
  ASSUME NEW run \in Runs \cup {None}, NEW body \in Bodies \cup Goals \cup {Outcome}
  PROVE  NewEvent(run, body) \in EventRow
BY DEF NewEvent, AbsentEvent, EventRow, OpenEvent

LEMMA RetryBackoffType ==
  ASSUME NEW attempt \in Nat PROVE RetryBackoff(attempt) \in Nat
BY ConstantsAssumption DEF RetryBackoff

LEMMA LessType ==
  /\ \A d \in Nat : Less(d) \in Nat
  /\ \A d \in Nat \cup {NoAlarm} : Less(d) \in Nat \cup {NoAlarm}
BY DEF Less, NoAlarm

LEMMA DuesType ==
  ASSUME NEW evs \in [EventIds -> EventRow], NEW acts \in [Actions -> ActionRow]
  PROVE  /\ Dues(evs, acts) \subseteq Nat
         /\ Earliest(Dues(evs, acts)) \subseteq Nat \cup {NoAlarm}
<1>1. Dues(evs, acts) \subseteq Nat
  BY DEF Dues, EventRow, ActionRow
<1>2. QED
  BY <1>1 DEF Earliest

LEMMA UpdateRunType ==
  ASSUME TypeOK, NEW run \in Runs \cup {None}, NEW status \in RunStatus,
         NEW error \in {"none", "app", "runtime"}
  PROVE  UpdateRun(run, status, error) \in [Runs -> RunRow]
<1>1. CASE run = None
  BY <1>1 DEF UpdateRun, TypeOK
<1>2. CASE run # None
  <2>1. runs[run] \in RunRow
    BY <1>2 DEF TypeOK
  <2>2. [runs[run] EXCEPT !.status = status, !.error = error] \in RunRow
    BY <2>1 DEF RunRow
  <2>3. QED
    BY <1>2, <2>2 DEF UpdateRun, TypeOK, RunRow
<1>3. QED
  BY <1>1, <1>2

LEMMA InsertActionsType ==
  ASSUME TypeOK, NEW run \in Runs \cup {None}, NEW intents \in SUBSET Intents
  PROVE  InsertActions(run, intents) \in [Actions -> ActionRow]
<1> SUFFICES ASSUME NEW a \in Actions
             PROVE  InsertActions(run, intents)[a] \in ActionRow
  BY DEF InsertActions
<1>1. actions[a] \in ActionRow
  BY DEF TypeOK
<1>2. CASE actions[a].status = "absent" /\ \E i \in intents : i.id = a
  <2>1. PICK i \in intents : i = CHOOSE x \in intents : x.id = a
    BY <1>2
  <2>2. i \in Intents
    OBVIOUS
  <2>3. [AbsentAction EXCEPT !.status = "pending", !.run = run,
                             !.safety = i.safety, !.body = i.body] \in ActionRow
    BY <2>2 DEF AbsentAction, ActionRow, Intents, OpenAction, Marker
  <2>4. QED
    BY <1>2, <2>1, <2>3 DEF InsertActions
<1>3. CASE ~(actions[a].status = "absent" /\ \E i \in intents : i.id = a)
  BY <1>1, <1>3 DEF InsertActions
<1>4. QED
  BY <1>2, <1>3

(* The updates of a row at its next revision. *)
ActionAt(a, status, revision, due) ==
  [actions[a] EXCEPT !.status = status, !.revision = revision, !.due = due]
EventAt(e, status, revision, due) ==
  [events[e] EXCEPT !.status = status, !.revision = revision, !.due = due]

LEMMA RowAtType ==
  ASSUME TypeOK, NEW revision \in Nat, NEW due \in Nat
  PROVE  /\ \A a \in Actions, status \in OpenAction \cup TerminalAction :
              ActionAt(a, status, revision, due) \in ActionRow
         /\ \A e \in EventIds, status \in OpenEvent \cup {"completed", "failed"} :
              EventAt(e, status, revision, due) \in EventRow
<1>1. /\ \A a \in Actions : actions[a] \in ActionRow
      /\ \A e \in EventIds : events[e] \in EventRow
  BY DEF TypeOK
<1>2. \A a \in Actions, status \in OpenAction \cup TerminalAction :
        ActionAt(a, status, revision, due) \in ActionRow
  BY <1>1 DEF ActionAt, ActionRow
<1>3. \A e \in EventIds, status \in OpenEvent \cup {"completed", "failed"} :
        EventAt(e, status, revision, due) \in EventRow
  BY <1>1 DEF EventAt, EventRow
<1>4. QED
  BY <1>2, <1>3

LEMMA NextRevision ==
  ASSUME TypeOK
  PROVE  /\ \A a \in Actions : actions[a].revision + 1 \in Nat
         /\ \A e \in EventIds : events[e].revision + 1 \in Nat
BY DEF TypeOK, ActionRow, EventRow

LEMMA ClaimedType ==
  ASSUME NEW lease \in Nat
  PROVE  /\ \A row \in ActionRow : LET claimed == Claimed(row, "delivering", lease)
                                 IN  /\ claimed \in ActionRow
                                     /\ claimed.attempts \in Nat
                                     /\ claimed.revision \in Nat
         /\ \A row \in EventRow : LET claimed == Claimed(row, "processing", lease)
                                IN  /\ claimed \in EventRow
                                    /\ claimed.attempts \in Nat
                                    /\ claimed.revision \in Nat
<1> DEFINE At(row, status, revision, attempts) ==
             [row EXCEPT !.status = status, !.revision = revision,
                         !.attempts = attempts, !.due = lease]
<1>1. \A row, status : Claimed(row, status, lease)
                       = At(row, status, row.revision + 1, row.attempts + 1)
  BY DEF Claimed
<1>2. \A row \in ActionRow, revision \in Nat, attempts \in Nat :
        At(row, "delivering", revision, attempts) \in ActionRow
  BY DEF ActionRow, OpenAction
<1>3. \A row \in EventRow, revision \in Nat, attempts \in Nat :
        At(row, "processing", revision, attempts) \in EventRow
  BY DEF EventRow, OpenEvent
<1>4. \A row \in ActionRow \cup EventRow : row.revision + 1 \in Nat /\ row.attempts + 1 \in Nat
  BY DEF ActionRow, EventRow
<1>5. \A row \in ActionRow \cup EventRow : row.revision \in Nat /\ row.attempts \in Nat
  BY DEF ActionRow, EventRow
<1> HIDE DEF At
<1>6. \A row \in ActionRow : Claimed(row, "delivering", lease) \in ActionRow
  BY <1>1, <1>2, <1>4
<1>7. \A row \in EventRow : Claimed(row, "processing", lease) \in EventRow
  BY <1>1, <1>3, <1>4
<1>8. QED
  BY <1>5, <1>6, <1>7

LEMMA SettledType ==
  ASSUME TypeOK, NEW a \in Actions, NEW status \in TerminalAction
  PROVE  Settled(a, status) \in ActionRow
<1>1. Settled(a, status) = ActionAt(a, status, actions[a].revision + 1, 0)
  BY DEF Settled, ActionAt
<1>2. QED
  BY <1>1, NextRevision, RowAtType

LEMMA WithOutcomeEventType ==
  ASSUME TypeOK, NEW a \in Actions, NEW row \in ActionRow
  PROVE  WithOutcomeEvent(a, row) \in [EventIds -> EventRow]
<1>1. NewEvent(row.run, Outcome) \in EventRow
  BY NewEventType DEF ActionRow
<1>2. QED
  BY <1>1 DEF WithOutcomeEvent, TypeOK

LEMMA CommitOutcomeType ==
  ASSUME TypeOK, NEW h \in Handlers, handler[h].pc \in ActionPc,
         NEW status \in TerminalAction, CommitOutcome(h, status)
  PROVE  /\ actions' \in [Actions -> ActionRow]
         /\ events' \in [EventIds -> EventRow]
<1>1. handler[h].row \in Actions
  BY DEF TypeOK
<1>2. Settled(handler[h].row, status) \in ActionRow
  BY <1>1, SettledType
<1>3. WithOutcomeEvent(handler[h].row, Settled(handler[h].row, status)) \in [EventIds -> EventRow]
  BY <1>1, <1>2, WithOutcomeEventType
<1>4. QED
  BY <1>1, <1>2, <1>3 DEF CommitOutcome, TypeOK

LEMMA FailOrRetryActionType ==
  ASSUME TypeOK, NEW h \in Handlers, handler[h].pc \in ActionPc, FailOrRetryAction(h)
  PROVE  /\ actions' \in [Actions -> ActionRow]
         /\ events' \in [EventIds -> EventRow]
<1> DEFINE a == handler[h].row
           terminal == handler[h].attempt >= MaxActionAttempts
           retried == [actions[a] EXCEPT !.status = "pending", !.revision = @ + 1,
                                         !.due = RetryBackoff(handler[h].attempt)]
           row == IF ~OwnRevision(actions[a], h) THEN actions[a]
                  ELSE IF terminal THEN Settled(a, "failed") ELSE retried
<1>1. a \in Actions /\ actions[a] \in ActionRow /\ handler[h].attempt \in Nat
  BY DEF TypeOK, Local
<1>2. Settled(a, "failed") \in ActionRow
  BY <1>1, SettledType DEF TerminalAction
<1>3. retried \in ActionRow
  <2>1. retried = ActionAt(a, "pending", actions[a].revision + 1,
                           RetryBackoff(handler[h].attempt))
    BY DEF ActionAt
  <2>2. QED
    BY <1>1, <2>1, NextRevision, RetryBackoffType, RowAtType DEF OpenAction
<1>4. row \in ActionRow
  BY <1>1, <1>2, <1>3
<1>5. WithOutcomeEvent(a, row) \in [EventIds -> EventRow]
  BY <1>1, <1>4, WithOutcomeEventType
<1>6. QED
  BY <1>1, <1>4, <1>5 DEF FailOrRetryAction, TypeOK

LEMMA CatchBlockType ==
  ASSUME TypeOK, NEW h \in Handlers, handler[h].pc \in ActionPc, CatchBlock(h)
  PROVE  /\ actions' \in [Actions -> ActionRow]
         /\ events' \in [EventIds -> EventRow]
<1>1. CASE FailOrRetryAction(h)
  BY <1>1, FailOrRetryActionType
<1>2. CASE UNCHANGED <<actions, events>>
  BY <1>2 DEF TypeOK
<1>3. CASE CommitOutcome(h, "ambiguous")
  BY <1>3, CommitOutcomeType DEF TerminalAction
<1>4. QED
  BY <1>1, <1>2, <1>3 DEF CatchBlock

(* A handler that only moves on keeps a well-typed set of local variables.   *)
HandlersTyped ==
  /\ handler \in [Handlers -> Local]
  /\ \A h \in Handlers : /\ handler[h].pc \in EventPc => handler[h].row \in EventIds
                         /\ handler[h].pc \in ActionPc => handler[h].row \in Actions

LEMMA GoToType ==
  ASSUME TypeOK, NEW h \in Handlers, NEW pc, GoTo(h, pc),
         \/ pc = "closing"
         \/ pc \in ActionPc /\ handler[h].pc \in ActionPc
  PROVE  HandlersTyped'
BY DEF TypeOK, HandlersTyped, GoTo, Local, EventPc, ActionPc

LEMMA HoldType ==
  ASSUME TypeOK, NEW h \in Handlers, NEW pc, NEW row, NEW id,
         row.attempts \in Nat, row.revision \in Nat, Hold(h, pc, id, row),
         \/ pc = "event.claimed" /\ id \in EventIds
         \/ pc = "action.claimed" /\ id \in Actions
  PROVE  HandlersTyped'
<1> DEFINE held == [pc |-> pc, row |-> id, attempt |-> row.attempts,
                    revision |-> row.revision,
                    dispatch |-> IF pc = "action.claimed" THEN actions[id].dispatch
                                ELSE "not_started",
                    saw |-> {}]
<1>1. id \in Actions => actions[id].dispatch \in Marker
  BY DEF TypeOK, ActionRow
<1>2. held \in Local
  BY <1>1 DEF Local, EventPc, ActionPc, Marker
<1>3. handler' = [handler EXCEPT ![h] = held]
  BY DEF Hold
<1>4. QED
  BY <1>2, <1>3 DEF TypeOK, HandlersTyped, EventPc, ActionPc

LEMMA ReconcileAlarmType ==
  ASSUME events' \in [EventIds -> EventRow], actions' \in [Actions -> ActionRow],
         ReconcileAlarm
  PROVE  alarm' \in Nat \cup {NoAlarm}
BY DuesType DEF ReconcileAlarm

-----------------------------------------------------------------------------
(* TypeOK is inductive by itself. *)

LEMMA TypeInit == Init => TypeOK
<1> SUFFICES ASSUME Init PROVE TypeOK
  OBVIOUS
<1> USE DEF Init
<1>1. runs \in [Runs -> RunRow]
  BY DEF AbsentRun, RunRow
<1>2. events \in [EventIds -> EventRow]
  BY DEF AbsentEvent, EventRow
<1>3. actions \in [Actions -> ActionRow]
  BY DEF AbsentAction, ActionRow, Marker
<1>4. handler \in [Handlers -> Local]
  BY DEF Idle, Local, Marker
<1>5. \A h \in Handlers : handler[h].pc \notin EventPc \cup ActionPc
  BY DEF Idle, EventPc, ActionPc
<1>6. QED
  BY <1>1, <1>2, <1>3, <1>4, <1>5 DEF TypeOK, NoAlarm

LEMMA TypeStep == TypeOK /\ [Next]_vars => TypeOK'
<1> SUFFICES ASSUME TypeOK, [Next]_vars PROVE TypeOK'
  OBVIOUS
<1>1. ASSUME NEW r \in Runs, NEW goal \in Goals, StartRun(r, goal) PROVE TypeOK'
  <2>1. NewEvent(r, goal) \in EventRow
    BY NewEventType
  <2>2. events' \in [EventIds -> EventRow]
    BY <1>1, <2>1 DEF StartRun, TypeOK
  <2>3. runs' \in [Runs -> RunRow]
    BY <1>1 DEF StartRun, TypeOK, RunRow, RunStatus
  <2>4. alarm' \in Nat \cup {NoAlarm}
    BY <1>1, <2>2, ReconcileAlarmType DEF StartRun, TypeOK
  <2>5. QED
    BY <1>1, <2>2, <2>3, <2>4 DEF StartRun, TypeOK
<1>2. ASSUME NEW input \in ClientEvents, AcceptEvent(input) PROVE TypeOK'
  <2>1. NewEvent(input.run, input.body) \in EventRow
    BY ConstantsAssumption, NewEventType
  <2>2. events' \in [EventIds -> EventRow]
    BY <1>2, <2>1 DEF AcceptEvent, TypeOK
  <2>3. alarm' \in Nat \cup {NoAlarm}
    BY <1>2, <2>2, ReconcileAlarmType DEF AcceptEvent, TypeOK
  <2>4. QED
    BY <1>2, <2>2, <2>3 DEF AcceptEvent, TypeOK
<1>3. ASSUME AlarmFindsNothing PROVE TypeOK'
  <2>1. alarm' \in Nat \cup {NoAlarm}
    BY <1>3, ReconcileAlarmType DEF AlarmFindsNothing, TypeOK
  <2>2. QED
    BY <1>3, <2>1 DEF AlarmFindsNothing, TypeOK
<1>4. ASSUME NEW h \in Handlers, NEW a \in Actions, ClaimAction(h, a) PROVE TypeOK'
  <2> DEFINE row == Claimed(actions[a], "delivering", ActionLease)
  <2>1. actions[a] \in ActionRow
    BY DEF TypeOK
  <2>2. row.attempts \in Nat /\ row.revision \in Nat /\ row \in ActionRow
    BY <2>1, ConstantsAssumption, NextRevision, ClaimedType
  <2>3. HandlersTyped'
    BY <1>4, <2>2, HoldType DEF ClaimAction
  <2>4. QED
    BY <1>4, <2>2, <2>3 DEF ClaimAction, AlarmFires, TypeOK, HandlersTyped
<1>5. ASSUME NEW h \in Handlers, NEW e \in EventIds, ClaimEvent(h, e) PROVE TypeOK'
  <2> DEFINE row == Claimed(events[e], "processing", EventLease)
  <2>1. events[e] \in EventRow
    BY DEF TypeOK
  <2>2. row.attempts \in Nat /\ row.revision \in Nat /\ row \in EventRow
    BY <2>1, ConstantsAssumption, NextRevision, ClaimedType
  <2>3. HandlersTyped'
    BY <1>5, <2>2, HoldType DEF ClaimEvent
  <2>4. QED
    BY <1>5, <2>2, <2>3 DEF ClaimEvent, AlarmFires, TypeOK, HandlersTyped
<1>6. ASSUME NEW h \in Handlers, CallOnAgentEvent(h) PROVE TypeOK'
  <2>1. CurrentState \in SUBSET EventIds
    BY DEF CurrentState, TypeOK
  <2> DEFINE deciding == [handler[h] EXCEPT !.pc = "deciding", !.saw = CurrentState]
  <2>2. HandlersTyped'
    <3>1. handler[h].row \in EventIds /\ handler[h] \in Local
      BY <1>6 DEF CallOnAgentEvent, TypeOK, EventPc
    <3>2. deciding \in Local /\ deciding.pc = "deciding" /\ deciding.row = handler[h].row
      BY <2>1, <3>1 DEF Local, EventPc
    <3>3. handler' = [handler EXCEPT ![h] = deciding]
      BY <1>6 DEF CallOnAgentEvent, TypeOK
    <3> HIDE DEF deciding
    <3>4. QED
      BY <3>1, <3>2, <3>3 DEF TypeOK, HandlersTyped, EventPc, ActionPc
  <2>3. QED
    BY <1>6, <2>1, <2>2 DEF CallOnAgentEvent, TypeOK, HandlersTyped, tables
<1>7. ASSUME NEW h \in Handlers, NEW decision \in Decisions, CommitEvent(h, decision)
      PROVE  TypeOK'
  <2> DEFINE e == handler[h].row
             state == handler[h].saw \cup {e}
  <2>1. HandlersTyped'
    BY <1>7, GoToType DEF CommitEvent
  <2>2. e \in EventIds /\ events[e] \in EventRow /\ events[e].run \in Runs \cup {None}
    BY <1>7 DEF CommitEvent, TypeOK, EventPc, EventRow
  <2>3. state \in SUBSET EventIds
    BY <2>2 DEF TypeOK, Local
  <2>4. cached' \in (SUBSET EventIds) \cup {None}
    BY <1>7, <2>3 DEF CommitEvent, CacheAfterCommit, TypeOK
  <2>5. CASE EventClaimCurrent(h)
    <3>1. decision \in [writes : BOOLEAN, run : RunStatus \cup {"keep"},
                        intents : SUBSET Intents]
      BY ConstantsAssumption
    <3>2. stored' \in SUBSET EventIds
      BY <1>7, <2>3, <2>5 DEF CommitEvent, TypeOK
    <3>3. runs' \in [Runs -> RunRow]
      <4>1. CASE decision.run = "keep"
        BY <1>7, <2>5, <4>1 DEF CommitEvent, TypeOK
      <4>2. CASE decision.run # "keep"
        <5> DEFINE error == IF decision.run = "failed" THEN "app" ELSE "none"
        <5>1. decision.run \in RunStatus /\ error \in {"none", "app", "runtime"}
          BY <3>1, <4>2
        <5>2. UpdateRun(events[e].run, decision.run, error) \in [Runs -> RunRow]
          BY <2>2, <5>1, UpdateRunType
        <5>3. QED
          BY <1>7, <2>5, <4>2, <5>2 DEF CommitEvent
      <4>3. QED
        BY <4>1, <4>2
    <3>4. actions' \in [Actions -> ActionRow]
      <4>1. InsertActions(events[e].run, decision.intents) \in [Actions -> ActionRow]
        BY <2>2, <3>1, InsertActionsType
      <4>2. actions' = InsertActions(events[e].run, decision.intents)
        BY <1>7, <2>5 DEF CommitEvent
      <4>3. QED
        BY <4>1, <4>2
    <3>5. events' \in [EventIds -> EventRow]
      <4>1. events' = [events EXCEPT ![e] = EventAt(e, "completed", events[e].revision + 1, 0)]
        BY <1>7, <2>5 DEF CommitEvent, EventAt, TypeOK
      <4>2. QED
        BY <2>2, <4>1, NextRevision, RowAtType DEF TypeOK
    <3>6. QED
      BY <1>7, <2>1, <2>4, <3>2, <3>3, <3>4, <3>5 DEF CommitEvent, TypeOK, HandlersTyped
  <2>6. CASE ~EventClaimCurrent(h)
    BY <1>7, <2>1, <2>4, <2>6 DEF CommitEvent, TypeOK, HandlersTyped, tables
  <2>7. QED
    BY <2>5, <2>6
<1>8. ASSUME NEW h \in Handlers, FailOrRetryEvent(h) PROVE TypeOK'
  <2> DEFINE e == handler[h].row
             status == IF handler[h].attempt >= MaxEventAttempts THEN "failed" ELSE "pending"
             due == IF handler[h].attempt >= MaxEventAttempts THEN 0
                    ELSE RetryBackoff(handler[h].attempt)
  <2>1. HandlersTyped'
    BY <1>8, GoToType DEF FailOrRetryEvent
  <2>2. e \in EventIds /\ events[e] \in EventRow /\ events[e].run \in Runs \cup {None}
    BY <1>8 DEF FailOrRetryEvent, TypeOK, EventPc, EventRow
  <2>3. due \in Nat /\ status \in OpenEvent \cup {"completed", "failed"}
    BY RetryBackoffType DEF TypeOK, Local, OpenEvent
  <2>4. EventAt(e, status, events[e].revision + 1, due) \in EventRow
    BY <2>2, <2>3, NextRevision, RowAtType
  <2>5. events' = IF ~OwnRevision(events[e], h) THEN events
                  ELSE [events EXCEPT ![e] = EventAt(e, status, events[e].revision + 1, due)]
    BY <1>8 DEF FailOrRetryEvent, EventAt, TypeOK
  <2>6. events' \in [EventIds -> EventRow]
    BY <2>4, <2>5 DEF TypeOK
  <2>7. runs' \in [Runs -> RunRow]
    BY <1>8, <2>2, UpdateRunType DEF FailOrRetryEvent, TypeOK, RunStatus
  <2>8. QED
    BY <1>8, <2>1, <2>6, <2>7 DEF FailOrRetryEvent, TypeOK, HandlersTyped
<1>9. ASSUME NEW h \in Handlers, DeclareAmbiguous(h) PROVE TypeOK'
  <2>1. HandlersTyped' /\ handler[h].pc \in ActionPc
    BY <1>9, GoToType DEF DeclareAmbiguous, ActionPc
  <2>2. actions' \in [Actions -> ActionRow] /\ events' \in [EventIds -> EventRow]
    BY <1>9, <2>1, CommitOutcomeType DEF DeclareAmbiguous, TypeOK, TerminalAction
  <2>3. QED
    BY <1>9, <2>1, <2>2 DEF DeclareAmbiguous, TypeOK, HandlersTyped
<1>10. ASSUME NEW h \in Handlers, StartLookup(h) PROVE TypeOK'
  <2>1. HandlersTyped'
    BY <1>10, GoToType DEF StartLookup, ActionPc
  <2>2. QED
    BY <1>10, <2>1 DEF StartLookup, TypeOK, HandlersTyped, tables
<1>11. ASSUME NEW h \in Handlers, MarkDispatchStarted(h) PROVE TypeOK'
  <2>1. handler[h].pc \in ActionPc /\ handler[h].row \in Actions
    BY <1>11 DEF MarkDispatchStarted, TypeOK, ActionPc
  <2>2. HandlersTyped'
    BY <1>11, <2>1, GoToType DEF MarkDispatchStarted, ActionPc
  <2>3. actions' \in [Actions -> ActionRow]
    <3> DEFINE a == handler[h].row
               marked == [actions[a] EXCEPT !.dispatch = "started"]
    <3>1. actions[a] \in ActionRow
      BY <2>1 DEF TypeOK
    <3>2. marked \in ActionRow
      BY <3>1 DEF ActionRow, Marker
    <3>3. actions' = [actions EXCEPT ![a] = marked] \/ actions' = actions
      BY <1>11, <2>1 DEF MarkDispatchStarted, TypeOK
    <3> HIDE DEF marked
    <3>4. QED
      BY <2>1, <3>2, <3>3 DEF TypeOK
  <2>4. QED
    BY <1>11, <2>2, <2>3 DEF MarkDispatchStarted, TypeOK, HandlersTyped
<1>12. ASSUME NEW h \in Handlers, ExecuteAction(h) PROVE TypeOK'
  <2>1. HandlersTyped' /\ handler[h].row \in Actions
    BY <1>12, GoToType DEF ExecuteAction, TypeOK, ActionPc
  <2>2. sent' \in [Actions -> Nat]
    BY <1>12, <2>1 DEF ExecuteAction, TypeOK
  <2>3. QED
    BY <1>12, <2>1, <2>2 DEF ExecuteAction, TypeOK, HandlersTyped, tables
<1>13. ASSUME NEW h \in Handlers, DeliverResult(h) PROVE TypeOK'
  <2>1. HandlersTyped' /\ handler[h].pc \in ActionPc
    BY <1>13, GoToType DEF DeliverResult, ActionPc
  <2>2. actions' \in [Actions -> ActionRow] /\ events' \in [EventIds -> EventRow]
    BY <1>13, <2>1, CommitOutcomeType, CatchBlockType DEF DeliverResult, TerminalAction
  <2>3. QED
    BY <1>13, <2>1, <2>2 DEF DeliverResult, TypeOK, HandlersTyped
<1>14. ASSUME NEW h \in Handlers, ActionThrows(h) PROVE TypeOK'
  <2>1. HandlersTyped' /\ handler[h].pc \in ActionPc
    BY <1>14, GoToType DEF ActionThrows, ActionPc
  <2>2. actions' \in [Actions -> ActionRow] /\ events' \in [EventIds -> EventRow]
    BY <1>14, <2>1, CatchBlockType DEF ActionThrows
  <2>3. QED
    BY <1>14, <2>1, <2>2 DEF ActionThrows, TypeOK, HandlersTyped
<1>15. ASSUME NEW h \in Handlers, CheckpointThrows(h) PROVE TypeOK'
  <2>1. HandlersTyped'
    BY <1>15, GoToType DEF CheckpointThrows
  <2>2. QED
    BY <1>15, <2>1 DEF CheckpointThrows, TypeOK, HandlersTyped, tables
<1>16. ASSUME NEW h \in Handlers, CloseHandler(h) PROVE TypeOK'
  <2>1. Idle \in Local /\ Idle.pc \notin EventPc \cup ActionPc
    BY DEF Idle, Local, Marker, EventPc, ActionPc
  <2>2. HandlersTyped'
    BY <1>16, <2>1 DEF CloseHandler, TypeOK, HandlersTyped
  <2>3. alarm' \in Nat \cup {NoAlarm}
    BY <1>16, ReconcileAlarmType DEF CloseHandler, TypeOK, tables
  <2>4. QED
    BY <1>16, <2>2, <2>3 DEF CloseHandler, TypeOK, HandlersTyped, tables
<1>17. ASSUME Crash PROVE TypeOK'
  <2>1. Idle \in Local /\ Idle.pc \notin EventPc \cup ActionPc
    BY DEF Idle, Local, Marker, EventPc, ActionPc
  <2>2. HandlersTyped'
    BY <1>17, <2>1 DEF Crash, HandlersTyped
  <2>3. QED
    BY <1>17, <2>2 DEF Crash, TypeOK, HandlersTyped, tables
<1>18. ASSUME Tick PROVE TypeOK'
  <2>1. events' \in [EventIds -> EventRow]
    <3>1. \A row \in EventRow, due \in Nat : [row EXCEPT !.due = due] \in EventRow
      BY DEF EventRow
    <3>2. \A e \in EventIds : events[e] \in EventRow /\ Less(events[e].due) \in Nat
      BY LessType DEF TypeOK, EventRow
    <3>3. events' = [e \in EventIds |-> [events[e] EXCEPT !.due = Less(events[e].due)]]
      BY <1>18 DEF Tick
    <3>4. QED
      BY <3>1, <3>2, <3>3
  <2>2. actions' \in [Actions -> ActionRow]
    <3>1. \A row \in ActionRow, due \in Nat : [row EXCEPT !.due = due] \in ActionRow
      BY DEF ActionRow
    <3>2. \A a \in Actions : actions[a] \in ActionRow /\ Less(actions[a].due) \in Nat
      BY LessType DEF TypeOK, ActionRow
    <3>3. actions' = [a \in Actions |-> [actions[a] EXCEPT !.due = Less(actions[a].due)]]
      BY <1>18 DEF Tick
    <3>4. QED
      BY <3>1, <3>2, <3>3
  <2>3. alarm' \in Nat \cup {NoAlarm}
    BY <1>18, LessType DEF Tick, TypeOK
  <2>4. QED
    BY <1>18, <2>1, <2>2, <2>3 DEF Tick, TypeOK
<1>19. CASE UNCHANGED vars
  BY <1>19 DEF vars, TypeOK
<1>20. QED
  BY <1>1, <1>2, <1>3, <1>4, <1>5, <1>6, <1>7, <1>8, <1>9, <1>10, <1>11, <1>12,
     <1>13, <1>14, <1>15, <1>16, <1>17, <1>18, <1>19
     DEF Next, AlarmStarts, HandlerStep, EventStep, ActionStep

(* Every reachable state is well typed, and a claim's lane fits its row.     *)
THEOREM TypeCorrect == Spec => []TypeOK
BY TypeInit, TypeStep, PTL DEF Spec

-----------------------------------------------------------------------------
(***************************************************************************)
(* The inductive invariant behind the fences.  A claim never carries a     *)
(* revision ahead of its row, no two handlers carry the same one, and a    *)
(* row that was never inserted has had no revision.                        *)
(***************************************************************************)
ClaimsBehindRows ==
  \A h \in Handlers :
    /\ handler[h].pc \in EventPc => handler[h].revision <= events[handler[h].row].revision
    /\ handler[h].pc \in ActionPc => handler[h].revision <= actions[handler[h].row].revision

DistinctClaims ==
  \A h1, h2 \in Handlers :
    /\ h1 # h2
    /\ handler[h1].row = handler[h2].row
    /\ \/ handler[h1].pc \in EventPc /\ handler[h2].pc \in EventPc
       \/ handler[h1].pc \in ActionPc /\ handler[h2].pc \in ActionPc
    => handler[h1].revision # handler[h2].revision

AbsentRowsFresh ==
  /\ \A e \in EventIds : events[e].status = "absent" => events[e].revision = 0
  /\ \A a \in Actions : actions[a].status = "absent" => actions[a].revision = 0

Fencing == TypeOK /\ AbsentRowsFresh /\ ClaimsBehindRows /\ DistinctClaims

(***************************************************************************)
(* What keeps an unsafe action from being sent twice.  The marker in the   *)
(* row is older than any call; a handler about to call is alone and the    *)
(* first; a handler whose fresh claim is current knows the marker.         *)
(***************************************************************************)
MarkerFirst ==
  \A a \in Actions : /\ sent[a] > 0 => actions[a].dispatch = "started"
                     /\ actions[a].status = "absent" => actions[a].dispatch = "not_started"
RowExists(h) ==
  /\ handler[h].pc \in ActionPc => actions[handler[h].row].status # "absent"
  /\ handler[h].pc = "looking_up" => actions[handler[h].row].safety = "reconcilable"
  /\ handler[h].pc = "marked" => actions[handler[h].row].dispatch = "started"
ClaimedRowsExist == \A h \in Handlers : RowExists(h)

IsFirst(h) ==
  LET a == handler[h].row IN
  handler[h].pc = "marked" /\ actions[a].safety = "unsafe" =>
    /\ sent[a] = 0
    /\ \A other \in Handlers : handler[other].pc = "marked" /\ handler[other].row = a => other = h
MarkedIsFirst == \A h \in Handlers : IsFirst(h)

KnowsMarker(h) ==
  handler[h].pc = "action.claimed" /\ ActionClaimCurrent(h) =>
    handler[h].dispatch = actions[handler[h].row].dispatch
FreshClaimKnowsMarker == \A h \in Handlers : KnowsMarker(h)

OneCall == /\ MarkerFirst /\ ClaimedRowsExist /\ MarkedIsFirst
           /\ FreshClaimKnowsMarker /\ UnsafeSentAtMostOnce

-----------------------------------------------------------------------------
(* No step takes a row back to an earlier revision. *)

Advances(old, new) ==
  /\ old.revision <= new.revision
  /\ new.status = "absent" => old.status = "absent" /\ new.revision = old.revision
  /\ new.revision = old.revision => new.status = old.status \/ old.status = "absent"

EventsAdvance == \A e \in EventIds : Advances(events[e], events'[e])
ActionsAdvance == \A a \in Actions : Advances(actions[a], actions'[a])

LEMMA RevisionsAreNumbers ==
  TypeOK => /\ \A e \in EventIds : events[e].revision \in Nat
            /\ \A a \in Actions : actions[a].revision \in Nat
            /\ \A h \in Handlers : handler[h].revision \in Nat
BY DEF TypeOK, EventRow, ActionRow, Local

(* A row that is replaced by one at the next revision, or by a new row where *)
(* there was none, advances. *)
LEMMA OneEventAdvances ==
  ASSUME TypeOK, AbsentRowsFresh, NEW e, NEW row,
         \/ row.revision = events[e].revision + 1 /\ row.status # "absent"
         \/ events[e].status = "absent" /\ row.revision = 0 /\ row.status # "absent",
         events' = [events EXCEPT ![e] = row]
  PROVE  EventsAdvance
<1> SUFFICES ASSUME NEW x \in EventIds PROVE Advances(events[x], events'[x])
  BY DEF EventsAdvance
<1>1. events[x].revision \in Nat
  BY RevisionsAreNumbers
<1>2. CASE x = e
  <2>1. events'[x] = row
    BY <1>2 DEF TypeOK
  <2>2. QED
    BY <1>1, <1>2, <2>1 DEF Advances, AbsentRowsFresh
<1>3. CASE x # e
  <2>1. events'[x] = events[x]
    BY <1>3 DEF TypeOK
  <2>2. QED
    BY <1>1, <2>1 DEF Advances
<1>4. QED
  BY <1>2, <1>3

LEMMA OneActionAdvances ==
  ASSUME TypeOK, NEW a, NEW row,
         \/ row.revision = actions[a].revision + 1 /\ row.status # "absent"
         \/ row.revision = actions[a].revision /\ row.status = actions[a].status,
         actions' = [actions EXCEPT ![a] = row]
  PROVE  ActionsAdvance
<1> SUFFICES ASSUME NEW x \in Actions PROVE Advances(actions[x], actions'[x])
  BY DEF ActionsAdvance
<1>1. actions[x].revision \in Nat
  BY RevisionsAreNumbers
<1>2. CASE x = a
  <2>1. actions'[x] = row
    BY <1>2 DEF TypeOK
  <2>2. QED
    BY <1>1, <1>2, <2>1 DEF Advances
<1>3. CASE x # a
  <2>1. actions'[x] = actions[x]
    BY <1>3 DEF TypeOK
  <2>2. QED
    BY <1>1, <2>1 DEF Advances
<1>4. QED
  BY <1>2, <1>3

LEMMA UnchangedAdvances ==
  ASSUME TypeOK
  PROVE  /\ events' = events => EventsAdvance
         /\ actions' = actions => ActionsAdvance
BY RevisionsAreNumbers DEF EventsAdvance, ActionsAdvance, Advances

LEMMA NewEventRow ==
  ASSUME NEW run, NEW body
  PROVE  NewEvent(run, body).revision = 0 /\ NewEvent(run, body).status = "pending"
BY DEF NewEvent, AbsentEvent

LEMMA OutcomeEventAdvances ==
  ASSUME TypeOK, AbsentRowsFresh, NEW a, NEW row, events' = WithOutcomeEvent(a, row)
  PROVE  EventsAdvance
<1> DEFINE id == OutcomeId(a, row.status)
           event == NewEvent(row.run, Outcome)
<1>1. event.revision = 0 /\ event.status # "absent"
  BY NewEventRow
<1>2. \/ events' = events
      \/ events[id].status = "absent" /\ events' = [events EXCEPT ![id] = event]
  BY DEF WithOutcomeEvent
<1> HIDE DEF id, event
<1>3. QED
  BY <1>1, <1>2, UnchangedAdvances, OneEventAdvances

LEMMA SettledAdvances ==
  ASSUME TypeOK, NEW a \in Actions, NEW status \in TerminalAction
  PROVE  /\ Settled(a, status).revision = actions[a].revision + 1
         /\ Settled(a, status).status = status
         /\ status # "absent"
BY DEF Settled, TypeOK, ActionRow, TerminalAction

LEMMA CommitOutcomeAdvances ==
  ASSUME TypeOK, AbsentRowsFresh, NEW h \in Handlers, handler[h].pc \in ActionPc,
         NEW status \in TerminalAction, CommitOutcome(h, status)
  PROVE  EventsAdvance /\ ActionsAdvance
<1> DEFINE a == handler[h].row
           row == Settled(a, status)
<1>1. a \in Actions
  BY DEF TypeOK
<1>2. row.revision = actions[a].revision + 1 /\ row.status # "absent"
  BY <1>1, SettledAdvances
<1>3. \/ events' = events /\ actions' = actions
      \/ events' = WithOutcomeEvent(a, row) /\ actions' = [actions EXCEPT ![a] = row]
  BY DEF CommitOutcome
<1> HIDE DEF a, row
<1>4. QED
  BY <1>2, <1>3, UnchangedAdvances, OutcomeEventAdvances, OneActionAdvances

LEMMA CatchBlockAdvances ==
  ASSUME TypeOK, AbsentRowsFresh, NEW h \in Handlers, handler[h].pc \in ActionPc,
         CatchBlock(h)
  PROVE  EventsAdvance /\ ActionsAdvance
<1>1. CASE FailOrRetryAction(h)
  <2> DEFINE a == handler[h].row
             terminal == handler[h].attempt >= MaxActionAttempts
             retried == [actions[a] EXCEPT !.status = "pending", !.revision = @ + 1,
                                           !.due = RetryBackoff(handler[h].attempt)]
             row == IF ~OwnRevision(actions[a], h) THEN actions[a]
                    ELSE IF terminal THEN Settled(a, "failed") ELSE retried
  <2>1. a \in Actions
    BY DEF TypeOK
  <2>2. retried.revision = actions[a].revision + 1 /\ retried.status = "pending"
    BY <2>1 DEF TypeOK, ActionRow
  <2>3. \/ row.revision = actions[a].revision + 1 /\ row.status # "absent"
        \/ row.revision = actions[a].revision /\ row.status = actions[a].status
    BY <2>1, <2>2, SettledAdvances DEF TerminalAction
  <2>4. /\ \/ events' = events
           \/ events' = WithOutcomeEvent(a, row)
        /\ \/ actions' = actions
           \/ actions' = [actions EXCEPT ![a] = row]
    BY <1>1 DEF FailOrRetryAction
  <2> HIDE DEF a, row
  <2>5. QED
    BY <2>3, <2>4, UnchangedAdvances, OutcomeEventAdvances, OneActionAdvances
<1>2. CASE UNCHANGED <<actions, events>>
  BY <1>2, UnchangedAdvances
<1>3. CASE CommitOutcome(h, "ambiguous")
  BY <1>3, CommitOutcomeAdvances DEF TerminalAction
<1>4. QED
  BY <1>1, <1>2, <1>3 DEF CatchBlock

LEMMA RowsAdvance ==
  ASSUME TypeOK, AbsentRowsFresh, [Next]_vars
  PROVE  EventsAdvance /\ ActionsAdvance
<1>1. ASSUME NEW r \in Runs, NEW goal \in Goals, StartRun(r, goal)
      PROVE  EventsAdvance /\ ActionsAdvance
  <2> DEFINE event == NewEvent(r, goal)
             e == RequestedId(r)
  <2>1. event.revision = 0 /\ event.status # "absent"
    BY NewEventRow
  <2>2. /\ actions' = actions
        /\ \/ events' = events
           \/ events[e].status = "absent" /\ events' = [events EXCEPT ![e] = event]
    BY <1>1 DEF StartRun
  <2> HIDE DEF event, e
  <2>3. QED
    BY <2>1, <2>2, UnchangedAdvances, OneEventAdvances
<1>2. ASSUME NEW input \in ClientEvents, AcceptEvent(input)
      PROVE  EventsAdvance /\ ActionsAdvance
  <2> DEFINE event == NewEvent(input.run, input.body)
             e == input.id
  <2>1. event.revision = 0 /\ event.status # "absent"
    BY NewEventRow
  <2>2. /\ actions' = actions
        /\ \/ events' = events
           \/ events[e].status = "absent" /\ events' = [events EXCEPT ![e] = event]
    BY <1>2 DEF AcceptEvent
  <2> HIDE DEF event, e
  <2>3. QED
    BY <2>1, <2>2, UnchangedAdvances, OneEventAdvances
<1>3. ASSUME NEW h \in Handlers, NEW a \in Actions, ClaimAction(h, a)
      PROVE  EventsAdvance /\ ActionsAdvance
  <2> DEFINE row == Claimed(actions[a], "delivering", ActionLease)
  <2>1. row.revision = actions[a].revision + 1 /\ row.status # "absent"
    BY DEF TypeOK, ActionRow, Claimed
  <2>2. events' = events /\ actions' = [actions EXCEPT ![a] = row]
    BY <1>3 DEF ClaimAction
  <2> HIDE DEF row
  <2>3. QED
    BY <2>1, <2>2, UnchangedAdvances, OneActionAdvances
<1>4. ASSUME NEW h \in Handlers, NEW e \in EventIds, ClaimEvent(h, e)
      PROVE  EventsAdvance /\ ActionsAdvance
  <2> DEFINE row == Claimed(events[e], "processing", EventLease)
  <2>1. row.revision = events[e].revision + 1 /\ row.status # "absent"
    BY DEF TypeOK, EventRow, Claimed
  <2>2. actions' = actions /\ events' = [events EXCEPT ![e] = row]
    BY <1>4 DEF ClaimEvent
  <2> HIDE DEF row
  <2>3. QED
    BY <2>1, <2>2, UnchangedAdvances, OneEventAdvances
<1>5. ASSUME NEW h \in Handlers, NEW decision \in Decisions, CommitEvent(h, decision)
      PROVE  EventsAdvance /\ ActionsAdvance
  <2> DEFINE e == handler[h].row
             row == EventAt(e, "completed", events[e].revision + 1, 0)
  <2>1. e \in EventIds
    BY <1>5 DEF CommitEvent, TypeOK, EventPc
  <2>2. row.revision = events[e].revision + 1 /\ row.status # "absent"
    BY <2>1 DEF EventAt, TypeOK, EventRow
  <2>3. events' = events \/ events' = [events EXCEPT ![e] = row]
    <3>1. \/ events' = events
          \/ events' = [events EXCEPT ![e].status = "completed",
                                       ![e].revision = @ + 1, ![e].due = 0]
      BY <1>5 DEF CommitEvent, tables
    <3>2. [events EXCEPT ![e].status = "completed", ![e].revision = @ + 1, ![e].due = 0]
          = [events EXCEPT ![e] = row]
      BY <2>1 DEF EventAt, TypeOK
    <3>3. QED
      BY <3>1, <3>2
  <2>4. ActionsAdvance
    <3>1. actions' = actions \/ actions' = InsertActions(events[e].run, decision.intents)
      BY <1>5 DEF CommitEvent, tables
    <3>2. \A a \in Actions :
            \/ InsertActions(events[e].run, decision.intents)[a] = actions[a]
            \/ /\ actions[a].status = "absent"
               /\ InsertActions(events[e].run, decision.intents)[a].status = "pending"
               /\ InsertActions(events[e].run, decision.intents)[a].revision = 0
      BY DEF InsertActions, AbsentAction
    <3>3. \A a \in Actions : actions[a].revision \in Nat
      BY RevisionsAreNumbers
    <3> HIDE DEF e
    <3>4. QED
      BY <3>1, <3>2, <3>3 DEF ActionsAdvance, Advances, AbsentRowsFresh
  <2> HIDE DEF e, row
  <2>5. QED
    BY <2>2, <2>3, <2>4, UnchangedAdvances, OneEventAdvances
<1>6. ASSUME NEW h \in Handlers, FailOrRetryEvent(h)
      PROVE  EventsAdvance /\ ActionsAdvance
  <2> DEFINE e == handler[h].row
             status == IF handler[h].attempt >= MaxEventAttempts THEN "failed" ELSE "pending"
             due == IF handler[h].attempt >= MaxEventAttempts THEN 0
                    ELSE RetryBackoff(handler[h].attempt)
             row == EventAt(e, status, events[e].revision + 1, due)
  <2>1. e \in EventIds
    BY <1>6 DEF FailOrRetryEvent, TypeOK, EventPc
  <2>2. row.revision = events[e].revision + 1 /\ row.status # "absent"
    BY <2>1 DEF EventAt, TypeOK, EventRow
  <2>3. actions' = actions /\ (events' = events \/ events' = [events EXCEPT ![e] = row])
    BY <1>6 DEF FailOrRetryEvent, EventAt, TypeOK
  <2> HIDE DEF e, row
  <2>4. QED
    BY <2>2, <2>3, UnchangedAdvances, OneEventAdvances
<1>7. ASSUME NEW h \in Handlers, MarkDispatchStarted(h)
      PROVE  EventsAdvance /\ ActionsAdvance
  <2> DEFINE a == handler[h].row
             row == [actions[a] EXCEPT !.dispatch = "started"]
  <2>1. a \in Actions /\ events' = events
    BY <1>7 DEF MarkDispatchStarted, TypeOK, ActionPc
  <2>2. \/ actions' = actions
        \/ ActionClaimCurrent(h) /\ actions' = [actions EXCEPT ![a] = row]
    BY <1>7 DEF MarkDispatchStarted, TypeOK
  <2>3. ActionClaimCurrent(h) => row.revision = actions[a].revision /\ row.status = actions[a].status
    BY <2>1 DEF TypeOK, ActionRow, ActionClaimCurrent
  <2> HIDE DEF a, row
  <2>4. QED
    BY <2>1, <2>2, <2>3, UnchangedAdvances, OneActionAdvances
<1>8. ASSUME NEW h \in Handlers, DeclareAmbiguous(h) \/ DeliverResult(h) \/ ActionThrows(h)
      PROVE  EventsAdvance /\ ActionsAdvance
  <2>1. handler[h].pc \in ActionPc
    BY <1>8 DEF DeclareAmbiguous, DeliverResult, ActionThrows, ActionPc
  <2>2. \/ UNCHANGED <<actions, events>>
        \/ CommitOutcome(h, "ambiguous") \/ CommitOutcome(h, "delivered")
        \/ CatchBlock(h)
    BY <1>8 DEF DeclareAmbiguous, DeliverResult, ActionThrows
  <2>3. QED
    BY <2>1, <2>2, UnchangedAdvances, CommitOutcomeAdvances, CatchBlockAdvances
       DEF TerminalAction
<1>9. ASSUME Tick PROVE EventsAdvance /\ ActionsAdvance
  <2>1. /\ \A e \in EventIds : /\ events'[e].status = events[e].status
                               /\ events'[e].revision = events[e].revision
        /\ \A a \in Actions : /\ actions'[a].status = actions[a].status
                              /\ actions'[a].revision = actions[a].revision
    BY <1>9 DEF Tick, TypeOK, EventRow, ActionRow
  <2>2. QED
    BY <2>1, RevisionsAreNumbers DEF EventsAdvance, ActionsAdvance, Advances
<1>10. CASE UNCHANGED <<events, actions>>
  BY <1>10, UnchangedAdvances
<1>11. QED
  BY <1>1, <1>2, <1>3, <1>4, <1>5, <1>6, <1>7, <1>8, <1>9, <1>10
     DEF Next, AlarmStarts, HandlerStep, EventStep, ActionStep, AlarmFindsNothing,
         CallOnAgentEvent, StartLookup, ExecuteAction, CheckpointThrows, CloseHandler,
         Crash, tables, vars
-----------------------------------------------------------------------------
(* The fences. *)

(* A handler that does not claim in this step keeps the claim it has. *)
KeepsClaim(h) ==
  /\ handler'[h].pc \in EventPc => handler[h].pc \in EventPc
  /\ handler'[h].pc \in ActionPc => handler[h].pc \in ActionPc
  /\ handler'[h].pc \in EventPc \cup ActionPc =>
       handler'[h].row = handler[h].row /\ handler'[h].revision = handler[h].revision

(* A claim takes the revision its row has from this step on, which no claim  *)
(* held before, and the row says that it is claimed. *)
TakesClaim(h) ==
  LET row == handler'[h].row IN
  \/ /\ handler'[h].pc \in EventPc \ ActionPc
     /\ row \in EventIds
     /\ handler'[h].revision = events[row].revision + 1
     /\ events'[row].revision = events[row].revision + 1
     /\ events'[row].status = "processing"
  \/ /\ handler'[h].pc \in ActionPc \ EventPc
     /\ row \in Actions
     /\ handler'[h].revision = actions[row].revision + 1
     /\ actions'[row].revision = actions[row].revision + 1
     /\ actions'[row].status = "delivering"
ClaimsMove ==
  \/ \A h \in Handlers : KeepsClaim(h)
  \/ \E claimer \in Handlers : /\ TakesClaim(claimer)
                              /\ \A h \in Handlers \ {claimer} : KeepsClaim(h)

LEMMA FencesHold ==
  ASSUME Fencing, TypeOK', EventsAdvance, ActionsAdvance,
         NEW claimer \in Handlers, KeepsClaim(claimer) \/ TakesClaim(claimer),
         \A h \in Handlers \ {claimer} : KeepsClaim(h)
  PROVE  Fencing'
<1> USE DEF Fencing
<1>1. AbsentRowsFresh'
  BY DEF AbsentRowsFresh, EventsAdvance, ActionsAdvance, Advances
<1>2. /\ \A e \in EventIds : events[e].revision \in Nat /\ events'[e].revision \in Nat
      /\ \A a \in Actions : actions[a].revision \in Nat /\ actions'[a].revision \in Nat
      /\ \A h \in Handlers : handler[h].revision \in Nat /\ handler'[h].revision \in Nat
  BY DEF TypeOK, EventRow, ActionRow, Local
<1>3. \A h \in Handlers : /\ handler'[h].pc \in EventPc => handler'[h].row \in EventIds
                          /\ handler'[h].pc \in ActionPc => handler'[h].row \in Actions
  BY DEF TypeOK
<1>4. \A h \in Handlers : KeepsClaim(h) =>
        /\ handler'[h].pc \in EventPc => handler'[h].revision <= events[handler'[h].row].revision
        /\ handler'[h].pc \in ActionPc => handler'[h].revision <= actions[handler'[h].row].revision
  BY DEF KeepsClaim, ClaimsBehindRows
<1>5. ClaimsBehindRows'
  BY <1>2, <1>3, <1>4 DEF ClaimsBehindRows, TakesClaim, EventsAdvance, ActionsAdvance, Advances
<1>6. DistinctClaims'
  <2> SUFFICES ASSUME NEW h1 \in Handlers, NEW h2 \in Handlers, h1 # h2,
                      handler'[h1].row = handler'[h2].row,
                      \/ handler'[h1].pc \in EventPc /\ handler'[h2].pc \in EventPc
                      \/ handler'[h1].pc \in ActionPc /\ handler'[h2].pc \in ActionPc
               PROVE  handler'[h1].revision # handler'[h2].revision
    BY DEF DistinctClaims
  <2>1. CASE KeepsClaim(h1) /\ KeepsClaim(h2)
    BY <2>1 DEF KeepsClaim, DistinctClaims
  <2>2. CASE TakesClaim(h1) /\ KeepsClaim(h2)
    BY <1>2, <1>3, <1>4, <2>2 DEF TakesClaim
  <2>3. CASE KeepsClaim(h1) /\ TakesClaim(h2)
    BY <1>2, <1>3, <1>4, <2>3 DEF TakesClaim
  <2>4. QED
    BY <2>1, <2>2, <2>3
<1>7. QED
  BY <1>1, <1>5, <1>6

LEMMA FencingInit == Init => Fencing
<1> SUFFICES ASSUME Init PROVE Fencing
  OBVIOUS
<1>1. \A h \in Handlers : handler[h].pc \notin EventPc \cup ActionPc
  BY DEF Init, Idle, EventPc, ActionPc
<1>2. AbsentRowsFresh
  BY DEF Init, AbsentRowsFresh, AbsentEvent, AbsentAction
<1>3. QED
  BY <1>1, <1>2, TypeInit DEF Fencing, ClaimsBehindRows, DistinctClaims

LEMMA StepMovesClaims ==
  ASSUME TypeOK, [Next]_vars
  PROVE  ClaimsMove
<1>1. ASSUME NEW h \in Handlers, NEW a \in Actions, ClaimAction(h, a) PROVE ClaimsMove
  <2> DEFINE row == Claimed(actions[a], "delivering", ActionLease)
  <2>1. row.revision = actions[a].revision + 1 /\ row.status = "delivering"
    BY DEF TypeOK, ActionRow, Claimed
  <2>2. actions'[a] = row
    BY <1>1 DEF ClaimAction, TypeOK
  <2>3. TakesClaim(h) /\ \A other \in Handlers \ {h} : KeepsClaim(other)
    BY <1>1, <2>1, <2>2
       DEF ClaimAction, Hold, TakesClaim, KeepsClaim, TypeOK, EventPc, ActionPc
  <2>4. QED
    BY <2>3 DEF ClaimsMove
<1>2. ASSUME NEW h \in Handlers, NEW e \in EventIds, ClaimEvent(h, e) PROVE ClaimsMove
  <2> DEFINE row == Claimed(events[e], "processing", EventLease)
  <2>1. row.revision = events[e].revision + 1 /\ row.status = "processing"
    BY DEF TypeOK, EventRow, Claimed
  <2>2. events'[e] = row
    BY <1>2 DEF ClaimEvent, TypeOK
  <2>3. TakesClaim(h) /\ \A other \in Handlers \ {h} : KeepsClaim(other)
    BY <1>2, <2>1, <2>2
       DEF ClaimEvent, Hold, TakesClaim, KeepsClaim, TypeOK, EventPc, ActionPc
  <2>4. QED
    BY <2>3 DEF ClaimsMove
<1>3. ASSUME NEW h \in Handlers, HandlerStep(h) PROVE ClaimsMove
  <2>1. CASE GoTo(h, "closing") \/ CloseHandler(h)
    <3> DEFINE row == IF GoTo(h, "closing") THEN [handler[h] EXCEPT !.pc = "closing"] ELSE Idle
    <3>1. row.pc \in {"closing", "idle"}
      BY DEF TypeOK, Local, Idle
    <3>2. handler' = [handler EXCEPT ![h] = row]
      BY <2>1 DEF GoTo, CloseHandler, TypeOK
    <3> HIDE DEF row
    <3>3. \A other \in Handlers : KeepsClaim(other)
      BY <3>1, <3>2 DEF KeepsClaim, TypeOK, EventPc, ActionPc
    <3>4. QED
      BY <3>3 DEF ClaimsMove
  <2>2. CASE CallOnAgentEvent(h)
    <3>1. \A other \in Handlers : KeepsClaim(other)
      BY <2>2 DEF CallOnAgentEvent, KeepsClaim, TypeOK, EventPc, ActionPc
    <3>2. QED
      BY <3>1 DEF ClaimsMove
  <2>3. CASE \E pc \in ActionPc : GoTo(h, pc) /\ handler[h].pc \in ActionPc
    <3>1. \A other \in Handlers : KeepsClaim(other)
      BY <2>3 DEF GoTo, KeepsClaim, TypeOK, EventPc, ActionPc
    <3>2. QED
      BY <3>1 DEF ClaimsMove
  <2>4. QED
    BY <1>3, <2>1, <2>2, <2>3
       DEF HandlerStep, EventStep, ActionStep, CommitEvent, FailOrRetryEvent,
           DeclareAmbiguous, StartLookup, MarkDispatchStarted, ExecuteAction,
           DeliverResult, ActionThrows, CheckpointThrows, ActionPc
<1>4. CASE UNCHANGED handler
  BY <1>4 DEF KeepsClaim, ClaimsMove
<1>5. CASE Crash
  BY <1>5 DEF Crash, KeepsClaim, ClaimsMove, Idle, EventPc, ActionPc
<1>6. QED
  BY <1>1, <1>2, <1>3, <1>4, <1>5
     DEF Next, StartRun, AcceptEvent, AlarmStarts, AlarmFindsNothing, Tick, vars

LEMMA FencingStep == Fencing /\ [Next]_vars => Fencing'
<1> SUFFICES ASSUME Fencing, [Next]_vars PROVE Fencing'
  OBVIOUS
<1>1. TypeOK /\ TypeOK' /\ EventsAdvance /\ ActionsAdvance /\ ClaimsMove
  BY TypeStep, RowsAdvance, StepMovesClaims DEF Fencing
<1>2. CASE Handlers = {}
  BY <1>1, <1>2 DEF Fencing, ClaimsBehindRows, DistinctClaims, AbsentRowsFresh,
                    EventsAdvance, ActionsAdvance, Advances
<1>3. CASE Handlers # {}
  BY <1>1, <1>3, FencesHold DEF ClaimsMove
<1>4. QED
  BY <1>2, <1>3

(* However often a lease ran out, at most one handler in flight holds a      *)
(* claim its row still honours. *)
THEOREM ClaimsAreFenced == Spec => []OneCurrentClaim
<1>1. Fencing => OneCurrentClaim
  <2> SUFFICES ASSUME DistinctClaims,
                      NEW h1 \in Handlers, NEW h2 \in Handlers, Holds(h1), Holds(h2),
                      handler[h1].row = handler[h2].row,
                      handler[h1].pc \in EventPc <=> handler[h2].pc \in EventPc
               PROVE  h1 = h2
    BY DEF Fencing, OneCurrentClaim
  <2>1. \A h \in {h1, h2} :
          \/ /\ handler[h].pc \in EventPc
             /\ handler[h].revision = events[handler[h].row].revision
          \/ /\ handler[h].pc \in ActionPc
             /\ handler[h].pc \notin EventPc
             /\ handler[h].revision = actions[handler[h].row].revision
    BY DEF Holds, EventClaimCurrent, ActionClaimCurrent, EventPc, ActionPc
  <2>2. QED
    BY <2>1 DEF DistinctClaims
<1>2. QED
  BY <1>1, FencingInit, FencingStep, PTL DEF Spec


-----------------------------------------------------------------------------
(* The alarm. *)

LEMMA ReconciledAlarmCovers ==
  ASSUME TypeOK', ReconcileAlarm
  PROVE  AlarmCoversWork'
<1> SUFFICES ASSUME NEW d \in Dues(events', actions')
             PROVE  alarm' # NoAlarm /\ alarm' <= d
  BY DEF AlarmCoversWork, Dues
<1>1. Dues(events', actions') \subseteq Nat
  BY DuesType DEF TypeOK
<1>2. alarm' \in Dues(events', actions') /\ \A other \in Dues(events', actions') : alarm' <= other
  BY DEF ReconcileAlarm, Earliest
<1>3. QED
  BY <1>1, <1>2 DEF NoAlarm

LEMMA BusyCellIsCovered ==
  ASSUME NEW h \in Handlers, handler'[h].pc # "idle"
  PROVE  AlarmCoversWork'
BY DEF AlarmCoversWork

LEMMA AlarmCoversInit == Init => AlarmCoversWork
BY DEF Init, AlarmCoversWork, Dues, AbsentEvent, AbsentAction, OpenEvent, OpenAction

LEMMA AlarmCoversStep == TypeOK /\ AlarmCoversWork /\ [Next]_vars => AlarmCoversWork'
<1> SUFFICES ASSUME TypeOK, AlarmCoversWork, [Next]_vars PROVE AlarmCoversWork'
  OBVIOUS
<1>1. TypeOK'
  BY TypeStep
<1>2. ASSUME NEW h \in Handlers, NEW row, handler' = [handler EXCEPT ![h] = row],
             row.pc # "idle"
      PROVE  AlarmCoversWork'
  BY <1>2, BusyCellIsCovered DEF TypeOK
<1>3. ASSUME NEW h \in Handlers, NEW pc \in {"closing"} \cup ActionPc, GoTo(h, pc)
      PROVE  AlarmCoversWork'
  <2> DEFINE row == [handler[h] EXCEPT !.pc = pc]
  <2>1. row.pc # "idle"
    BY DEF TypeOK, Local, ActionPc
  <2>2. handler' = [handler EXCEPT ![h] = row]
    BY <1>3 DEF GoTo, TypeOK
  <2> HIDE DEF row
  <2>3. QED
    BY <1>2, <2>1, <2>2
<1>4. ASSUME NEW h \in Handlers, CallOnAgentEvent(h) PROVE AlarmCoversWork'
  <2> DEFINE row == [handler[h] EXCEPT !.pc = "deciding", !.saw = CurrentState]
  <2>1. row.pc # "idle"
    BY DEF TypeOK, Local
  <2>2. handler' = [handler EXCEPT ![h] = row]
    BY <1>4 DEF CallOnAgentEvent, TypeOK
  <2> HIDE DEF row
  <2>3. QED
    BY <1>2, <2>1, <2>2
<1>5. ASSUME NEW h \in Handlers, NEW pc \in {"event.claimed", "action.claimed"},
             NEW id, NEW claimed, Hold(h, pc, id, claimed)
      PROVE  AlarmCoversWork'
  <2> DEFINE row == [pc |-> pc, row |-> id, attempt |-> claimed.attempts,
                     revision |-> claimed.revision,
                     dispatch |-> IF pc = "action.claimed" THEN actions[id].dispatch
                                 ELSE "not_started",
                     saw |-> {}]
  <2>1. row.pc # "idle"
    OBVIOUS
  <2>2. handler' = [handler EXCEPT ![h] = row]
    BY <1>5 DEF Hold
  <2> HIDE DEF row
  <2>3. QED
    BY <1>2, <2>1, <2>2
<1>6. ASSUME NEW h \in Handlers, HandlerStep(h) PROVE AlarmCoversWork'
  BY <1>1, <1>3, <1>4, <1>6, ReconciledAlarmCovers
     DEF HandlerStep, EventStep, ActionStep, CommitEvent, FailOrRetryEvent,
         DeclareAmbiguous, StartLookup, MarkDispatchStarted, ExecuteAction,
         DeliverResult, ActionThrows, CheckpointThrows, CloseHandler, ActionPc
<1>7. CASE AlarmStarts
  BY <1>1, <1>5, <1>7, ReconciledAlarmCovers
     DEF AlarmStarts, AlarmFindsNothing, ClaimAction, ClaimEvent
<1>8. CASE Crash
  <2>1. CASE refire'
    BY <2>1 DEF AlarmCoversWork
  <2>2. CASE ~refire'
    BY <1>8, <2>2 DEF Crash, AlarmCoversWork, Dues, tables
  <2>3. QED
    BY <2>1, <2>2
<1>9. CASE Tick
  <2>1. CASE refire \/ \E h \in Handlers : handler[h].pc # "idle"
    BY <1>9, <2>1 DEF Tick, AlarmCoversWork
  <2>2. CASE \A d \in Dues(events, actions) : alarm # NoAlarm /\ alarm <= d
    <3> SUFFICES ASSUME NEW d \in Dues(events', actions')
                 PROVE  alarm' # NoAlarm /\ alarm' <= d
      BY DEF AlarmCoversWork, Dues
    <3>1. PICK old \in Dues(events, actions) : d = Less(old)
      BY <1>9 DEF Tick, Dues, TypeOK, EventRow, ActionRow
    <3>2. old \in Nat /\ alarm \in Nat \cup {NoAlarm}
      BY DuesType DEF TypeOK
    <3>3. alarm # NoAlarm /\ alarm <= old /\ alarm' = Less(alarm)
      BY <1>9, <2>2 DEF Tick
    <3>4. QED
      BY <3>1, <3>2, <3>3 DEF Less, NoAlarm
  <2>3. QED
    BY <2>1, <2>2 DEF AlarmCoversWork
<1>10. CASE UNCHANGED vars
  BY <1>10 DEF vars, AlarmCoversWork, Dues
<1>11. QED
  BY <1>1, <1>6, <1>7, <1>8, <1>9, <1>10, ReconciledAlarmCovers DEF Next, StartRun, AcceptEvent

(* A cell with open work is never left without an alarm, a handler in flight *)
(* or an alarm the host owes. *)
THEOREM WorkIsCovered == Spec => []AlarmCoversWork
BY TypeInit, TypeStep, AlarmCoversInit, AlarmCoversStep, PTL DEF Spec


-----------------------------------------------------------------------------
(* Unsafe actions. *)

(* What no step but markActionDispatchStarted changes in an action's row.    *)
Keeps(old, new) ==
  \/ /\ new.safety = old.safety /\ new.dispatch = old.dispatch
     /\ new.status = "absent" <=> old.status = "absent"
  \/ old.status = "absent" /\ new.status # "absent" /\ new.dispatch = "not_started"
ActionsKeep == \A a \in Actions : Keeps(actions[a], actions'[a])

LEMMA OneActionKeeps ==
  ASSUME TypeOK, NEW a, NEW row, actions' = [actions EXCEPT ![a] = row], Keeps(actions[a], row)
  PROVE  ActionsKeep
<1> SUFFICES ASSUME NEW x \in Actions PROVE Keeps(actions[x], actions'[x])
  BY DEF ActionsKeep
<1>1. CASE x = a
  BY <1>1 DEF TypeOK
<1>2. CASE x # a
  <2>1. actions'[x] = actions[x]
    BY <1>2 DEF TypeOK
  <2>2. QED
    BY <2>1 DEF Keeps
<1>3. QED
  BY <1>1, <1>2

LEMMA UnchangedKeeps == actions' = actions => ActionsKeep
BY DEF ActionsKeep, Keeps

LEMMA SettledKeeps ==
  ASSUME TypeOK, NEW a \in Actions, actions[a].status # "absent", NEW status \in TerminalAction
  PROVE  Keeps(actions[a], Settled(a, status))
BY DEF TypeOK, ActionRow, Settled, Keeps, TerminalAction

LEMMA CommitOutcomeKeeps ==
  ASSUME TypeOK, ClaimedRowsExist, NEW h \in Handlers, handler[h].pc \in ActionPc,
         NEW status \in TerminalAction, CommitOutcome(h, status)
  PROVE  ActionsKeep
<1> DEFINE a == handler[h].row
           row == Settled(a, status)
<1>1. a \in Actions /\ actions[a].status # "absent"
  BY DEF TypeOK, ClaimedRowsExist, RowExists
<1>2. Keeps(actions[a], row)
  BY <1>1, SettledKeeps
<1>3. actions' = actions \/ actions' = [actions EXCEPT ![a] = row]
  BY DEF CommitOutcome
<1> HIDE DEF a, row
<1>4. QED
  BY <1>2, <1>3, UnchangedKeeps, OneActionKeeps

LEMMA CatchBlockKeeps ==
  ASSUME TypeOK, ClaimedRowsExist, NEW h \in Handlers, handler[h].pc \in ActionPc, CatchBlock(h)
  PROVE  ActionsKeep
<1>1. CASE FailOrRetryAction(h)
  <2> DEFINE a == handler[h].row
             terminal == handler[h].attempt >= MaxActionAttempts
             retried == [actions[a] EXCEPT !.status = "pending", !.revision = @ + 1,
                                           !.due = RetryBackoff(handler[h].attempt)]
             row == IF ~OwnRevision(actions[a], h) THEN actions[a]
                    ELSE IF terminal THEN Settled(a, "failed") ELSE retried
  <2>1. a \in Actions /\ actions[a].status # "absent"
    BY DEF TypeOK, ClaimedRowsExist, RowExists
  <2>2. Keeps(actions[a], retried)
    BY <2>1 DEF TypeOK, ActionRow, Keeps
  <2>3. Keeps(actions[a], Settled(a, "failed"))
    BY <2>1, SettledKeeps DEF TerminalAction
  <2>4. Keeps(actions[a], row)
    BY <2>2, <2>3 DEF Keeps
  <2>5. actions' = actions \/ actions' = [actions EXCEPT ![a] = row]
    BY <1>1 DEF FailOrRetryAction
  <2> HIDE DEF a, row
  <2>6. QED
    BY <2>4, <2>5, UnchangedKeeps, OneActionKeeps
<1>2. CASE actions' = actions
  BY <1>2, UnchangedKeeps
<1>3. CASE CommitOutcome(h, "ambiguous")
  BY <1>3, CommitOutcomeKeeps DEF TerminalAction
<1>4. QED
  BY <1>1, <1>2, <1>3 DEF CatchBlock

LEMMA RowsKept ==
  ASSUME TypeOK, ClaimedRowsExist, [Next]_vars, \A h \in Handlers : ~MarkDispatchStarted(h)
  PROVE  ActionsKeep
<1>1. ASSUME NEW h \in Handlers, NEW a \in Actions, ClaimAction(h, a) PROVE ActionsKeep
  <2> DEFINE row == Claimed(actions[a], "delivering", ActionLease)
  <2>1. Keeps(actions[a], row)
    BY <1>1 DEF ClaimAction, RunnableAction, OpenAction, TypeOK, ActionRow, Claimed, Keeps
  <2>2. actions' = [actions EXCEPT ![a] = row]
    BY <1>1 DEF ClaimAction
  <2> HIDE DEF row
  <2>3. QED
    BY <2>1, <2>2, OneActionKeeps
<1>2. ASSUME NEW h \in Handlers, NEW decision \in Decisions, CommitEvent(h, decision)
      PROVE  ActionsKeep
  <2> DEFINE run == events[handler[h].row].run
  <2>1. actions' = actions \/ actions' = InsertActions(run, decision.intents)
    BY <1>2 DEF CommitEvent, tables
  <2>2. \A a \in Actions : Keeps(actions[a], InsertActions(run, decision.intents)[a])
    BY DEF InsertActions, AbsentAction, Keeps
  <2>3. QED
    BY <2>1, <2>2, UnchangedKeeps DEF ActionsKeep
<1>3. ASSUME NEW h \in Handlers, DeclareAmbiguous(h) \/ DeliverResult(h) \/ ActionThrows(h)
      PROVE  ActionsKeep
  <2>1. handler[h].pc \in ActionPc
    BY <1>3 DEF DeclareAmbiguous, DeliverResult, ActionThrows, ActionPc
  <2>2. \/ actions' = actions
        \/ CommitOutcome(h, "ambiguous") \/ CommitOutcome(h, "delivered")
        \/ CatchBlock(h)
    BY <1>3 DEF DeclareAmbiguous, DeliverResult, ActionThrows
  <2>3. QED
    BY <2>1, <2>2, UnchangedKeeps, CommitOutcomeKeeps, CatchBlockKeeps DEF TerminalAction
<1>4. CASE Tick
  BY <1>4 DEF Tick, TypeOK, ActionRow, ActionsKeep, Keeps
<1>5. CASE UNCHANGED actions
  BY <1>5, UnchangedKeeps
<1>6. QED
  BY <1>1, <1>2, <1>3, <1>4, <1>5
     DEF Next, StartRun, AcceptEvent, AlarmStarts, HandlerStep, EventStep, ActionStep,
         AlarmFindsNothing, ClaimEvent, CallOnAgentEvent, FailOrRetryEvent, StartLookup,
         ExecuteAction, CheckpointThrows, CloseHandler, Crash, tables, vars

(* The parts of OneCall that a step leaves alone. *)
LEMMA MarkerKept ==
  ASSUME TypeOK, OneCall, ActionsKeep, sent' = sent
  PROVE  MarkerFirst' /\ UnsafeSentAtMostOnce'
<1> USE DEF OneCall
<1>1. \A a \in Actions : sent[a] \in Nat
  BY DEF TypeOK
<1>2. \A a \in Actions : actions[a].status = "absent" => sent[a] = 0
  BY <1>1 DEF MarkerFirst
<1>3. MarkerFirst'
  BY <1>1, <1>2 DEF MarkerFirst, ActionsKeep, Keeps
<1>4. UnsafeSentAtMostOnce'
  BY <1>1, <1>2 DEF UnsafeSentAtMostOnce, ActionsKeep, Keeps
<1>5. QED
  BY <1>3, <1>4

LEMMA RowExistsKept ==
  ASSUME TypeOK, ClaimedRowsExist, ActionsKeep, NEW h \in Handlers,
         handler'[h].pc \in ActionPc => /\ handler[h].pc \in ActionPc
                                        /\ handler'[h].row = handler[h].row,
         handler'[h].pc = "looking_up" =>
           \/ handler[h].pc = "looking_up"
           \/ actions[handler[h].row].safety = "reconcilable",
         handler'[h].pc = "marked" => handler[h].pc = "marked"
  PROVE  RowExists(h)'
<1>1. ClaimedRowsExist => RowExists(h)
  BY DEF ClaimedRowsExist
<1>2. handler[h].pc \in ActionPc => handler[h].row \in Actions
  BY DEF TypeOK
<1>3. QED
  BY <1>1, <1>2 DEF RowExists, ActionsKeep, Keeps, ActionPc

LEMMA FirstKept ==
  ASSUME TypeOK, OneCall, ActionsKeep, sent' = sent,
         \A h \in Handlers : handler'[h].pc = "marked" => handler'[h] = handler[h]
  PROVE  MarkedIsFirst'
<1> USE DEF OneCall
<1> SUFFICES ASSUME NEW h \in Handlers, handler'[h].pc = "marked",
                    actions'[handler'[h].row].safety = "unsafe"
             PROVE  /\ sent'[handler'[h].row] = 0
                    /\ \A other \in Handlers :
                         handler'[other].pc = "marked" /\ handler'[other].row = handler'[h].row
                           => other = h
  BY DEF MarkedIsFirst, IsFirst
<1>1. handler'[h] = handler[h] /\ handler[h].row \in Actions
  BY DEF TypeOK, ActionPc
<1>2. actions[handler[h].row].status # "absent"
  BY <1>1 DEF ClaimedRowsExist, RowExists, ActionPc
<1>3. /\ actions'[handler[h].row].safety = actions[handler[h].row].safety
      /\ actions'[handler[h].row].dispatch = actions[handler[h].row].dispatch
  BY <1>1, <1>2 DEF ActionsKeep, Keeps
<1>4. IsFirst(h)
  BY DEF MarkedIsFirst
<1>5. QED
  BY <1>1, <1>3, <1>4 DEF IsFirst

LEMMA KnowsMarkerKept ==
  ASSUME Fencing, OneCall, TypeOK', ActionsAdvance, NEW h \in Handlers,
         handler'[h] = handler[h] \/ handler'[h].pc # "action.claimed",
         handler[h].pc = "action.claimed" /\ ActionClaimCurrent(h) =>
           actions'[handler[h].row].dispatch = actions[handler[h].row].dispatch
  PROVE  KnowsMarker(h)'
<1> SUFFICES ASSUME handler'[h].pc = "action.claimed", ActionClaimCurrent(h)'
             PROVE  handler'[h].dispatch = actions'[handler'[h].row].dispatch
  BY DEF KnowsMarker
<1> DEFINE a == handler[h].row
<1>1. handler'[h] = handler[h] /\ handler[h].pc \in ActionPc /\ a \in Actions
  BY DEF ActionPc, Fencing, TypeOK
<1>2. actions[a].revision \in Nat /\ actions'[a].revision \in Nat /\ handler[h].revision \in Nat
  BY <1>1, RevisionsAreNumbers DEF Fencing, TypeOK, ActionRow
<1>3. actions'[a].status = "delivering" /\ actions'[a].revision = handler[h].revision
  BY <1>1 DEF ActionClaimCurrent
<1>4. handler[h].revision <= actions[a].revision /\ actions[a].revision <= actions'[a].revision
  BY <1>1 DEF Fencing, ClaimsBehindRows, ActionsAdvance, Advances
<1>5. actions'[a].revision = actions[a].revision
  BY <1>2, <1>3, <1>4
<1>6. actions[a].status = "delivering"
  BY <1>1, <1>3, <1>5
     DEF ActionsAdvance, Advances, OneCall, ClaimedRowsExist, RowExists
<1>7. ActionClaimCurrent(h)
  BY <1>3, <1>5, <1>6 DEF ActionClaimCurrent
<1>8. KnowsMarker(h)
  BY DEF OneCall, FreshClaimKnowsMarker
<1>9. QED
  BY <1>1, <1>7, <1>8 DEF KnowsMarker

LEMMA QuietKeepsMarker ==
  ASSUME Fencing, OneCall, TypeOK', ActionsAdvance, ActionsKeep, NEW h \in Handlers,
         handler'[h] = handler[h] \/ handler'[h].pc # "action.claimed"
  PROVE  KnowsMarker(h)'
<1>1. handler[h].pc = "action.claimed" /\ ActionClaimCurrent(h) =>
        actions'[handler[h].row].dispatch = actions[handler[h].row].dispatch
  BY DEF ActionsKeep, Keeps, ActionClaimCurrent, Fencing, TypeOK, ActionPc
<1>2. QED
  BY <1>1, KnowsMarkerKept

LEMMA OneCallInit == Init => OneCall
BY DEF Init, OneCall, MarkerFirst, ClaimedRowsExist, RowExists, MarkedIsFirst, IsFirst,
       FreshClaimKnowsMarker, KnowsMarker, UnsafeSentAtMostOnce, Idle, ActionPc, AbsentAction

(* A handler may only mark a row it holds, and an unsafe one only unmarked.  *)
LEMMA MarkingIsFirst ==
  ASSUME Fencing, OneCall, Fencing', NEW h \in Handlers, MarkDispatchStarted(h)
  PROVE  OneCall'
<1> USE DEF Fencing, OneCall
<1> DEFINE a == handler[h].row
<1>1. handler[h].pc \in {"action.claimed", "looking_up"} /\ a \in Actions /\ sent' = sent
  BY DEF MarkDispatchStarted, TypeOK, ActionPc
<1>2. actions[a].status # "absent"
  BY <1>1 DEF ClaimedRowsExist, RowExists, ActionPc
<1>3. actions[a] \in ActionRow /\ handler[h] \in Local
  BY <1>1 DEF TypeOK
<1>4. /\ handler'[h].row = a
      /\ \A other \in Handlers \ {h} : handler'[other] = handler[other]
      /\ handler'[h].pc \in {"marked", "closing"}
      /\ handler'[h].pc = "marked" => ActionClaimCurrent(h)
  BY <1>3 DEF MarkDispatchStarted, GoTo, TypeOK, Local
<1>5. /\ \A x \in Actions \ {a} : actions'[x] = actions[x]
      /\ actions'[a].safety = actions[a].safety
      /\ actions'[a].status = actions[a].status
      /\ handler'[h].pc = "marked" => actions'[a].dispatch = "started"
      /\ handler'[h].pc = "closing" => actions' = actions
      /\ actions'[a].dispatch \in {actions[a].dispatch, "started"}
  BY <1>1, <1>3 DEF MarkDispatchStarted, GoTo, TypeOK, ActionRow, Local
<1>6. MarkerFirst' /\ UnsafeSentAtMostOnce'
  BY <1>1, <1>2, <1>5 DEF MarkerFirst, UnsafeSentAtMostOnce
<1>7. ClaimedRowsExist'
  <2> SUFFICES ASSUME NEW other \in Handlers PROVE RowExists(other)'
    BY DEF ClaimedRowsExist
  <2>1. RowExists(other) /\ (handler[other].pc \in ActionPc => handler[other].row \in Actions)
    BY DEF ClaimedRowsExist, TypeOK
  <2>2. CASE other = h
    BY <1>2, <1>4, <1>5, <2>2 DEF RowExists
  <2>3. CASE other # h
    BY <1>4, <1>5, <2>1, <2>3 DEF RowExists, ActionPc
  <2>4. QED
    BY <2>2, <2>3
<1>8. FreshClaimKnowsMarker'
  <2> SUFFICES ASSUME NEW other \in Handlers PROVE KnowsMarker(other)'
    BY DEF FreshClaimKnowsMarker
  <2>1. ActionsAdvance
    <3> DEFINE row == [actions[a] EXCEPT !.dispatch = "started"]
    <3>1. row.revision = actions[a].revision /\ row.status = actions[a].status
      BY <1>3 DEF ActionRow
    <3>2. actions' = actions \/ actions' = [actions EXCEPT ![a] = row]
      BY DEF MarkDispatchStarted, TypeOK
    <3> HIDE DEF row
    <3>3. QED
      BY <3>1, <3>2, UnchangedAdvances, OneActionAdvances
  <2>2. handler'[other] = handler[other] \/ handler'[other].pc # "action.claimed"
    BY <1>4
  <2>3. handler[other].pc = "action.claimed" /\ ActionClaimCurrent(other) /\ other # h =>
          actions'[handler[other].row].dispatch = actions[handler[other].row].dispatch
    <3> SUFFICES ASSUME handler[other].pc = "action.claimed", ActionClaimCurrent(other), other # h
                 PROVE  actions'[handler[other].row].dispatch = actions[handler[other].row].dispatch
      OBVIOUS
    <3>1. CASE handler[other].row = a /\ handler'[h].pc = "marked"
      <4>1. handler[h].revision = handler[other].revision
        BY <1>4, <3>1 DEF ActionClaimCurrent
      <4>2. QED
        BY <1>1, <3>1, <4>1 DEF DistinctClaims, ActionPc
    <3>2. CASE handler[other].row # a \/ handler'[h].pc # "marked"
      BY <1>4, <1>5, <3>2 DEF TypeOK, ActionPc
    <3>3. QED
      BY <3>1, <3>2
  <2>4. CASE other = h
    BY <1>4, <2>4 DEF KnowsMarker
  <2>5. CASE other # h
    BY <2>1, <2>2, <2>3, <2>5, KnowsMarkerKept
  <2>6. QED
    BY <2>4, <2>5
<1>9. MarkedIsFirst'
  <2>1. CASE handler'[h].pc = "closing"
    BY <1>1, <1>4, <1>5, <2>1 DEF MarkedIsFirst, IsFirst
  <2>2. CASE handler'[h].pc = "marked"
    <3>1. actions[a].safety = "unsafe" =>
            /\ actions[a].dispatch = "not_started" /\ sent[a] = 0
            /\ \A other \in Handlers : ~(handler[other].pc = "marked" /\ handler[other].row = a)
      <4> SUFFICES ASSUME actions[a].safety = "unsafe"
                   PROVE  /\ actions[a].dispatch = "not_started" /\ sent[a] = 0
                          /\ \A other \in Handlers :
                               ~(handler[other].pc = "marked" /\ handler[other].row = a)
        OBVIOUS
      <4>1. handler[h].pc = "action.claimed"
        BY <1>1 DEF ClaimedRowsExist, RowExists
      <4>2. handler[h].dispatch # "started"
        BY <4>1 DEF MarkDispatchStarted, UnsafeAlreadyDispatched
      <4>3. handler[h].dispatch = actions[a].dispatch
        BY <1>4, <2>2, <4>1 DEF FreshClaimKnowsMarker, KnowsMarker
      <4>4. actions[a].dispatch = "not_started"
        BY <1>3, <4>2, <4>3 DEF ActionRow, Marker
      <4>5. sent[a] = 0
        BY <1>1, <4>4 DEF MarkerFirst, TypeOK
      <4>6. QED
        BY <4>4, <4>5 DEF ClaimedRowsExist, RowExists
    <3> SUFFICES ASSUME NEW x \in Handlers PROVE IsFirst(x)'
      BY DEF MarkedIsFirst
    <3>2. CASE x = h
      BY <1>1, <1>4, <1>5, <2>2, <3>1, <3>2 DEF IsFirst
    <3>3. CASE x # h
      <4>1. IsFirst(x) /\ (handler[x].pc = "marked" => handler[x].row \in Actions)
        BY DEF MarkedIsFirst, TypeOK, ActionPc
      <4>2. QED
        BY <1>1, <1>4, <1>5, <3>1, <3>3, <4>1 DEF IsFirst
    <3>4. QED
      BY <3>2, <3>3
  <2>3. QED
    BY <1>4, <2>1, <2>2
<1>10. QED
  BY <1>6, <1>7, <1>8, <1>9

(* The call itself is the first for an unsafe action. *)
LEMMA CallingIsFirst ==
  ASSUME Fencing, OneCall, Fencing', NEW h \in Handlers, ExecuteAction(h)
  PROVE  OneCall'
<1> USE DEF Fencing, OneCall
<1> DEFINE a == handler[h].row
<1>1. handler[h].pc = "marked" /\ a \in Actions /\ actions' = actions
  BY DEF ExecuteAction, tables, TypeOK, ActionPc
<1>2. /\ handler'[h].pc = "executing" /\ handler'[h].row = a
      /\ \A other \in Handlers \ {h} : handler'[other] = handler[other]
  BY DEF ExecuteAction, GoTo, TypeOK, Local
<1>3. /\ sent'[a] = sent[a] + 1 /\ sent[a] \in Nat
      /\ \A x \in Actions \ {a} : sent'[x] = sent[x]
  BY <1>1 DEF ExecuteAction, TypeOK
<1>4. IsFirst(h) /\ RowExists(h)
  BY DEF MarkedIsFirst, ClaimedRowsExist
<1>5. UnsafeSentAtMostOnce'
  BY <1>1, <1>3, <1>4 DEF UnsafeSentAtMostOnce, IsFirst
<1>6. ClaimedRowsExist'
  BY <1>1, <1>2, <1>4 DEF ClaimedRowsExist, RowExists, ActionPc
<1>7. FreshClaimKnowsMarker'
  <2> SUFFICES ASSUME NEW other \in Handlers PROVE KnowsMarker(other)'
    BY DEF FreshClaimKnowsMarker
  <2>1. handler'[other] = handler[other] \/ handler'[other].pc # "action.claimed"
    BY <1>2
  <2>2. ActionsAdvance /\ ActionsKeep
    BY <1>1, UnchangedAdvances, UnchangedKeeps
  <2>3. QED
    BY <2>1, <2>2, QuietKeepsMarker
<1>8. MarkedIsFirst'
  <2> SUFFICES ASSUME NEW x \in Handlers PROVE IsFirst(x)'
    BY DEF MarkedIsFirst
  <2>1. IsFirst(x) /\ (handler[x].pc = "marked" => handler[x].row \in Actions)
    BY DEF MarkedIsFirst, TypeOK, ActionPc
  <2>2. QED
    BY <1>1, <1>2, <1>3, <1>4, <2>1 DEF IsFirst
<1>9. MarkerFirst'
  BY <1>1, <1>3, <1>4 DEF MarkerFirst, RowExists
<1>10. QED
  BY <1>5, <1>6, <1>7, <1>8, <1>9

LEMMA OneCallStep == Fencing /\ OneCall /\ [Next]_vars => OneCall'
<1> SUFFICES ASSUME Fencing, OneCall, [Next]_vars PROVE OneCall'
  OBVIOUS
<1>1. Fencing' /\ TypeOK /\ TypeOK' /\ ClaimedRowsExist
  BY FencingStep DEF Fencing, OneCall
<1>2. ActionsAdvance
  BY RowsAdvance DEF Fencing
<1>3. ASSUME NEW h \in Handlers, MarkDispatchStarted(h) PROVE OneCall'
  BY <1>1, <1>3, MarkingIsFirst
<1>4. ASSUME NEW h \in Handlers, ExecuteAction(h) PROVE OneCall'
  BY <1>1, <1>4, CallingIsFirst
<1>5. CASE \A h \in Handlers : ~MarkDispatchStarted(h) /\ ~ExecuteAction(h)
  <2>1. ActionsKeep
    BY <1>1, <1>5, RowsKept
  <2>2. sent' = sent
    <3>1. ASSUME NEW h \in Handlers, EventStep(h) PROVE sent' = sent
      BY <3>1 DEF EventStep, CallOnAgentEvent, CommitEvent, FailOrRetryEvent
    <3>2. ASSUME NEW h \in Handlers, ActionStep(h) PROVE sent' = sent
      BY <1>5, <3>2 DEF ActionStep, DeclareAmbiguous, StartLookup, DeliverResult, ActionThrows
    <3>3. ASSUME NEW h \in Handlers, CheckpointThrows(h) \/ CloseHandler(h) PROVE sent' = sent
      BY <3>3 DEF CheckpointThrows, CloseHandler
    <3>4. CASE AlarmStarts
      BY <3>4 DEF AlarmStarts, AlarmFindsNothing, ClaimAction, ClaimEvent
    <3>5. QED
      BY <3>1, <3>2, <3>3, <3>4
         DEF Next, StartRun, AcceptEvent, HandlerStep, Crash, Tick, vars
  <2>3. MarkerFirst' /\ UnsafeSentAtMostOnce'
    BY <1>1, <2>1, <2>2, MarkerKept
  <2>4. ASSUME \A h \in Handlers :
                 \/ handler'[h] = handler[h]
                 \/ handler'[h].pc \notin ActionPc
        PROVE  OneCall'
    <3>1. ClaimedRowsExist'
      BY <1>1, <2>1, <2>4, RowExistsKept DEF ClaimedRowsExist, ActionPc
    <3>2. FreshClaimKnowsMarker'
      BY <1>1, <1>2, <2>1, <2>4, QuietKeepsMarker DEF FreshClaimKnowsMarker, ActionPc
    <3>3. MarkedIsFirst'
      BY <1>1, <2>1, <2>2, <2>4, FirstKept DEF ActionPc
    <3>4. QED
      BY <2>3, <3>1, <3>2, <3>3 DEF OneCall
  <2>5. ASSUME NEW h \in Handlers, NEW a \in Actions, ClaimAction(h, a) PROVE OneCall'
    <3>1. /\ handler'[h].pc = "action.claimed" /\ handler'[h].row = a
          /\ handler'[h].dispatch = actions[a].dispatch
          /\ \A other \in Handlers \ {h} : handler'[other] = handler[other]
      BY <1>1, <2>5 DEF ClaimAction, Hold, TypeOK
    <3>2. actions[a].status # "absent"
      BY <2>5 DEF ClaimAction, RunnableAction, OpenAction
    <3>3. /\ actions'[a].dispatch = actions[a].dispatch
          /\ actions'[a].status # "absent"
      BY <2>1, <3>2 DEF ActionsKeep, Keeps
    <3>4. RowExists(h)' /\ KnowsMarker(h)'
      BY <3>1, <3>3 DEF RowExists, KnowsMarker
    <3>5. ClaimedRowsExist'
      <4>1. ASSUME NEW other \in Handlers, other # h PROVE RowExists(other)'
        BY <1>1, <2>1, <3>1, <4>1, RowExistsKept
      <4>2. QED
        BY <3>4, <4>1 DEF ClaimedRowsExist
    <3>6. FreshClaimKnowsMarker'
      <4>1. ASSUME NEW other \in Handlers, other # h PROVE KnowsMarker(other)'
        BY <1>1, <1>2, <2>1, <3>1, <4>1, QuietKeepsMarker
      <4>2. QED
        BY <3>4, <4>1 DEF FreshClaimKnowsMarker
    <3>7. MarkedIsFirst'
      BY <1>1, <2>1, <2>2, <3>1, FirstKept
    <3>8. QED
      BY <2>3, <3>5, <3>6, <3>7 DEF OneCall
  <2>6. ASSUME NEW h \in Handlers, StartLookup(h) PROVE OneCall'
    <3>1. /\ handler'[h].pc = "looking_up" /\ handler'[h].row = handler[h].row
          /\ handler[h].pc = "action.claimed"
          /\ actions[handler[h].row].safety = "reconcilable"
          /\ \A other \in Handlers \ {h} : handler'[other] = handler[other]
      BY <1>1, <2>6 DEF StartLookup, GoTo, TypeOK, Local
    <3>2. ClaimedRowsExist'
      BY <1>1, <2>1, <3>1, RowExistsKept DEF ClaimedRowsExist, ActionPc
    <3>3. FreshClaimKnowsMarker'
      BY <1>1, <1>2, <2>1, <3>1, QuietKeepsMarker DEF FreshClaimKnowsMarker
    <3>4. MarkedIsFirst'
      BY <1>1, <2>1, <2>2, <3>1, FirstKept
    <3>5. QED
      BY <2>3, <3>2, <3>3, <3>4 DEF OneCall
  <2>7. ASSUME NEW h \in Handlers,
               GoTo(h, "closing") \/ CallOnAgentEvent(h) \/ CloseHandler(h)
        PROVE  OneCall'
    <3>1. /\ handler'[h].pc \notin ActionPc
          /\ \A other \in Handlers \ {h} : handler'[other] = handler[other]
      <4> DEFINE row == IF GoTo(h, "closing") THEN [handler[h] EXCEPT !.pc = "closing"]
                        ELSE IF CallOnAgentEvent(h)
                        THEN [handler[h] EXCEPT !.pc = "deciding", !.saw = CurrentState]
                        ELSE Idle
      <4>1. row.pc \notin ActionPc
        BY <1>1 DEF TypeOK, Local, Idle, ActionPc
      <4>2. handler' = [handler EXCEPT ![h] = row]
        BY <1>1, <2>7 DEF GoTo, CallOnAgentEvent, CloseHandler, TypeOK
      <4> HIDE DEF row
      <4>3. QED
        BY <1>1, <4>1, <4>2 DEF TypeOK
    <3>2. QED
      BY <2>4, <3>1
  <2>8. ASSUME NEW h \in Handlers, NEW e \in EventIds, ClaimEvent(h, e) PROVE OneCall'
    <3>1. /\ handler'[h].pc \notin ActionPc
          /\ \A other \in Handlers \ {h} : handler'[other] = handler[other]
      BY <1>1, <2>8 DEF ClaimEvent, Hold, TypeOK, ActionPc
    <3>2. QED
      BY <2>4, <3>1
  <2>9. CASE Crash
    BY <2>4, <2>9 DEF Crash, Idle, ActionPc
  <2>10. CASE UNCHANGED handler
    BY <2>4, <2>10
  <2>11. QED
    BY <1>5, <2>5, <2>6, <2>7, <2>8, <2>9, <2>10
       DEF Next, StartRun, AcceptEvent, AlarmStarts, AlarmFindsNothing, HandlerStep,
           EventStep, ActionStep, CommitEvent, FailOrRetryEvent, DeclareAmbiguous,
           DeliverResult, ActionThrows, CheckpointThrows, Tick, vars
<1>6. QED
  BY <1>3, <1>4, <1>5

(* While its row survives, an unsafe action is called at most once, however  *)
(* crashes, expired leases and overlapping handlers are interleaved.         *)
THEOREM UnsafeIsCalledOnce == Spec => []UnsafeSentAtMostOnce
<1>1. OneCall => UnsafeSentAtMostOnce
  BY DEF OneCall
<1>2. QED
  BY <1>1, FencingInit, FencingStep, OneCallInit, OneCallStep, PTL DEF Spec

-----------------------------------------------------------------------------
(* The state a handler reads from memory is the one the table holds: every   *)
(* commit that writes the row also replaces the copy. *)
THEOREM CacheIsFaithful == Spec => []CacheIsCommittedState
<1>1. Init => CacheIsCommittedState
  BY DEF Init, CacheIsCommittedState
<1>2. CacheIsCommittedState /\ [Next]_vars => CacheIsCommittedState'
  <2> SUFFICES ASSUME CacheIsCommittedState, [Next]_vars PROVE CacheIsCommittedState'
    OBVIOUS
  <2> USE DEF CacheIsCommittedState
  <2>1. ASSUME NEW h \in Handlers, CallOnAgentEvent(h) PROVE CacheIsCommittedState'
    BY <2>1 DEF CallOnAgentEvent, CurrentState, tables
  <2>2. ASSUME NEW h \in Handlers, NEW decision \in Decisions, CommitEvent(h, decision)
        PROVE  CacheIsCommittedState'
    BY <2>2 DEF CommitEvent, CacheAfterCommit, tables
  <2>3. CASE Crash
    BY <2>3 DEF Crash
  <2>4. CASE UNCHANGED <<stored, cached>>
    BY <2>4
  <2>5. QED
    BY <2>1, <2>2, <2>3, <2>4
       DEF Next, StartRun, AcceptEvent, AlarmStarts, AlarmFindsNothing, ClaimAction,
           ClaimEvent, HandlerStep, EventStep, ActionStep, FailOrRetryEvent,
           DeclareAmbiguous, StartLookup, MarkDispatchStarted, ExecuteAction,
           DeliverResult, ActionThrows, CheckpointThrows, CloseHandler, Tick, tables, vars
<1>3. QED
  BY <1>1, <1>2, PTL DEF Spec

-----------------------------------------------------------------------------
(* What a cell promises of its inbox and of its actions: a receipt and its   *)
(* outcome event belong together, a run keeps its request, a superseded      *)
(* handler writes nothing, and the cell implements DurableAgent.  The proofs *)
(* look at a step by what it does to the two tables: nothing that matters,   *)
(* an arrival, a decision, a surrender, or a report.                         *)

(* A row under claim was inserted, and a claim at the revision of its row is *)
(* one the row says is claimed: no other step leaves the revision alone.     *)
HonouredClaims ==
  \A h \in Handlers :
    /\ handler[h].pc \in EventPc =>
         /\ events[handler[h].row].status # "absent"
         /\ OwnRevision(events[handler[h].row], h) =>
              events[handler[h].row].status = "processing"
    /\ handler[h].pc \in ActionPc =>
         /\ actions[handler[h].row].status # "absent"
         /\ OwnRevision(actions[handler[h].row], h) =>
              actions[handler[h].row].status = "delivering"

(* An event without a row has no content, and the event that reports an      *)
(* outcome is there exactly if the action ended so, for the action's run.    *)
OutcomesReported ==
  /\ \A e \in EventIds : events[e].status = "absent" => events[e].body = None
  /\ \A a \in Actions, s \in TerminalAction :
       /\ events[OutcomeId(a, s)].body = Outcome <=> actions[a].status = s
       /\ actions[a].status = s => events[OutcomeId(a, s)].run = actions[a].run

Kept == Fencing /\ HonouredClaims /\ OutcomesReported

-----------------------------------------------------------------------------
(* What a step does to the inbox and to the actions. *)

(* The states of a row that DurableAgent tells apart. *)
InboxOf(status) == CASE status = "absent" -> "none"
                     [] status \in OpenEvent -> "open"
                     [] status = "completed" -> "decided"
                     [] status = "failed" -> "given_up"
EffectOf(status) == CASE status = "absent" -> "none"
                      [] status \in OpenAction -> "intended"
                      [] OTHER -> status

SameContent(e) == events'[e].run = events[e].run /\ events'[e].body = events[e].body
EventStays(e) == SameContent(e) /\ InboxOf(events'[e].status) = InboxOf(events[e].status)
EventArrives(e, run, body) == events[e].status = "absent" /\ events'[e] = NewEvent(run, body)
ArrivesForeign(e) ==
  \E run \in Runs \cup {None}, body \in Bodies \cup Goals : EventArrives(e, run, body)
ActionStays(a) == /\ actions'[a].run = actions[a].run
                  /\ EffectOf(actions'[a].status) = EffectOf(actions[a].status)

Quiet == /\ \A e \in EventIds : EventStays(e)
         /\ \A a \in Actions : ActionStays(a)
Arrival(e) ==
  /\ ArrivesForeign(e)
  /\ \A x \in EventIds \ {e} : EventStays(x)
  /\ \A a \in Actions : ActionStays(a)
Decision(e, asked) ==
  /\ events[e].status \in OpenEvent /\ events'[e].status = "completed" /\ SameContent(e)
  /\ \A x \in EventIds \ {e} : EventStays(x)
  /\ \A a \in asked : actions[a].status = "absent" /\ actions'[a].status = "pending"
  /\ \A a \in Actions \ asked : ActionStays(a)
Surrender(e) ==
  /\ events[e].status \in OpenEvent /\ events'[e].status = "failed" /\ SameContent(e)
  /\ \A x \in EventIds \ {e} : EventStays(x)
  /\ \A a \in Actions : ActionStays(a)
Report(a, s) ==
  /\ actions[a].status \in OpenAction /\ actions'[a].status = s
  /\ actions'[a].run = actions[a].run
  /\ \A x \in Actions \ {a} : ActionStays(x)
  /\ EventArrives(OutcomeId(a, s), actions[a].run, Outcome)
  /\ \A x \in EventIds \ {OutcomeId(a, s)} : EventStays(x)

PromisedStep ==
  \/ Quiet
  \/ \E e \in EventIds : Arrival(e) \/ Surrender(e)
  \/ \E e \in EventIds, asked \in SUBSET Actions : Decision(e, asked)
  \/ \E a \in Actions, s \in TerminalAction : Report(a, s)

LEMMA EventsStay == events' = events => \A e \in EventIds : EventStays(e)
BY DEF EventStays, SameContent

LEMMA ActionsStay == actions' = actions => \A a \in Actions : ActionStays(a)
BY DEF ActionStays

LEMMA OneEventChanges ==
  ASSUME TypeOK, NEW e, NEW row, events' = [events EXCEPT ![e] = row]
  PROVE  /\ e \in EventIds => events'[e] = row
         /\ \A x \in EventIds \ {e} : EventStays(x)
BY DEF TypeOK, EventStays, SameContent

LEMMA OneActionChanges ==
  ASSUME TypeOK, NEW a, NEW row, actions' = [actions EXCEPT ![a] = row]
  PROVE  /\ a \in Actions => actions'[a] = row
         /\ \A x \in Actions \ {a} : ActionStays(x)
BY DEF TypeOK, ActionStays

LEMMA OutcomeIdIsEvent ==
  ASSUME NEW a \in Actions, NEW s \in TerminalAction
  PROVE  OutcomeId(a, s) \in EventIds
BY DEF EventIds

(* Another client or an admission never reports an outcome. *)
LEMMA OutcomeIsNoBody == Outcome # None /\ \A body \in Bodies \cup Goals : body # Outcome
BY ConstantsAssumption

(* The outcome of an action that is still open is not there yet, unless the *)
(* id is taken, and the outcome of a terminal one is. *)
LEMMA OutcomeEventIsNew ==
  ASSUME Kept, NEW a \in Actions, NEW s \in TerminalAction,
         actions[a].status \in OpenAction, ~OutcomeConflict(a, Settled(a, s))
  PROVE  events[OutcomeId(a, s)].status = "absent"
<1>1. Settled(a, s).status = s
  BY SettledAdvances DEF Kept, Fencing
<1>2. actions[a].status # s
  BY DEF OpenAction, TerminalAction
<1>3. events[OutcomeId(a, s)].body # Outcome
  BY <1>2 DEF Kept, OutcomesReported
<1>4. QED
  BY <1>1, <1>3 DEF OutcomeConflict

LEMMA OutcomeEventIsThere ==
  ASSUME Kept, NEW a \in Actions
  PROVE  WithOutcomeEvent(a, actions[a]) = events
<1> DEFINE s == actions[a].status
<1>1. CASE s \in TerminalAction
  <2>1. events[OutcomeId(a, s)].body = Outcome /\ OutcomeId(a, s) \in EventIds
    BY <1>1, OutcomeIdIsEvent DEF Kept, OutcomesReported
  <2>2. events[OutcomeId(a, s)].status # "absent"
    BY <2>1, OutcomeIsNoBody DEF Kept, OutcomesReported
  <2>3. QED
    BY <2>2 DEF WithOutcomeEvent
<1>2. CASE s \notin TerminalAction
  BY <1>2 DEF WithOutcomeEvent
<1>3. QED
  BY <1>1, <1>2

LEMMA SettlingReports ==
  ASSUME Kept, NEW a \in Actions, NEW s \in TerminalAction,
         actions[a].status \in OpenAction, ~OutcomeConflict(a, Settled(a, s)),
         actions' = [actions EXCEPT ![a] = Settled(a, s)],
         events' = WithOutcomeEvent(a, Settled(a, s))
  PROVE  Report(a, s)
<1> DEFINE row == Settled(a, s)
           id == OutcomeId(a, s)
           event == NewEvent(actions[a].run, Outcome)
<1>1. row.status = s /\ row.run = actions[a].run
  BY DEF Kept, Fencing, TypeOK, ActionRow, Settled
<1>2. events[id].status = "absent" /\ id \in EventIds
  BY OutcomeEventIsNew, OutcomeIdIsEvent
<1>3. events' = [events EXCEPT ![id] = event]
  BY <1>1, <1>2 DEF WithOutcomeEvent
<1> HIDE DEF row, id, event
<1>4. actions'[a] = row /\ \A x \in Actions \ {a} : ActionStays(x)
  BY OneActionChanges DEF Kept, Fencing, row
<1>5. events'[id] = event /\ \A x \in EventIds \ {id} : EventStays(x)
  BY <1>2, <1>3, OneEventChanges DEF Kept, Fencing
<1>6. QED
  BY <1>1, <1>2, <1>4, <1>5 DEF Report, EventArrives, id, event

LEMMA CommitOutcomeIsPromised ==
  ASSUME Kept, NEW h \in Handlers, handler[h].pc \in ActionPc, NEW s \in TerminalAction,
         ~OutcomeThrows(h, s), CommitOutcome(h, s)
  PROVE  PromisedStep
<1>1. handler[h].row \in Actions
  BY DEF Kept, Fencing, TypeOK
<1>2. CASE ActionClaimCurrent(h)
  <2>1. actions[handler[h].row].status \in OpenAction
    BY <1>2 DEF ActionClaimCurrent, OpenAction
  <2>2. Report(handler[h].row, s)
    BY <1>1, <1>2, <2>1, SettlingReports DEF CommitOutcome, OutcomeThrows
  <2>3. QED
    BY <1>1, <2>2 DEF PromisedStep
<1>3. CASE ~ActionClaimCurrent(h)
  BY <1>3, EventsStay, ActionsStay DEF CommitOutcome, PromisedStep, Quiet
<1>4. QED
  BY <1>2, <1>3

LEMMA CatchBlockIsPromised ==
  ASSUME Kept, NEW h \in Handlers, handler[h].pc \in ActionPc, CatchBlock(h)
  PROVE  PromisedStep
<1> DEFINE a == handler[h].row
           terminal == handler[h].attempt >= MaxActionAttempts
           retried == [actions[a] EXCEPT !.status = "pending", !.revision = @ + 1,
                                         !.due = RetryBackoff(handler[h].attempt)]
<1>1. a \in Actions /\ TypeOK
  BY DEF Kept, Fencing, TypeOK
<1>2. CASE UNCHANGED <<actions, events>>
  BY <1>2, EventsStay, ActionsStay DEF PromisedStep, Quiet
<1>3. CASE FailOrRetryAction(h) /\ ~UNCHANGED <<actions, events>>
  <2>1. CASE ~OwnRevision(actions[a], h)
    <3>1. actions' = actions /\ (events' = events \/ events' = WithOutcomeEvent(a, actions[a]))
      BY <1>1, <1>3, <2>1 DEF FailOrRetryAction, TypeOK
    <3>2. QED
      BY <1>1, <1>3, <3>1, OutcomeEventIsThere
  <2>2. CASE OwnRevision(actions[a], h)
    <3>1. actions[a].status \in OpenAction
      BY <2>2 DEF Kept, HonouredClaims, OpenAction
    <3>2. CASE terminal
      <4>1. Report(a, "failed")
        BY <1>1, <1>3, <2>2, <3>1, <3>2, SettlingReports DEF FailOrRetryAction, TerminalAction
      <4>2. QED
        BY <1>1, <4>1 DEF PromisedStep, TerminalAction
    <3>3. CASE ~terminal
      <4>1. actions' = [actions EXCEPT ![a] = retried] /\ events' = events
        BY <1>3, <2>2, <3>3 DEF FailOrRetryAction
      <4>2. retried.status = "pending" /\ retried.run = actions[a].run
        BY <1>1 DEF TypeOK, ActionRow
      <4> HIDE DEF retried, a
      <4>3. actions'[a] = retried /\ \A x \in Actions \ {a} : ActionStays(x)
        BY <1>1, <4>1, OneActionChanges
      <4>4. ActionStays(a)
        BY <3>1, <4>2, <4>3 DEF ActionStays, EffectOf, OpenAction
      <4>5. QED
        BY <4>1, <4>3, <4>4, EventsStay DEF PromisedStep, Quiet
    <3>4. QED
      BY <3>2, <3>3
  <2>3. QED
    BY <2>1, <2>2
<1>4. CASE CommitOutcome(h, "ambiguous") /\ ~OutcomeThrows(h, "ambiguous")
  BY <1>4, CommitOutcomeIsPromised DEF TerminalAction
<1>5. QED
  BY <1>2, <1>3, <1>4 DEF CatchBlock

(* Every step of the cell is one that the promise knows. *)
LEMMA StepIsPromised == Kept /\ [Next]_vars => PromisedStep
<1> SUFFICES ASSUME Kept, [Next]_vars PROVE PromisedStep
  OBVIOUS
<1> TypeOK
  BY DEF Kept, Fencing
<1>1. ASSUME NEW r \in Runs, NEW goal \in Goals, StartRun(r, goal) PROVE PromisedStep
  <2> DEFINE e == RequestedId(r)
             event == NewEvent(r, goal)
  <2>1. e \in EventIds
    BY DEF EventIds
  <2>2. /\ actions' = actions
        /\ \/ events' = events
           \/ events[e].status = "absent" /\ events' = [events EXCEPT ![e] = event]
    BY <1>1 DEF StartRun
  <2>3. CASE events' = events
    BY <2>2, <2>3, EventsStay, ActionsStay DEF PromisedStep, Quiet
  <2>4. CASE events[e].status = "absent" /\ events' = [events EXCEPT ![e] = event]
    <3> HIDE DEF e, event
    <3>1. events'[e] = event /\ \A x \in EventIds \ {e} : EventStays(x)
      BY <2>1, <2>4, OneEventChanges
    <3>2. EventArrives(e, r, goal)
      BY <2>4, <3>1 DEF EventArrives, event
    <3>3. Arrival(e)
      BY <2>2, <3>1, <3>2, ActionsStay DEF Arrival, ArrivesForeign
    <3>4. QED
      BY <2>1, <3>3 DEF PromisedStep
  <2>5. QED
    BY <2>2, <2>3, <2>4
<1>2. ASSUME NEW input \in ClientEvents, AcceptEvent(input) PROVE PromisedStep
  <2> DEFINE e == input.id
             event == NewEvent(input.run, input.body)
  <2>1. e \in EventIds /\ input.run \in Runs \cup {None} /\ input.body \in Bodies \cup Goals
    BY ConstantsAssumption DEF EventIds
  <2>2. /\ actions' = actions
        /\ \/ events' = events
           \/ events[e].status = "absent" /\ events' = [events EXCEPT ![e] = event]
    BY <1>2 DEF AcceptEvent
  <2>3. CASE events' = events
    BY <2>2, <2>3, EventsStay, ActionsStay DEF PromisedStep, Quiet
  <2>4. CASE events[e].status = "absent" /\ events' = [events EXCEPT ![e] = event]
    <3> HIDE DEF e, event
    <3>1. events'[e] = event /\ \A x \in EventIds \ {e} : EventStays(x)
      BY <2>1, <2>4, OneEventChanges
    <3>2. EventArrives(e, input.run, input.body)
      BY <2>4, <3>1 DEF EventArrives, event
    <3>3. Arrival(e)
      BY <2>1, <2>2, <3>1, <3>2, ActionsStay DEF Arrival, ArrivesForeign
    <3>4. QED
      BY <2>1, <3>3 DEF PromisedStep
  <2>5. QED
    BY <2>2, <2>3, <2>4
<1>3. ASSUME NEW h \in Handlers, NEW a \in Actions, ClaimAction(h, a) PROVE PromisedStep
  <2> DEFINE row == Claimed(actions[a], "delivering", ActionLease)
  <2>1. /\ row.status = "delivering" /\ row.run = actions[a].run
        /\ actions[a].status \in OpenAction
    BY <1>3 DEF ClaimAction, RunnableAction, TypeOK, ActionRow, Claimed
  <2>2. events' = events /\ actions' = [actions EXCEPT ![a] = row]
    BY <1>3 DEF ClaimAction
  <2> HIDE DEF row
  <2>3. actions'[a] = row /\ \A x \in Actions \ {a} : ActionStays(x)
    BY <2>2, OneActionChanges
  <2>4. ActionStays(a)
    BY <2>1, <2>3 DEF ActionStays, EffectOf, OpenAction
  <2>5. QED
    BY <2>2, <2>3, <2>4, EventsStay DEF PromisedStep, Quiet
<1>4. ASSUME NEW h \in Handlers, NEW e \in EventIds, ClaimEvent(h, e) PROVE PromisedStep
  <2> DEFINE row == Claimed(events[e], "processing", EventLease)
  <2>1. /\ row.status = "processing" /\ row.run = events[e].run /\ row.body = events[e].body
        /\ events[e].status \in OpenEvent
    BY <1>4 DEF ClaimEvent, RunnableEvent, TypeOK, EventRow, Claimed
  <2>2. actions' = actions /\ events' = [events EXCEPT ![e] = row]
    BY <1>4 DEF ClaimEvent
  <2> HIDE DEF row
  <2>3. events'[e] = row /\ \A x \in EventIds \ {e} : EventStays(x)
    BY <2>2, OneEventChanges
  <2>4. EventStays(e)
    BY <2>1, <2>3 DEF EventStays, SameContent, InboxOf, OpenEvent
  <2>5. QED
    BY <2>2, <2>3, <2>4, ActionsStay DEF PromisedStep, Quiet
<1>5. ASSUME NEW h \in Handlers, NEW decision \in Decisions, CommitEvent(h, decision)
      PROVE  PromisedStep
  <2> DEFINE e == handler[h].row
             row == EventAt(e, "completed", events[e].revision + 1, 0)
             asked == {a \in Actions : /\ actions[a].status = "absent"
                                       /\ \E i \in decision.intents : i.id = a}
  <2>1. e \in EventIds
    BY <1>5 DEF CommitEvent, TypeOK, EventPc
  <2>2. row.status = "completed" /\ row.run = events[e].run /\ row.body = events[e].body
    BY <2>1 DEF EventAt, TypeOK, EventRow
  <2>3. CASE EventClaimCurrent(h)
    <3>1. events' = [events EXCEPT ![e] = row]
      BY <1>5, <2>1, <2>3 DEF CommitEvent, EventAt, TypeOK
    <3>2. actions' = InsertActions(events[e].run, decision.intents)
      BY <1>5, <2>3 DEF CommitEvent
    <3>3. events[e].status \in OpenEvent
      BY <2>3 DEF EventClaimCurrent, OpenEvent
    <3>4. /\ \A a \in asked : actions[a].status = "absent" /\ actions'[a].status = "pending"
          /\ \A a \in Actions \ asked : actions'[a] = actions[a]
      <4> HIDE DEF e
      <4>1. QED
        BY <3>2 DEF InsertActions, AbsentAction
    <3> HIDE DEF e, row, asked
    <3>5. events'[e] = row /\ \A x \in EventIds \ {e} : EventStays(x)
      BY <2>1, <3>1, OneEventChanges
    <3>6. Decision(e, asked)
      BY <2>2, <3>3, <3>4, <3>5 DEF Decision, SameContent, ActionStays
    <3>7. asked \in SUBSET Actions
      BY DEF asked
    <3>8. QED
      BY <2>1, <3>6, <3>7 DEF PromisedStep
  <2>4. CASE ~EventClaimCurrent(h)
    BY <1>5, <2>4, EventsStay, ActionsStay DEF CommitEvent, tables, PromisedStep, Quiet
  <2>5. QED
    BY <2>3, <2>4
<1>6. ASSUME NEW h \in Handlers, FailOrRetryEvent(h) PROVE PromisedStep
  <2> DEFINE e == handler[h].row
             terminal == handler[h].attempt >= MaxEventAttempts
             status == IF terminal THEN "failed" ELSE "pending"
             due == IF terminal THEN 0 ELSE RetryBackoff(handler[h].attempt)
             row == EventAt(e, status, events[e].revision + 1, due)
  <2>1. e \in EventIds /\ handler[h].pc \in EventPc /\ actions' = actions
    BY <1>6 DEF FailOrRetryEvent, TypeOK, EventPc
  <2>2. row.status = status /\ row.run = events[e].run /\ row.body = events[e].body
    BY <2>1 DEF EventAt, TypeOK, EventRow
  <2>3. CASE OwnRevision(events[e], h)
    <3>1. events[e].status = "processing"
      BY <2>1, <2>3 DEF Kept, HonouredClaims
    <3>2. events' = [events EXCEPT ![e] = row]
      BY <1>6, <2>3 DEF FailOrRetryEvent, EventAt, TypeOK
    <3> HIDE DEF e, row
    <3>3. events'[e] = row /\ \A x \in EventIds \ {e} : EventStays(x)
      BY <2>1, <3>2, OneEventChanges
    <3>4. terminal => Surrender(e)
      BY <2>1, <2>2, <3>1, <3>3, ActionsStay DEF Surrender, SameContent, OpenEvent
    <3>5. ~terminal => EventStays(e)
      BY <2>2, <3>1, <3>3 DEF EventStays, SameContent, InboxOf, OpenEvent
    <3>6. QED
      BY <2>1, <3>3, <3>4, <3>5, ActionsStay DEF PromisedStep, Quiet
  <2>4. CASE ~OwnRevision(events[e], h)
    BY <1>6, <2>1, <2>4, EventsStay, ActionsStay DEF FailOrRetryEvent, PromisedStep, Quiet
  <2>5. QED
    BY <2>3, <2>4
<1>7. ASSUME NEW h \in Handlers, DeclareAmbiguous(h) \/ DeliverResult(h) \/ ActionThrows(h)
      PROVE  PromisedStep
  <2>1. handler[h].pc \in ActionPc
    BY <1>7 DEF DeclareAmbiguous, DeliverResult, ActionThrows, ActionPc
  <2>2. \/ UNCHANGED <<actions, events>>
        \/ CommitOutcome(h, "ambiguous") /\ ~OutcomeThrows(h, "ambiguous")
        \/ CommitOutcome(h, "delivered") /\ ~OutcomeThrows(h, "delivered")
        \/ CatchBlock(h)
    BY <1>7 DEF DeclareAmbiguous, DeliverResult, ActionThrows
  <2>3. CASE UNCHANGED <<actions, events>>
    BY <2>3, EventsStay, ActionsStay DEF PromisedStep, Quiet
  <2>4. QED
    BY <2>1, <2>2, <2>3, CommitOutcomeIsPromised, CatchBlockIsPromised DEF TerminalAction
<1>8. ASSUME NEW h \in Handlers, MarkDispatchStarted(h) PROVE PromisedStep
  <2> DEFINE a == handler[h].row
             row == [actions[a] EXCEPT !.dispatch = "started"]
  <2>1. a \in Actions /\ events' = events
    BY <1>8 DEF MarkDispatchStarted, TypeOK, ActionPc
  <2>2. row.status = actions[a].status /\ row.run = actions[a].run
    BY <2>1 DEF TypeOK, ActionRow
  <2>3. actions' = actions \/ actions' = [actions EXCEPT ![a] = row]
    BY <1>8 DEF MarkDispatchStarted, TypeOK
  <2> HIDE DEF a, row
  <2>4. ActionStays(a) /\ \A x \in Actions \ {a} : ActionStays(x)
    BY <2>1, <2>2, <2>3, OneActionChanges, ActionsStay DEF ActionStays
  <2>5. QED
    BY <2>1, <2>4, EventsStay DEF PromisedStep, Quiet
<1>9. CASE Tick
  <2>1. /\ \A e \in EventIds : /\ events'[e].status = events[e].status
                               /\ events'[e].run = events[e].run
                               /\ events'[e].body = events[e].body
        /\ \A a \in Actions : /\ actions'[a].status = actions[a].status
                              /\ actions'[a].run = actions[a].run
    BY <1>9 DEF Tick, TypeOK, EventRow, ActionRow
  <2>2. QED
    BY <2>1 DEF PromisedStep, Quiet, EventStays, SameContent, ActionStays
<1>10. CASE UNCHANGED <<events, actions>>
  BY <1>10, EventsStay, ActionsStay DEF PromisedStep, Quiet
<1>11. QED
  BY <1>1, <1>2, <1>3, <1>4, <1>5, <1>6, <1>7, <1>8, <1>9, <1>10
     DEF Next, AlarmStarts, HandlerStep, EventStep, ActionStep, AlarmFindsNothing,
         CallOnAgentEvent, StartLookup, ExecuteAction, CheckpointThrows, CloseHandler,
         Crash, tables, vars

-----------------------------------------------------------------------------
(* Kept is inductive. *)

LEMMA KeptInit == Init => Kept
<1> SUFFICES ASSUME Init PROVE Kept
  OBVIOUS
<1>1. HonouredClaims
  BY DEF Init, HonouredClaims, Idle, EventPc, ActionPc
<1>2. OutcomesReported
  <2>1. \A e \in EventIds : events[e].body = None
    BY DEF Init, AbsentEvent
  <2>2. \A a \in Actions : actions[a].status \notin TerminalAction
    BY DEF Init, AbsentAction, TerminalAction
  <2>3. QED
    BY <2>1, <2>2, OutcomeIdIsEvent, OutcomeIsNoBody DEF OutcomesReported
<1>3. QED
  BY <1>1, <1>2, FencingInit DEF Kept

LEMMA ClaimsStayHonoured ==
  ASSUME Fencing, HonouredClaims, TypeOK', EventsAdvance, ActionsAdvance, ClaimsMove
  PROVE  HonouredClaims'
<1> USE DEF Fencing
<1>1. /\ \A e \in EventIds : events[e].revision \in Nat /\ events'[e].revision \in Nat
      /\ \A a \in Actions : actions[a].revision \in Nat /\ actions'[a].revision \in Nat
      /\ \A h \in Handlers : handler[h].revision \in Nat /\ handler'[h].revision \in Nat
  BY DEF TypeOK, EventRow, ActionRow, Local
<1> SUFFICES ASSUME NEW h \in Handlers
             PROVE  /\ handler'[h].pc \in EventPc =>
                         /\ events'[handler'[h].row].status # "absent"
                         /\ events'[handler'[h].row].revision = handler'[h].revision
                              => events'[handler'[h].row].status = "processing"
                    /\ handler'[h].pc \in ActionPc =>
                         /\ actions'[handler'[h].row].status # "absent"
                         /\ actions'[handler'[h].row].revision = handler'[h].revision
                              => actions'[handler'[h].row].status = "delivering"
  BY DEF HonouredClaims, OwnRevision
<1>2. CASE TakesClaim(h)
  BY <1>2 DEF TakesClaim
<1>3. CASE KeepsClaim(h)
  <2>1. ASSUME handler'[h].pc \in EventPc
        PROVE  /\ events'[handler'[h].row].status # "absent"
               /\ events'[handler'[h].row].revision = handler'[h].revision
                    => events'[handler'[h].row].status = "processing"
    <3>1. /\ handler[h].pc \in EventPc /\ handler[h].row \in EventIds
          /\ handler'[h].row = handler[h].row /\ handler'[h].revision = handler[h].revision
      BY <1>3, <2>1 DEF KeepsClaim, TypeOK
    <3>2. Advances(events[handler[h].row], events'[handler[h].row])
      BY <3>1 DEF EventsAdvance
    <3>3. handler[h].revision <= events[handler[h].row].revision
      BY <3>1 DEF ClaimsBehindRows
    <3>4. QED
      BY <1>1, <3>1, <3>2, <3>3 DEF Advances, HonouredClaims, OwnRevision
  <2>2. ASSUME handler'[h].pc \in ActionPc
        PROVE  /\ actions'[handler'[h].row].status # "absent"
               /\ actions'[handler'[h].row].revision = handler'[h].revision
                    => actions'[handler'[h].row].status = "delivering"
    <3>1. /\ handler[h].pc \in ActionPc /\ handler[h].row \in Actions
          /\ handler'[h].row = handler[h].row /\ handler'[h].revision = handler[h].revision
      BY <1>3, <2>2 DEF KeepsClaim, TypeOK
    <3>2. Advances(actions[handler[h].row], actions'[handler[h].row])
      BY <3>1 DEF ActionsAdvance
    <3>3. handler[h].revision <= actions[handler[h].row].revision
      BY <3>1 DEF ClaimsBehindRows
    <3>4. QED
      BY <1>1, <3>1, <3>2, <3>3 DEF Advances, HonouredClaims, OwnRevision
  <2>3. QED
    BY <2>1, <2>2
<1>4. QED
  BY <1>2, <1>3 DEF ClaimsMove

LEMMA EffectOfRow ==
  ASSUME NEW row \in ActionRow, NEW s \in TerminalAction
  PROVE  EffectOf(row.status) = s <=> row.status = s
BY DEF ActionRow, EffectOf, OpenAction, TerminalAction

LEMMA OutcomeIdsDiffer ==
  ASSUME NEW a, NEW b, NEW s, NEW t
  PROVE  OutcomeId(a, s) = OutcomeId(b, t) => a = b /\ s = t
BY DEF OutcomeId

(* An action and its outcome event that a step leaves alone stay together,   *)
(* and so does a pair for which an event with other content arrives.         *)
PairReported(a, s) ==
  /\ events[OutcomeId(a, s)].body = Outcome <=> actions[a].status = s
  /\ actions[a].status = s => events[OutcomeId(a, s)].run = actions[a].run

LEMMA PairStaysReported ==
  ASSUME Kept, TypeOK', NEW a \in Actions, NEW s \in TerminalAction, ActionStays(a),
         SameContent(OutcomeId(a, s)) \/ ArrivesForeign(OutcomeId(a, s))
  PROVE  PairReported(a, s)'
<1> DEFINE id == OutcomeId(a, s)
<1>1. actions'[a].status = s <=> actions[a].status = s
  <2>1. actions[a] \in ActionRow /\ actions'[a] \in ActionRow
    BY DEF Kept, Fencing, TypeOK
  <2>2. QED
    BY <2>1, EffectOfRow DEF ActionStays
<1>2. actions'[a].run = actions[a].run /\ PairReported(a, s) /\ id \in EventIds
  BY OutcomeIdIsEvent DEF ActionStays, Kept, OutcomesReported, PairReported
<1>3. CASE SameContent(id)
  BY <1>1, <1>2, <1>3 DEF SameContent, PairReported
<1>4. ASSUME NEW run \in Runs \cup {None}, NEW body \in Bodies \cup Goals,
             EventArrives(id, run, body)
      PROVE  PairReported(a, s)'
  <2>1. events[id].body # Outcome
    BY <1>2, <1>4, OutcomeIsNoBody DEF EventArrives, Kept, OutcomesReported
  <2>2. events'[id].body = body
    BY <1>4 DEF EventArrives, NewEvent, AbsentEvent
  <2>3. QED
    BY <1>1, <1>2, <2>1, <2>2, OutcomeIsNoBody DEF PairReported
<1>5. QED
  BY <1>3, <1>4 DEF ArrivesForeign

(* ... and a decision cannot intend an action whose outcome is reported.     *)
LEMMA IntentIsUnreported ==
  ASSUME Kept, NEW a \in Actions, NEW s \in TerminalAction,
         actions[a].status = "absent", actions'[a].status = "pending",
         SameContent(OutcomeId(a, s))
  PROVE  PairReported(a, s)'
<1>1. actions[a].status # s /\ actions'[a].status # s
  BY DEF TerminalAction
<1>2. QED
  BY <1>1, OutcomeIdIsEvent DEF Kept, OutcomesReported, SameContent, PairReported

LEMMA ReportedPair ==
  ASSUME NEW a \in Actions, NEW s \in TerminalAction, Report(a, s)
  PROVE  PairReported(a, s)'
BY DEF Report, EventArrives, NewEvent, AbsentEvent, PairReported

(* An action that ends in one way does not end in another. *)
LEMMA OtherOutcomesUnreported ==
  ASSUME Kept, NEW a \in Actions, NEW s \in TerminalAction, NEW t \in TerminalAction,
         s # t, Report(a, s)
  PROVE  PairReported(a, t)'
<1>1. OutcomeId(a, t) # OutcomeId(a, s) /\ OutcomeId(a, t) \in EventIds
  BY OutcomeIdsDiffer, OutcomeIdIsEvent
<1>2. SameContent(OutcomeId(a, t))
  BY <1>1 DEF Report, EventStays
<1>3. actions[a].status # t /\ actions'[a].status # t
  BY DEF Report, OpenAction, TerminalAction
<1>4. QED
  BY <1>2, <1>3 DEF Kept, OutcomesReported, SameContent, PairReported

LEMMA OutcomesStayReported ==
  ASSUME Kept, TypeOK', EventsAdvance, PromisedStep
  PROVE  OutcomesReported'
<1>1. ASSUME NEW e \in EventIds, events'[e].status = "absent" PROVE events'[e].body = None
  <2>1. events[e].status = "absent" /\ events[e].body = None
    BY <1>1 DEF EventsAdvance, Advances, Kept, OutcomesReported
  <2>2. \A run, body : ~EventArrives(e, run, body)
    BY <1>1 DEF EventArrives, NewEvent, AbsentEvent
  <2>3. SameContent(e)
    BY <2>2 DEF PromisedStep, Quiet, Arrival, ArrivesForeign, Surrender, Decision, Report,
                EventStays
  <2>4. QED
    BY <2>1, <2>3 DEF SameContent
<1>2. ASSUME NEW a \in Actions, NEW s \in TerminalAction PROVE PairReported(a, s)'
  <2> DEFINE id == OutcomeId(a, s)
  <2>1. id \in EventIds
    BY OutcomeIdIsEvent
  <2>2. CASE Quiet
    BY <2>1, <2>2, PairStaysReported DEF Quiet, EventStays
  <2>3. ASSUME NEW e \in EventIds, Arrival(e) PROVE PairReported(a, s)'
    <3>1. SameContent(id) \/ ArrivesForeign(id)
      BY <2>1, <2>3 DEF Arrival, EventStays
    <3>2. ActionStays(a)
      BY <2>3 DEF Arrival
    <3>3. QED
      BY <3>1, <3>2, PairStaysReported
  <2>4. ASSUME NEW e \in EventIds, Surrender(e) PROVE PairReported(a, s)'
    BY <2>1, <2>4, PairStaysReported DEF Surrender, EventStays
  <2>5. ASSUME NEW e \in EventIds, NEW asked \in SUBSET Actions, Decision(e, asked)
        PROVE  PairReported(a, s)'
    <3>1. SameContent(id)
      BY <2>1, <2>5 DEF Decision, EventStays
    <3>2. CASE a \in asked
      BY <2>5, <3>1, <3>2, IntentIsUnreported DEF Decision
    <3>3. CASE a \notin asked
      BY <2>5, <3>1, <3>3, PairStaysReported DEF Decision
    <3>4. QED
      BY <3>2, <3>3
  <2>6. ASSUME NEW b \in Actions, NEW t \in TerminalAction, Report(b, t)
        PROVE  PairReported(a, s)'
    <3>1. CASE a = b
      BY <2>6, <3>1, ReportedPair, OtherOutcomesUnreported
    <3>2. CASE a # b
      <4>1. OutcomeId(b, t) # id
        BY <3>2, OutcomeIdsDiffer
      <4>2. SameContent(id) /\ ActionStays(a)
        BY <2>1, <2>6, <3>2, <4>1 DEF Report, EventStays
      <4>3. QED
        BY <4>2, PairStaysReported
    <3>3. QED
      BY <3>1, <3>2
  <2>7. QED
    BY <2>2, <2>3, <2>4, <2>5, <2>6 DEF PromisedStep
<1>3. QED
  BY <1>1, <1>2 DEF OutcomesReported, PairReported

LEMMA KeptStep == Kept /\ [Next]_vars => Kept'
<1> SUFFICES ASSUME Kept, [Next]_vars PROVE Kept'
  OBVIOUS
<1>1. TypeOK /\ AbsentRowsFresh
  BY DEF Kept, Fencing
<1>2. Fencing' /\ TypeOK'
  BY FencingStep DEF Kept, Fencing
<1>3. EventsAdvance /\ ActionsAdvance
  BY <1>1, RowsAdvance
<1>4. HonouredClaims'
  BY <1>1, <1>2, <1>3, StepMovesClaims, ClaimsStayHonoured DEF Kept
<1>5. OutcomesReported'
  BY <1>2, <1>3, StepIsPromised, OutcomesStayReported
<1>6. QED
  BY <1>2, <1>4, <1>5 DEF Kept

LEMMA KeptAlways == Spec => []Kept
BY KeptInit, KeptStep, PTL DEF Spec

(* A receipt and its outcome event are committed together and stay together: *)
(* no crash, stale handler or client strands one without the other.          *)
THEOREM ReceiptsAreReported == Spec => []ReceiptHasOutcomeEvent
<1>1. Kept => ReceiptHasOutcomeEvent
  BY DEF Kept, OutcomesReported, ReceiptHasOutcomeEvent
<1>2. QED
  BY <1>1, KeptAlways, PTL

-----------------------------------------------------------------------------
(* Runs and their requests. *)

(* An event once accepted keeps its content. *)
LEMMA ContentIsKept ==
  ASSUME PromisedStep, NEW e \in EventIds, events[e].status # "absent"
  PROVE  SameContent(e)
BY DEF PromisedStep, Quiet, Arrival, ArrivesForeign, Surrender, Decision, Report,
       EventStays, EventArrives

(* Only startRun() inserts a run, and nobody changes its goal. *)
RunsKeepGoal ==
  \A r \in Runs : runs'[r].status # "absent" =>
    runs[r].status # "absent" /\ runs'[r].goal = runs[r].goal

LEMMA UpdateRunKeepsGoal ==
  ASSUME TypeOK, NEW run, NEW status, NEW error, runs' = UpdateRun(run, status, error)
  PROVE  RunsKeepGoal
<1>1. CASE runs' = runs
  BY <1>1 DEF RunsKeepGoal
<1>2. CASE /\ runs[run].status # "absent"
           /\ runs' = [runs EXCEPT ![run].status = status, ![run].error = error]
  BY <1>2 DEF TypeOK, RunRow, RunsKeepGoal
<1>3. QED
  BY <1>1, <1>2 DEF UpdateRun

LEMMA OnlyStartRunAdmits ==
  ASSUME TypeOK, [Next]_vars
  PROVE  RunsKeepGoal \/ \E r \in Runs, goal \in Goals : StartRun(r, goal)
<1>1. ASSUME runs' = runs PROVE RunsKeepGoal
  BY <1>1 DEF RunsKeepGoal
<1>2. ASSUME NEW h \in Handlers, NEW decision \in Decisions, CommitEvent(h, decision)
      PROVE  RunsKeepGoal
  BY <1>1, <1>2, UpdateRunKeepsGoal DEF CommitEvent, tables
<1>3. ASSUME NEW h \in Handlers, FailOrRetryEvent(h) PROVE RunsKeepGoal
  BY <1>1, <1>3, UpdateRunKeepsGoal DEF FailOrRetryEvent
<1>4. QED
  BY <1>1, <1>2, <1>3
     DEF Next, AcceptEvent, AlarmStarts, AlarmFindsNothing, ClaimAction, ClaimEvent,
         HandlerStep, EventStep, ActionStep, CallOnAgentEvent, DeclareAmbiguous, StartLookup,
         MarkDispatchStarted, ExecuteAction, DeliverResult, ActionThrows, CheckpointThrows,
         CloseHandler, Crash, Tick, tables, vars

LEMMA RequestStays ==
  ASSUME RunHasItsRequest, EventsAdvance, PromisedStep, NEW r \in Runs,
         runs'[r].status # "absent" =>
           runs[r].status # "absent" /\ runs'[r].goal = runs[r].goal
  PROVE  runs'[r].status # "absent" =>
           /\ events'[RequestedId(r)].status # "absent"
           /\ events'[RequestedId(r)].run = r
           /\ events'[RequestedId(r)].body = runs'[r].goal
<1> DEFINE e == RequestedId(r)
<1>1. e \in EventIds
  BY DEF EventIds
<1>2. events[e].status # "absent" => SameContent(e) /\ events'[e].status # "absent"
  BY <1>1, ContentIsKept DEF EventsAdvance, Advances
<1>3. QED
  BY <1>2 DEF RunHasItsRequest, SameContent

LEMMA RequestStep == Kept /\ RunHasItsRequest /\ [Next]_vars => RunHasItsRequest'
<1> SUFFICES ASSUME Kept, RunHasItsRequest, [Next]_vars PROVE RunHasItsRequest'
  OBVIOUS
<1>1. TypeOK /\ EventsAdvance /\ PromisedStep
  BY StepIsPromised, RowsAdvance DEF Kept, Fencing
<1>2. CASE RunsKeepGoal
  BY <1>1, <1>2, RequestStays DEF RunsKeepGoal, RunHasItsRequest
<1>3. ASSUME NEW r \in Runs, NEW goal \in Goals, StartRun(r, goal) PROVE RunHasItsRequest'
  <2> DEFINE e == RequestedId(r)
  <2>1. runs'[r].goal = goal /\ \A x \in Runs \ {r} : runs'[x] = runs[x]
    BY <1>1, <1>3 DEF StartRun, AdmissionConflicts, TypeOK
  <2>2. /\ events'[e].status # "absent"
        /\ events'[e].run = r
        /\ events'[e].body = goal
    <3> DEFINE event == NewEvent(r, goal)
    <3>1. /\ e \in EventIds
          /\ event.status = "pending" /\ event.run = r /\ event.body = goal
      BY DEF EventIds, NewEvent, AbsentEvent
    <3>2. /\ events[e].status # "absent" => events[e].run = r /\ events[e].body = goal
          /\ events' = IF events[e].status # "absent" THEN events
                       ELSE [events EXCEPT ![e] = event]
      BY <1>3 DEF StartRun, AdmissionConflicts
    <3> HIDE DEF e, event
    <3>3. QED
      BY <1>1, <3>1, <3>2 DEF TypeOK
  <2>3. \A x \in Runs \ {r} : runs'[x].status # "absent" =>
           /\ events'[RequestedId(x)].status # "absent"
           /\ events'[RequestedId(x)].run = x
           /\ events'[RequestedId(x)].body = runs'[x].goal
    <3> TAKE x \in Runs \ {r}
    <3>1. runs'[x] = runs[x] /\ x \in Runs
      BY <2>1
    <3>2. QED
      BY <1>1, <3>1, RequestStays
  <2>4. QED
    BY <2>1, <2>2, <2>3 DEF RunHasItsRequest
<1>4. QED
  BY <1>1, <1>2, <1>3, OnlyStartRunAdmits

(* A run is never admitted without the event that starts it, which keeps the *)
(* goal it was admitted with. *)
THEOREM RunsAreRequested == Spec => []RunHasItsRequest
<1>1. Init => RunHasItsRequest
  BY DEF Init, RunHasItsRequest, AbsentRun
<1>2. QED
  BY <1>1, RequestStep, KeptAlways, PTL DEF Spec

-----------------------------------------------------------------------------
(* Superseded handlers. *)

LEMMA OthersStayPut ==
  ASSUME TypeOK, NEW h \in Handlers, NEW other \in Handlers, other # h, HandlerStep(other)
  PROVE  handler'[h] = handler[h]
BY DEF HandlerStep, EventStep, ActionStep, CallOnAgentEvent, CommitEvent, FailOrRetryEvent,
       DeclareAmbiguous, StartLookup, MarkDispatchStarted, ExecuteAction, DeliverResult,
       ActionThrows, CheckpointThrows, CloseHandler, GoTo, TypeOK

LEMMA StaleEventHandler ==
  ASSUME Kept, NEW h \in Handlers, handler[h].pc \in EventPc, ~Holds(h), EventStep(h)
  PROVE  UNCHANGED <<events, actions, stored>>
<1>1. ~EventClaimCurrent(h)
  BY DEF Holds
<1>2. ~OwnRevision(events[handler[h].row], h)
  BY <1>1 DEF Kept, HonouredClaims, OwnRevision, EventClaimCurrent
<1>3. QED
  BY <1>1, <1>2 DEF EventStep, CallOnAgentEvent, CommitEvent, FailOrRetryEvent, tables

LEMMA StaleActionHandler ==
  ASSUME Kept, NEW h \in Handlers, handler[h].pc \in ActionPc, ~Holds(h), ActionStep(h)
  PROVE  UNCHANGED <<events, actions, stored>>
<1> DEFINE a == handler[h].row
<1>1. ~ActionClaimCurrent(h) /\ a \in Actions
  BY DEF Holds, Kept, Fencing, TypeOK
<1>2. ~OwnRevision(actions[a], h)
  BY <1>1 DEF Kept, HonouredClaims, OwnRevision, ActionClaimCurrent
<1>3. FailOrRetryAction(h) => UNCHANGED <<events, actions>>
  <2>1. [actions EXCEPT ![a] = actions[a]] = actions
    BY <1>1 DEF Kept, Fencing, TypeOK
  <2>2. WithOutcomeEvent(a, actions[a]) = events
    BY <1>1, OutcomeEventIsThere
  <2>3. QED
    BY <1>2, <2>1, <2>2 DEF FailOrRetryAction
<1>4. \A s : CommitOutcome(h, s) => UNCHANGED <<events, actions>>
  BY <1>1 DEF CommitOutcome
<1>5. QED
  BY <1>1, <1>3, <1>4
     DEF ActionStep, DeclareAmbiguous, StartLookup, MarkDispatchStarted, ExecuteAction,
         DeliverResult, ActionThrows, CatchBlock, tables

LEMMA StaleStep ==
  Kept /\ [Next]_vars =>
    \/ \A h \in Handlers :
         /\ handler[h].pc \in EventPc \cup ActionPc
         /\ ~Holds(h)
         /\ handler'[h] # handler[h]
         => UNCHANGED <<events, actions, stored>>
    \/ UNCHANGED vars
<1> SUFFICES ASSUME Kept, [Next]_vars, NEW h \in Handlers,
                    handler[h].pc \in EventPc \cup ActionPc, ~Holds(h),
                    handler'[h] # handler[h]
             PROVE  UNCHANGED <<events, actions, stored>>
  OBVIOUS
<1>1. TypeOK
  BY DEF Kept, Fencing
<1>2. CASE HandlerStep(h)
  <2>1. EventStep(h) => handler[h].pc \in EventPc
    BY DEF EventStep, CallOnAgentEvent, CommitEvent, FailOrRetryEvent, EventPc
  <2>2. ActionStep(h) => handler[h].pc \in ActionPc
    BY DEF ActionStep, DeclareAmbiguous, StartLookup, MarkDispatchStarted, ExecuteAction,
           DeliverResult, ActionThrows, ActionPc
  <2>3. QED
    BY <1>2, <2>1, <2>2, StaleEventHandler, StaleActionHandler
       DEF HandlerStep, CheckpointThrows, CloseHandler, tables
<1>3. CASE \E other \in Handlers \ {h} : HandlerStep(other)
  BY <1>1, <1>3, OthersStayPut
<1>4. CASE AlarmStarts
  BY <1>1, <1>4 DEF AlarmStarts, AlarmFindsNothing, ClaimAction, ClaimEvent, Hold, TypeOK,
                    EventPc, ActionPc
<1>5. CASE Crash
  BY <1>5 DEF Crash, tables
<1>6. CASE UNCHANGED handler
  BY <1>6
<1>7. QED
  BY <1>2, <1>3, <1>4, <1>5, <1>6 DEF Next, StartRun, AcceptEvent, Tick, vars

(* Whatever a handler still does after its claim was taken over, no row of   *)
(* the inbox, of the actions or of the application state changes by it.      *)
THEOREM SupersededHandlersAreHarmless == Spec => StaleHandlerWritesNothing
<1>1. Spec => []Kept /\ [][Next]_vars
  BY KeptAlways, PTL DEF Spec
<1>2. QED
  BY <1>1, StaleStep, PTL DEF StaleHandlerWritesNothing

-----------------------------------------------------------------------------
(* The cell implements DurableAgent. *)

Inbox == [e \in EventIds |-> InboxOf(events[e].status)]
Effect == [a \in Actions |-> EffectOf(actions[a].status)]

(* The promise's inbox and effect, by their names. *)
LEMMA PromiseFresh ==
  Promise!Init <=> /\ Inbox = [e \in EventIds |-> "none"]
                   /\ Effect = [a \in Actions |-> "none"]
BY DEF Promise!Init, Inbox, Effect, InboxOf, EffectOf

LEMMA PromiseEvents ==
  ASSUME NEW e \in EventIds
  PROVE  /\ Promise!Accept(e) <=>
              Inbox[e] = "none" /\ Inbox' = [Inbox EXCEPT ![e] = "open"] /\ Effect' = Effect
         /\ Promise!GiveUp(e) <=>
              Inbox[e] = "open" /\ Inbox' = [Inbox EXCEPT ![e] = "given_up"] /\ Effect' = Effect
BY DEF Promise!Accept, Promise!GiveUp, Inbox, Effect, InboxOf, EffectOf

LEMMA PromiseDecide ==
  ASSUME NEW e \in EventIds, NEW asked \in SUBSET Actions
  PROVE  Promise!Decide(e, asked) <=>
           /\ Inbox[e] = "open" /\ \A a \in asked : Effect[a] = "none"
           /\ Inbox' = [Inbox EXCEPT ![e] = "decided"]
           /\ Effect' = [a \in Actions |-> IF a \in asked THEN "intended" ELSE Effect[a]]
BY DEF Promise!Decide, Inbox, Effect, InboxOf, EffectOf

LEMMA PromiseReport ==
  ASSUME NEW a \in Actions, NEW s \in TerminalAction
  PROVE  Promise!Report(a, s) <=>
           /\ Effect[a] = "intended" /\ Inbox[OutcomeId(a, s)] = "none"
           /\ Effect' = [Effect EXCEPT ![a] = s]
           /\ Inbox' = [Inbox EXCEPT ![OutcomeId(a, s)] = "open"]
BY DEF Promise!Report, Inbox, Effect, InboxOf, EffectOf

LEMMA InboxOfRow ==
  ASSUME NEW row \in EventRow
  PROVE  /\ row.status = "absent" => InboxOf(row.status) = "none"
         /\ row.status \in OpenEvent => InboxOf(row.status) = "open"
         /\ row.status = "completed" => InboxOf(row.status) = "decided"
         /\ row.status = "failed" => InboxOf(row.status) = "given_up"
BY DEF EventRow, InboxOf, OpenEvent

LEMMA ActionEffect ==
  ASSUME NEW row \in ActionRow
  PROVE  /\ row.status = "absent" => EffectOf(row.status) = "none"
         /\ row.status \in OpenAction => EffectOf(row.status) = "intended"
         /\ row.status \in TerminalAction => EffectOf(row.status) = row.status
BY DEF ActionRow, EffectOf, OpenAction, TerminalAction

LEMMA PromiseInit == Init => Promise!Init
<1> SUFFICES ASSUME Init PROVE Promise!Init
  OBVIOUS
<1>1. /\ \A e \in EventIds : events[e].status = "absent" /\ events[e] \in EventRow
      /\ \A a \in Actions : actions[a].status = "absent" /\ actions[a] \in ActionRow
  BY TypeInit DEF Init, AbsentEvent, AbsentAction, TypeOK
<1>2. QED
  BY <1>1, InboxOfRow, ActionEffect, PromiseFresh DEF Inbox, Effect

(* What the kinds of steps are to the promise. *)
LEMMA EffectUnchanged == (\A a \in Actions : ActionStays(a)) => Effect' = Effect
BY DEF Effect, ActionStays

LEMMA InboxChanges ==
  ASSUME TypeOK, TypeOK', NEW e \in EventIds, \A x \in EventIds \ {e} : EventStays(x)
  PROVE  /\ Inbox[e] = InboxOf(events[e].status)
         /\ Inbox' = [Inbox EXCEPT ![e] = InboxOf(events'[e].status)]
BY DEF Inbox, EventStays

LEMMA PromisedStepIsPromised ==
  ASSUME TypeOK, TypeOK', PromisedStep
  PROVE  [Promise!Next]_(Promise!vars)
<1>1. \A e \in EventIds : events[e] \in EventRow /\ events'[e] \in EventRow
  BY DEF TypeOK
<1>2. \A a \in Actions : actions[a] \in ActionRow /\ actions'[a] \in ActionRow
  BY DEF TypeOK
<1>3. CASE Quiet
  <2>1. Inbox' = Inbox /\ Effect' = Effect
    BY <1>3, EffectUnchanged DEF Quiet, EventStays, Inbox
  <2>2. UNCHANGED Promise!vars
    BY <2>1 DEF Promise!vars, Inbox, Effect, InboxOf, EffectOf
  <2>3. QED
    BY <2>2
<1>4. ASSUME NEW e \in EventIds, Arrival(e) PROVE Promise!Next
  <2>1. events[e].status = "absent" /\ events'[e].status = "pending"
    BY <1>4 DEF Arrival, ArrivesForeign, EventArrives, NewEvent, AbsentEvent
  <2>2. InboxOf(events[e].status) = "none" /\ InboxOf(events'[e].status) = "open"
    BY <1>1, <2>1, InboxOfRow DEF OpenEvent
  <2>3. Promise!Accept(e)
    BY <1>4, <2>2, InboxChanges, EffectUnchanged, PromiseEvents DEF Arrival
  <2>4. QED
    BY <2>3 DEF Promise!Next
<1>5. ASSUME NEW e \in EventIds, Surrender(e) PROVE Promise!Next
  <2>1. InboxOf(events[e].status) = "open" /\ InboxOf(events'[e].status) = "given_up"
    BY <1>1, <1>5, InboxOfRow DEF Surrender
  <2>2. Promise!GiveUp(e)
    BY <1>5, <2>1, InboxChanges, EffectUnchanged, PromiseEvents DEF Surrender
  <2>3. QED
    BY <2>2 DEF Promise!Next
<1>6. ASSUME NEW e \in EventIds, NEW asked \in SUBSET Actions, Decision(e, asked)
      PROVE  Promise!Next
  <2>1. InboxOf(events[e].status) = "open" /\ InboxOf(events'[e].status) = "decided"
    BY <1>1, <1>6, InboxOfRow DEF Decision
  <2>2. Inbox[e] = "open" /\ Inbox' = [Inbox EXCEPT ![e] = "decided"]
    BY <1>6, <2>1, InboxChanges DEF Decision
  <2>3. \A a \in asked : EffectOf(actions[a].status) = "none"
                         /\ EffectOf(actions'[a].status) = "intended"
    BY <1>2, <1>6, ActionEffect DEF Decision, OpenAction
  <2>4. Effect' = [a \in Actions |-> IF a \in asked THEN "intended" ELSE Effect[a]]
    BY <1>6, <2>3 DEF Decision, ActionStays, Effect
  <2>5. \A a \in asked : Effect[a] = "none"
    BY <2>3 DEF Effect
  <2>6. Promise!Decide(e, asked)
    BY <2>2, <2>4, <2>5, PromiseDecide
  <2>7. QED
    BY <2>6 DEF Promise!Next
<1>7. ASSUME NEW a \in Actions, NEW s \in TerminalAction, Report(a, s) PROVE Promise!Next
  <2> DEFINE id == OutcomeId(a, s)
  <2>1. id \in EventIds /\ events[id].status = "absent" /\ events'[id].status = "pending"
    BY <1>7, OutcomeIdIsEvent DEF Report, EventArrives, NewEvent, AbsentEvent
  <2>2. InboxOf(events[id].status) = "none" /\ InboxOf(events'[id].status) = "open"
    BY <1>1, <2>1, InboxOfRow DEF OpenEvent
  <2>3. Inbox[id] = "none" /\ Inbox' = [Inbox EXCEPT ![id] = "open"]
    BY <1>7, <2>1, <2>2, InboxChanges DEF Report
  <2>4. EffectOf(actions[a].status) = "intended" /\ EffectOf(actions'[a].status) = s
    BY <1>2, <1>7, ActionEffect DEF Report
  <2>5. Effect[a] = "intended" /\ Effect' = [Effect EXCEPT ![a] = s]
    BY <1>7, <2>4 DEF Report, ActionStays, Effect
  <2>6. Promise!Report(a, s)
    BY <2>3, <2>5, PromiseReport
  <2>7. QED
    BY <2>6 DEF Promise!Next
<1>8. QED
  BY <1>3, <1>4, <1>5, <1>6, <1>7 DEF PromisedStep

(* The cell implements DurableAgent: with its leases, retries, overlapping   *)
(* handlers and crashes it decides or gives up every event once, asks for a  *)
(* decision's actions with the decision, and reports each action once.       *)
THEOREM CellKeepsPromise == Spec => KeepsPromise
<1>1. Spec => Init /\ [][Next]_vars /\ []Kept
  BY KeptAlways, PTL DEF Spec
<1>2. Kept /\ Kept' /\ [Next]_vars => [Promise!Next]_(Promise!vars)
  BY StepIsPromised, PromisedStepIsPromised DEF Kept, Fencing
<1>3. QED
  BY <1>1, <1>2, PromiseInit, PTL DEF KeepsPromise, Promise!Spec
=============================================================================
