----------------------------- MODULE ProteinCell -----------------------------
(***************************************************************************)
(* One Protein cell: the runtime kernel of src/src/protein-agent.ts over   *)
(* the SQLite tables protein_runs, protein_events, protein_actions and     *)
(* protein_state, the single alarm of the cell, and the alarm handlers     *)
(* that are in flight.                                                     *)
(*                                                                         *)
(* A cell runs on one thread, so everything between two awaits is one      *)
(* step; handlers interleave at their awaits, and an accept that re-arms   *)
(* the alarm while a handler awaits lets a second handler start.  Time is  *)
(* kept as countdowns: `due` is how long until an open row may be claimed  *)
(* (available_at of a pending row, lease_until of a claimed one), `alarm`  *)
(* how long until the alarm fires.  The journal, which no step ever reads, *)
(* and timestamps are left out; of the payloads only what the conflict     *)
(* checks compare is kept.                                                 *)
(***************************************************************************)
EXTENDS Integers, FiniteSets

CONSTANTS
  Runs,              \* run identifiers
  Goals,             \* goals a run may be started with
  ClientEvents,      \* what clients may post: records [id, run, body]
  Actions,           \* action identifiers the application uses
  Bodies,            \* contents of events and of action intents
  Decisions,         \* what onAgentEvent may return: [writes, run, intents]
  Handlers,          \* slots for alarm handlers in flight
  MaxEventAttempts, MaxActionAttempts,
  EventLease, ActionLease, RetryBase, RetryMax,
  CheckpointsThrow,  \* may onProteinCheckpoint throw?
  LeasesOutlastWork, \* is every lease longer than the work it covers?
  MaxClaims,         \* bound of the model: claims of one row
  MaxCrashes,        \* bound of the model: crashes of the host process
  None

Safety == {"idempotent", "reconcilable", "unsafe"}
OpenEvent == {"pending", "processing"}
OpenAction == {"pending", "delivering"}
TerminalAction == {"delivered", "failed", "ambiguous"}
Marker == {"not_started", "started"}   \* is dispatch_started_at NULL?
RunStatus == {"queued", "running", "waiting", "completed", "failed", "cancelled"}

(***************************************************************************)
(* Event identifiers live in one namespace: `run:R:requested`,             *)
(* `action:A:STATUS` and whatever the clients choose.                      *)
(***************************************************************************)
RequestedId(r) == <<"run", r, "requested">>
OutcomeId(a, status) == <<"action", a, status>>
EventIds == {RequestedId(r) : r \in Runs}
            \cup {OutcomeId(a, s) : a \in Actions, s \in TerminalAction}
            \cup {input.id : input \in ClientEvents}

Outcome == "outcome"   \* the content of every action-outcome event
Intents == [id : Actions, safety : Safety, body : Bodies]

RunRow == [status : RunStatus \cup {"absent"}, goal : Goals \cup {None},
           error : {"none", "app", "runtime"}]
EventRow == [status : OpenEvent \cup {"absent", "completed", "failed"},
             run : Runs \cup {None}, body : Bodies \cup Goals \cup {Outcome, None},
             revision : Nat, attempts : Nat, due : Nat]
ActionRow == [status : OpenAction \cup TerminalAction \cup {"absent"},
              run : Runs \cup {None}, safety : Safety \cup {None},
              body : Bodies \cup {None}, revision : Nat, attempts : Nat,
              dispatch : Marker, due : Nat]

ASSUME ConstantsAssumption ==
  /\ ClientEvents \subseteq [id : {input.id : input \in ClientEvents},
                             run : Runs \cup {None}, body : Bodies \cup Goals]
  /\ Outcome \notin Bodies \cup Goals \cup {None}
  /\ Decisions \subseteq [writes : BOOLEAN, run : RunStatus \cup {"keep"},
                          intents : SUBSET Intents]
  /\ {MaxEventAttempts, MaxActionAttempts} \subseteq Nat \ {0}
  /\ {EventLease, ActionLease, RetryBase, RetryMax} \subseteq Nat \ {0}
  /\ {CheckpointsThrow, LeasesOutlastWork} \subseteq BOOLEAN
  /\ {MaxClaims, MaxCrashes} \subseteq Nat

VARIABLES
  runs,     \* table protein_runs
  events,   \* table protein_events
  actions,  \* table protein_actions
  stored,   \* protein_state: the events whose decisions it carries
  cached,   \* cachedState, or None while undefined
  alarm,    \* countdown of the one alarm, or NoAlarm
  refire,   \* the host owes the re-run of an alarm that a crash interrupted
  handler,  \* what each alarm handler in flight holds in local variables
  sent,     \* per action, the number of executeAction() calls
  crashes   \* host crashes so far

tables == <<runs, events, actions, stored>>
vars == <<runs, events, actions, stored, cached, alarm, refire, handler, sent, crashes>>

NoAlarm == -1
AbsentRun == [status |-> "absent", goal |-> None, error |-> "none"]
AbsentEvent == [status |-> "absent", run |-> None, body |-> None,
                revision |-> 0, attempts |-> 0, due |-> 0]
AbsentAction == [status |-> "absent", run |-> None, safety |-> None, body |-> None,
                 revision |-> 0, attempts |-> 0, dispatch |-> "not_started", due |-> 0]
NewEvent(run, body) == [AbsentEvent EXCEPT !.status = "pending", !.run = run, !.body = body]

(***************************************************************************)
(* The local variables of a handler: where it awaits (pc), the claimed     *)
(* row, the attempt number and revision of the claim, whether the row was  *)
(* marked as dispatched before the claim, and the state given to           *)
(* onAgentEvent.                                                           *)
(***************************************************************************)
EventPc == {"event.claimed", "deciding"}
ActionPc == {"action.claimed", "looking_up", "marked", "executing"}
Idle == [pc |-> "idle", row |-> None, attempt |-> 0, revision |-> 0,
         dispatch |-> "not_started", saw |-> {}]
Local == [pc : EventPc \cup ActionPc \cup {"idle", "closing"},
          row : EventIds \cup Actions \cup {None}, attempt : Nat, revision : Nat,
          dispatch : Marker, saw : SUBSET EventIds]

Init ==
  /\ runs = [r \in Runs |-> AbsentRun]
  /\ events = [e \in EventIds |-> AbsentEvent]
  /\ actions = [a \in Actions |-> AbsentAction]
  /\ stored = {}
  /\ cached = None
  /\ alarm = NoAlarm
  /\ refire = FALSE
  /\ handler = [h \in Handlers |-> Idle]
  /\ sent = [a \in Actions |-> 0]
  /\ crashes = 0

-----------------------------------------------------------------------------
(* reconcileAlarm(): arm the alarm for the earliest open row, or delete it. *)
Dues(evs, acts) ==
  {evs[e].due : e \in {x \in EventIds : evs[x].status \in OpenEvent}}
  \cup {acts[a].due : a \in {x \in Actions : acts[x].status \in OpenAction}}
Earliest(due) == IF due = {} THEN {NoAlarm}
                 ELSE {d \in due : \A other \in due : d <= other}
ReconcileForEvents ==   \* a fault: the action table is forgotten
  alarm' \in Earliest({events'[e].due : e \in {x \in EventIds : events'[x].status \in OpenEvent}})
ReconcileAlarm == alarm' \in Earliest(Dues(events', actions'))

(* min(queueRetryMaxDelayMs, queueRetryBaseDelayMs * 2^(attempt - 1)) *)
RetryBackoff(attempt) ==
  LET delay == RetryBase * 2^(IF attempt = 0 THEN 0 ELSE attempt - 1)
  IN  IF delay \in 0..RetryMax THEN delay ELSE RetryMax

AdmissionIgnoresEvent(r, goal) ==   \* a fault: only the run is compared
  runs[r].status # "absent" /\ runs[r].goal # goal
(* startRun() throws, and its transaction rolls back, when the run exists     *)
(* with another goal or its admission event with other content.              *)
AdmissionConflicts(r, goal) ==
  LET event == events[RequestedId(r)] IN
  \/ runs[r].status # "absent" /\ runs[r].goal # goal
  \/ event.status # "absent" /\ (event.run # r \/ event.body # goal)

(* The run and its admission event appear together or not at all. *)
StartRun(r, goal) ==
  LET e == RequestedId(r) IN
  /\ ~AdmissionConflicts(r, goal)
  /\ runs' = IF runs[r].status # "absent" THEN runs
             ELSE [runs EXCEPT ![r] = [status |-> "queued", goal |-> goal, error |-> "none"]]
  /\ events' = IF events[e].status # "absent" THEN events
               ELSE [events EXCEPT ![e] = NewEvent(r, goal)]
  /\ UNCHANGED <<actions, stored, cached, refire, handler, sent, crashes>>
  /\ ReconcileAlarm

(* acceptEvent(): a new event, or a duplicate of one with the same content.  *)
(* Reuse of the id with other content throws and changes nothing.            *)
AcceptEvent(input) ==
  /\ \/ /\ events[input.id].status = "absent"
        /\ events' = [events EXCEPT ![input.id] = NewEvent(input.run, input.body)]
     \/ /\ events[input.id].status \in OpenEvent
        /\ events[input.id].run = input.run
        /\ events[input.id].body = input.body
        /\ UNCHANGED events
  /\ UNCHANGED <<runs, actions, stored, cached, refire, handler, sent, crashes>>
  /\ ReconcileAlarm

-----------------------------------------------------------------------------
RunnableEvent(e) == events[e].status \in OpenEvent /\ events[e].due = 0
PendingAction(a) ==   \* a fault: expired leases are not selected
  actions[a].status = "pending" /\ actions[a].due = 0
RunnableAction(a) == actions[a].status \in OpenAction /\ actions[a].due = 0

(* alarm() starts when the countdown is over or the host repeats it. *)
AlarmFires ==
  /\ alarm = 0 \/ refire
  /\ alarm' = IF alarm = 0 THEN NoAlarm ELSE alarm
  /\ refire' = FALSE

(* alarm() with nothing to do only re-arms. *)
AlarmFindsNothing ==
  /\ alarm = 0 \/ refire
  /\ \A a \in Actions : ~RunnableAction(a)
  /\ \A e \in EventIds : ~RunnableEvent(e)
  /\ refire' = FALSE
  /\ UNCHANGED <<runs, events, actions, stored, cached, handler, sent, crashes>>
  /\ ReconcileAlarm

ClaimedWithoutFence(row, status, lease) ==   \* a fault: the revision stays
  [row EXCEPT !.status = status, !.attempts = @ + 1, !.due = lease]
(* A claim moves the row to a new revision and puts a lease on it. *)
Claimed(row, status, lease) ==
  [row EXCEPT !.status = status, !.revision = @ + 1, !.attempts = @ + 1, !.due = lease]

Hold(h, pc, id, row) ==
  handler' = [handler EXCEPT ![h] =
    [pc |-> pc, row |-> id, attempt |-> row.attempts, revision |-> row.revision,
     dispatch |-> IF pc = "action.claimed" THEN actions[id].dispatch ELSE "not_started",
     saw |-> {}]]

(* alarm() takes a runnable action first: processProteinAction() up to the   *)
(* first await.  The code takes the oldest row by created_at; rows of one    *)
(* millisecond have no order, and any runnable row may be chosen here.       *)
ClaimAction(h, a) ==
  /\ handler[h].pc = "idle"
  /\ AlarmFires
  /\ RunnableAction(a)
  /\ actions[a].attempts < MaxClaims
  /\ LET row == Claimed(actions[a], "delivering", ActionLease)
     IN  actions' = [actions EXCEPT ![a] = row] /\ Hold(h, "action.claimed", a, row)
  /\ UNCHANGED <<runs, events, stored, cached, sent, crashes>>

(* ... and an event only when no action is runnable. *)
ClaimEvent(h, e) ==
  /\ handler[h].pc = "idle"
  /\ AlarmFires
  /\ \A a \in Actions : ~RunnableAction(a)
  /\ RunnableEvent(e)
  /\ events[e].attempts < MaxClaims
  /\ LET row == Claimed(events[e], "processing", EventLease)
     IN  events' = [events EXCEPT ![e] = row] /\ Hold(h, "event.claimed", e, row)
  /\ UNCHANGED <<runs, actions, stored, cached, sent, crashes>>

GoTo(h, pc) == handler' = [handler EXCEPT ![h].pc = pc]

(* A checkpoint that throws right after the claim ends the handler there. *)
CheckpointThrows(h) ==
  /\ CheckpointsThrow
  /\ handler[h].pc \in {"event.claimed", "action.claimed"}
  /\ GoTo(h, "closing")
  /\ UNCHANGED <<tables, cached, alarm, refire, sent, crashes>>

CloseWithoutAlarm(h) ==   \* a fault: no finally block
  /\ handler[h].pc = "closing"
  /\ handler' = [handler EXCEPT ![h] = Idle]
  /\ UNCHANGED <<tables, cached, refire, sent, crashes, alarm>>
(* The finally block of alarm(). *)
CloseHandler(h) ==
  /\ handler[h].pc = "closing"
  /\ handler' = [handler EXCEPT ![h] = Idle]
  /\ UNCHANGED <<tables, cached, refire, sent, crashes>>
  /\ ReconcileAlarm

-----------------------------------------------------------------------------
(* The event lane: processProteinEvent() after the claim. *)

EventClaimCurrent(h) ==
  LET row == events[handler[h].row]
  IN  row.status = "processing" /\ row.revision = handler[h].revision

(* The getter of `state` loads the row only while nothing is cached. *)
CurrentState == IF cached = None THEN stored ELSE cached

(* onAgentEvent() is called with this.state. *)
CallOnAgentEvent(h) ==
  /\ handler[h].pc = "event.claimed"
  /\ cached' = CurrentState
  /\ handler' = [handler EXCEPT ![h].pc = "deciding", ![h].saw = CurrentState]
  /\ UNCHANGED <<tables, alarm, refire, sent, crashes>>

(* insertAction() refuses an id that was used with other content. *)
IntentsConflict(run, intents) ==
  \E i \in intents :
    \/ \E j \in intents : j.id = i.id /\ j # i
    \/ /\ actions[i.id].status # "absent"
       /\ \/ actions[i.id].safety # i.safety
          \/ actions[i.id].body # i.body
          \/ actions[i.id].run # run

(* A transition that cannot be applied rolls the commit back. *)
CommitThrows(e, decision) ==
  \/ decision.run # "keep" /\ events[e].run = None
  \/ IntentsConflict(events[e].run, decision.intents)

InsertActions(run, intents) ==
  [a \in Actions |->
     IF actions[a].status = "absent" /\ \E i \in intents : i.id = a
     THEN LET i == CHOOSE x \in intents : x.id = a
          IN  [AbsentAction EXCEPT !.status = "pending", !.run = run,
                                   !.safety = i.safety, !.body = i.body]
     ELSE actions[a]]

UpdateRun(run, status, error) ==
  IF run = None THEN runs
  ELSE IF runs[run].status = "absent" THEN runs
  ELSE [runs EXCEPT ![run].status = status, ![run].error = error]

CacheAlways(committed, decision, state) ==   \* a fault: cached though stale
  IF decision.writes THEN state ELSE cached
CacheAfterCommit(committed, decision, state) ==
  IF committed /\ decision.writes THEN state ELSE cached

(* commitEvent(): state, run, intents and completion in one transaction, if  *)
(* the claim is still current; a stale decision is dropped.                  *)
CommitEvent(h, decision) ==
  LET e == handler[h].row
      state == handler[h].saw \cup {e}
  IN
  /\ handler[h].pc = "deciding"
  /\ GoTo(h, "closing")
  /\ UNCHANGED <<alarm, refire, sent, crashes>>
  /\ IF EventClaimCurrent(h)
     THEN /\ ~CommitThrows(e, decision)
          /\ stored' = IF decision.writes THEN state ELSE stored
          /\ runs' = IF decision.run = "keep" THEN runs
                     ELSE UpdateRun(events[e].run, decision.run,
                                    IF decision.run = "failed" THEN "app" ELSE "none")
          /\ actions' = InsertActions(events[e].run, decision.intents)
          /\ events' = [events EXCEPT ![e].status = "completed",
                                      ![e].revision = @ + 1, ![e].due = 0]
     ELSE UNCHANGED tables
  /\ cached' = CacheAfterCommit(EventClaimCurrent(h), decision, state)

AnyRevision(row, h) == TRUE   \* a fault: WHERE id = ?
(* WHERE id = ? AND revision = ? *)
OwnRevision(row, h) == row.revision = handler[h].revision

(* failOrRetryEvent(), after onAgentEvent, a checkpoint or the commit threw.  *)
(* The row is updated only at the claimed revision; the run is not guarded.   *)
FailOrRetryEvent(h) ==
  LET e == handler[h].row
      terminal == handler[h].attempt >= MaxEventAttempts
  IN
  /\ handler[h].pc = "deciding"
  /\ GoTo(h, "closing")
  /\ events' =
       IF ~OwnRevision(events[e], h) THEN events
       ELSE [events EXCEPT
               ![e].status = IF terminal THEN "failed" ELSE "pending",
               ![e].revision = @ + 1,
               ![e].due = IF terminal THEN 0 ELSE RetryBackoff(handler[h].attempt)]
  /\ runs' = IF terminal THEN UpdateRun(events[e].run, "failed", "runtime") ELSE runs
  /\ UNCHANGED <<actions, stored, cached, alarm, refire, sent, crashes>>

-----------------------------------------------------------------------------
(* The action lane: processProteinAction() after the claim. *)

ActionStillClaimed(h) ==   \* a fault: the revision is not compared
  actions[handler[h].row].status = "delivering"
ActionClaimCurrent(h) ==
  LET row == actions[handler[h].row]
  IN  row.status = "delivering" /\ row.revision = handler[h].revision

OutcomeIgnored(a, row) == FALSE   \* a fault: INSERT OR IGNORE
(* insertActionOutcomeEvent() throws when the id is taken by other content. *)
OutcomeConflict(a, row) ==
  /\ row.status \in TerminalAction
  /\ LET event == events[OutcomeId(a, row.status)]
     IN  event.status # "absent" /\ (event.body # Outcome \/ event.run # row.run)

WithOutcomeEvent(a, row) ==
  IF /\ row.status \in TerminalAction
     /\ events[OutcomeId(a, row.status)].status = "absent"
  THEN [events EXCEPT ![OutcomeId(a, row.status)] = NewEvent(row.run, Outcome)]
  ELSE events

Settled(a, status) ==
  [actions[a] EXCEPT !.status = status, !.revision = @ + 1, !.due = 0]

(* commitActionOutcome(): receipt and outcome event in one transaction, *)
(* nothing at all when the claim is stale.                              *)
CommitOutcome(h, status) ==
  LET a == handler[h].row IN
  IF ActionClaimCurrent(h)
  THEN /\ actions' = [actions EXCEPT ![a] = Settled(a, status)]
       /\ events' = WithOutcomeEvent(a, Settled(a, status))
  ELSE UNCHANGED <<actions, events>>

OutcomeThrows(h, status) ==
  ActionClaimCurrent(h) /\ OutcomeConflict(handler[h].row, Settled(handler[h].row, status))

(* failOrRetryAction(): guarded by the revision; the outcome event of a     *)
(* terminal attempt belongs to whatever the row says by then.               *)
FailOrRetryAction(h) ==
  LET a == handler[h].row
      terminal == handler[h].attempt >= MaxActionAttempts
      row == IF ~OwnRevision(actions[a], h) THEN actions[a]
             ELSE IF terminal THEN Settled(a, "failed")
             ELSE [actions[a] EXCEPT !.status = "pending", !.revision = @ + 1,
                                     !.due = RetryBackoff(handler[h].attempt)]
  IN  IF terminal /\ OutcomeConflict(a, row)
      THEN UNCHANGED <<actions, events>>
      ELSE /\ actions' = [actions EXCEPT ![a] = row]
           /\ events' = IF terminal THEN WithOutcomeEvent(a, row) ELSE events

(* The catch block: an unsafe action becomes ambiguous, others fail or retry. *)
CatchBlock(h) ==
  IF actions[handler[h].row].safety # "unsafe" THEN FailOrRetryAction(h)
  ELSE IF OutcomeThrows(h, "ambiguous") THEN UNCHANGED <<actions, events>>
  ELSE CommitOutcome(h, "ambiguous")

(* An unsafe action whose dispatch marker survived is never called again. *)
UnsafeAlreadyDispatched(h) ==
  /\ actions[handler[h].row].safety = "unsafe"
  /\ handler[h].dispatch = "started"

DeclareAmbiguous(h) ==
  /\ handler[h].pc = "action.claimed"
  /\ UnsafeAlreadyDispatched(h)
  /\ GoTo(h, "closing")
  /\ IF OutcomeThrows(h, "ambiguous") THEN UNCHANGED <<actions, events>>
     ELSE CommitOutcome(h, "ambiguous")
  /\ UNCHANGED <<runs, stored, cached, alarm, refire, sent, crashes>>

(* A reconcilable action asks the receiver before every dispatch. *)
StartLookup(h) ==
  /\ handler[h].pc = "action.claimed"
  /\ actions[handler[h].row].safety = "reconcilable"
  /\ GoTo(h, "looking_up")
  /\ UNCHANGED <<tables, cached, alarm, refire, sent, crashes>>

(* markActionDispatchStarted(), for idempotent and unsafe actions after the   *)
(* claim, for reconcilable ones when the lookup found nothing.  A handler     *)
(* whose claim is stale stops here.                                           *)
MarkDispatchStarted(h) ==
  LET a == handler[h].row IN
  /\ \/ /\ handler[h].pc = "action.claimed"
        /\ actions[a].safety # "reconcilable"
        /\ ~UnsafeAlreadyDispatched(h)
     \/ handler[h].pc = "looking_up"
  /\ IF ActionClaimCurrent(h)
     THEN GoTo(h, "marked") /\ actions' = [actions EXCEPT ![a].dispatch = "started"]
     ELSE GoTo(h, "closing") /\ UNCHANGED actions
  /\ UNCHANGED <<runs, events, stored, cached, alarm, refire, sent, crashes>>

(* executeAction() is called with the action id as idempotency key. *)
ExecuteAction(h) ==
  /\ handler[h].pc = "marked"
  /\ GoTo(h, "executing")
  /\ sent' = [sent EXCEPT ![handler[h].row] = @ + 1]
  /\ UNCHANGED <<tables, cached, alarm, refire, crashes>>

(* A response, or a prior result the lookup found, is committed as delivered; *)
(* when that transaction throws, the catch block runs in the same tick.       *)
DeliverResult(h) ==
  /\ \/ handler[h].pc = "executing"
     \/ handler[h].pc = "looking_up" /\ sent[handler[h].row] > 0
  /\ GoTo(h, "closing")
  /\ IF OutcomeThrows(h, "delivered") THEN CatchBlock(h) ELSE CommitOutcome(h, "delivered")
  /\ UNCHANGED <<runs, stored, cached, alarm, refire, sent, crashes>>

(* The lookup, the executor or a checkpoint between them throws. *)
ActionThrows(h) ==
  /\ \/ handler[h].pc \in {"looking_up", "executing"}
     \/ handler[h].pc = "marked" /\ CheckpointsThrow
  /\ GoTo(h, "closing")
  /\ CatchBlock(h)
  /\ UNCHANGED <<runs, stored, cached, alarm, refire, sent, crashes>>

-----------------------------------------------------------------------------
(* The host kills the process: SQLite survives, memory does not; an alarm    *)
(* whose handler had not finished is run again.  (A restart from an older    *)
(* replica of the bucket is the subject of module EffectBoundary.)           *)
Crash ==
  /\ crashes < MaxCrashes
  /\ crashes' = crashes + 1
  /\ refire' = (refire \/ \E h \in Handlers : handler[h].pc # "idle")
  /\ handler' = [h \in Handlers |-> Idle]
  /\ cached' = None
  /\ UNCHANGED <<tables, alarm, sent>>

(* The row a handler works on under a claim that is still its own. *)
Holds(h) == \/ handler[h].pc \in EventPc /\ EventClaimCurrent(h)
            \/ handler[h].pc \in ActionPc /\ ActionClaimCurrent(h)
LeftOnClaim(h) == IF handler[h].pc \in EventPc THEN events[handler[h].row].due
                  ELSE actions[handler[h].row].due

Less(due) == IF due > 0 THEN due - 1 ELSE due

(* Time passes for every open row and for the alarm at once. *)
Tick ==
  /\ \/ alarm > 0
     \/ \E d \in Dues(events, actions) : d > 0
  /\ LeasesOutlastWork => \A h \in Handlers : Holds(h) => LeftOnClaim(h) > 1
  /\ alarm' = Less(alarm)
  /\ events' = [e \in EventIds |-> [events[e] EXCEPT !.due = Less(@)]]
  /\ actions' = [a \in Actions |-> [actions[a] EXCEPT !.due = Less(@)]]
  /\ UNCHANGED <<runs, stored, cached, refire, handler, sent, crashes>>

AlarmStarts == \/ AlarmFindsNothing
               \/ \E h \in Handlers : \/ \E a \in Actions : ClaimAction(h, a)
                                      \/ \E e \in EventIds : ClaimEvent(h, e)

EventStep(h) == \/ CallOnAgentEvent(h)
                \/ \E decision \in Decisions : CommitEvent(h, decision)
                \/ FailOrRetryEvent(h)
ActionStep(h) == \/ DeclareAmbiguous(h) \/ StartLookup(h) \/ MarkDispatchStarted(h)
                 \/ ExecuteAction(h) \/ DeliverResult(h) \/ ActionThrows(h)
HandlerStep(h) == EventStep(h) \/ ActionStep(h) \/ CheckpointThrows(h) \/ CloseHandler(h)

Next ==
  \/ \E r \in Runs, goal \in Goals : StartRun(r, goal)
  \/ \E input \in ClientEvents : AcceptEvent(input)
  \/ AlarmStarts
  \/ \E h \in Handlers : HandlerStep(h)
  \/ Crash
  \/ Tick

Spec == Init /\ [][Next]_vars

(***************************************************************************)
(* The host runs a due alarm, an awaited call returns or throws, and time  *)
(* passes.  Nothing is assumed of the clients, and crashes are bounded.    *)
(***************************************************************************)
Fairness == /\ WF_vars(AlarmStarts)
            /\ \A h \in Handlers : WF_vars(HandlerStep(h))
            /\ WF_vars(Tick)
FairSpec == Spec /\ Fairness
-----------------------------------------------------------------------------
TypeOK ==
  /\ runs \in [Runs -> RunRow]
  /\ events \in [EventIds -> EventRow]
  /\ actions \in [Actions -> ActionRow]
  /\ stored \in SUBSET EventIds
  /\ cached \in (SUBSET EventIds) \cup {None}
  /\ alarm \in Nat \cup {NoAlarm}
  /\ refire \in BOOLEAN
  /\ handler \in [Handlers -> Local]
  /\ \A h \in Handlers : /\ handler[h].pc \in EventPc => handler[h].row \in EventIds
                         /\ handler[h].pc \in ActionPc => handler[h].row \in Actions
  /\ sent \in [Actions -> Nat]
  /\ crashes \in Nat

(* At most one handler in flight can still commit for a given row, however   *)
(* often its lease ran out under earlier ones (claimEvent, claimAction and   *)
(* the revision checks of every commit).                                     *)
OneCurrentClaim ==
  \A h1, h2 \in Handlers :
    /\ Holds(h1) /\ Holds(h2) /\ handler[h1].row = handler[h2].row
    /\ handler[h1].pc \in EventPc <=> handler[h2].pc \in EventPc
    => h1 = h2

(* The cell cannot go to sleep on open work: either the alarm is armed no    *)
(* later than any open row falls due, or a handler in flight will re-arm it  *)
(* (reconcileAlarm after every accept and in the finally of alarm), or the   *)
(* host still owes the re-run of an interrupted alarm.                       *)
AlarmCoversWork ==
  \/ refire
  \/ \E h \in Handlers : handler[h].pc # "idle"
  \/ \A d \in Dues(events, actions) : alarm # NoAlarm /\ alarm <= d

(* A receipt and its outcome event exist together: an action is terminal     *)
(* exactly when the event that tells the application so was accepted         *)
(* (commitActionOutcome, failOrRetryAction: "a restart cannot strand a       *)
(* delivered action without its follow-up event").                           *)
ReceiptHasOutcomeEvent ==
  \A a \in Actions, s \in TerminalAction :
    actions[a].status = s
      <=> /\ events[OutcomeId(a, s)].body = Outcome
          /\ events[OutcomeId(a, s)].run = actions[a].run

(* While the dispatch marker survives, an unsafe action is sent at most once, *)
(* across crashes, expired leases and overlapping handlers                   *)
(* (markActionDispatchStarted and the check before it).                      *)
UnsafeSentAtMostOnce ==
  \A a \in Actions : actions[a].safety = "unsafe" => sent[a] <= 1

(* The in-memory copy of the application state never differs from the        *)
(* committed one (commitEvent assigns cachedState only after the commit).    *)
CacheIsCommittedState == cached \in {None, stored}

(* A run is admitted together with the event that starts it (startRun).      *)
RunHasItsRequest ==
  \A r \in Runs : runs[r].status # "absent" =>
    /\ events[RequestedId(r)].status # "absent"
    /\ events[RequestedId(r)].run = r
    /\ events[RequestedId(r)].body = runs[r].goal

(* A handler whose claim was superseded leaves the inbox, the actions and    *)
(* the application state as they are (the revision checks of commitEvent,    *)
(* failOrRetryEvent, commitActionOutcome and failOrRetryAction).             *)
StaleHandlerWritesNothing ==
  [][\A h \in Handlers :
       /\ handler[h].pc \in EventPc \cup ActionPc
       /\ ~Holds(h)
       /\ handler'[h] # handler[h]
       => UNCHANGED <<events, actions, stored>>]_vars

(* The cell implements what DurableAgent promises. *)
Promise == INSTANCE DurableAgent WITH
  Outcomes <- TerminalAction,
  inbox <- [e \in EventIds |->
              CASE events[e].status = "absent" -> "none"
                [] events[e].status \in OpenEvent -> "open"
                [] events[e].status = "completed" -> "decided"
                [] events[e].status = "failed" -> "given_up"],
  effect <- [a \in Actions |->
               CASE actions[a].status = "absent" -> "none"
                 [] actions[a].status \in OpenAction -> "intended"
                 [] OTHER -> actions[a].status]
KeepsPromise == Promise!Spec

(* Every accepted event is eventually decided or given up. *)
EventsSettle ==
  \A e \in EventIds :
    events[e].status \in OpenEvent ~> events[e].status \in {"completed", "failed"}

(* Every committed action intent eventually has a terminal outcome. *)
ActionsSettle ==
  \A a \in Actions :
    actions[a].status \in OpenAction ~> actions[a].status \in TerminalAction
=============================================================================
