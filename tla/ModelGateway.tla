----------------------------- MODULE ModelGateway -----------------------------
(***************************************************************************)
(* The model gateway of the swarm (model-gateway-server.mjs with the state *)
(* store of service-utils.mjs): one tool loop, whose turns are actions     *)
(* that a cell posts, looks up and posts again.                            *)
(*                                                                         *)
(* The whole state is one object in memory; persist() queues a write of    *)
(* whatever the object holds when the write starts.  A request is handled  *)
(* in stretches between its awaits: the log, the file, the provider.       *)
(* Responses of the provider are numbered; a number stands for the         *)
(* response id and for the call id the next turn must name.                *)
(*                                                                         *)
(* A second request for an action may arrive in any of these awaits.  It   *)
(* joins an operation that is in `pending`; before the first operation is  *)
(* there, it starts another one.                                           *)
(***************************************************************************)
EXTENDS Naturals, Sequences, FiniteSets

CONSTANTS
  MaxTurns,             \* maxTurns of the loop
  Slots,                \* requests the gateway handles at once
  MaxProviderAttempts,  \* providerMaximumAttempts
  MaxCalls,             \* bound of the model: provider calls in all
  MaxRetries,           \* bound of the model: retries of unfinished receipts
  MaxCrashes,           \* bound of the model: crashes of the gateway
  None

Turn == 0..(MaxTurns - 1)
Calls == 1..MaxCalls
ReceiptStatus == {"none", "in_progress", "retryable", "completed", "rejected"}

ASSUME GatewayAssumption ==
  /\ MaxTurns \in Nat \ {0}
  /\ MaxProviderAttempts \in Nat \ {0}
  /\ {MaxCalls, MaxRetries, MaxCrashes} \subseteq Nat
  /\ IsFiniteSet(Slots) /\ None \notin Slots

(* The action id is the turn, the request hash its callId; `object` tells    *)
(* which of the records that replaced each other under one id this is.       *)
Receipt == [status : ReceiptStatus, callId : 0..MaxCalls, object : Nat,
            result : 0..MaxCalls]
NoReceipt == [status |-> "none", callId |-> 0, object |-> 0, result |-> 0]
TurnRecord == [turn : Turn, result : Calls]

VARIABLES
  state,     \* the state object in memory: receipts, transcript, metrics
  disk,      \* the file it was written to last
  writing,   \* the write in progress: who waits for it, and what it writes
  pending,   \* per action, does the map `pending` have an operation?
  slot,      \* the requests being handled
  calls,     \* requests that were sent to the provider
  delivered, \* per turn, the results that operations ended with
  told,      \* per turn, the results that were returned, from memory too
  crashes
vars == <<state, disk, writing, pending, slot, calls, delivered, told, crashes>>

State == [receipts : [Turn -> Receipt],
          exists : BOOLEAN,           \* is there a transcript?
          turns : Seq(TurnRecord),    \* its turns
          requests : Nat,             \* metrics.providerRequests
          unfinished : Nat]           \* retries of unfinished receipts that
                                      \* ambiguousProviderAttempts counts
FreshState == [receipts |-> [t \in Turn |-> NoReceipt], exists |-> FALSE, turns |-> <<>>,
               requests |-> 0, unfinished |-> 0]

Saving == {"saving_receipt", "saving_transcript", "saving_result", "saving_failure"}
Pc == {"idle", "logging", "calling", "answering"} \cup Saving
Request(pc, t, callId) ==
  [pc |-> pc, turn |-> t, callId |-> callId, object |-> 0, tries |-> 0, call |-> 0]
Idle == Request("idle", 0, 0)
Local == [pc : Pc, turn : Turn, callId : 0..MaxCalls, object : Nat, tries : Nat,
          call : 0..MaxCalls]
NoWrite == [by |-> None, what |-> FreshState]

Init ==
  /\ state = FreshState
  /\ disk = FreshState
  /\ writing = NoWrite
  /\ pending = [t \in Turn |-> FALSE]
  /\ slot = [o \in Slots |-> Idle]
  /\ calls = 0
  /\ delivered = [t \in Turn |-> {}]
  /\ told = [t \in Turn |-> {}]
  /\ crashes = 0

-----------------------------------------------------------------------------
(* What a cell may ask for: the first turn, or the next turn of an answer.   *)
CallIds(t) == IF t = 0 THEN {0} ELSE told[t - 1]

(* A request for an action with an operation gets that operation's answer. *)
Joins(t) == pending[t]

Replayed(receipt) == receipt.status \in {"completed", "rejected"}

RetryUncounted(retries) == retries   \* a fault: the metric forgets retries
RetryCounted(retries) == retries + 1

(* The new record of an action is another object. *)
InProgress(callId, existing) ==
  [status |-> "in_progress", callId |-> callId, object |-> existing.object + 1, result |-> 0]

(* receiveAction(): other content is refused, settled receipts are replayed, *)
(* operations are joined; what remains begins or retries the action.         *)
Receive(o, t, callId) ==
  LET receipt == state.receipts[t] IN
  /\ slot[o].pc = "idle"
  /\ receipt.status = "none" \/ receipt.callId = callId
  /\ ~Replayed(receipt)
  /\ ~Joins(t)
  /\ IF receipt.status = "none"
     THEN /\ slot' = [slot EXCEPT ![o] = Request("saving_receipt", t, callId)]
          /\ state' = [state EXCEPT !.receipts[t] = InProgress(callId, @)]
     ELSE /\ state.unfinished < MaxRetries
          /\ slot' = [slot EXCEPT ![o] = Request("logging", t, callId)]
          /\ state' = [state EXCEPT !.unfinished = RetryCounted(@)]
  /\ UNCHANGED <<disk, writing, pending, calls, delivered, told, crashes>>

(* After the log line, a retry replaces whatever receipt there is by now, a  *)
(* completed one too. *)
Logged(o) ==
  LET t == slot[o].turn IN
  /\ slot[o].pc = "logging"
  /\ slot' = [slot EXCEPT ![o].pc = "saving_receipt"]
  /\ state' = [state EXCEPT !.receipts[t] = InProgress(slot[o].callId, @)]
  /\ UNCHANGED <<disk, writing, pending, calls, delivered, told, crashes>>

(* A completed receipt answers a duplicate POST and a GET as soon as it is in *)
(* memory. *)
ReplayReceipt(t) ==
  /\ state.receipts[t].status = "completed"
  /\ told' = [told EXCEPT ![t] = @ \cup {state.receipts[t].result}]
  /\ UNCHANGED <<state, disk, writing, pending, slot, calls, delivered, crashes>>

-----------------------------------------------------------------------------
(* persist(): the writes are serialised; each takes the state as it is when  *)
(* it starts, and the request goes on when the file is renamed into place.   *)
Snapshot == state

StartWrite(o) ==
  /\ writing = NoWrite
  /\ slot[o].pc \in Saving
  /\ writing' = [by |-> o, what |-> Snapshot]
  /\ UNCHANGED <<state, disk, pending, slot, calls, delivered, told, crashes>>

Written(o, pc) ==
  /\ slot[o].pc = pc
  /\ writing.by = o
  /\ disk' = writing.what
  /\ writing' = NoWrite

Sending(o, object, tries) ==
  [pc |-> "calling", turn |-> slot[o].turn, callId |-> slot[o].callId, object |-> object,
   tries |-> tries, call |-> calls + 1]

(* The provider is called with the transcript so far; the record that the    *)
(* operation will settle is the one under the action id by now.              *)
CallProvider(o) ==
  /\ calls < MaxCalls
  /\ calls' = calls + 1
  /\ slot' = [slot EXCEPT ![o] = Sending(o, state.receipts[slot[o].turn].object, 1)]

(* executeAction() checks a continuation against the transcript. *)
Continues(t, callId) ==
  /\ state.exists
  /\ Len(state.turns) = t
  /\ state.turns[t].result = callId

(* The turn is in the transcript although its receipt, a duplicate's by now, *)
(* did not complete. *)
NoneFound(t) == {}   \* a fault: the transcript is not looked through
PriorTurn(t) == {i \in DOMAIN state.turns : state.turns[i].turn = t}

(* The receipt is on disk: executeAction() up to its first await. *)
BeginTurn(o) ==
  LET t == slot[o].turn
      prior == IF state.exists /\ Len(state.turns) # t THEN PriorTurn(t) ELSE {}
  IN
  /\ Written(o, "saving_receipt")
  /\ pending' = [pending EXCEPT ![t] = TRUE]
  /\ IF t = 0 /\ ~state.exists
     THEN /\ state' = [state EXCEPT !.exists = TRUE]
          /\ slot' = [slot EXCEPT ![o].pc = "saving_transcript"]
          /\ UNCHANGED calls
     ELSE IF t = 0 \/ Continues(t, slot[o].callId)
     THEN CallProvider(o) /\ UNCHANGED state
     ELSE IF prior # {}
     THEN LET result == state.turns[CHOOSE i \in prior : \A j \in prior : i <= j].result
          IN  /\ state' = [state EXCEPT !.receipts[t] = [@ EXCEPT !.status = "completed",
                                                                 !.result = result]]
              /\ slot' = [slot EXCEPT ![o].pc = "saving_result", ![o].call = result]
              /\ UNCHANGED calls
     ELSE /\ state' = [state EXCEPT !.receipts[t].status = "rejected"]
          /\ slot' = [slot EXCEPT ![o].pc = "saving_failure"]
          /\ UNCHANGED calls
  /\ UNCHANGED <<delivered, told, crashes>>

(* The new transcript of turn 0 is on disk. *)
BeginLoop(o) ==
  /\ Written(o, "saving_transcript")
  /\ CallProvider(o)
  /\ UNCHANGED <<state, pending, delivered, told, crashes>>

-----------------------------------------------------------------------------
(* createResponsesTurn() repeats a failed request with the same body. *)
RepeatRequest(o) ==
  /\ slot[o].pc = "calling"
  /\ slot[o].tries < MaxProviderAttempts
  /\ calls < MaxCalls
  /\ calls' = calls + 1
  /\ slot' = [slot EXCEPT ![o] = Sending(o, slot[o].object, slot[o].tries + 1)]
  /\ UNCHANGED <<state, disk, writing, pending, delivered, told, crashes>>

(* Object.assign on the record the operation holds, in the state or not. *)
Settled(o, status, result) ==
  LET receipt == state.receipts[slot[o].turn]
  IN  IF receipt.object = slot[o].object
      THEN [receipt EXCEPT !.status = status, !.result = result]
      ELSE receipt

Unsaved == "answering"        \* a fault: the answer goes out before the write
AfterResponse == "saving_result"

(* A usable response: transcript and receipt change in one stretch. *)
ProviderAnswers(o) ==
  LET t == slot[o].turn IN
  /\ slot[o].pc = "calling"
  /\ state' = [state EXCEPT !.turns = Append(@, [turn |-> t, result |-> slot[o].call]),
                            !.receipts[t] = Settled(o, "completed", slot[o].call),
                            !.requests = @ + slot[o].tries]
  /\ slot' = [slot EXCEPT ![o].pc = AfterResponse]
  /\ UNCHANGED <<disk, writing, pending, calls, delivered, told, crashes>>

(* Attempts are used up, or a response is of no use: the action may be retried. *)
ProviderFails(o) ==
  /\ slot[o].pc = "calling"
  /\ state' = [state EXCEPT !.receipts[slot[o].turn] = Settled(o, "retryable", 0),
                            !.requests = @ + slot[o].tries]
  /\ slot' = [slot EXCEPT ![o].pc = "saving_failure"]
  /\ UNCHANGED <<disk, writing, pending, calls, delivered, told, crashes>>

ResultSaved(o) ==
  /\ Written(o, "saving_result")
  /\ slot' = [slot EXCEPT ![o].pc = "answering"]
  /\ UNCHANGED <<state, pending, calls, delivered, told, crashes>>

(* The operation ends for everyone who joined it, and leaves `pending`, also *)
(* when another operation put itself there: the result ... *)
Answer(o) ==
  LET t == slot[o].turn IN
  /\ slot[o].pc = "answering"
  /\ delivered' = [delivered EXCEPT ![t] = @ \cup {slot[o].call}]
  /\ told' = [told EXCEPT ![t] = @ \cup {slot[o].call}]
  /\ pending' = [pending EXCEPT ![t] = FALSE]
  /\ slot' = [slot EXCEPT ![o] = Idle]
  /\ UNCHANGED <<state, disk, writing, calls, crashes>>

(* ... or an error. *)
FailureSaved(o) ==
  /\ Written(o, "saving_failure")
  /\ pending' = [pending EXCEPT ![slot[o].turn] = FALSE]
  /\ slot' = [slot EXCEPT ![o] = Idle]
  /\ UNCHANGED <<state, calls, delivered, told, crashes>>

-----------------------------------------------------------------------------
(* The process dies and starts again on the file. *)
Crash ==
  /\ crashes < MaxCrashes
  /\ crashes' = crashes + 1
  /\ state' = disk
  /\ writing' = NoWrite
  /\ pending' = [t \in Turn |-> FALSE]
  /\ slot' = [o \in Slots |-> Idle]
  /\ UNCHANGED <<disk, calls, delivered, told>>

Next ==
  \/ \E t \in Turn : \/ ReplayReceipt(t)
                     \/ \E o \in Slots, callId \in CallIds(t) : Receive(o, t, callId)
  \/ \E o \in Slots :
       \/ Logged(o) \/ StartWrite(o) \/ BeginTurn(o) \/ BeginLoop(o)
       \/ RepeatRequest(o) \/ ProviderAnswers(o) \/ ProviderFails(o)
       \/ ResultSaved(o) \/ Answer(o) \/ FailureSaved(o)
  \/ Crash

Spec == Init /\ [][Next]_vars
-----------------------------------------------------------------------------
TypeOK ==
  /\ state \in State /\ disk \in State
  /\ writing \in [by : Slots \cup {None}, what : State]
  /\ writing.by # None => slot[writing.by].pc \in Saving
  /\ pending \in [Turn -> BOOLEAN]
  /\ slot \in [Slots -> Local]
  /\ calls \in 0..MaxCalls
  /\ delivered \in [Turn -> SUBSET (0..MaxCalls)]
  /\ told \in [Turn -> SUBSET (0..MaxCalls)]
  /\ crashes \in Nat

(* CONTRACTS.md: "the stored completed result": a result that an operation   *)
(* ended with stays in the transcript, in memory and in the file, through    *)
(* crashes and through the duplicates that run the turn again (persist).     *)
Has(s, t, result) == \E i \in DOMAIN s.turns : s.turns[i] = [turn |-> t, result |-> result]
AnswersAreKept ==
  \A t \in Turn : \A result \in delivered[t] : Has(state, t, result) /\ Has(disk, t, result)

(* A cell that continues the loop with a call id that an operation ended with *)
(* is refused, which is final, only where duplicates have put some turn into *)
(* the transcript twice; that the transcript it continues was reloaded from  *)
(* an older file is no reason (the checks of executeAction).                 *)
Doubled(s) == \E i, j \in DOMAIN s.turns : i # j /\ s.turns[i].turn = s.turns[j].turn
Refused(s, t) == s.receipts[t].status = "rejected"
LegalTurnsAreServed ==
  \A t \in Turn \ {0} :
    Refused(state, t) /\ state.receipts[t].callId \in delivered[t - 1] => Doubled(state)

(* MODEL-GATEWAY.md: "a successful local action receipt must not erase that  *)
(* cost": the metrics cover every request that was sent to the provider, by  *)
(* a second operation of the same action too: it is one of providerRequests, *)
(* or belongs to an operation that goes on or that a crash ended, which the  *)
(* receipt in progress stands for or a retry of it, counted in               *)
(* ambiguousProviderAttempts, once for whatever attempts it makes.           *)
Unfinished(s) == {t \in Turn : s.receipts[t].status = "in_progress"}
Covered(s) ==
  s.requests + (s.unfinished + Cardinality(Unfinished(s))) * MaxProviderAttempts
CostIsAccounted == calls <= Covered(state)
=============================================================================
