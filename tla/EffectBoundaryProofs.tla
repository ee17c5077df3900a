------------------------- MODULE EffectBoundaryProofs -------------------------
(* Theorems about EffectBoundary for any number of nodes, handlers,          *)
(* attempts, expired leases and restores from the bucket.                    *)
EXTENDS EffectBoundary, FiniteSetTheorems, TLAPS

(* What every step of a handler or of the receiver leaves alone. *)
InFlight(h) == handler[h].pc # "idle"

-----------------------------------------------------------------------------
(* Types *)

LEMMA IdleType == Idle \in Local /\ Intended \in Row
BY BoundaryAssumption DEF Idle, Local, Pc, Intended, Row, Open

LEMMA RowUpdate ==
  ASSUME NEW row \in Row, NEW status \in Open \cup Terminal
  PROVE  /\ [row EXCEPT !.status = status, !.revision = row.revision + 1] \in Row
         /\ [row EXCEPT !.status = status, !.revision = row.revision + 1,
                        !.attempts = row.attempts + 1] \in Row
         /\ [row EXCEPT !.marked = TRUE] \in Row
<1> DEFINE At(revision, attempts, marked) ==
             [row EXCEPT !.status = status, !.revision = revision, !.attempts = attempts,
                         !.marked = marked]
<1>1. \A revision, attempts \in Nat, marked \in BOOLEAN : At(revision, attempts, marked) \in Row
  BY DEF Row
<1>2. /\ row.revision + 1 \in Nat
      /\ row.attempts \in Nat /\ row.attempts + 1 \in Nat
      /\ row.marked \in BOOLEAN
  BY DEF Row
<1>3. /\ [row EXCEPT !.status = status, !.revision = row.revision + 1]
         = At(row.revision + 1, row.attempts, row.marked)
      /\ [row EXCEPT !.status = status, !.revision = row.revision + 1,
                     !.attempts = row.attempts + 1]
         = At(row.revision + 1, row.attempts + 1, row.marked)
  BY DEF Row
<1>4. [row EXCEPT !.marked = TRUE] \in Row
  BY DEF Row
<1> HIDE DEF At
<1>5. QED
  BY <1>1, <1>2, <1>3, <1>4

LEMMA CommitType ==
  ASSUME TypeOK, NEW h \in Handlers, InFlight(h),
         \/ \E status \in Terminal : CommitOutcome(h, status)
         \/ FailOrRetry(h)
  PROVE  copy' \in [Nodes -> Row] /\ due' \in [Nodes -> BOOLEAN]
<1> DEFINE n == handler[h].node
           Settle(status) == [copy[n] EXCEPT !.status = status, !.revision = copy[n].revision + 1]
<1>1. n \in Nodes /\ copy[n] \in Row
  BY DEF TypeOK, InFlight
<1>2. \A status \in Open \cup Terminal : Settle(status) \in Row
  BY <1>1, RowUpdate
<1>3. CASE \E status \in Terminal : CommitOutcome(h, status)
  <2>1. PICK status \in Terminal : CommitOutcome(h, status)
    BY <1>3
  <2>2. copy' = copy \/ copy' = [copy EXCEPT ![n] = Settle(status)]
    BY <2>1 DEF CommitOutcome
  <2>3. QED
    BY <1>2, <2>1, <2>2 DEF CommitOutcome, TypeOK
<1>4. CASE FailOrRetry(h)
  <2>1. \/ copy' = copy
        \/ \E status \in Open \cup Terminal : copy' = [copy EXCEPT ![n] = Settle(status)]
    <3>1. \/ copy' = copy
          \/ copy' = [copy EXCEPT ![n] = Settle("failed")]
          \/ copy' = [copy EXCEPT ![n] = Settle("pending")]
      BY <1>4 DEF FailOrRetry
    <3>2. QED
      BY <3>1 DEF Open, Terminal
  <2>2. due' = due \/ due' = [due EXCEPT ![n] = FALSE]
    BY <1>4 DEF FailOrRetry
  <2>3. QED
    BY <1>2, <2>1, <2>2 DEF TypeOK
<1>5. QED
  BY <1>3, <1>4

(* How a step of a handler changes the handlers. *)
LEMMA FinishType ==
  ASSUME TypeOK, NEW h \in Handlers, Finish(h)
  PROVE  /\ handler' \in [Handlers -> Local]
         /\ \A g \in Handlers : handler'[g].pc # "idle" => handler'[g] = handler[g] /\ g # h
BY IdleType DEF TypeOK, Finish, Idle

LEMMA HandlerStepType ==
  ASSUME TypeOK, NEW h \in Handlers, HandlerStep(h)
  PROVE  TypeOK'
<1> USE DEF node, receiver
<1>0. /\ handler[h] \in Local
      /\ InFlight(h) => handler[h].node \in owners
  BY DEF TypeOK, InFlight
<1>1. CASE DeclareAmbiguous(h)
  <2>1. copy' \in [Nodes -> Row] /\ due' \in [Nodes -> BOOLEAN]
    BY <1>1, CommitType DEF DeclareAmbiguous, InFlight, Terminal
  <2>2. QED
    BY <1>1, <2>1, FinishType DEF DeclareAmbiguous, TypeOK
<1>2. CASE Lookup(h)
  <2>1. [handler[h] EXCEPT !.pc = "looking_up"] \in Local
    BY <1>0 DEF Local, Pc
  <2>2. QED
    BY <1>0, <1>2, <2>1 DEF Lookup, TypeOK, InFlight
<1>3. CASE AnswerLookup(h)
  <2>1. \A pc \in {"found", "absent"} : [handler[h] EXCEPT !.pc = pc] \in Local
    BY <1>0 DEF Local, Pc
  <2>2. QED
    BY <1>0, <1>3, <2>1 DEF AnswerLookup, TypeOK, InFlight
<1>4. CASE MarkDispatchStarted(h)
  <2>0. InFlight(h)
    BY <1>4 DEF MarkDispatchStarted, ReadyToDispatch, InFlight
  <2>1. CASE ~Current(h)
    BY <1>4, <2>1, FinishType DEF MarkDispatchStarted, TypeOK
  <2>2. CASE Current(h)
    <3> DEFINE n == handler[h].node
    <3>1. [copy[n] EXCEPT !.marked = TRUE] \in Row
      <4>1. copy[n] \in Row /\ "delivering" \in Open \cup Terminal
        BY <1>0, <2>0 DEF TypeOK, Open
      <4>2. QED
        BY <4>1, RowUpdate
    <3>2. copy' \in [Nodes -> Row] /\ markings' \in Nat
      BY <1>4, <2>2, <3>1 DEF MarkDispatchStarted, TypeOK
    <3>3. [handler[h] EXCEPT !.pc = "marked"] \in Local
      BY <1>0 DEF Local, Pc
    <3>4. /\ handler' \in [Handlers -> Local]
          /\ \A g \in Handlers : handler'[g].pc # "idle" => handler'[g].node \in owners
      <4>1. handler' = [handler EXCEPT ![h] = [handler[h] EXCEPT !.pc = "marked"]]
        BY <1>4, <2>2 DEF MarkDispatchStarted
      <4>2. [handler[h] EXCEPT !.pc = "marked"].node \in owners
        BY <1>0, <2>0 DEF Local
      <4>3. QED
        BY <3>3, <4>1, <4>2 DEF TypeOK
    <3>5. QED
      BY <1>4, <3>2, <3>4 DEF MarkDispatchStarted, TypeOK
  <2>3. QED
    BY <2>1, <2>2
<1>5. CASE Dispatch(h)
  <2>1. [handler[h] EXCEPT !.pc = "executing", !.request = requests + 1] \in Local
    <3>1. \A r \in Nat : [handler[h] EXCEPT !.pc = "executing", !.request = r] \in Local
      BY <1>0 DEF Local, Pc
    <3>2. requests + 1 \in Nat
      BY DEF TypeOK
    <3>3. QED
      BY <3>1, <3>2
  <2>2. /\ handler' \in [Handlers -> Local]
        /\ \A g \in Handlers : handler'[g].pc # "idle" => handler'[g].node \in owners
    <3>1. handler' = [handler EXCEPT ![h] =
                        [handler[h] EXCEPT !.pc = "executing", !.request = requests + 1]]
      BY <1>5 DEF Dispatch
    <3>2. handler[h].node \in owners
      BY <1>0, <1>5 DEF Dispatch, InFlight
    <3>3. [handler[h] EXCEPT !.pc = "executing", !.request = requests + 1].node = handler[h].node
      BY <1>0 DEF Local
    <3>4. QED
      BY <2>1, <3>1, <3>2, <3>3 DEF TypeOK
  <2>3. requests' \in Nat /\ wire' \subseteq 1..requests'
    BY <1>5 DEF Dispatch, TypeOK
  <2>4. QED
    BY <1>5, <2>2, <2>3 DEF Dispatch, TypeOK
<1>6. CASE Deliver(h)
  <2>1. copy' \in [Nodes -> Row] /\ due' \in [Nodes -> BOOLEAN]
    BY <1>6, CommitType DEF Deliver, InFlight, Terminal
  <2>2. QED
    BY <1>6, <2>1, FinishType DEF Deliver, TypeOK
<1>7. CASE Throws(h)
  <2>1. copy' \in [Nodes -> Row] /\ due' \in [Nodes -> BOOLEAN]
    BY <1>7, CommitType DEF Throws, InFlight, Terminal
  <2>2. QED
    BY <1>7, <2>1, FinishType DEF Throws, TypeOK
<1>8. QED
  BY <1>1, <1>2, <1>3, <1>4, <1>5, <1>6, <1>7 DEF HandlerStep

LEMMA ClaimType ==
  ASSUME TypeOK, NEW h \in Handlers, NEW n \in Nodes, Claim(h, n)
  PROVE  TypeOK'
<1>1. copy[n] \in Row /\ n \in owners
  BY DEF TypeOK, Claim
<1>2. [copy[n] EXCEPT !.status = "delivering", !.revision = copy[n].revision + 1,
                      !.attempts = copy[n].attempts + 1] \in Row
  BY <1>1, RowUpdate DEF Open
<1>3. copy' \in [Nodes -> Row] /\ due' \in [Nodes -> BOOLEAN]
  BY <1>2 DEF TypeOK, Claim
<1>4. [pc |-> "claimed", node |-> n, revision |-> copy[n].revision + 1,
       attempt |-> copy[n].attempts + 1, marked |-> copy[n].marked, request |-> 0] \in Local
  BY <1>1 DEF Local, Pc, Row
<1>5. /\ handler' \in [Handlers -> Local]
      /\ \A g \in Handlers : handler'[g].pc # "idle" => handler'[g].node \in owners
  BY <1>1, <1>4 DEF TypeOK, Claim
<1>6. QED
  BY <1>3, <1>5 DEF TypeOK, Claim, node, receiver

LEMMA AcceptType ==
  ASSUME TypeOK, NEW r \in wire, Accept(r)
  PROVE  TypeOK'
BY DEF TypeOK, Accept, node

(* What is left when only some of the owners remain. *)
LEMMA RemainingType ==
  ASSUME TypeOK, NEW remaining \in SUBSET owners
  PROVE  /\ HandlersOn(remaining) \in [Handlers -> Local]
         /\ \A h \in Handlers :
              HandlersOn(remaining)[h].pc # "idle"
                => /\ HandlersOn(remaining)[h] = handler[h]
                   /\ handler[h].node \in remaining
         /\ CopiesOn(remaining) \in [Nodes -> Row]
         /\ \A n \in remaining : CopiesOn(remaining)[n] = copy[n]
<1>1. HandlersOn(remaining) \in [Handlers -> Local]
  BY IdleType DEF HandlersOn, TypeOK
<1>2. CopiesOn(remaining) \in [Nodes -> Row]
  BY IdleType DEF CopiesOn, TypeOK
<1>3. QED
  BY <1>1, <1>2 DEF HandlersOn, CopiesOn, Idle, TypeOK

LEMMA RestoreType ==
  ASSUME TypeOK, NEW n \in Nodes, NEW remaining \in SUBSET owners, Restore(n, remaining)
  PROVE  TypeOK'
<1>1. copy' \in [Nodes -> Row]
  BY RemainingType DEF Restore, TypeOK
<1>2. owners' \in (SUBSET Nodes) \ {{}}
  BY DEF Restore, TypeOK
<1>3. /\ handler' \in [Handlers -> Local]
      /\ \A h \in Handlers : handler'[h].pc # "idle" => handler'[h].node \in owners'
  BY RemainingType DEF Restore
<1>4. due' \in [Nodes -> BOOLEAN] /\ restores' \in Nat
  BY DEF Restore, TypeOK
<1>5. QED
  BY <1>1, <1>2, <1>3, <1>4 DEF Restore, TypeOK, receiver

(* A restart and a takeover are restores of a node that is not among those   *)
(* that go on serving. *)
LEMMA RestoreKinds ==
  ASSUME TypeOK, NEW n \in Nodes, Restart(n) \/ TakeOver(n)
  PROVE  \E remaining \in SUBSET owners : n \notin remaining /\ Restore(n, remaining)
BY DEF Restart, TakeOver

LEMMA HostType ==
  ASSUME TypeOK, NEW n \in Nodes,
         Claimable(n) \/ Replicate(n) \/ Restart(n) \/ TakeOver(n) \/ StepDown(n)
  PROVE  TypeOK'
<1>1. CASE Claimable(n)
  BY <1>1 DEF Claimable, TypeOK, node, receiver
<1>2. CASE Replicate(n)
  BY <1>2 DEF Replicate, TypeOK, receiver
<1>3. CASE Restart(n) \/ TakeOver(n)
  BY <1>3, RestoreKinds, RestoreType
<1>4. CASE StepDown(n)
  <2>1. copy' \in [Nodes -> Row]
    BY <1>4, RemainingType DEF StepDown
  <2>2. /\ handler' \in [Handlers -> Local]
        /\ \A h \in Handlers : handler'[h].pc # "idle" => handler'[h].node \in owners'
    BY <1>4, RemainingType DEF StepDown
  <2>3. owners' \in (SUBSET Nodes) \ {{}} /\ due' \in [Nodes -> BOOLEAN]
    BY <1>4 DEF StepDown, TypeOK
  <2>4. QED
    BY <1>4, <2>1, <2>2, <2>3 DEF StepDown, TypeOK, receiver
<1>5. QED
  BY <1>1, <1>2, <1>3, <1>4

LEMMA InitType == Init => TypeOK
BY IdleType DEF Init, TypeOK, Idle

LEMMA NextType == TypeOK /\ [Next]_vars => TypeOK'
<1> SUFFICES ASSUME TypeOK, [Next]_vars PROVE TypeOK'
  OBVIOUS
<1>1. CASE UNCHANGED vars
  BY <1>1 DEF TypeOK, vars
<1>2. CASE Next
  BY <1>2, HandlerStepType, ClaimType, AcceptType, HostType DEF Next
<1>3. QED
  BY <1>1, <1>2

(* Every reachable state is well typed, and handlers run only on nodes that  *)
(* serve the cell. *)
THEOREM BoundaryTypeCorrect == Spec => []TypeOK
<1>1. QED
  BY InitType, NextType, PTL DEF Spec

-----------------------------------------------------------------------------
(* Receipts.  A handler about to commit a result has one: the lookup found a *)
(* job, or its request has left the wire, which only acceptance does.        *)
ResultInHand ==
  \A h \in Handlers :
    \/ handler[h].pc = "found"
    \/ handler[h].pc = "executing" /\ handler[h].request \notin wire
    => jobs > 0

Receipts == ReceiptHasEffect /\ ResultInHand

(* What the catch block and a commit write into the copies. *)
LEMMA CommitWrites ==
  ASSUME TypeOK, NEW h \in Handlers, InFlight(h), NEW n \in Nodes
  PROVE  /\ \A status \in Terminal :
              CommitOutcome(h, status)
                => \/ copy'[n] = copy[n]
                   \/ /\ n = handler[h].node
                      /\ Current(h)
                      /\ copy'[n].status = status
                      /\ copy'[n].marked = copy[n].marked
                      /\ copy'[n].revision = copy[n].revision + 1
         /\ FailOrRetry(h)
              => \/ copy'[n] = copy[n]
                 \/ /\ n = handler[h].node
                    /\ copy'[n].status \in {"failed", "pending"}
                    /\ copy'[n].marked = copy[n].marked
                    /\ copy'[n].revision = copy[n].revision + 1
<1>1. copy \in [Nodes -> Row] /\ copy[n] \in Row
  BY DEF TypeOK
<1>2. ASSUME NEW status \in Terminal, CommitOutcome(h, status), copy'[n] # copy[n]
      PROVE  /\ n = handler[h].node
             /\ Current(h)
             /\ copy'[n] = [copy[n] EXCEPT !.status = status, !.revision = copy[n].revision + 1]
  BY <1>1, <1>2 DEF CommitOutcome
<1>3. ASSUME FailOrRetry(h), copy'[n] # copy[n]
      PROVE  /\ n = handler[h].node
             /\ \E status \in {"failed", "pending"} :
                  copy'[n] = [copy[n] EXCEPT !.status = status, !.revision = copy[n].revision + 1]
  BY <1>1, <1>3 DEF FailOrRetry
<1>4. QED
  BY <1>1, <1>2, <1>3, ZenonT(60) DEF Row

(* Steps that leave the receiver and the copies as they are, or only move    *)
(* copies around, keep the receipts when no handler gets a result. *)
LEMMA ReceiptsKept ==
  ASSUME TypeOK, Receipts, jobs' \in Nat, jobs <= jobs',
         \A n \in Nodes : copy'[n].status = "delivered"
                            => jobs' > 0 \/ \E m \in Nodes : copy'[n] = copy[m]
                                         \/ copy'[n] = bucket,
         bucket' = bucket \/ \E m \in Nodes : bucket' = copy[m],
         \A h \in Handlers :
           \/ handler'[h] = handler[h] /\ (jobs' > 0 \/ wire' = wire)
           \/ handler'[h].pc \notin {"found", "executing"}
           \/ jobs' > 0
           \/ handler'[h].pc = "executing" /\ handler'[h].request \in wire'
  PROVE  Receipts'
<1>1. jobs \in Nat
  BY DEF TypeOK
<1>2. ReceiptHasEffect'
  BY <1>1 DEF Receipts, ReceiptHasEffect
<1>3. ResultInHand'
  BY <1>1 DEF Receipts, ResultInHand
<1>4. QED
  BY <1>2, <1>3 DEF Receipts

LEMMA ReceiptsStep == TypeOK /\ Receipts /\ [Next]_vars => Receipts'
<1> SUFFICES ASSUME TypeOK, Receipts, [Next]_vars PROVE Receipts'
  OBVIOUS
<1> USE DEF node, receiver
<1>0. jobs \in Nat /\ requests \in Nat /\ wire \subseteq 1..requests
  BY DEF TypeOK
<1>1. CASE UNCHANGED vars
  BY <1>1 DEF vars, Receipts, ReceiptHasEffect, ResultInHand
<1>2. ASSUME NEW h \in Handlers, HandlerStep(h) PROVE Receipts'
  <2>1. CASE DeclareAmbiguous(h)
    <3>1. \A n \in Nodes : copy'[n] = copy[n] \/ copy'[n].status = "ambiguous"
      BY <2>1, CommitWrites DEF DeclareAmbiguous, InFlight, Terminal
    <3>2. QED
      BY <1>0, <2>1, <3>1, FinishType, ReceiptsKept DEF DeclareAmbiguous
  <2>2. CASE Lookup(h)
    BY <1>0, <2>2, ReceiptsKept DEF Lookup, TypeOK
  <2>3. CASE AnswerLookup(h)
    BY <1>0, <2>3, ReceiptsKept DEF AnswerLookup, TypeOK, JobExists
  <2>4. CASE MarkDispatchStarted(h)
    <3>1. \A n \in Nodes : copy'[n].status = copy[n].status
      BY <2>4 DEF MarkDispatchStarted, TypeOK, Row
    <3>2. ReceiptHasEffect'
      BY <2>4, <3>1 DEF MarkDispatchStarted, Receipts, ReceiptHasEffect
    <3>3. ResultInHand'
      <4>1. \A g \in Handlers : handler'[g] = handler[g] \/ handler'[g].pc \in {"idle", "marked"}
        BY <2>4 DEF MarkDispatchStarted, Finish, Idle, TypeOK, Local
      <4>2. wire' = wire /\ jobs' = jobs
        BY <2>4 DEF MarkDispatchStarted
      <4>3. QED
        BY <4>1, <4>2 DEF Receipts, ResultInHand
    <3>4. QED
      BY <2>4, <3>2, <3>3 DEF MarkDispatchStarted, Receipts
  <2>5. CASE Dispatch(h)
    <3>1. handler'[h].pc = "executing" /\ handler'[h].request \in wire'
      BY <2>5 DEF Dispatch, TypeOK, Local
    <3>2. \A g \in Handlers : g # h => handler'[g] = handler[g] /\ wire \subseteq wire'
      BY <2>5 DEF Dispatch, TypeOK
    <3>3. ResultInHand'
      BY <2>5, <3>1, <3>2 DEF Dispatch, Receipts, ResultInHand
    <3>4. QED
      BY <2>5, <3>3 DEF Dispatch, Receipts, ReceiptHasEffect
  <2>6. CASE Deliver(h)
    <3>1. jobs > 0
      BY <2>6 DEF Deliver, Receipts, ResultInHand
    <3>2. QED
      BY <1>0, <2>6, <3>1 DEF Deliver, Receipts, ReceiptHasEffect, ResultInHand
  <2>7. CASE Throws(h)
    <3>1. \A n \in Nodes : copy'[n] = copy[n] \/ copy'[n].status \in {"ambiguous", "failed", "pending"}
      BY <2>7, CommitWrites DEF Throws, InFlight, Terminal
    <3>2. QED
      BY <1>0, <2>7, <3>1, FinishType, ReceiptsKept DEF Throws
  <2>8. QED
    BY <1>2, <2>1, <2>2, <2>3, <2>4, <2>5, <2>6, <2>7 DEF HandlerStep
<1>3. ASSUME NEW h \in Handlers, NEW n \in Nodes, Claim(h, n) PROVE Receipts'
  <2>1. \A m \in Nodes : copy'[m] = copy[m] \/ copy'[m].status = "delivering"
    BY <1>3 DEF Claim, TypeOK, Row
  <2>2. \A g \in Handlers : handler'[g] = handler[g] \/ handler'[g].pc = "claimed"
    BY <1>3 DEF Claim, TypeOK
  <2>3. bucket' = bucket /\ wire' = wire /\ jobs' = jobs
    BY <1>3 DEF Claim
  <2>4. QED
    BY <1>0, <2>1, <2>2, <2>3, ReceiptsKept
<1>4. ASSUME NEW r \in wire, Accept(r) PROVE Receipts'
  <2>1. jobs' > 0
    BY <1>0, <1>4 DEF Accept, JobExists
  <2>2. QED
    BY <2>1 DEF Receipts, ReceiptHasEffect, ResultInHand
<1>5. ASSUME NEW n \in Nodes, Claimable(n) PROVE Receipts'
  BY <1>5 DEF Claimable, Receipts, ReceiptHasEffect, ResultInHand
<1>6. ASSUME NEW n \in Nodes, Replicate(n) PROVE Receipts'
  BY <1>0, <1>6, ReceiptsKept DEF Replicate
<1>7. ASSUME NEW n \in Nodes, NEW remaining \in SUBSET owners, Restore(n, remaining)
      PROVE  Receipts'
  <2>1. \A m \in Nodes : copy'[m] = copy[m] \/ copy'[m] = bucket \/ copy'[m].status = "pending"
    BY <1>7, RemainingType DEF Restore, CopiesOn, Intended
  <2>2. \A h \in Handlers : handler'[h].pc # "idle" => handler'[h] = handler[h]
    BY <1>7, RemainingType DEF Restore
  <2>3. QED
    BY <1>0, <1>7, <2>1, <2>2, ReceiptsKept DEF Restore
<1>8. ASSUME NEW n \in Nodes, StepDown(n) PROVE Receipts'
  <2>1. \A m \in Nodes : copy'[m] = copy[m] \/ copy'[m].status = "pending"
    BY <1>8 DEF StepDown, CopiesOn, Intended
  <2>2. \A h \in Handlers : handler'[h].pc # "idle" => handler'[h] = handler[h]
    BY <1>8, RemainingType DEF StepDown
  <2>3. bucket' = bucket /\ wire' = wire /\ jobs' = jobs
    BY <1>8 DEF StepDown
  <2>4. QED
    BY <1>0, <2>1, <2>2, <2>3, ReceiptsKept
<1>9. QED
  BY <1>1, <1>2, <1>3, <1>4, <1>5, <1>6, <1>7, <1>8, RestoreKinds DEF Next

LEMMA ReceiptsInit == Init => Receipts
BY DEF Init, Receipts, ReceiptHasEffect, ResultInHand, Idle, Intended

(* A receipt in any copy or in the bucket stands for an accepted effect. *)
THEOREM ReceiptsAreTrue == Spec => []ReceiptHasEffect
<1>1. Receipts => ReceiptHasEffect
  BY DEF Receipts
<1>2. QED
  BY <1>1, InitType, NextType, ReceiptsInit, ReceiptsStep, PTL DEF Spec

-----------------------------------------------------------------------------
(* Markers.  While a handler lives, the copy it works on keeps every marker  *)
(* the handler read or set, and only reconcilable actions are looked up.     *)
MarkersTold ==
  \A h \in Handlers : InFlight(h) =>
    /\ handler[h].pc \in {"marked", "executing"} \/ handler[h].marked
         => copy[handler[h].node].marked
    /\ handler[h].pc \in {"looking_up", "found", "absent"} => safety = "reconcilable"

Markers == AmbiguousWasMarked /\ MarkersTold

(* A step keeps the markers if it takes none from a copy that a surviving    *)
(* handler works on, advances handlers only along the lanes of the code and  *)
(* settles as ambiguous only what is marked. *)
LEMMA MarkersKept ==
  ASSUME TypeOK, Markers, safety' = safety,
         bucket' = bucket \/ \E m \in Nodes : bucket' = copy[m],
         \A n \in Nodes : copy'[n].status = "ambiguous"
                            => copy'[n].marked /\ safety = "unsafe",
         \A h \in Handlers : handler'[h].pc # "idle" =>
           /\ handler'[h].pc \in {"marked", "executing"} \/ handler'[h].marked
                => copy'[handler'[h].node].marked
           /\ handler'[h].pc \in {"looking_up", "found", "absent"} => safety = "reconcilable"
  PROVE  Markers'
<1>1. AmbiguousWasMarked'
  BY DEF Markers, AmbiguousWasMarked
<1>2. MarkersTold'
  BY DEF MarkersTold, InFlight
<1>3. QED
  BY <1>1, <1>2 DEF Markers

(* A handler that ends its work by a commit or in the catch block. *)
LEMMA MarkersAtEnd ==
  ASSUME TypeOK, Markers, NEW h \in Handlers, InFlight(h), Finish(h),
         \/ \E status \in {"delivered", "ambiguous"} :
              /\ CommitOutcome(h, status)
              /\ status = "ambiguous" => safety = "unsafe" /\ copy[handler[h].node].marked
         \/ FailOrRetry(h),
         safety' = safety, bucket' = bucket
  PROVE  Markers'
<1>1. \A n \in Nodes : copy'[n].marked = copy[n].marked
  BY CommitWrites DEF Terminal
<1>2. \A n \in Nodes : copy'[n].status = "ambiguous" => copy[n].marked /\ safety = "unsafe"
  BY CommitWrites DEF Terminal, Markers, AmbiguousWasMarked
<1>3. \A g \in Handlers : (handler'[g] = handler[g] /\ g # h) \/ handler'[g] = Idle
  BY DEF Finish, TypeOK
<1>4. \A g \in Handlers : handler[g].pc # "idle" => handler[g].node \in Nodes
  BY DEF TypeOK
<1>5. \A g \in Handlers : handler'[g].pc # "idle" => handler'[g] = handler[g] /\ handler[g].pc # "idle"
  BY <1>3 DEF Idle
<1>6. \A g \in Handlers : handler'[g].pc # "idle" =>
           /\ handler'[g].pc \in {"marked", "executing"} \/ handler'[g].marked
                => copy'[handler'[g].node].marked
           /\ handler'[g].pc \in {"looking_up", "found", "absent"} => safety = "reconcilable"
  BY <1>1, <1>4, <1>5 DEF Markers, MarkersTold, InFlight
<1>7. QED
  BY <1>1, <1>2, <1>6, MarkersKept

LEMMA MarkersStep == TypeOK /\ Markers /\ [Next]_vars => Markers'
<1> SUFFICES ASSUME TypeOK, Markers, [Next]_vars PROVE Markers'
  OBVIOUS
<1> USE DEF node, receiver
<1>0. /\ copy \in [Nodes -> Row]
      /\ \A n \in Nodes : copy[n].status = "ambiguous" => copy[n].marked /\ safety = "unsafe"
      /\ \A h \in Handlers : handler[h].pc # "idle" =>
           /\ handler[h].node \in Nodes
           /\ handler[h].node \in owners
           /\ handler[h].pc \in {"marked", "executing"} \/ handler[h].marked
                => copy[handler[h].node].marked
           /\ handler[h].pc \in {"looking_up", "found", "absent"} => safety = "reconcilable"
  BY DEF TypeOK, Markers, MarkersTold, AmbiguousWasMarked, InFlight
<1>1. CASE UNCHANGED vars
  BY <1>1 DEF vars, Markers, MarkersTold, AmbiguousWasMarked, InFlight
<1>2. ASSUME NEW h \in Handlers, HandlerStep(h) PROVE Markers'
  <2>1. CASE DeclareAmbiguous(h)
    BY <1>0, <2>1, MarkersAtEnd DEF DeclareAmbiguous, MayHaveBeenSent, InFlight
  <2>2. CASE Lookup(h)
    <3>1. \A g \in Handlers :
            \/ handler'[g] = handler[g]
            \/ /\ handler'[g].pc = "looking_up" /\ handler'[g].node = handler[g].node
               /\ handler'[g].marked = handler[g].marked /\ handler[g].pc # "idle"
      BY <2>2 DEF Lookup, TypeOK, Local
    <3>2. safety = "reconcilable" /\ UNCHANGED <<safety, copy, bucket>>
      BY <2>2 DEF Lookup
    <3>3. QED
      BY <1>0, <3>1, <3>2, MarkersKept
  <2>3. CASE AnswerLookup(h)
    <3>1. \A g \in Handlers :
            \/ handler'[g] = handler[g]
            \/ /\ handler'[g].pc \in {"found", "absent"} /\ handler'[g].node = handler[g].node
               /\ handler'[g].marked = handler[g].marked /\ handler[g].pc = "looking_up"
      BY <2>3 DEF AnswerLookup, TypeOK, Local
    <3>2. UNCHANGED <<safety, copy, bucket>>
      BY <2>3 DEF AnswerLookup
    <3>3. QED
      BY <1>0, <3>1, <3>2, MarkersKept
  <2>4. CASE MarkDispatchStarted(h)
    <3>0. UNCHANGED <<safety, bucket>> /\ InFlight(h)
      BY <2>4 DEF MarkDispatchStarted, ReadyToDispatch, InFlight
    <3>1. CASE Current(h)
      <4>1. /\ copy' = [copy EXCEPT ![handler[h].node].marked = TRUE]
            /\ handler' = [handler EXCEPT ![h].pc = "marked"]
        BY <2>4, <3>1 DEF MarkDispatchStarted
      <4>2. \A n \in Nodes : /\ copy'[n].status = copy[n].status
                             /\ copy[n].marked \/ n = handler[h].node => copy'[n].marked
        BY <1>0, <4>1 DEF Row
      <4>3. \A g \in Handlers : \/ handler'[g] = handler[g]
                                \/ g = h /\ handler'[g].pc = "marked"
                                   /\ handler'[g].node = handler[h].node
        BY <4>1 DEF TypeOK, Local
      <4>4. QED
        BY <1>0, <3>0, <4>2, <4>3, MarkersKept DEF InFlight
    <3>2. CASE ~Current(h)
      <4>1. Finish(h) /\ UNCHANGED copy
        BY <2>4, <3>2 DEF MarkDispatchStarted
      <4>2. \A g \in Handlers : handler'[g].pc # "idle" => handler'[g] = handler[g]
        BY <4>1, FinishType
      <4>3. QED
        BY <1>0, <3>0, <4>1, <4>2, MarkersKept
    <3>3. QED
      BY <3>1, <3>2
  <2>5. CASE Dispatch(h)
    <3>1. \A g \in Handlers :
            \/ handler'[g] = handler[g]
            \/ /\ handler'[g].pc = "executing" /\ handler'[g].node = handler[g].node
               /\ handler[g].pc = "marked"
      BY <2>5 DEF Dispatch, TypeOK, Local
    <3>2. UNCHANGED <<safety, copy, bucket>>
      BY <2>5 DEF Dispatch
    <3>3. QED
      BY <1>0, <3>1, <3>2, MarkersKept
  <2>6. CASE Deliver(h)
    BY <2>6, MarkersAtEnd DEF Deliver, InFlight
  <2>7. CASE Throws(h)
    <3>1. InFlight(h) /\ Finish(h) /\ UNCHANGED <<safety, bucket>>
      BY <2>7 DEF Throws, InFlight
    <3>2. CASE safety = "unsafe"
      <4>1. CommitOutcome(h, "ambiguous") /\ copy[handler[h].node].marked
        BY <1>0, <2>7, <3>2 DEF Throws
      <4>2. QED
        BY <3>1, <3>2, <4>1, MarkersAtEnd
    <3>3. CASE safety # "unsafe"
      BY <2>7, <3>1, <3>3, MarkersAtEnd DEF Throws
    <3>4. QED
      BY <3>2, <3>3
  <2>8. QED
    BY <1>2, <2>1, <2>2, <2>3, <2>4, <2>5, <2>6, <2>7 DEF HandlerStep
<1>3. ASSUME NEW h \in Handlers, NEW n \in Nodes, Claim(h, n) PROVE Markers'
  <2>1. \A m \in Nodes : /\ copy'[m].marked = copy[m].marked
                         /\ copy'[m].status = "ambiguous" => copy'[m] = copy[m]
    BY <1>0, <1>3 DEF Claim, Row
  <2>2. \A g \in Handlers :
          \/ handler'[g] = handler[g]
          \/ /\ handler'[g].pc = "claimed" /\ handler'[g].node = n
             /\ handler'[g].marked = copy[n].marked
    BY <1>3 DEF Claim, TypeOK
  <2>3. UNCHANGED <<safety, bucket>>
    BY <1>3 DEF Claim
  <2>4. QED
    BY <1>0, <2>1, <2>2, <2>3, MarkersKept
<1>4. ASSUME NEW r \in wire, Accept(r) PROVE Markers'
  BY <1>0, <1>4, MarkersKept DEF Accept
<1>5. ASSUME NEW n \in Nodes, Claimable(n) PROVE Markers'
  BY <1>0, <1>5, MarkersKept DEF Claimable
<1>6. ASSUME NEW n \in Nodes, Replicate(n) PROVE Markers'
  BY <1>0, <1>6, MarkersKept DEF Replicate
<1>7. ASSUME NEW n \in Nodes, NEW remaining \in SUBSET owners, n \notin remaining,
             Restore(n, remaining)
      PROVE  Markers'
  <2>1. \A m \in Nodes : \/ copy'[m] = bucket
                         \/ copy'[m].status = "pending"
                         \/ copy'[m] = copy[m]
    BY <1>7 DEF Restore, CopiesOn, Intended
  <2>2. \A m \in remaining : copy'[m] = copy[m]
    BY <1>7, RemainingType DEF Restore, TypeOK
  <2>3. \A h \in Handlers : handler'[h].pc # "idle" => handler'[h] = handler[h]
                                                       /\ handler[h].node \in remaining
    BY <1>7, RemainingType DEF Restore
  <2>4. UNCHANGED <<safety, bucket>>
    BY <1>7 DEF Restore
  <2>5. \A m \in Nodes : copy'[m].status = "ambiguous" => copy'[m].marked /\ safety = "unsafe"
    BY <1>0, <2>1 DEF Markers, AmbiguousWasMarked
  <2>6. QED
    BY <1>0, <2>2, <2>3, <2>4, <2>5, MarkersKept
<1>8. ASSUME NEW n \in Nodes, StepDown(n) PROVE Markers'
  <2>1. \A m \in Nodes : copy'[m].status = "pending" \/ copy'[m] = copy[m]
    BY <1>8 DEF StepDown, CopiesOn, Intended
  <2>2. \A m \in owners \ {n} : copy'[m] = copy[m]
    BY <1>8, RemainingType DEF StepDown
  <2>3. \A h \in Handlers : handler'[h].pc # "idle" => handler'[h] = handler[h]
                                                       /\ handler[h].node \in owners \ {n}
    BY <1>8, RemainingType DEF StepDown
  <2>4. UNCHANGED <<safety, bucket>>
    BY <1>8 DEF StepDown
  <2>5. QED
    BY <1>0, <2>1, <2>2, <2>3, <2>4, MarkersKept
<1>9. QED
  BY <1>1, <1>2, <1>3, <1>4, <1>5, <1>6, <1>7, <1>8, RestoreKinds DEF Next

LEMMA MarkersInit == Init => Markers
BY DEF Init, Markers, MarkersTold, AmbiguousWasMarked, InFlight, Idle, Intended

(* An ambiguous outcome, wherever it is stored, is one of an unsafe action   *)
(* that had been marked as dispatched. *)
THEOREM AmbiguityIsEarned == Spec => []AmbiguousWasMarked
<1>1. Markers => AmbiguousWasMarked
  BY DEF Markers
<1>2. QED
  BY <1>1, InitType, NextType, MarkersInit, MarkersStep, PTL DEF Spec

-----------------------------------------------------------------------------
(* Claims.  On one node no two handlers hold the same revision, none holds   *)
(* one the copy has not reached, and a current claim that read no marker     *)
(* still faces an unmarked copy. *)
ClaimsReached ==
  \A h \in Handlers : InFlight(h) => handler[h].revision <= copy[handler[h].node].revision
ClaimsDiffer ==
  \A g, h \in Handlers :
    InFlight(g) /\ InFlight(h) /\ g # h /\ handler[g].node = handler[h].node
      => handler[g].revision # handler[h].revision
Unmarked ==
  \A h \in Handlers :
    handler[h].pc = "claimed" /\ Current(h) /\ ~handler[h].marked
      => ~copy[handler[h].node].marked

Claims == ClaimsReached /\ ClaimsDiffer /\ Unmarked

(* A handler of the new state holds the claim one of the old state held, and *)
(* the copy it works on is the same, or has moved past every claim. *)
LEMMA ClaimsKept ==
  ASSUME TypeOK, TypeOK', Claims,
         \A h \in Handlers : handler'[h].pc # "idle" =>
           /\ handler[h].pc # "idle"
           /\ handler'[h].node = handler[h].node
           /\ handler'[h].revision = handler[h].revision
           /\ handler'[h].pc = "claimed" => handler[h].pc = "claimed"
           /\ handler'[h].marked = handler[h].marked
           /\ LET n == handler[h].node IN
              \/ copy'[n] = copy[n]
              \/ copy'[n].revision > copy[n].revision
  PROVE  Claims'
<1>0. \A h \in Handlers : handler'[h].pc # "idle" =>
        /\ handler[h].node \in Nodes
        /\ handler[h].revision \in Nat
        /\ copy[handler[h].node].revision \in Nat
        /\ copy'[handler[h].node].revision \in Nat
        /\ handler[h].revision <= copy[handler[h].node].revision
  BY DEF TypeOK, Local, Row, Claims, ClaimsReached, InFlight
<1>1. ClaimsReached'
  BY <1>0 DEF ClaimsReached, InFlight
<1>2. ClaimsDiffer'
  BY DEF Claims, ClaimsDiffer, InFlight
<1>3. Unmarked'
  <2> SUFFICES ASSUME NEW h \in Handlers, handler'[h].pc = "claimed", Current(h)',
                      ~handler'[h].marked
               PROVE  ~copy'[handler'[h].node].marked
    BY DEF Unmarked
  <2> DEFINE n == handler[h].node
  <2>1. copy'[n].status = "delivering" /\ copy'[n].revision = handler[h].revision
    BY DEF Current
  <2>2. copy'[n] = copy[n]
    BY <1>0, <2>1
  <2>3. Current(h) /\ handler[h].pc = "claimed" /\ ~handler[h].marked
    BY <2>1, <2>2 DEF Current
  <2>4. QED
    BY <2>2, <2>3 DEF Claims, Unmarked
<1>4. QED
  BY <1>1, <1>2, <1>3 DEF Claims

LEMMA ClaimsAtEnd ==
  ASSUME TypeOK, TypeOK', Claims, NEW h \in Handlers, InFlight(h), Finish(h),
         \/ \E status \in Terminal : CommitOutcome(h, status)
         \/ FailOrRetry(h)
  PROVE  Claims'
<1>1. \A n \in Nodes : copy'[n] = copy[n] \/ copy'[n].revision = copy[n].revision + 1
  BY CommitWrites
<1>2. \A n \in Nodes : copy[n].revision \in Nat
  BY DEF TypeOK, Row
<1>3. \A n \in Nodes : copy'[n] = copy[n] \/ copy'[n].revision > copy[n].revision
  BY <1>1, <1>2
<1>4. \A g \in Handlers : handler'[g].pc # "idle" => handler'[g] = handler[g]
  BY FinishType
<1>5. \A g \in Handlers : handler[g].pc # "idle" => handler[g].node \in Nodes
  BY DEF TypeOK
<1>6. QED
  BY <1>3, <1>4, <1>5, ClaimsKept

LEMMA ClaimsStep == TypeOK /\ TypeOK' /\ Claims /\ [Next]_vars => Claims'
<1> SUFFICES ASSUME TypeOK, TypeOK', Claims, [Next]_vars PROVE Claims'
  OBVIOUS
<1> USE DEF node, receiver
<1>0. /\ copy \in [Nodes -> Row]
      /\ \A n \in Nodes : copy[n].revision \in Nat
      /\ \A h \in Handlers : handler[h].pc # "idle" => handler[h].node \in owners
                                                       /\ handler[h].node \in Nodes
  BY DEF TypeOK, Row
<1>1. CASE UNCHANGED vars
  BY <1>1 DEF vars, Claims, ClaimsReached, ClaimsDiffer, Unmarked, InFlight, Current
<1>2. ASSUME NEW h \in Handlers, HandlerStep(h) PROVE Claims'
  <2>1. CASE DeclareAmbiguous(h)
    BY <2>1, ClaimsAtEnd DEF DeclareAmbiguous, InFlight, Terminal
  <2>2. CASE Lookup(h) \/ AnswerLookup(h) \/ Dispatch(h)
    <3>1. UNCHANGED copy
      BY <2>2 DEF Lookup, AnswerLookup, Dispatch
    <3>2. \A g \in Handlers : handler'[g].pc # "idle" =>
            /\ handler[g].pc # "idle"
            /\ handler'[g].node = handler[g].node
            /\ handler'[g].revision = handler[g].revision
            /\ handler'[g].pc = "claimed" => handler[g].pc = "claimed"
            /\ handler'[g].marked = handler[g].marked
      BY <2>2 DEF Lookup, AnswerLookup, Dispatch, TypeOK, Local
    <3>3. QED
      BY <3>1, <3>2, ClaimsKept
  <2>3. CASE MarkDispatchStarted(h)
    <3>0. InFlight(h)
      BY <2>3 DEF MarkDispatchStarted, ReadyToDispatch, InFlight
    <3>1. CASE Current(h)
      <4> DEFINE n == handler[h].node
      <4>1. copy' = [copy EXCEPT ![n].marked = TRUE] /\ handler' = [handler EXCEPT ![h].pc = "marked"]
        BY <2>3, <3>1 DEF MarkDispatchStarted
      <4>2. \A m \in Nodes : /\ copy'[m].revision = copy[m].revision
                             /\ copy'[m].status = copy[m].status
                             /\ m # n => copy'[m] = copy[m]
        BY <1>0, <4>1 DEF Row
      <4>3. \A g \in Handlers : /\ handler'[g].node = handler[g].node
                                /\ handler'[g].revision = handler[g].revision
                                /\ handler'[g].marked = handler[g].marked
                                /\ g # h => handler'[g] = handler[g]
        BY <4>1 DEF TypeOK, Local
      <4>4. handler'[h].pc = "marked"
        BY <4>1 DEF TypeOK, Local
      <4>5. ClaimsReached' /\ ClaimsDiffer'
        BY <1>0, <3>0, <4>2, <4>3, <4>4 DEF Claims, ClaimsReached, ClaimsDiffer, InFlight
      <4>6. Unmarked'
        <5> SUFFICES ASSUME NEW g \in Handlers, handler'[g].pc = "claimed", Current(g)',
                            ~handler'[g].marked
                     PROVE  ~copy'[handler'[g].node].marked
          BY DEF Unmarked
        <5>1. g # h /\ handler[g].pc = "claimed" /\ handler[g].node \in Nodes
          BY <1>0, <4>3, <4>4
        <5>2. Current(g) /\ ~handler[g].marked
          BY <4>2, <4>3, <5>1 DEF Current
        <5>3. handler[g].node # n
          BY <3>0, <3>1, <5>1, <5>2 DEF Current, Claims, ClaimsDiffer, InFlight
        <5>4. QED
          BY <4>2, <4>3, <5>1, <5>2, <5>3 DEF Claims, Unmarked
      <4>7. QED
        BY <4>5, <4>6 DEF Claims
    <3>2. CASE ~Current(h)
      <4>1. Finish(h) /\ UNCHANGED copy
        BY <2>3, <3>2 DEF MarkDispatchStarted
      <4>2. \A g \in Handlers : handler'[g].pc # "idle" => handler'[g] = handler[g]
        BY <4>1, FinishType
      <4>3. QED
        BY <4>1, <4>2, ClaimsKept
    <3>3. QED
      BY <3>1, <3>2
  <2>4. CASE Deliver(h)
    BY <2>4, ClaimsAtEnd DEF Deliver, InFlight, Terminal
  <2>5. CASE Throws(h)
    BY <2>5, ClaimsAtEnd DEF Throws, InFlight, Terminal
  <2>6. QED
    BY <1>2, <2>1, <2>2, <2>3, <2>4, <2>5 DEF HandlerStep
<1>3. ASSUME NEW h \in Handlers, NEW n \in Nodes, Claim(h, n) PROVE Claims'
  <2>1. /\ copy'[n].revision = copy[n].revision + 1
        /\ copy'[n].marked = copy[n].marked
        /\ \A m \in Nodes : m # n => copy'[m] = copy[m]
    BY <1>0, <1>3 DEF Claim, Row
  <2>2. /\ handler'[h].node = n
        /\ handler'[h].revision = copy[n].revision + 1
        /\ handler'[h].marked = copy[n].marked
        /\ \A g \in Handlers : g # h => handler'[g] = handler[g]
    BY <1>3 DEF Claim, TypeOK
  <2>3. \A g \in Handlers : handler[g].pc # "idle" =>
          handler[g].revision \in Nat /\ handler[g].revision <= copy[handler[g].node].revision
    BY DEF TypeOK, Local, Claims, ClaimsReached, InFlight
  <2>4. ClaimsReached'
    BY <1>0, <2>1, <2>2, <2>3 DEF ClaimsReached, InFlight
  <2>5. ClaimsDiffer'
    BY <1>0, <2>1, <2>2, <2>3 DEF Claims, ClaimsDiffer, InFlight
  <2>6. Unmarked'
    <3> SUFFICES ASSUME NEW g \in Handlers, handler'[g].pc = "claimed", Current(g)',
                        ~handler'[g].marked
                 PROVE  ~copy'[handler'[g].node].marked
      BY DEF Unmarked
    <3>1. CASE g = h
      BY <2>1, <2>2, <3>1
    <3>2. CASE g # h
      <4>1. handler[g].pc = "claimed" /\ handler'[g] = handler[g]
        BY <2>2, <3>2
      <4>2. handler[g].node # n
        BY <1>0, <2>1, <2>3, <4>1 DEF Current
      <4>3. copy'[handler[g].node] = copy[handler[g].node]
        BY <1>0, <2>1, <4>1, <4>2
      <4>4. QED
        BY <4>1, <4>3 DEF Claims, Unmarked, Current
    <3>3. QED
      BY <3>1, <3>2
  <2>7. QED
    BY <2>4, <2>5, <2>6 DEF Claims
<1>4. ASSUME NEW r \in wire, Accept(r) PROVE Claims'
  BY <1>4, ClaimsKept DEF Accept
<1>5. ASSUME NEW n \in Nodes, Claimable(n) PROVE Claims'
  BY <1>5, ClaimsKept DEF Claimable
<1>6. ASSUME NEW n \in Nodes, Replicate(n) PROVE Claims'
  BY <1>6, ClaimsKept DEF Replicate
<1>7. ASSUME NEW n \in Nodes, NEW remaining \in SUBSET owners, n \notin remaining,
             Restore(n, remaining)
      PROVE  Claims'
  <2>1. \A m \in remaining : copy'[m] = copy[m]
    BY <1>7, RemainingType DEF Restore, TypeOK
  <2>2. \A h \in Handlers : handler'[h].pc # "idle" => handler'[h] = handler[h]
                                                       /\ handler[h].node \in remaining
    BY <1>7, RemainingType DEF Restore
  <2>3. QED
    BY <2>1, <2>2, ClaimsKept
<1>8. ASSUME NEW n \in Nodes, StepDown(n) PROVE Claims'
  <2>1. \A m \in owners \ {n} : copy'[m] = copy[m]
    BY <1>8, RemainingType DEF StepDown
  <2>2. \A h \in Handlers : handler'[h].pc # "idle" => handler'[h] = handler[h]
                                                       /\ handler[h].node \in owners \ {n}
    BY <1>8, RemainingType DEF StepDown
  <2>3. QED
    BY <2>1, <2>2, ClaimsKept
<1>9. QED
  BY <1>1, <1>2, <1>3, <1>4, <1>5, <1>6, <1>7, <1>8, RestoreKinds DEF Next

LEMMA ClaimsInit == Init => Claims
BY DEF Init, Claims, ClaimsReached, ClaimsDiffer, Unmarked, InFlight, Idle

-----------------------------------------------------------------------------
(* Calls.  Every setting of a marker entitles to one call: to those made and *)
(* to those handlers are about to make. *)
AboutToCall == {h \in Handlers : handler[h].pc = "marked"}
CallsPaid == safety = "unsafe" => requests + Cardinality(AboutToCall) <= markings

LEMMA CallersFinite ==
  IsFiniteSet(AboutToCall) /\ Cardinality(AboutToCall) \in Nat
BY BoundaryAssumption, FS_Subset, FS_CardinalityType DEF AboutToCall

LEMMA CallsKept ==
  ASSUME TypeOK, CallsPaid, safety' = safety, requests' = requests, markings' = markings,
         \A h \in Handlers : handler'[h].pc = "marked" => handler[h].pc = "marked"
  PROVE  CallsPaid'
<1>1. AboutToCall' \subseteq AboutToCall
  BY DEF AboutToCall
<1>2. Cardinality(AboutToCall') <= Cardinality(AboutToCall) /\ Cardinality(AboutToCall') \in Nat
  BY <1>1, CallersFinite, FS_Subset, FS_CardinalityType
<1>3. QED
  BY <1>2, CallersFinite DEF CallsPaid, TypeOK

LEMMA CallsStep == TypeOK /\ Markers /\ Claims /\ CallsPaid /\ [Next]_vars => CallsPaid'
<1> SUFFICES ASSUME TypeOK, Markers, Claims, CallsPaid, [Next]_vars PROVE CallsPaid'
  OBVIOUS
<1> USE DEF node, receiver
<1>0. requests \in Nat /\ markings \in Nat
  BY DEF TypeOK
<1>1. CASE UNCHANGED vars
  BY <1>1, CallsKept DEF vars
<1>2. ASSUME NEW h \in Handlers, HandlerStep(h) PROVE CallsPaid'
  <2>1. CASE DeclareAmbiguous(h) \/ Deliver(h) \/ Throws(h)
    <3>1. Finish(h) /\ UNCHANGED <<safety, requests, markings>>
      BY <2>1 DEF DeclareAmbiguous, Deliver, Throws
    <3>2. QED
      BY <3>1, FinishType, CallsKept
  <2>2. CASE Lookup(h) \/ AnswerLookup(h)
    <3>1. \A g \in Handlers : handler'[g].pc = "marked" => handler[g].pc = "marked"
      BY <2>2 DEF Lookup, AnswerLookup, TypeOK, Local
    <3>2. QED
      BY <2>2, <3>1, CallsKept DEF Lookup, AnswerLookup
  <2>3. CASE MarkDispatchStarted(h) /\ ~Current(h)
    BY <2>3, FinishType, CallsKept DEF MarkDispatchStarted
  <2>4. CASE MarkDispatchStarted(h) /\ Current(h)
    <3> SUFFICES ASSUME safety = "unsafe" PROVE CallsPaid'
      BY <2>4 DEF MarkDispatchStarted, CallsPaid
    <3>1. handler[h].pc = "claimed" /\ ~handler[h].marked
      BY <2>4 DEF MarkDispatchStarted, ReadyToDispatch, MayHaveBeenSent, Markers,
                  MarkersTold, InFlight
    <3>2. markings' = markings + 1
      BY <2>4, <3>1 DEF MarkDispatchStarted, Claims, Unmarked
    <3>3. AboutToCall' = AboutToCall \cup {h} /\ h \notin AboutToCall
      BY <2>4, <3>1 DEF MarkDispatchStarted, AboutToCall, TypeOK, Local
    <3>4. Cardinality(AboutToCall') = Cardinality(AboutToCall) + 1
      BY <3>3, CallersFinite, FS_AddElement
    <3>5. safety' = safety /\ requests' = requests
      BY <2>4 DEF MarkDispatchStarted
    <3>6. QED
      BY <1>0, <3>2, <3>4, <3>5, CallersFinite DEF CallsPaid
  <2>5. CASE Dispatch(h)
    <3>1. AboutToCall' = AboutToCall \ {h} /\ h \in AboutToCall
      BY <2>5 DEF Dispatch, AboutToCall, TypeOK, Local
    <3>2. Cardinality(AboutToCall') = Cardinality(AboutToCall) - 1
      BY <3>1, CallersFinite, FS_RemoveElement
    <3>3. safety' = safety /\ requests' = requests + 1 /\ markings' = markings
      BY <2>5 DEF Dispatch
    <3>4. QED
      BY <1>0, <3>2, <3>3, CallersFinite DEF CallsPaid
  <2>6. QED
    BY <1>2, <2>1, <2>2, <2>3, <2>4, <2>5 DEF HandlerStep
<1>3. ASSUME NEW h \in Handlers, NEW n \in Nodes, Claim(h, n) PROVE CallsPaid'
  <2>1. \A g \in Handlers : handler'[g].pc = "marked" => handler[g].pc = "marked"
    BY <1>3 DEF Claim, TypeOK
  <2>2. UNCHANGED <<safety, requests, markings>>
    BY <1>3 DEF Claim
  <2>3. QED
    BY <2>1, <2>2, CallsKept
<1>4. ASSUME NEW r \in wire, Accept(r) PROVE CallsPaid'
  BY <1>4, CallsKept DEF Accept
<1>5. ASSUME NEW n \in Nodes, Claimable(n) PROVE CallsPaid'
  BY <1>5, CallsKept DEF Claimable
<1>6. ASSUME NEW n \in Nodes, Replicate(n) PROVE CallsPaid'
  BY <1>6, CallsKept DEF Replicate
<1>7. ASSUME NEW n \in Nodes, NEW remaining \in SUBSET owners, Restore(n, remaining)
      PROVE  CallsPaid'
  BY <1>7, RemainingType, CallsKept DEF Restore
<1>8. ASSUME NEW n \in Nodes, StepDown(n) PROVE CallsPaid'
  BY <1>8, RemainingType, CallsKept DEF StepDown
<1>9. QED
  BY <1>1, <1>2, <1>3, <1>4, <1>5, <1>6, <1>7, <1>8, RestoreKinds DEF Next

LEMMA CallsInit == Init => CallsPaid
<1> SUFFICES ASSUME Init PROVE CallsPaid
  OBVIOUS
<1>1. AboutToCall = {}
  BY DEF Init, AboutToCall, Idle
<1>2. QED
  BY <1>1, FS_EmptySet DEF Init, CallsPaid

(* However many owners, crashes and expired leases there are, an unsafe      *)
(* action is never called more often than its marker was set in a copy that  *)
(* lacked it. *)
THEOREM RepeatsAreLostMarkers == Spec => []UnsafeRepeatsLostMarker
<1>1. TypeOK /\ CallsPaid => UnsafeRepeatsLostMarker
  BY CallersFinite DEF CallsPaid, UnsafeRepeatsLostMarker, TypeOK
<1>2. QED
  BY <1>1, InitType, NextType, MarkersInit, MarkersStep, ClaimsInit, ClaimsStep,
     CallsInit, CallsStep, PTL DEF Spec

-----------------------------------------------------------------------------
(* Redispatch.  What the run boundary_converges assumes: a request vanishes  *)
(* with its sender, one node serves the cell at a time, and no lease ends    *)
(* under a live handler that holds it. *)
CallsAreContained == OrphansDrop /\ ~DualOwners /\ MaxExpiries = 0

(* Then every handler works on the one copy, under a claim nobody can take   *)
(* from it, and a handler told that there is no job is still right when it   *)
(* calls. *)
OneOwner == \E n \in Nodes : owners = {n}
ClaimsHold == \A h \in Handlers : InFlight(h) => Current(h) /\ ~due[handler[h].node]
AbsenceHolds ==
  \A h \in Handlers :
    \/ handler[h].pc = "absent"
    \/ handler[h].pc = "marked" /\ safety = "reconcilable"
    => jobs = 0

Contained == OneOwner /\ ClaimsHold /\ AbsenceHolds

(* Two claims on one copy that are both current are one. *)
LEMMA OneHandler ==
  ASSUME TypeOK, Claims, OneOwner, ClaimsHold,
         NEW g \in Handlers, NEW h \in Handlers, InFlight(g), InFlight(h)
  PROVE  g = h
<1>1. handler[g].node = handler[h].node
  BY DEF TypeOK, OneOwner, InFlight
<1>2. handler[g].revision = handler[h].revision
  BY <1>1 DEF ClaimsHold, Current
<1>3. QED
  BY <1>1, <1>2 DEF Claims, ClaimsDiffer

(* After the only handler has ended nothing is left to hold a claim. *)
LEMMA ContainedAtEnd ==
  ASSUME TypeOK, Claims, Contained, NEW h \in Handlers, InFlight(h), Finish(h),
         owners' = owners
  PROVE  Contained'
<1>1. \A g \in Handlers : handler'[g].pc = "idle"
  <2> SUFFICES ASSUME NEW g \in Handlers, handler'[g].pc # "idle" PROVE FALSE
    OBVIOUS
  <2>1. g # h /\ InFlight(g)
    BY FinishType DEF InFlight
  <2>2. QED
    BY <2>1, OneHandler DEF Contained
<1>2. QED
  BY <1>1 DEF Contained, OneOwner, ClaimsHold, AbsenceHolds, InFlight

(* A handler that goes on keeps its claim if its copy and due do not move. *)
LEMMA ContainedGoesOn ==
  ASSUME TypeOK, Contained, owners' = owners, due' = due, jobs' = jobs,
         \A n \in Nodes : copy'[n].status = copy[n].status /\ copy'[n].revision = copy[n].revision,
         \A h \in Handlers : handler'[h].pc # "idle" =>
           /\ handler[h].pc # "idle"
           /\ handler'[h].node = handler[h].node
           /\ handler'[h].revision = handler[h].revision
           /\ \/ handler'[h].pc = "absent"
              \/ handler'[h].pc = "marked" /\ safety' = "reconcilable"
              => jobs = 0
  PROVE  Contained'
<1>1. OneOwner' /\ AbsenceHolds'
  BY DEF Contained, OneOwner, AbsenceHolds
<1>2. ClaimsHold'
  BY DEF Contained, ClaimsHold, Current, InFlight, TypeOK
<1>3. QED
  BY <1>1, <1>2 DEF Contained

LEMMA ContainedStep ==
  ASSUME CallsAreContained
  PROVE  TypeOK /\ Claims /\ Contained /\ [Next]_vars => Contained'
<1> SUFFICES ASSUME TypeOK, Claims, Contained, [Next]_vars PROVE Contained'
  OBVIOUS
<1> USE DEF node, receiver
<1>0. /\ \A h \in Handlers : InFlight(h) => handler[h].node \in Nodes /\ handler[h].node \in owners
      /\ jobs \in Nat
  BY DEF TypeOK, InFlight
<1>1. CASE UNCHANGED vars
  BY <1>1 DEF vars, Contained, OneOwner, ClaimsHold, AbsenceHolds, InFlight, Current
<1>2. ASSUME NEW h \in Handlers, HandlerStep(h) PROVE Contained'
  <2>1. CASE DeclareAmbiguous(h) \/ Deliver(h) \/ Throws(h)
    BY <2>1, ContainedAtEnd DEF DeclareAmbiguous, Deliver, Throws, InFlight
  <2>2. CASE Lookup(h)
    <3>1. \A g \in Handlers : \/ handler'[g] = handler[g]
                              \/ /\ handler'[g].pc = "looking_up" /\ handler[g].pc # "idle"
                                 /\ handler'[g].node = handler[g].node
                                 /\ handler'[g].revision = handler[g].revision
      BY <2>2 DEF Lookup, TypeOK, Local
    <3>2. UNCHANGED <<owners, due, jobs, copy, safety>>
      BY <2>2 DEF Lookup
    <3>3. QED
      BY <3>1, <3>2, ContainedGoesOn DEF Contained, AbsenceHolds
  <2>3. CASE AnswerLookup(h)
    <3>1. \A g \in Handlers : \/ handler'[g] = handler[g]
                              \/ /\ handler'[g].pc = IF jobs > 0 THEN "found" ELSE "absent"
                                 /\ handler[g].pc # "idle"
                                 /\ handler'[g].node = handler[g].node
                                 /\ handler'[g].revision = handler[g].revision
      BY <2>3 DEF AnswerLookup, JobExists, TypeOK, Local
    <3>2. UNCHANGED <<owners, due, jobs, copy, safety>>
      BY <2>3 DEF AnswerLookup
    <3>3. \A g \in Handlers : handler'[g].pc # "idle" =>
           /\ handler[g].pc # "idle"
           /\ handler'[g].node = handler[g].node
           /\ handler'[g].revision = handler[g].revision
           /\ \/ handler'[g].pc = "absent"
              \/ handler'[g].pc = "marked" /\ safety' = "reconcilable"
              => jobs = 0
      BY <1>0, <3>1, <3>2 DEF Contained, AbsenceHolds
    <3>4. QED
      BY <3>2, <3>3, ContainedGoesOn
  <2>4. CASE MarkDispatchStarted(h)
    <3>0. InFlight(h)
      BY <2>4 DEF MarkDispatchStarted, ReadyToDispatch, InFlight
    <3>1. CASE ~Current(h)
      BY <2>4, <3>0, <3>1, ContainedAtEnd DEF MarkDispatchStarted
    <3>2. CASE Current(h)
      <4>1. \A n \in Nodes : copy'[n].status = copy[n].status
                             /\ copy'[n].revision = copy[n].revision
        BY <2>4, <3>2 DEF MarkDispatchStarted, TypeOK, Row
      <4>2. \A g \in Handlers : \/ handler'[g] = handler[g]
                                \/ /\ g = h /\ handler'[g].pc = "marked"
                                   /\ handler'[g].node = handler[g].node
                                   /\ handler'[g].revision = handler[g].revision
        BY <2>4, <3>2 DEF MarkDispatchStarted, TypeOK, Local
      <4>3. safety = "reconcilable" => jobs = 0
        BY <2>4 DEF MarkDispatchStarted, ReadyToDispatch, Contained, AbsenceHolds
      <4>4. UNCHANGED <<owners, due, jobs, safety>>
        BY <2>4 DEF MarkDispatchStarted
      <4>5. QED
        BY <3>0, <4>1, <4>2, <4>3, <4>4, ContainedGoesOn DEF Contained, AbsenceHolds, InFlight
    <3>3. QED
      BY <3>1, <3>2
  <2>5. CASE Dispatch(h)
    <3>1. \A g \in Handlers : \/ handler'[g] = handler[g]
                              \/ /\ handler'[g].pc = "executing" /\ handler[g].pc # "idle"
                                 /\ handler'[g].node = handler[g].node
                                 /\ handler'[g].revision = handler[g].revision
      BY <2>5 DEF Dispatch, TypeOK, Local
    <3>2. UNCHANGED <<owners, due, jobs, copy, safety>>
      BY <2>5 DEF Dispatch
    <3>3. QED
      BY <3>1, <3>2, ContainedGoesOn DEF Contained, AbsenceHolds
  <2>6. QED
    BY <1>2, <2>1, <2>2, <2>3, <2>4, <2>5 DEF HandlerStep
<1>3. ASSUME NEW h \in Handlers, NEW n \in Nodes, Claim(h, n) PROVE Contained'
  <2>1. n \in owners /\ due[n]
    BY <1>3 DEF Claim, Selectable
  <2>2. \A g \in Handlers : ~InFlight(g)
    BY <1>0, <2>1 DEF Contained, OneOwner, ClaimsHold
  <2>3. /\ copy'[n].status = "delivering"
        /\ copy'[n].revision = copy[n].revision + 1
        /\ ~due'[n]
    BY <1>3 DEF Claim, TypeOK, Row
  <2>4. /\ handler'[h].pc = "claimed" /\ handler'[h].node = n
        /\ handler'[h].revision = copy[n].revision + 1
        /\ \A g \in Handlers : g # h => handler'[g] = handler[g]
    BY <1>3 DEF Claim, TypeOK
  <2>5. ClaimsHold'
    BY <2>2, <2>3, <2>4 DEF ClaimsHold, Current, InFlight
  <2>6. OneOwner' /\ AbsenceHolds'
    BY <1>3, <2>2, <2>4 DEF Claim, Contained, OneOwner, AbsenceHolds, InFlight
  <2>7. QED
    BY <2>5, <2>6 DEF Contained
<1>4. ASSUME NEW r \in wire, Accept(r) PROVE Contained'
  <2>1. PICK g \in Handlers : handler[g].pc = "executing"
    BY <1>4 DEF Accept, Awaited, CallsAreContained
  <2>2. \A h \in Handlers : handler[h].pc \notin {"absent", "marked"}
    BY <2>1, OneHandler DEF Contained, InFlight
  <2>3. QED
    BY <1>4, <2>2 DEF Accept, Contained, OneOwner, ClaimsHold, AbsenceHolds, InFlight, Current
<1>5. ASSUME NEW n \in Nodes, Claimable(n) PROVE Contained'
  <2>1. \A h \in Handlers : InFlight(h) => handler[h].node # n
    <3> SUFFICES ASSUME NEW h \in Handlers, InFlight(h), handler[h].node = n PROVE FALSE
      OBVIOUS
    <3>1. Current(h)
      BY DEF Contained, ClaimsHold
    <3>2. expiries < MaxExpiries
      BY <1>5, <3>1 DEF Claimable, InFlight
    <3>3. QED
      BY <3>2 DEF CallsAreContained, TypeOK
  <2>2. \A m \in Nodes : m # n => due'[m] = due[m]
    BY <1>5 DEF Claimable, TypeOK
  <2>3. UNCHANGED <<owners, copy, handler, jobs, safety>>
    BY <1>5 DEF Claimable
  <2>4. ClaimsHold'
    BY <1>0, <2>1, <2>2, <2>3 DEF Contained, ClaimsHold, Current, InFlight
  <2>5. QED
    BY <2>3, <2>4 DEF Contained, OneOwner, AbsenceHolds
<1>6. ASSUME NEW n \in Nodes, Replicate(n) PROVE Contained'
  BY <1>6 DEF Replicate, Contained, OneOwner, ClaimsHold, AbsenceHolds, InFlight, Current
<1>7. ASSUME NEW n \in Nodes, Restart(n) \/ TakeOver(n) PROVE Contained'
  <2>1. Restore(n, {})
    BY <1>7 DEF Restart, TakeOver, Contained, OneOwner, CallsAreContained
  <2>2. owners' = {n}
    BY <2>1 DEF Restore
  <2>3. \A h \in Handlers : handler'[h].pc = "idle"
    BY <2>1 DEF Restore, HandlersOn, Idle
  <2>4. QED
    BY <2>2, <2>3 DEF Contained, OneOwner, ClaimsHold, AbsenceHolds, InFlight
<1>8. ASSUME NEW n \in Nodes, StepDown(n) PROVE Contained'
  BY <1>8 DEF StepDown, Contained, OneOwner
<1>9. QED
  BY <1>1, <1>2, <1>3, <1>4, <1>5, <1>6, <1>7, <1>8 DEF Next

LEMMA ContainedInit == Init => Contained
BY DEF Init, Contained, OneOwner, ClaimsHold, AbsenceHolds, InFlight, Idle

(* Only a dispatch makes a request, and no handler is about to dispatch a    *)
(* reconcilable action that has its job. *)
LEMMA NoRedispatchStep ==
  TypeOK /\ Contained /\ [Next]_vars
    => [safety = "reconcilable" /\ jobs > 0 => requests' = requests]_vars
<1> SUFFICES ASSUME TypeOK, Contained, Next, safety = "reconcilable", jobs > 0
             PROVE  requests' = requests
  OBVIOUS
<1>1. \A h \in Handlers : handler[h].pc # "marked"
  BY DEF Contained, AbsenceHolds, TypeOK
<1>2. ASSUME NEW h \in Handlers, HandlerStep(h) PROVE requests' = requests
  BY <1>1, <1>2 DEF HandlerStep, DeclareAmbiguous, Lookup, AnswerLookup, MarkDispatchStarted,
                    Dispatch, Deliver, Throws
<1>3. QED
  BY <1>2 DEF Next, Claim, Accept, Claimable, Replicate, Restart, TakeOver, Restore, StepDown

(* However many nodes, handlers and restores there are, a reconcilable       *)
(* action whose job the receiver has is not sent again, where requests do    *)
(* not outlive their senders, one node serves the cell and leases outlast    *)
(* the calls made under them. *)
THEOREM AcceptedIsNotRedispatched ==
  ASSUME CallsAreContained
  PROVE  Spec => NoRedispatchAfterAcceptance
<1>1. QED
  BY InitType, NextType, ClaimsInit, ClaimsStep, ContainedInit, ContainedStep,
     NoRedispatchStep, PTL DEF Spec, NoRedispatchAfterAcceptance
=============================================================================
