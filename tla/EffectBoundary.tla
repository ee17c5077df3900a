---------------------------- MODULE EffectBoundary ----------------------------
(***************************************************************************)
(* One external action between the nodes that may own its cell, the bucket *)
(* they restore the cell from, and the receiver of the effect: the action  *)
(* lane of src/src/protein-agent.ts under the faults the harnesses         *)
(* src/scripts/action-crash-matrix.mjs and ownership-chaos.mjs inject.     *)
(*                                                                         *)
(* Module ProteinCell keeps the tables over a crash.  Here a node that     *)
(* starts has only what reached the bucket, which lags behind the node     *)
(* that wrote it, and a second node may take the cell over while the first *)
(* still serves it.  Every node runs the same code on its own copy of the  *)
(* action row.  The receiver is the job ledger of proof-controller.mjs,    *)
(* keyed by the action id.  The outcome event, written with the receipt,   *)
(* is left to ProteinCell.                                                 *)
(***************************************************************************)
EXTENDS Naturals, FiniteSets

CONSTANTS
  Nodes,          \* nodes of the host that may own the cell
  Handlers,       \* slots for alarm handlers in flight, on any node
  Safeties,       \* the safety classes to consider
  MaxAttempts,    \* maxActionAttempts
  OrphansDrop,    \* does a request vanish when its sender stops waiting?
  DualOwners,     \* may a node take over while another serves the cell?
  MaxExpiries,    \* bound of the model: leases that end under a live handler
  MaxRestores,    \* bound of the model: starts of a node from the bucket
  None

Open == {"pending", "delivering"}
Terminal == {"delivered", "failed", "ambiguous"}
Row == [status : Open \cup Terminal, revision : Nat, attempts : Nat, marked : BOOLEAN]
Pc == {"idle", "claimed", "looking_up", "found", "absent", "marked", "executing"}

ASSUME BoundaryAssumption ==
  /\ Safeties \subseteq {"idempotent", "reconcilable", "unsafe"}
  /\ MaxAttempts \in Nat \ {0}
  /\ {OrphansDrop, DualOwners} \subseteq BOOLEAN
  /\ {MaxExpiries, MaxRestores} \subseteq Nat
  /\ None \notin Nodes
  /\ IsFiniteSet(Handlers)

VARIABLES
  safety,    \* the safety class of the action
  owners,    \* nodes that serve the cell
  copy,      \* per node, its row of protein_actions
  due,       \* per node, may the row be claimed now?
  bucket,    \* the row as it was replicated last
  handler,   \* local variables of the alarm handlers in flight
  requests,  \* executeAction() calls so far; they are numbered
  wire,      \* requests the receiver has not accepted
  jobs,      \* logical jobs the receiver created
  markings,  \* times a copy went from unmarked to marked
  expiries, restores

node == <<owners, bucket, restores>>
receiver == <<wire, jobs>>
vars == <<safety, owners, copy, due, bucket, handler, requests, wire, jobs, markings,
          expiries, restores>>

Intended == [status |-> "pending", revision |-> 0, attempts |-> 0, marked |-> FALSE]
Idle == [pc |-> "idle", node |-> None, revision |-> 0, attempt |-> 0, marked |-> FALSE,
         request |-> 0]
Local == [pc : Pc, node : Nodes \cup {None}, revision : Nat, attempt : Nat,
          marked : BOOLEAN, request : Nat]

(* The intent was committed and replicated, and one node owns the cell. *)
Init ==
  /\ safety \in Safeties
  /\ \E n \in Nodes : owners = {n}
  /\ copy = [n \in Nodes |-> Intended]
  /\ due = [n \in Nodes |-> n \in owners]
  /\ bucket = Intended
  /\ handler = [h \in Handlers |-> Idle]
  /\ requests = 0
  /\ wire = {}
  /\ jobs = 0
  /\ markings = 0
  /\ expiries = 0
  /\ restores = 0

-----------------------------------------------------------------------------
PendingOnly(n) == copy[n].status = "pending" /\ due[n]   \* a fault: expired leases are not seen
Selectable(n) == copy[n].status \in Open /\ due[n]

(* nextRunnableAction() and claimAction(), on the copy of node n. *)
Claim(h, n) ==
  /\ handler[h].pc = "idle"
  /\ n \in owners
  /\ Selectable(n)
  /\ copy' = [copy EXCEPT ![n].status = "delivering", ![n].revision = @ + 1,
                          ![n].attempts = @ + 1]
  /\ due' = [due EXCEPT ![n] = FALSE]
  /\ handler' = [handler EXCEPT ![h] =
       [pc |-> "claimed", node |-> n, revision |-> copy[n].revision + 1,
        attempt |-> copy[n].attempts + 1, marked |-> copy[n].marked, request |-> 0]]
  /\ UNCHANGED <<safety, node, requests, receiver, markings, expiries>>

Current(h) ==
  LET row == copy[handler[h].node]
  IN  row.status = "delivering" /\ row.revision = handler[h].revision

Finish(h) == handler' = [handler EXCEPT ![h] = Idle]

(* commitActionOutcome(): nothing happens when the claim is stale. *)
CommitOutcome(h, status) ==
  /\ copy' = IF Current(h)
             THEN [copy EXCEPT ![handler[h].node].status = status,
                               ![handler[h].node].revision = @ + 1]
             ELSE copy
  /\ UNCHANGED due

(* failOrRetryAction() *)
FailOrRetry(h) ==
  LET n == handler[h].node
      terminal == handler[h].attempt >= MaxAttempts
  IN  /\ copy' = IF copy[n].revision = handler[h].revision
                 THEN [copy EXCEPT ![n].status = IF terminal THEN "failed" ELSE "pending",
                                   ![n].revision = @ + 1]
                 ELSE copy
      /\ due' = IF copy[n].revision = handler[h].revision
                THEN [due EXCEPT ![n] = FALSE] ELSE due

MarkerIgnored(h) == FALSE   \* a fault: an unsafe action is sent whatever was marked
(* The marker that the claim read says an earlier attempt may have called. *)
MayHaveBeenSent(h) == safety = "unsafe" /\ handler[h].marked

DeclareAmbiguous(h) ==
  /\ handler[h].pc = "claimed"
  /\ MayHaveBeenSent(h)
  /\ CommitOutcome(h, "ambiguous")
  /\ Finish(h)
  /\ UNCHANGED <<safety, node, requests, receiver, markings, expiries>>

(* reconcileAction() asks the receiver by the action id ... *)
Lookup(h) ==
  /\ handler[h].pc = "claimed"
  /\ safety = "reconcilable"
  /\ handler' = [handler EXCEPT ![h].pc = "looking_up"]
  /\ UNCHANGED <<safety, node, copy, due, requests, receiver, markings, expiries>>

(* ... and the receiver answers with the job it has by then, or with 404. *)
AlwaysFound == TRUE   \* a fault: a 404 is taken for a result
JobExists == jobs > 0
AnswerLookup(h) ==
  /\ handler[h].pc = "looking_up"
  /\ handler' = [handler EXCEPT ![h].pc = IF JobExists THEN "found" ELSE "absent"]
  /\ UNCHANGED <<safety, node, copy, due, requests, receiver, markings, expiries>>

SkipLookup(h) ==   \* a fault: a retry is sent without asking
  \/ handler[h].pc = "claimed" /\ ~MayHaveBeenSent(h)
  \/ handler[h].pc = "absent"
ReadyToDispatch(h) ==
  \/ handler[h].pc = "claimed" /\ safety # "reconcilable" /\ ~MayHaveBeenSent(h)
  \/ handler[h].pc = "absent"

(* markActionDispatchStarted() *)
MarkDispatchStarted(h) ==
  LET n == handler[h].node IN
  /\ ReadyToDispatch(h)
  /\ IF Current(h)
     THEN /\ handler' = [handler EXCEPT ![h].pc = "marked"]
          /\ copy' = [copy EXCEPT ![n].marked = TRUE]
          /\ markings' = IF copy[n].marked THEN markings ELSE markings + 1
     ELSE Finish(h) /\ UNCHANGED <<copy, markings>>
  /\ UNCHANGED <<safety, node, due, requests, receiver, expiries>>

(* executeAction() *)
Dispatch(h) ==
  /\ handler[h].pc = "marked"
  /\ handler' = [handler EXCEPT ![h].pc = "executing", ![h].request = requests + 1]
  /\ requests' = requests + 1
  /\ wire' = wire \cup {requests + 1}
  /\ UNCHANGED <<safety, node, copy, due, jobs, markings, expiries>>

Awaited(r) == \E h \in Handlers : handler[h].pc = "executing" /\ handler[h].request = r

(* The receiver accepts a request: a new job, or the one the key has already. *)
Accept(r) ==
  /\ r \in wire
  /\ OrphansDrop => Awaited(r)
  /\ wire' = wire \ {r}
  /\ jobs' = IF JobExists THEN jobs ELSE jobs + 1
  /\ UNCHANGED <<safety, node, copy, due, handler, requests, markings, expiries>>

(* A response, or a result that the lookup found, is committed. *)
Deliver(h) ==
  /\ \/ handler[h].pc = "executing" /\ handler[h].request \notin wire
     \/ handler[h].pc = "found"
  /\ CommitOutcome(h, "delivered")
  /\ Finish(h)
  /\ UNCHANGED <<safety, node, requests, receiver, markings, expiries>>

(* A call fails, or its response is lost: the catch block. *)
Throws(h) ==
  /\ handler[h].pc \in {"looking_up", "marked", "executing"}
  /\ IF safety = "unsafe" THEN CommitOutcome(h, "ambiguous") ELSE FailOrRetry(h)
  /\ Finish(h)
  /\ UNCHANGED <<safety, node, requests, receiver, markings, expiries>>

HandlerStep(h) ==
  \/ DeclareAmbiguous(h) \/ Lookup(h) \/ AnswerLookup(h) \/ MarkDispatchStarted(h)
  \/ Dispatch(h) \/ Deliver(h) \/ Throws(h)

-----------------------------------------------------------------------------
(* A retry delay or a lease runs out; under a live handler a bounded number  *)
(* of times. *)
Claimable(n) ==
  /\ n \in owners
  /\ copy[n].status \in Open
  /\ ~due[n]
  /\ due' = [due EXCEPT ![n] = TRUE]
  /\ IF \E h \in Handlers : handler[h].pc # "idle" /\ handler[h].node = n /\ Current(h)
     THEN expiries < MaxExpiries /\ expiries' = expiries + 1
     ELSE UNCHANGED expiries
  /\ UNCHANGED <<safety, node, copy, handler, requests, receiver, markings>>

(* The host replicates a copy whenever it likes. *)
Replicate(n) ==
  /\ n \in owners
  /\ bucket' = copy[n]
  /\ UNCHANGED <<safety, owners, copy, due, handler, requests, receiver, markings,
                 expiries, restores>>

(* A node that stops serving the cell takes its handlers and its copy along. *)
HandlersOn(remaining) ==
  [h \in Handlers |-> IF handler[h].node \in remaining THEN handler[h] ELSE Idle]
CopiesOn(remaining) ==
  [n \in Nodes |-> IF n \in remaining THEN copy[n] ELSE Intended]

(* A node is killed, its watch directory discarded, and it starts again on   *)
(* the replica; or a node that did not serve the cell takes it over, with    *)
(* the former owners gone or, under clock skew, still serving.               *)
Restore(n, remaining) ==
  /\ restores < MaxRestores
  /\ restores' = restores + 1
  /\ owners' = remaining \cup {n}
  /\ copy' = [CopiesOn(remaining) EXCEPT ![n] = bucket]
  /\ due' = [m \in Nodes |-> m \in remaining /\ due[m]]
  /\ handler' = HandlersOn(remaining)
  /\ UNCHANGED <<safety, bucket, requests, receiver, markings, expiries>>

Restart(n) == n \in owners /\ Restore(n, owners \ {n})
TakeOver(n) ==
  /\ n \notin owners
  /\ \/ DualOwners /\ Restore(n, owners)
     \/ Restore(n, {})

(* The topology heals: one of two owners stops serving. *)
StepDown(n) ==
  /\ n \in owners
  /\ owners # {n}
  /\ owners' = owners \ {n}
  /\ copy' = CopiesOn(owners \ {n})
  /\ due' = [due EXCEPT ![n] = FALSE]
  /\ handler' = HandlersOn(owners \ {n})
  /\ UNCHANGED <<safety, bucket, requests, receiver, markings, expiries, restores>>

Next ==
  \/ \E h \in Handlers : HandlerStep(h) \/ \E n \in Nodes : Claim(h, n)
  \/ \E r \in wire : Accept(r)
  \/ \E n \in Nodes : Claimable(n) \/ Replicate(n) \/ Restart(n) \/ TakeOver(n) \/ StepDown(n)

Spec == Init /\ [][Next]_vars

(***************************************************************************)
(* An awaited call returns or throws, a lease or delay runs out, and an    *)
(* owner runs its alarm.  Neither replication nor acceptance is owed.      *)
(***************************************************************************)
Fairness ==
  /\ \A h \in Handlers : WF_vars(HandlerStep(h))
  /\ \A n \in Nodes : /\ WF_vars(Claimable(n))
                      /\ WF_vars(\E h \in Handlers : Claim(h, n))
FairSpec == Spec /\ Fairness
-----------------------------------------------------------------------------
TypeOK ==
  /\ safety \in Safeties
  /\ owners \in (SUBSET Nodes) \ {{}}
  /\ copy \in [Nodes -> Row]
  /\ due \in [Nodes -> BOOLEAN]
  /\ bucket \in Row
  /\ handler \in [Handlers -> Local]
  /\ \A h \in Handlers : handler[h].pc # "idle" => handler[h].node \in owners
  /\ requests \in Nat
  /\ wire \subseteq 1..requests
  /\ {jobs, markings, expiries, restores} \subseteq Nat

(* A receipt that any copy or the bucket holds stands for an effect that     *)
(* exists, although receipts are lost and rolled back but effects never are  *)
(* (processProteinAction commits "delivered" only for a response or a        *)
(* result that the lookup found).                                            *)
ReceiptHasEffect ==
  \A row \in {copy[n] : n \in Nodes} \cup {bucket} : row.status = "delivered" => jobs > 0

(* An unsafe action is called once for every time its marker had to be set   *)
(* anew: more than one call takes a marker lost with its copy or a second    *)
(* owner that never had it, and nothing else (markActionDispatchStarted and  *)
(* the check of dispatch_started_at after the claim).                        *)
UnsafeRepeatsLostMarker == safety = "unsafe" => requests <= markings

(* An action settled as ambiguous was marked in that very history, so the    *)
(* report that a call may have been made is never made of an action that     *)
(* was not about to be called (the catch block and the check after claim).   *)
AmbiguousWasMarked ==
  \A row \in {copy[n] : n \in Nodes} \cup {bucket} :
    row.status = "ambiguous" => row.marked /\ safety = "unsafe"

(* PROOFS.md: "Reconciliation prevents redispatch after an accepted remote   *)
(* effect" (reconcileAction before executeAction).  It does as long as no    *)
(* request is in flight under an earlier claim when the lookup is answered.  *)
NoRedispatchAfterAcceptance ==
  [][safety = "reconcilable" /\ jobs > 0 => requests' = requests]_vars

(* Once restores end, every owner comes to a terminal record, whatever it    *)
(* restored (PROOFS.md: "A fresh owner converges after healing").            *)
Converges == <>[](\A n \in owners : copy[n].status \in Terminal)
=============================================================================
